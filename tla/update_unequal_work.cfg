CONSTANTS
    g = g
    a1 = a1
    a2 = a2
    a3 = a3
    b2 = b2
    b3 = b3
    c1 = c1
    c2 = c2
    NoBlock = NoBlock
    NoCall = NoCall
    Blocks <- MCBlocks
    Lineage <- MCLineage
    InitRows <- ParserRows
    InitHead <- ParserHead
    MaxCrashes = 1
    CrashPoints = {"insert", "add", "head"}
    Work <- UnequalWork
SPECIFICATION UpdateSpec
PROPERTIES
    HeightCatchesUp
