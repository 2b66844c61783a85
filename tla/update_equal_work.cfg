CONSTANTS
    g = g
    a1 = a1
    a2 = a2
    a3 = a3
    b2 = b2
    b3 = b3
    c1 = c1
    c2 = c2
    NoBlock = NoBlock
    NoCall = NoCall
    Blocks <- MCBlocks
    Lineage <- MCLineage
    InitRows <- NoRows
    InitHead <- NoRows
    MaxCrashes = 1
    CrashPoints = {"insert", "add", "head"}
    Work <- EqualWork
SPECIFICATION UpdateSpec
INVARIANTS
    UpdateTypeOK
    SecondPushAccepted
    CachedHeightIsCurrent
    InitialUpdateIsShallow
PROPERTIES
    DrivesBlockchain
    FollowsNode
