SPECIFICATION ParserSpec
CONSTANTS
    Blocks <- MCBlocks
    NoBlock = "none"
    NoCall = NoCall
    Lineage <- MCLineage
    InitRows = {}
    InitHead = {}
    MaxCrashes = 1
    CrashPoints = {"head"}
    FileSets <- MCFileSets
    Workers = {"w1", "w2"}
    BatchBlocks = 2
    MaxStops = 1
    MaxFailures = 1
INVARIANTS
    ParserTypeOK
    EachBlockOnce
    ResumesInPlace
    FinishedIsServable
PROPERTIES
    Completes
