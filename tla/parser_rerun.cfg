SPECIFICATION ParserSpec
CONSTANTS
    Blocks <- MCBlocks
    NoBlock = "none"
    NoCall = NoCall
    Lineage <- MCLineage
    InitRows = {}
    InitHead = {}
    MaxCrashes = 0
    CrashPoints = {}
    FileSets <- MCFileSets
    Workers = {"w1", "w2"}
    BatchBlocks = 2
    MaxStops = 1
    MaxFailures = 0
INVARIANT
    RerunResumes
