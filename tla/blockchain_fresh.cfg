CONSTANTS
    g = g
    a1 = a1
    a2 = a2
    a3 = a3
    a4 = a4
    b2 = b2
    b3 = b3
    b4 = b4
    c1 = c1
    c2 = c2
    c3 = c3
    NoBlock = NoBlock
    NoCall = NoCall
    Blocks <- MCBlocks
    Lineage <- MCLineage
    InitRows <- NoRows
    InitHead <- NoRows
    MaxCrashes = 3
    CrashPoints = {"insert", "add", "head"}
SPECIFICATION Spec
INVARIANTS
    TypeOK
    MapIsInverse
    ServesOneLineage
    NoLogicError
    RestartRestoresChain
    NoOrphanRows
    StartupNeverRefused
PROPERTY DurableChain
