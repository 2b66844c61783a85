CONSTANTS
    g = g
    a1 = a1
    a2 = a2
    a3 = a3
    b2 = b2
    b3 = b3
    cg = cg
    ca1 = ca1
    ca2 = ca2
    ca3 = ca3
    cb2 = cb2
    cb3 = cb3
    t1 = t1
    t2 = t2
    t3 = t3
    t4 = t4
    t5 = t5
    A = A
    B = B
    NoBlock = NoBlock
    NoCall = NoCall
    NullInput = NullInput
    NoFee = NoFee
    Addresses = {A, B}
    Blocks <- MCBlocks
    Lineage <- MCLineage
    BlockTxs <- MCBlockTxs
    Inputs <- MCInputs
    Outputs <- MCOutputs
    Size <- MCSize
    InitRows <- NoRows
    InitHead <- NoRows
    InitTables <- NoTables
    MaxCrashes = 2
    CrashPoints = {"insert", "add", "head"}
    FeeWindow = 1
    MaxTxId = 20
SPECIFICATION IndexSpec
INVARIANT TxBelongsToChain
