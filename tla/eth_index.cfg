SPECIFICATION Spec
CONSTANTS
    Hashes <- MCHashes
    Lineage <- MCLineage
    Miner <- MCMiner
    Weight <- MCWeight
    Txs <- MCTxs
    Addresses <- MCAddresses
    Token = "token"
    Networks = {"Ethereum", "Rsk"}
    InitialLag = 1
    BatchTxs = 2
    FlushCalls = 2
    MaxRetries = 1
    MaxNulls = 2
    MaxCrashes = 2
INVARIANTS
    EthTypeOK
    TablesHoldOneChain
    ChainIsNotEmpty
    MemoryMatchesTables
    EthHistoryMatchesChain
    TokenHistoryMatchesChain
PROPERTIES
    ParentArrives
    CatchesUp
