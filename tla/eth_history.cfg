SPECIFICATION Spec
CONSTANTS
    Hashes <- MCHashes
    Lineage <- MCLineage
    Miner <- MCMiner
    Weight <- MCWeight
    Txs <- MCTxs
    Addresses <- MCAddresses
    Token = "token"
    Networks = {"Ethereum"}
    InitialLag = 1
    BatchTxs = 2
    FlushCalls = 2
    MaxRetries = 1
    MaxNulls = 2
    MaxCrashes = 2
INVARIANT
    HistoryIsOfTheChain
