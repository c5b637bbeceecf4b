CONSTANTS
    t1 = t1
    t2 = t2
    t3 = t3
    Tx <- MCTx
    Txo <- MCTxo
    Inputs <- MCInputs
    Outputs <- MCOutputs
    AtScript <- MCAtScript
    Credentialed <- MCCredentialed
    RecentCap = 4
    Buffer = 1
    Scenarios <- MCScenarios
SPECIFICATION MonitorSpec
CHECK_DEADLOCK FALSE
INVARIANTS
    TablesAgree
    UnspentExact
    CacheFollowsChain
