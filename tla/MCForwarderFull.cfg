SPECIFICATION FwdFairSpec
CONSTANTS
    DescMax = 3
    NbPkts = 3
    PollLimit = 1
    MaxPkts = 7
    TxBuild = "debug"
CHECK_DEADLOCK FALSE
PROPERTY SendsReturn
