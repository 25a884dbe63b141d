SPECIFICATION FwdFairSpec
CONSTANTS
    DescMax = 4
    NbPkts = 4
    PollLimit = 1
    MaxPkts = 9
    TxBuild = "debug"
CHECK_DEADLOCK FALSE
INVARIANTS
    FwdTypeOK
    IndexInStep
PROPERTIES
    ForwardingIsFifo
    RearmAfterSent
    Forwarded
