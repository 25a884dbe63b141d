SPECIFICATION Spec
CONSTANTS
    MaxPorts = 3
    NumQueues = 2
CHECK_DEADLOCK FALSE
INVARIANTS
    TypeOK
    DmaIntoLiveMemory
    FastPathLive
    NoFault
    NothingLeftBehind
