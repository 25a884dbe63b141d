SPECIFICATION AppFairSpec
CONSTANTS
    Workers = {0, 1}
    Needed = 2
    PktNum = 2
    MaxPolls = 1
    MaxStray = 1
    Word = 2
    AppBuild = "debug"
    ArraySize = 4
    MaxLost = 1
CHECK_DEADLOCK FALSE
INVARIANTS
    TypeOK
    AppTypeOK
    StartAfterReady
    ResultsOfThisRun
PROPERTIES
    WorkersPass
    NicToFpgaIsFifo
    SwitchEnds
    ThreadsEnd
