SPECIFICATION PollFairSpec
CONSTANTS
    DescMax = 3
    NbPkts = 3
    PollLimit = 2
    MaxPkts = 7
    PollRounds = 1
INVARIANTS
    TypeOK
    PollWithinRun
    NoBlankFetch
    CountsAddUp
    LengthNotStale
PROPERTIES
    FifoRefinement
    RingQuiet
    HandedStable
    Delivery
    Rearm
