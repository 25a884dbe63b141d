SPECIFICATION FairSpec
CONSTANTS
    DescMax = 4
    BurstSizes = {0, 1, 2, 3}
    Bursts <- SingleSegmentBursts
    BufNum = 4
    Build = "debug"
    MaxCalls = 3
CHECK_DEADLOCK FALSE
INVARIANTS
    TypeOK
    ReturnMeansSent
    StopsAtTerminator
    PrefetchInBurst
PROPERTIES
    FifoRefinement
    RingQuiet
    XmitReturns
