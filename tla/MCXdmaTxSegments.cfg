SPECIFICATION FairSpec
CONSTANTS
    DescMax = 4
    BurstSizes = {}
    Bursts <- MultiSegmentBursts
    BufNum = 5
    Build = "debug"
    MaxCalls = 3
CHECK_DEADLOCK FALSE
INVARIANT ReturnMeansSent
