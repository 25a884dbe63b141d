SPECIFICATION FairSpec
CONSTANTS
    DescMax = 4
    BurstSizes = {0, 1, 2, 3}
    Bursts <- SingleSegmentBursts
    BufNum = 4
    Build = "release"
    MaxCalls = 3
CHECK_DEADLOCK FALSE
INVARIANT ReturnMeansSent
