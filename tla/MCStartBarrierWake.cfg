SPECIFICATION FairSpec
CONSTANTS
    Workers = {w1, w2}
    Needed = 2
CHECK_DEADLOCK FALSE
PROPERTY EventuallyStarts
