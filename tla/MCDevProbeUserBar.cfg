SPECIFICATION Spec
CONSTANTS
    BarNum = 6
    DevArgs <- ArgLists
CHECK_DEADLOCK FALSE
INVARIANT UserBarIsNotConfig
