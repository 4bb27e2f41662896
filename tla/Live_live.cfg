SPECIFICATION FairSpec
CONSTANTS
    NONE = NONE
    Orders = {o1}
    Ticker = t1
    MaxContracts = 1
    Lag = 1
    Overlap = 1
    ColdStart = 1
    MaxTime = 2
    Tapes = {a, b}
    ALL = ALL
    MaxSize = 1
    BatchMax = 1
    MaxChanges = 2
    MaxFaults = 1
PROPERTIES EventuallyMirrored EventuallyCurrent
CHECK_DEADLOCK FALSE
