SPECIFICATION Spec
CONSTANTS
    Tickers = {a, b}
    ALL = ALL
    MaxSize = 1
    BatchMax = 2
    MaxChanges = 2
    MaxFaults = 2
INVARIANT EveryResubscribeIsExcluded
SYMMETRY Symmetry
CHECK_DEADLOCK FALSE
