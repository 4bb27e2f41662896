SPECIFICATION Spec
CONSTANTS
    Tickers = {a, b}
    ALL = ALL
    MaxSize = 1
    BatchMax = 2
    MaxChanges = 2
    MaxFaults = 2
INVARIANTS ReplayIsTheVenuesBook EveryLossIsInABlindWindow GapsAreAccountedFor
SYMMETRY Symmetry
CHECK_DEADLOCK FALSE
CONSTRAINT Bounded
