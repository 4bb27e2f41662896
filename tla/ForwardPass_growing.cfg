SPECIFICATION Spec
CONSTANTS
    Tickers = {t1, t2}
    ALL = ALL
    Levels = {p1, p2}
    MaxSize = 1
    BarrierRows = 2
    ReadBatch = 3
    Ceiling = 0
    Pinned = FALSE
    MaxRows = 4
    MaxGaps = 1
    MaxKills = 1
SYMMETRY Symmetry
ACTION_CONSTRAINT RecordedBetweenLooks
INVARIANTS WindowsBracketTheirGaps
