SPECIFICATION Spec
CONSTANTS
    Tickers = {t1, t2}
    ALL = ALL
    Levels = {p1, p2}
    MaxSize = 1
    BarrierRows = 2
    ReadBatch = 3
    Ceiling = 1
    Pinned = TRUE
    MaxRows = 4
    MaxGaps = 1
    MaxKills = 1
SYMMETRY Symmetry
ACTION_CONSTRAINT RecordedBetweenLooks
INVARIANTS CommittedRowsMatchTheTape EveryRowIsAccountedFor WindowsBracketTheirGaps
PROPERTIES ArtifactSpec
CONSTRAINT Bounded
