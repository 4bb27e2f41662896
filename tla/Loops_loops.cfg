SPECIFICATION FairSpec
CONSTANTS
    c1 = c1
    c2 = c2
    Callers = {c1, c2}
    ORPHAN = ORPHAN
    Capacity = 2
    MaxOrphans = 2
    Interval = 1
    Threshold = 4
    RecoverySleep = 1
    AfterN = 1
    Multiplier = 2
    MaxBody = 2
    Horizon = 13
    Observations = {o1}
    BackoffStart = 2
    BackoffLimit = 4
    m1 = m1
    m2 = m2
    m3 = m3
    e1 = e1
    e2 = e2
    s1 = s1
    Markets = {m1, m2, m3}
    EventOf <- EventOfMarket
    SeriesOf <- SeriesOfEvent
    DateOf <- DateOfEvent
    MarketCap = 2
    EventCap = 3
    SeriesCap = 4
    AggregateCap = 4
    SettleDays = 1
    ExposureDays = 1
    Settlers = {LOOP, signal}
    LOOP = LOOP
    NOBODY = NOBODY
    MaxIntents = 2
    MaxTrades = 2
    MaxDay = 2
    NOCOUNT = NOCOUNT
    MaxGapDelta = 1
    MaxGapRows = 4
    Window = 2
    Limit = 3
    Pause = 5
    MaxAttempts = 3
INVARIANTS RateIsKept ArrivalsRecordedOnce CapsHold SettledOnce
PROPERTIES NothingAfterClose OutagesAreHandled BurstsAreAnswered LoopsEnd
CHECK_DEADLOCK FALSE
