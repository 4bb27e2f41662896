SPECIFICATION Spec
CONSTANTS
    a = a
    b = b
    Cities = {a, b}
    Offset <- CityOffsets
    DayLength = 8
    LastDate = 3
    QuietOpen = 2
    QuietClose = 3
    Tolerance = 3
    Pad = 1
    Incident = 4
    NOTDETECTED = NOTDETECTED
    DEval = 2
    Requests = {2, 3, 4}
    Openings = {0, 4}
    Tapes <- ScopeTapes
    Offers <- ScopeOffers
    Quotes <- MarketQuotes
    Bankroll = 500000
    Median = 2
    OtherHeld = {0, 9000}
    MaxFills = 2
    m1 = m1
    m2 = m2
    m3 = m3
    m4 = m4
    m5 = m5
    s1 = s1
    s2 = s2
    e1 = e1
    e2 = e2
    e3 = e3
    BtTickers = {m1, m2, m3, m4, m5}
    BtEventOf <- BtEvent
    BtSeriesOf <- BtSerial
    BtOrder <- BtTickerOrder
    BtCutoff <- BtDays
    BtOpening <- BtOpens
    BtStations = {s1, s2}
    BtTails = {m5}
    BtBlacklist = {}
    BtForecast <- BtFairs
    BtMinute = 2
    BtDay = 48
    BtLead = 12
    BtTailsFloor = 6
    BtStaleness = 4
    BtDepthWindow = 8
    BtStart = 14
    BtCycle = 12
    BtLag = 3
    BtGrace = 1
    BtBounds = {12, 15}
    BtSamples <- BtDepthSamples
    BtMinSamples = 3
    BtSeriesCap = 18000
    BtAggregateCap = 20000
    BtJobs <- MCJobs
    NOTIME = NOTIME
    VdCities = {a, b}
    VdJobs <- VerdictJobs
    VdOutcomes <- RunOutcomes
    UNKNOWN = UNKNOWN
    VdRaise = 4
    DmCities <- DepthCities
    DmSeriesOf <- BtSerial
    DmDateOf <- BtDays
    DmOrder <- BtTickerOrder
    DmClose <- DepthCloses
    DmDays <- DepthDays
    DmMerged <- DepthExclusions
    DmScope <- DepthScope
    DmDayLength = 48
    DmHour = 2
    DmBucket = 12
    DmMaxBuckets = 8
    DmFinalBuckets = {0}
    DmLevels = 2
    DmDollar = 100
    DmBand = 5
    DmSlippage = 1
    DmTouchBar = 200
    DmRefill = 3
    DmTapes <- DepthTapes
    Tickers = {m1, m2}
    SeriesOfTicker <- TickerSeries
    DayOfTicker <- TickerDay
    Odd = {}
    Untimed = {}
    SeriesList <- ListedSeries
    HoursServed <- ServedHours
    MinHours = 2
    CycleEvery = 1
    StaleAfter = 0
    MaxNow = 1
    MaxFaults = 1
    Pages = 2
    Cash = 1
    MaxMoves = 1
    MaxOrders = 2
    MaxTicks = 2
INVARIANTS SignalsSurviveFriction SignalsFitTheirBudgets ScopeIsReadable BacktestIsHonest VerdictIsEarned DepthsFollowTheBook DecisionsAreGrounded
    SnapshotIsAccountable
PROPERTIES ScopeIsEarliest ScopeIsFrozen
CHECK_DEADLOCK FALSE
