SPECIFICATION Spec
CONSTANTS
    FcMarkets <- ForecastMarkets
    FcCandidates <- ForecastDays
    FcBoundary = 5
    FcGating = 8
    FcReported = 12
    FcOffset <- ForecastOffsets
    FcDay = 8
    FcHour = 2
    FcDepthWindow = 6
    FcSize = 26
    FcTick = 1
    FcEras <- ForecastEras
    FcPreCap = NOCAP
    FcAllowance = 1
    FcMembers <- ForecastMembers
    FcChance <- ChanceOf
    FcMinDays = 2
    FcJobs <- ForecastJobs
    NOCAP = NOCAP
    LkLegs <- LockLegs
    LkFalling = {"w"}
    LkDays <- LockDays
    LkMargin = 2
    LkDiscovery = {1}
    LkDependent = {"h", "g", "w"}
    LkMerged <- LockExclusions
    LkDayLength = 12
    LkDollar = 100
    LkBand = 190
    LkPersist = 3
    LkThreshold = 2
    LkMinDays = 2
    LkJobs <- LockJobs
    LkSeriesOrder <- LockOrder
    UNCONVERGED = UNCONVERGED
    TfHorizons = {1, 3}
    TfPrimary = 3
    TfScope <- FlowScope
    TfHalfWidth = 2
    TfFee <- FlowFee
    TfBar = 2
    TfPrintMin = 2
    TfLegMin = 2
    TfNearMin = 1
    TfJobs <- MCFlowJobs
    NOSTAMP = NOSTAMP
    LdLegs = 3
    LdFee <- LadderFee
    LdUnit = 4
    LdTick = 1
    LdDepthMin = 2
    LdPersist = 2
    LdBar = 8
    LdMinDays = 2
    LdTemps <- LadderTemps
    LdJobs <- LadderJobs
    StClose <- SettlementClose
    StSize = 10
    StFee <- SettlementFee
    StTick = 1
    StMinute = 1
    StMinDays = 2
    StJobs <- MCSettleJobs
    NONOTICE = NONOTICE
    MISDATED = MISDATED
    LgLegs <- LeadLegs
    LgOrder <- LeadOrder
    LgCorridors <- LeadCorridors
    LgDays <- LeadDays
    LgMerged <- LockExclusions
    LgDiscovery = {1, 2}
    LgDayLength = 12
    LgDollar = 100
    LgBar = 10
    LgWindow = 4
    LgBlock = 1
    LgMinDays = 2
    LgJobs <- LeadJobs
    NOBOUND = NOBOUND
INVARIANTS ForecastIsHonest LocksAreMeasuredRight FlowIsMeasuredAfter LadderIsTakeable SettlementIsHonest LeadsAreMeasured
CHECK_DEADLOCK FALSE
