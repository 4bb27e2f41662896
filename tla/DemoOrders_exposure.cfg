SPECIFICATION Spec
CONSTANTS
    NONE = NONE
    t1 = t1
    Orders = {o1}
    NoOrders = {}
    Tickers = {t1}
    TickerOf <- OneMarket
    MaxContracts = 2
    Lag = 1
    Overlap = 1
    ColdStart = 1
    OmitsId = FALSE
    MaxTime = 3
INVARIANTS KnownFillsCounted
CHECK_DEADLOCK FALSE
