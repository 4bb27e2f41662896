SPECIFICATION Spec
CONSTANTS
    NONE = NONE
    t1 = t1
    Orders = {o1}
    NoOrders = {o1}
    Tickers = {t1}
    TickerOf <- OneMarket
    MaxContracts = 1
    Lag = 0
    Overlap = 0
    ColdStart = 1
    OmitsId = FALSE
    MaxTime = 1
INVARIANTS PaperInYesFrame
CHECK_DEADLOCK FALSE
