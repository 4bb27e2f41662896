SPECIFICATION Spec
CONSTANTS
    NONE = NONE
    t1 = t1
    Orders = {o1}
    NoOrders = {o1}
    Tickers = {t1}
    TickerOf <- OneMarket
    MaxContracts = 2
    Lag = 1
    Overlap = 1
    ColdStart = 1
    OmitsId = TRUE
    MaxTime = 3
INVARIANTS TypeOK BehindWatermark RowsNeverExceedTheVenue CommittedFillsCounted
PROPERTIES LedgerSpec
CHECK_DEADLOCK FALSE
