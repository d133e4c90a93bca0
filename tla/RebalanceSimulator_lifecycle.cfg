SPECIFICATION FairSpec
CONSTANTS
    A = A
    B = B
    Tickers <- MCTickers
    Days <- MCDays
    MonthOrdinal <- MCMonthOrdinal
    LotRules <- MCLateLotRules
    Histories <- MCFlatHistories
    Requests <- MCErrorRequests
PROPERTIES
    LifecycleSpec
    Termination
CHECK_DEADLOCK FALSE
