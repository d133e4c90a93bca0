SPECIFICATION Spec
CONSTANTS
    A = A
    B = B
    Tickers <- MCTickers
    Days <- MCDays
    MonthOrdinal <- MCMonthOrdinal
    LotRules <- MCLotRules
    Histories <- MCHistories
    Requests <- MCErrorRequests
INVARIANTS
    RaisedMeansFailed
CHECK_DEADLOCK FALSE
