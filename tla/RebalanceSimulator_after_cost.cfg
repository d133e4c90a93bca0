SPECIFICATION Spec
CONSTANTS
    A = A
    B = B
    Tickers <- MCTickers
    Days <- MCDays
    MonthOrdinal <- MCMonthOrdinal
    LotRules <- MCLotRules
    Histories <- MCHistories
    Requests <- MCRequests
INVARIANTS
    FirstRebalancePaysItsCost
CHECK_DEADLOCK FALSE
