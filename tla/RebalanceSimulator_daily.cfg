SPECIFICATION Spec
CONSTANTS
    A = A
    B = B
    Tickers <- MCTickers
    Days <- MCDays
    MonthOrdinal <- MCMonthOrdinal
    LotRules <- MCLotRules
    Histories <- MCHistories
    Requests <- MCRequests
INVARIANTS
    TypeOK
    CashNeverNegative
    ApplyNeverRaises
    CadenceRespected
    RowsMatchKpi
PROPERTIES
    RebalanceIsIdempotent
CHECK_DEADLOCK FALSE
