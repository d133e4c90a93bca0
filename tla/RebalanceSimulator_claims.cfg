\* The claims of the documentation that the daily runs refute, one at a time: the
\* invariants SavedReasonsAdmitted, NoActionCostsNothing and NoRowsMeansNoTrigger, the
\* properties SilentOnlyWithinTheMonth and PositiveSeriesHasKpis.
SPECIFICATION Spec
CONSTANTS
    A = A
    B = B
    Tickers <- MCTickers
    Days <- MCDays
    MonthOrdinal <- MCMonthOrdinal
    LotRules <- MCLotRules
    Histories <- MCHistories
    Requests <- MCRequests
INVARIANTS
    SavedReasonsAdmitted
CHECK_DEADLOCK FALSE
