\* The claims of the documentation that one logger refutes; TLC stops at the first
\* one listed, so name one at a time: HolidayRunsAreNoOps, HorizonInTradingDays,
\* SuccessLeavesViewFresh or PriceIsOfEvaluationDay.
SPECIFICATION Spec
CONSTANTS
    t1 = t1
    t2 = t2
    r1 = r1
    r2 = r2
    LastDay = 6
    Weekend <- MCWeekend
    Holidays <- MCHolidays
    Tickers = {t1}
    Horizon = 3
    Lookback = 2
    Runners = {r1}
    Modes = {"full"}
    Backfill = FALSE
INVARIANT HolidayRunsAreNoOps
