SPECIFICATION Spec
CONSTANTS
    t1 = t1
    t2 = t2
    r1 = r1
    r2 = r2
    LastDay = 6
    Weekend <- MCWeekend
    Holidays <- MCHolidays
    Tickers = {t1}
    Horizon = 3
    Lookback = 2
    Runners = {r1, r2}
    Modes = {"full"}
    Backfill = FALSE
PROPERTIES ActualsAreFinal
