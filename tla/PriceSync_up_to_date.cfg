SPECIFICATION Spec
CONSTANTS
    t1 = t1
    t2 = t2
    a = a
    b = b
    LastDay = 3
    Weekend <- MCWeekend
    Holidays = {}
    Tickers = {t1, t2}
    Orders <- MCUniverse
    Runs = {a}
    Sources = {"kbs", "vci"}
PROPERTIES UpToDateTickerIsNoError
