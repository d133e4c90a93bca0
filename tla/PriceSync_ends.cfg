SPECIFICATION FairSpec
CONSTANTS
    t1 = t1
    t2 = t2
    a = a
    b = b
    LastDay = 2
    Weekend = {}
    Holidays = {}
    Tickers = {t1, t2}
    Orders <- MCAnyOrder
    Runs = {a, b}
    Sources = {"kbs"}
PROPERTIES RunsEnd
