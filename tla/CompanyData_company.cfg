SPECIFICATION Spec
CONSTANTS
    a = a
    b = b
    c = c
    d = d
    Files <- MCFiles
    First <- MCFirst
    Universe <- MCUniverse
    Statements = {"ratio"}
    Filings = 2
    Runs = 4
INVARIANTS VerifiedLogFolds CurrentIsLatest
PROPERTIES EarliestIsKept
CHECK_DEADLOCK FALSE
