SPECIFICATION RefreshSpec
CONSTANTS
    Jobs = 2
    Steps = 2
    tenor = tenor
    bank = bank
    Keys = {tenor, bank}
    Series <- MCSeries
    Revisions = 2
INVARIANTS AuditAgrees GreenIsStored
PROPERTIES RevisionsOnlyGrow
CHECK_DEADLOCK FALSE
