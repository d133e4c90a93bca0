SPECIFICATION Spec
CONSTANTS
    N = 4
    OwnTransaction <- MCOwnTransaction
    Rerunnable <- MCRerunnable
    Contents <- MCContents
INVARIANTS
    FailureRollsBack
