SPECIFICATION Spec
CONSTANTS
    Full = 600
    Step = 300
    Universe = {"VCB", "FPT", "VHM"}
    First <- MCFirst
    WeightInputs = {288, 297}
    Means <- MCMeans
    Bounds = {300}
    Points = 2
    Events = 4
INVARIANTS CompletedIsLatest OneRunPerClick RunsWhatWasValidated AppliedIsCommitted FrontierReachesBest
PROPERTIES ClickIsServed RowsObeyLifecycle
CHECK_DEADLOCK FALSE
