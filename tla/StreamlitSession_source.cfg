SPECIFICATION Spec
CONSTANTS
    Full = 600
    Step = 300
    Universe = {"VCB", "FPT", "VHM"}
    First <- MCFirst
    WeightInputs = {288, 297}
    Means <- MCMeans
    Bounds = {600}
    Points = 2
    Events = 3
INVARIANTS SourceIsOfResult
CHECK_DEADLOCK FALSE
