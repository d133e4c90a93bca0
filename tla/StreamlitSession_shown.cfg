SPECIFICATION Spec
CONSTANTS
    Full = 600
    Step = 300
    Universe = {"VCB", "FPT", "VHM"}
    First <- MCFirst
    WeightInputs = {288, 297}
    Means <- MCMeans
    Bounds = {300}
    Points = 2
    Events = 4
INVARIANTS ResultIsOfLastConfig
CHECK_DEADLOCK FALSE
