SPECIFICATION Spec
CONSTANTS
    Articles = {"a", "b"}
    Sites <- MCSites
    PerSite = 2
    Answers <- MCAnswers
    VCB = VCB
    Stranger = Stranger
    Roster = {VCB}
    MaxMagnitude = 2
    MaxCost = 2
    Budget = 2
    Limits = {0, 1}
    Collections = 2
    Labellings = 3
    Null = Null
    Missing = Missing
    Torn = Torn
    Junk = Junk
    Garbled = Garbled
INVARIANTS InterruptSafe
CHECK_DEADLOCK FALSE
