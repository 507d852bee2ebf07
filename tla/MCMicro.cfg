SPECIFICATION FairSpec
CONSTANTS
    c1 = c1
    c2 = c2
    none = none
    Cores = {c1, c2}
    NoCore = none
    Outranks <- OtherFirst
    TimesToWait = {0}
    OrderedIPIs = FALSE
    Me = c1
    Runs = 2
    Durations = {0, 1}
    LastPrio = 6
    Word = 16
    Horizon = 3
INVARIANTS
    IPITimesAreLatencies
    TokenOnlyInMeasurement
PROPERTIES
    Finishes
