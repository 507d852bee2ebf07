SPECIFICATION Spec
CONSTANTS
    c1 = c1
    c2 = c2
    c3 = c3
    none = none
    Cores = {c1, c2, c3}
    NoCore = none
    Outranks <- InOrder
    TimesToWait = {0}
    OrderedIPIs = TRUE
INVARIANTS
    UnrivalledOwnsToken
    TokenMatchesJobs
CHECK_DEADLOCK FALSE
