\* Two cores, three tasks, answers with and without a time to wait.
SPECIFICATION Spec
CONSTANTS
    c1 = c1
    c2 = c2
    c3 = c3
    t1 = t1
    t2 = t2
    t3 = t3
    NoCore = NoCore
    Cores = {c1, c2}
    Tasks = {t1, t2, t3}
    CoreOf <- PairCoreOf
    Lines <- PairLines
    Outranks <- PairOutranks
    TimesToWait = {0, 1}
    OrderedIPIs = TRUE
INVARIANTS
    TypeOK
    PrefetchNeedsToken
    TokenMatchesJobs
    JobsDoNotOverlap
    SuspendedStandsStill
PROPERTY
    PromiseKept
