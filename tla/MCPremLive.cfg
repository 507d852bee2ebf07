\* Two cores, fair: a resumed prefetch goes on.
SPECIFICATION FairSpec
CONSTANTS
    c1 = c1
    c2 = c2
    c3 = c3
    t1 = t1
    t2 = t2
    t3 = t3
    NoCore = NoCore
    Cores = {c1, c2}
    Tasks = {t1, t2}
    CoreOf <- DuoCoreOf
    Lines <- DuoLines
    Outranks <- DuoOutranks
    TimesToWait = {0, 1}
    OrderedIPIs = TRUE
PROPERTY
    ResumedProceeds
