\* Three tasks, one of them without a period.
SPECIFICATION Spec
CONSTANTS
    t1 = t1
    t2 = t2
    t3 = t3
    NoTask = NoTask
    Tasks = {t1, t2, t3}
    Priority <- MixedPriority
    TickPeriod <- MixedPeriods
    Freq = 5
    Rate = 2
    Latency = 1
    Stalls = TRUE
    Horizon = 12
INVARIANTS
    TypeOK
    NeverEarly
    OnTheGrid
    SkipsOnlyMissed
    KillHitsTheAsker
PROPERTY
    PeriodApart
