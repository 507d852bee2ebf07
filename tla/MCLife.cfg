SPECIFICATION Spec
CONSTANTS
    t1 = t1
    t2 = t2
    t3 = t3
    none = none
    Tasks = {t1, t2, t3}
    Plain = {t3}
    Measure = TRUE
    InitTime = "last"
    Requests <- AppRequests
    Sizes = {1, 2}
    Durations = {1, 2}
    NsPerSec = 3
    Freq = 2
    Horizon = 4
    NoTask = none
INVARIANTS
    AccessesAllocated
    StatisticsAreSeries
    SeriesOfOneSize
    RequestsServedByAsker
