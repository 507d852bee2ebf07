SPECIFICATION Spec
CONSTANTS
    Width = 16
    IntWidth = 8
    NsPerSec = 16
    UsPerSec = 2
    Freq = 4
    Outer = 2
    Inner = 2
    NUMBER_OF_TESTS = 3
    NanoFirst = 0
    AdaptNano = TRUE
    Elapsed = {1, 2, 5}
INVARIANTS
    StatisticsMatchTimes
    SeriesUndisturbed
PROPERTIES
    ZeroIsMeasuredAgain
    Finishes
CHECK_DEADLOCK FALSE
