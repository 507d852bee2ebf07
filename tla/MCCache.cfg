SPECIFICATION Spec
CONSTANTS
    Width = 8
    LOG2_LINE = 3
    LOG2_MIN_LINE = 2
    Addresses <- AnyAddress
    DataSizes <- AnySize
    Ways = {0, 1, 2}
    Sets = {0, 1, 2}
INVARIANTS
    PrefetchIsExact
    FlushIsExact
    CiswIsExact
CHECK_DEADLOCK FALSE
