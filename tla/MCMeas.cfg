SPECIFICATION FairSpec
CONSTANTS
    NUMBER_OF_TESTS = 4
    MIN_DATA_SIZE = 1
    DATA_SIZE = 5
    DATA_SIZE_INCREMENT = 2
    MaxSkips = 4
INVARIANTS
    ResultsInOrder
    ResultsAsAnnounced
PROPERTIES
    Finishes
CHECK_DEADLOCK FALSE
