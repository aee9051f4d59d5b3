CONSTANTS
    MaxHeight = 3
    MaxReorgs = 1
    MaxBatch = 2
    Capacity = 2
    PageSize = 2
    MaxReadFailures = 1
    MaxUnanswered = 1
SPECIFICATION FairSpec
INVARIANTS
    TypeOK
    HandoffExact
    NothingMissed
PROPERTIES
    ReplayComesToAnEnd
