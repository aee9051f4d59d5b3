CONSTANTS
    MaxHeight = 2
    MaxReorgs = 1
    MaxBatch = 2
    Urls = {u1}
    Answering = {u1}
    PageSize = 2
    MaxFailing = 1
    MaxRegistered = 1
    MaxClock = 0
    MaxCrashes = 0
    MaxEvents = 6
SPECIFICATION Spec
INVARIANTS
    NothingReceivedIsOrphaned
CHECK_DEADLOCK FALSE
