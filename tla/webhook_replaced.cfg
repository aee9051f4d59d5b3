CONSTANTS
    MaxHeight = 2
    MaxReorgs = 1
    MaxBatch = 2
    Urls = {u1}
    Answering = {u1}
    PageSize = 1
    MaxFailing = 1
    MaxRegistered = 1
    MaxClock = 2
    MaxCrashes = 0
    MaxEvents = 6
SPECIFICATION Spec
INVARIANTS
    RewoundHooksRedeliver
CHECK_DEADLOCK FALSE
