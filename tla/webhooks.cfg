CONSTANTS
    MaxHeight = 2
    MaxReorgs = 1
    MaxBatch = 2
    Urls = {u1, u2}
    Answering = {u1}
    PageSize = 2
    MaxFailing = 1
    MaxRegistered = 2
    MaxClock = 1
    MaxCrashes = 1
    MaxEvents = 4
SPECIFICATION FairSpec
INVARIANTS
    TypeOK
    AtLeastOnce
    DisabledAfterWindow
    FinalStands
PROPERTIES
    HooksServed
CHECK_DEADLOCK FALSE
