CONSTANTS
    Address = {proxy, ann}
    Trusted = {proxy}
    Limit = 2
    Window = 1
    SweepAbove = 1
    MaxPerTick = 3
    MaxNow = 4
    NoAddress = NoAddress
SPECIFICATION Spec
INVARIANTS
    TypeOK
    TwoWindowsAtMost
PROPERTIES
    RefusedForCause
