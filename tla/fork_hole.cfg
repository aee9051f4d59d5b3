CONSTANTS
    MaxHeight = 3
    MaxReorgs = 1
    FinalityRespected = TRUE
    FinalityDepth = 3
    PageSize = 2
    BlockCapacity = 2
    RewindCapacity = 1
    BatchSize = 2
    MaxFailures = 0
    MaxCrashes = 0
SPECIFICATION Spec
INVARIANTS
    DroppedBlocksComeBack
