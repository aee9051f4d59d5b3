CONSTANTS
    MaxHeight = 3
    MaxReorgs = 2
    FinalityRespected = FALSE
    FinalityDepth = 1
    PageSize = 2
    BlockCapacity = 2
    RewindCapacity = 1
    BatchSize = 2
    MaxFailures = 0
    MaxCrashes = 1
SPECIFICATION Spec
INVARIANTS
    TypeOK
    CursorCoversRows
    EpisodeBounded
    LinkedBeforeGap
    TipFollowsStore
PROPERTIES
    RollbackSparesFinal
    KeepsChainIndex
