CONSTANTS
    MaxHeight = 2
    MaxReorgs = 1
    MaxBatch = 2
    Addresses = {1, 2}
    Effects <- MCEffects
    PageLimit = 1
SPECIFICATION Spec
INVARIANTS
    TypeOK
    RowsAreLedger
    SteadyAnswers
    DisputesStand
PROPERTIES
    PagesComeToAnEnd
