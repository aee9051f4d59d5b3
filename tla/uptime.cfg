CONSTANTS
    MaxHeight = 3
    MaxReorgs = 1
    MaxBatch = 2
    Consensus <- MCConsensus
    MaxRange = 3
    Concurrency = 2
    Ttl = 1
    FetchTimeout = 1
    MaxEntries = 1
    MaxNow = 2
SPECIFICATION Spec
INVARIANTS
    TypeOK
    ReportIsFair
PROPERTIES
    NodeSpared
