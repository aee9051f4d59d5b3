SPECIFICATION FairSpec
CONSTANTS
    MaxHeight = 2
    MaxReorgs = 1
    MaxBatch = 2
    Addresses = {1, 2}
    Kinds = {"transfer", "forced"}
    Paths = {"from", "to"}
    Roles = {"from", "to"}
    Rules <- MCRules
    TierB <- MCTierB
    Sigs = {1, 2}
    Tokens = {1}
    Bodies <- MCBodies
    ReindexPage = 1
    MaxRestarts = 1
    PageLimit = 1
    MaxEntries = 5
    Requests <- MCRequests
INVARIANTS TypeOK AddressesFollow WalkExact BlocksWhole FirstSeenHolds
PROPERTIES TablesAreView ReindexComesToAnEnd
