SPECIFICATION Spec
CONSTANTS
    k1 = k1
    k2 = k2
    Requests = {p1}
    Keys = {k1}
    NumDatabases = 1
    NumFields = 1
    Covers <- MCCovers
    Carries <- MCCarries
    SeekOnly = TRUE
    GraceCoversLookups = TRUE
    IOFaults = FALSE
    TeardownPossible = FALSE
    MaxWrites = 1
    MaxEntries = 1
    TTL = 1
INVARIANTS CacheCurrent
