SPECIFICATION Spec
CONSTANTS
    k1 = k1
    k2 = k2
    Requests = {p1, p2}
    Keys = {k1, k2}
    NumDatabases = 2
    NumFields = 2
    Covers <- MCCovers
    Carries <- MCCarries
    SeekOnly = FALSE
    GraceCoversLookups = TRUE
    IOFaults = FALSE
    TeardownPossible = FALSE
    MaxWrites = 1
    MaxEntries = 1
    TTL = 1
SYMMETRY RequestSymmetry
INVARIANTS NoFailedRequests LayeredAnswers
