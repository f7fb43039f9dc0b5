SPECIFICATION FairSpec
CONSTANTS
    k1 = k1
    k2 = k2
    Requests = {p1}
    Keys = {k1}
    NumDatabases = 1
    NumFields = 2
    Covers <- MCCovers
    Carries <- MCCarries
    SeekOnly = FALSE
    GraceCoversLookups = FALSE
    IOFaults = TRUE
    TeardownPossible = TRUE
    MaxWrites = 2
    MaxEntries = 1
    TTL = 1
INVARIANTS TypeOK OneReleasePerDatabase CacheCurrentIfPrompt UnknownOnlyAfterClose
PROPERTIES RequestsEnd RetiredClosed
