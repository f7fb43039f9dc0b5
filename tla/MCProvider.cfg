SPECIFICATION FairSpec
CONSTANTS
    k1 = k1
    k2 = k2
    Requests = {}
    Keys = {k1}
    NumDatabases = 2
    NumFields = 1
    Covers <- MCCovers
    Carries <- MCCarries
    SeekOnly = TRUE
    GraceCoversLookups = FALSE
    IOFaults = FALSE
    TeardownPossible = TRUE
    MaxWrites = 2
    MaxEntries = 1
    TTL = 1
INVARIANTS InstalledOpen DownReleasesInstalled
PROPERTIES EventuallyCurrent TeardownEnds
CHECK_DEADLOCK FALSE
