SPECIFICATION FairSpec
CONSTANTS
    k1 = k1
    k2 = k2
    p1 = p1
    p2 = p2
    Keys = {k1, k2}
    Requests = {p1, p2}
    MaxEntries = 2
    TTL = 1
    MaxCalls <- MCMaxCalls
    HasTimeout = TRUE
    Echoes = {{}, {"raw", "path"}}
    Extract <- MCExtract
INVARIANTS TypeOK CachedIsAnswer CreditsBounded KeyNeverRepeated FlagsMatchDatabase
PROPERTIES RequestsEnd
CHECK_DEADLOCK FALSE
