SPECIFICATION Spec
CONSTANTS
    Procs = {p1, p2}
    Keys = {k1, k2, k3}
    NoEntry = NoEntry
    MaxEntries = 2
    TTL = 1
    MaxTime = 2
SYMMETRY Symmetry
INVARIANTS TypeOK Bounded Retained
PROPERTIES HitsAreYoung ImplementsMemo
