SPECIFICATION Spec
CONSTANTS
    Clients = {a1, a2}
    Proxies = {x1, x2}
    Junk = Junk
    NoIP = NoIP
    MaxForged = 2
    MaxHops = 3
SYMMETRY Symmetry
INVARIANTS WalkFindsClient DepthFindsClient DirectClientIsPeer
CHECK_DEADLOCK FALSE
