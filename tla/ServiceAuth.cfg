CONSTANTS
    k1 = k1
    k2 = k2
    r1 = r1
    r2 = r2
    Key = {k1}
    Request = {r1, r2}
    TTL = 2
    Lag = 1
    MaxTime = 4
    MaxWrites = 2
    Nothing = Nothing
SPECIFICATION Spec
PROPERTIES
    AcceptedWasAllowed
    RefusedWasBarred
SYMMETRY Interchangeable
CHECK_DEADLOCK FALSE
