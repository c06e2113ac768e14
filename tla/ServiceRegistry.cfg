CONSTANTS
    r1 = r1
    r2 = r2
    r3 = r3
    k1 = k1
    k2 = k2
    t1 = t1
    t2 = t2
    Request = {r1, r2, r3}
    NoRequest = NoRequest
    Key = {k1, k2}
    Template = {t1, t2}
    MaxFaults = 1
SPECIFICATION FairSpec
INVARIANTS
    NobodyWaitsInACircle
    HistoryIsComplete
    KeysAreRecorded
PROPERTIES
    NoLostUpdate
    ArchivingRetiresAll
    EveryRequestEnds
CHECK_DEADLOCK FALSE
