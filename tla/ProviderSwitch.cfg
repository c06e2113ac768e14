CONSTANTS
    Pinpoint = pinpoint
    Sns = sns
    NoProvider = none
    Keep = keep
    r1 = r1
    r2 = r2
    r3 = r3
    Request = {r1, r2, r3}
    Provider <- MCProvider
    Rank <- MCRank
    Priorities = {10, 20}
    Change <- MCChange
    MaxFaults = 1
SPECIFICATION Spec
SYMMETRY Symmetry
INVARIANTS TypeOK VersionsAreRecorded HistoryTellsRow
PROPERTY SwitchTakesEffect
CHECK_DEADLOCK FALSE
