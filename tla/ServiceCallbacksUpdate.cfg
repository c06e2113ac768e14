CONSTANTS
    k1 = k1
    k2 = k2
    i1 = i1
    i2 = i2
    p1 = p1
    p2 = p2
    t1 = t1
    t2 = t2
    Slot = {"delivery_status", "inbound"}
    Unique = {"delivery_status"}
    Suspendable = {"delivery_status"}
    Resignable = {"delivery_status"}
    Id = {i1, i2}
    Text = {t1, t2}
    Secret = {k1, k2}
    Process = {p1, p2}
    Rollout <- MCOneSecret
    MaxVersion = 3
    Absent = Absent
SPECIFICATION Spec
PROPERTIES
    UpdateTakesEffect
CHECK_DEADLOCK FALSE
