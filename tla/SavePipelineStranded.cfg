CONSTANTS
    b1 = b1
    b2 = b2
    b3 = b3
    n1 = n1
    n2 = n2
    n3 = n3
    c1 = c1
    c2 = c2
    Batch = {b1, b2, b3}
    Notification = {n1, n2, n3}
    items <- MCItems
    Unreadable = {b3}
    Receipted = {b1, b3}
    Consumer = {c1}
    MaxRetries = 2
    ReceiveCap = 2
    MaxMessages = 2
    VisibilitySeconds = 310
    MaxFaults = 1
    NoEntry = NoEntry
SPECIFICATION Spec
INVARIANTS
    PersistedIsEnqueued
CHECK_DEADLOCK FALSE
