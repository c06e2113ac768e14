CONSTANTS
    b1 = b1
    b2 = b2
    b3 = b3
    n1 = n1
    n2 = n2
    n3 = n3
    Batch = {b1, b2, b3}
    Notification = {n1, n2, n3}
    items <- MCItems
    Unreadable = {b3}
    Receipted = {b1, b3}
    c1 = c1
    c2 = c2
    Consumer = {c1, c2}
    MaxRetries = 2
    ReceiveCap = 2
    MaxMessages = 2
    VisibilitySeconds = 310
    MaxFaults = 2
    NoEntry = NoEntry
SPECIFICATION Spec
INVARIANTS
    TypeOK
    EnqueuedAtMostOnce
    DroppedOnlyAfterRetries
    SettledIsAcknowledged
    StrandedBoundedByFaults
PROPERTIES
    LastReceiveSettles
CONSTRAINT Apart
SYMMETRY Interchangeable
CHECK_DEADLOCK FALSE
