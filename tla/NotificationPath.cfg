CONSTANTS
    b1 = b1
    b2 = b2
    n1 = n1
    c1 = c1
    s1 = s1
    Batch = {b1, b2}
    items <- MCItems
    Unreadable = {b2}
    Receipted = {b1}
    Notification = {n1}
    Simulated = {}
    Unfound = {}
    Broken = {}
    Unscanned = {}
    SaveConsumer = {s1}
    Consumer = {c1}
    SaveMaxRetries = 2
    MaxRetries = 1
    ReceiveCap = 2
    RetryOutcome = "transient"
    MaxOvertakes = 0
    MaxMessages = 1
    VisibilitySeconds = 310
    MaxFaults = 2
    NoEntry = NoEntry
SPECIFICATION MCSpec
INVARIANTS
    OrphansBoundedByFaults
PROPERTIES
    FollowsLife
    EveryBatchSettles
    EveryRowGetsAnOutcome
CHECK_DEADLOCK FALSE
