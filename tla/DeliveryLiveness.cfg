CONSTANTS
    n1 = n1
    n2 = n2
    c1 = c1
    c2 = c2
    Notification = {n1, n2}
    Simulated = {}
    Unfound = {n2}
    Broken = {n2}
    Unscanned = {n2}
    Consumer = {c1}
    MaxRetries = 1
    ReceiveCap = 2
    RetryOutcome = "transient"
    MaxOvertakes = 1
    MaxMessages = 2
    VisibilitySeconds = 310
    MaxFaults = 1
    NoEntry = NoEntry
SPECIFICATION FairSpec
PROPERTIES
    EveryNotificationSettles
CHECK_DEADLOCK FALSE
