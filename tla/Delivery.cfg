CONSTANTS
    n1 = n1
    n2 = n2
    c1 = c1
    c2 = c2
    Notification = {n1, n2}
    Simulated = {n2}
    Unfound = {}
    Broken = {n1}
    Unscanned = {}
    Consumer = {c1, c2}
    MaxRetries = 1
    ReceiveCap = 2
    RetryOutcome = "transient"
    MaxOvertakes = 1
    MaxMessages = 1
    VisibilitySeconds = 310
    MaxFaults = 2
    NoEntry = NoEntry
SPECIFICATION Spec
INVARIANTS
    TypeOK
    SentOnceButForLapses
    DeletedIsFinal
    CallbackTellsTheTruth
    SilentBoundedByFaults
PROPERTIES
    FinalStatusStands
    UsesQueueConsumer
SYMMETRY Interchangeable
CHECK_DEADLOCK FALSE
