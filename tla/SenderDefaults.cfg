CONSTANTS
    s1 = s1
    s2 = s2
    s3 = s3
    n1 = n1
    MaxRequests = 3
    Contact = {s1, s2, s3}
    First = s1
    Number = {n1}
    NoNumber = NoNumber
    MaxFaults = 1
SPECIFICATION FairSpec
INVARIANTS
    TypeOK
    CarriedNumbersAreAssigned
PROPERTIES
    OneDefaultKept
    ChoosingADefaultRepairs
    NumberedSendersStay
    EveryRequestEnds
CHECK_DEADLOCK FALSE
