CONSTANTS
    Events = {e1, e2}
    Publishers = {p1, p2}
    Limit = 2
    MaxAttempts = 2
    MaxStops = 1
    MaxSlow = 1
    NoEvent = NoEvent
SPECIFICATION FairSpec
INVARIANTS
    TypeOK
    PublishedWasDelivered
    QuarantineIsEarned
    DeliveriesBounded
PROPERTIES
    SettledIsFinal
    EveryEventSettles
CHECK_DEADLOCK FALSE
