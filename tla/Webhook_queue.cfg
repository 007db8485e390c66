SPECIFICATION FairSpec
CONSTANTS
    d1 = d1
    d2 = d2
    d3 = d3
    siem = siem
    other = other
    Delivery = {d1, d2, d3}
    Endpoint = {siem, other}
    target <- ThreeToTwo
    Drain = {drain}
    Delays <- ShortSchedule
    BATCH = 2
    MaxFaults = 1
    MaxChanges = 1
INVARIANT DeliveriesAreKept
PROPERTY EndedStaysEnded
PROPERTY EveryDeliveryEnds
CHECK_DEADLOCK FALSE
