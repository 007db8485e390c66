SPECIFICATION Spec
CONSTANTS
    d1 = d1
    d2 = d2
    d3 = d3
    siem = siem
    other = other
    Delivery = {d1, d2}
    Endpoint = {siem, other}
    target <- TwoToTwo
    Drain = {drain}
    Delays <- ShortSchedule
    BATCH = 2
    MaxFaults = 0
    MaxChanges = 1
INVARIANT AttemptsAreRecorded
CHECK_DEADLOCK FALSE
