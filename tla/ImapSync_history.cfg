SPECIFICATION Spec
CONSTANTS
    Mail = {crit, flag}
    Critical = {crit}
    Flagged = {flag}
    Linked = {}
    Job = {poll, scan}
    Scan = {scan}
    Locked = {poll}
    Protected = TRUE
    AutoRemove = TRUE
    Limit = 5
    FirstTail = 5
    Attempts = 2
    MaxUid = 4
    MaxEpoch = 1
    MaxFaults = 1
    MaxTouches = 1
INVARIANT HistoryStays
CHECK_DEADLOCK FALSE
