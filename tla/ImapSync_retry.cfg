SPECIFICATION Spec
CONSTANTS
    Mail = {crit, flag}
    Critical = {crit}
    Flagged = {flag}
    Linked = {}
    Job = {poll}
    Scan = {}
    Locked = {poll}
    Protected = TRUE
    AutoRemove = FALSE
    Limit = 5
    FirstTail = 5
    Attempts = 2
    MaxUid = 5
    MaxEpoch = 1
    MaxFaults = 1
    MaxTouches = 0
INVARIANT CriticalTreated
CHECK_DEADLOCK FALSE
