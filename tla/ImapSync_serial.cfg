SPECIFICATION FairSpec
CONSTANTS
    Mail = {crit, link}
    Critical = {crit}
    Flagged = {}
    Linked = {link}
    Job = {poll, wake}
    Scan = {}
    Locked = {poll, wake}
    Protected = TRUE
    AutoRemove = TRUE
    Limit = 5
    FirstTail = 5
    Attempts = 2
    MaxUid = 5
    MaxEpoch = 2
    MaxFaults = 2
    MaxTouches = 1
INVARIANT NothingIsPassedOver
INVARIANT MailNeverLost
INVARIANT OneAlertPerMail
CHECK_DEADLOCK FALSE
PROPERTY EventuallyAnalysed
PROPERTY RequestsCarriedOut
