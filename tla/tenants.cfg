SPECIFICATION TenantsSpec
CONSTANTS
    Tenant = {"t1", "t2"}
    Box = {"b1", "b2", "b3"}
    Boxes <- MCBoxes
    Mail = {"m1", "m2"}
    Id <- MCId
    Content <- MCContent
    Named <- MCNamed
    Lands <- MCLands
    Envelope <- MCEnvelope
    Polled = {"b3"}
    MaxTries = 4
    MaxMoves = 1
    MaxFaults = 2
    Faults = 1
    Domain = {"d1", "d2"}
    Home = {"d1"}
    MaxFlips = 2
    Owner <- MCOwner
    Candidate = {"c1"}
    Imitates <- MCImitates
    QueueSize = 2
    MaxCerts = 3
    LookMoves = 2
    SealedBox = {"b1", "b2"}
    Family <- MCFamily
    MaxPasswords = 2
    MaxSaves = 2
    MaxRuns = 3
    MaxRejects = 1
    Provider = {"xero"}
    Idempotent = {}
    Loop = {"cadence", "bills"}
    BankAlert = {"a1"}
    MaxConsents = 1
    MaxTokens = 5
    MaxExpiries = 1
    AccountingClicks = 1
    Api = {"p1", "p2"}
    Worker = "worker"
    Verdicts = {"fraudulent"}
    MaxReports = 3
    PerDay = 1
    Ttl = 1
    MaxTexts = 2
    MaxDays = 3
    MaxActs = 1
    Marks = {0, 1, 3}
    Length = 4
    MaxPeriods = 2
    MaxChanges = 3
    News = {"n1"}
    Plain = {"p1"}
    Period = 2
    MaxTime = 6
    Alert = {"a1", "a2"}
    Token = {"k1"}
    KeptMail = {"m1"}
    BodyDays = 1
    ClickDays = 1
    TokenDays = 2
    TrailDays = 2
    AlertDays = 2
    Batch = 1
    MaxDay = 4
    MaxKids = 2
    MaxClicks = 2
    MaxSeen = 1
INVARIANT AcceptedWasAnalysed
INVARIANT DomainsAreHeld
INVARIANT SecretsStayUsable
INVARIANT ToldOnce
INVARIANT ConfirmationsCount
PROPERTY ActsInTime
CHECK_DEADLOCK FALSE
