SPECIFICATION PeopleSpec
CONSTANTS
    Addr = {"a1", "a2"}
    Req = {"q1", "q2"}
    Nobody = "nobody"
    Included <- PeopleIncluded
    Plans <- PeoplePlans
    MaxRequests = 3
    MaxMoves = 1
    MaxSubs = 2
    MaxSeats = 1
    MaxTenants = 2
    Offer <- PeopleOffer
    MaxChanges = 1
    MaxFaults = 1
    MaxMail = 2
    MaxTokens = 4
    AccountRequests = 5
    MaxSecrets = 2
    MaxOutages = 1
    Instance = {"i1", "i2"}
    Limit = 2
    Window = 3
    Threshold = 2
    Backoff <- Backoffs
    CodeTtl = 4
    Drift = 1
    MaxTime = 5
    MaxAdmitted = 5
    MaxGuesses = 5
    MaxAccepted = 2
    Account = {"o1", "o2", "o3"}
    Glass = "glass"
    Customer = {"c1", "c2"}
    Second <- Seconds
    MaxWork = 2
    StaffRequests = 2
    StaffTokens = 3
    StaffSecrets = 3
INVARIANT GrantMatchesBilling
INVARIANT SeatsNeverOversold
INVARIANT SessionsEnd
INVARIANT LimitsHold
INVARIANT StaffIsKept
PROPERTY GivenWasBilled
PROPERTY ProtectionIsKept
PROPERTY NobodyOverreaches
CHECK_DEADLOCK FALSE
