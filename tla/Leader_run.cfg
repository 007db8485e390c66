SPECIFICATION FairSpec
CONSTANTS
    Process = {p1, p2}
    Nobody = Nobody
    CheckSeconds = 2
    RetrySeconds = 2
    CancelBound = 1
    MaxFaults = 2
    MaxStops = 1
    MaxDetached = 1
INVARIANT TypeOK
INVARIANT OverlapBounded
INVARIANT ExclusiveWithoutFaults
PROPERTY LeaderRecurs
