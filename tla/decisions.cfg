SPECIFICATION DecisionsSpec
CONSTANTS
    Job = {"j1", "j2"}
    Lone = {"j1"}
    Event <- MCEvents
    Few <- MCFew
    History <- MCHistories
    Plans = {"complete", "essential"}
    Sources <- MCSources
    Cap = 1
    NoAccount = "none"
    Nobody = "nobody"
    MaxEvents = 3
    MaxFaults = 1
    Link = {"l1", "l2"}
    Warning = {"l2"}
    File = {"f1", "f2", "f3"}
    Risky = {"f1", "f2"}
    ListTtl = 1
    CleanTtl = 1
    MaxFiles = 2
    MaxTime = 3
    LookupFaults = 1
    NotifiedMail = {"m1"}
    Gmail = FALSE
    Attempts = 2
    MaxStamps = 2
    PushFaults = 2
    MaxCrashes = 1
    NotifiedClicks = 1
    Life = 4
    CheckEvery = 2
    MaxLinks = 2
    MaxRevokes = 1
    MaxDrops = 1
    ConsentFaults = 1
    Device = {"d1", "d2"}
    Code = {"c1", "c2"}
    Net = {"n1", "n2"}
    SensorMail = {"m1"}
    Stale = 1
    Window = 1
    SensorTime = 2
    MaxBeats = 2
    MaxArms = 3
    SensorFaults = 1
    OneOfThem = {"d1", "c1", "n1"}
    FewArms = 1
INVARIANT NotifiedMailIsKept
INVARIANT FraudIsReported
INVARIANT LearningIsSound
INVARIANT CaughtIsBlocked
INVARIANT SensorIsTruthful
PROPERTY JudgeOnlyRaises
PROPERTY AbsenceIsWatched
CHECK_DEADLOCK FALSE
