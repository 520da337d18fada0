CONSTANTS
    StartupRounds = 1
    CycleLength = 3
    AckWindow = 2
    BackoffWindow = 2
    GainCycle = 2
    Versions <- MCVersions
    Bytes = 1
    MaxSeq <- MCMaxSeq
    MaxFlight = 2
SPECIFICATION Spec
INVARIANTS
    TablesAgree
    BytesNeverWrap
    LossesAreExact
    FreshBaseline
    ClustersAlive
    RequestsMatchMode
PROPERTIES
    RoundsAreRoundTrips
    BackoffsApart
CHECK_DEADLOCK FALSE
