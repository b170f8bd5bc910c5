SPECIFICATION FairSpec
CONSTANTS
    MaxFailures = 2
    CooldownPeriod = 2
    HalfOpenRequests = 2
    Callers = {c1, c2, c3}
    CallTime = 2
INVARIANTS
    TypeOK
    ClosedMeansHealthy
    CooldownRespected
    NoStaleReports
PROPERTIES
    TripJustified
    RecoveryJustified
    Recovers
