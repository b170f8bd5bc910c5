SPECIFICATION FairSpec
CONSTANTS
    MaxFailures = 1
    CooldownPeriod = 0
    HalfOpenRequests = 1
    Hosts = {1, 2}
    Callers = {c1, c2}
    FailoverRetry = 1
    ColdStartDelay = 1
    a = a
    empty = empty
    Clusters = {a}
    EmptyKey = empty
    Hash <- MCHash
INVARIANTS
    ColdOnlyAsLastResort
    GivesUpOnlyWhenAllFailed
    KeyOnlyOrders
PROPERTIES
    LookupKeepsBreakers
    OneGoodHostIsEnough
