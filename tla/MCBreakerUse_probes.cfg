SPECIFICATION Spec
CONSTANTS
    MaxFailures = 2
    CooldownPeriod = 1
    HalfOpenRequests = 2
    Callers = {c1, c2, c3}
    CallTime = 1
INVARIANTS
    FewProbes
