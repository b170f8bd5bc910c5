SPECIFICATION Spec
CONSTANTS
    r1 = r1
    r2 = r2
    w1 = w1
    w2 = w2
    NoTask = NoTask
    Requests <- MCRequests
    Workers <- MCWorkers
    QueueSize = 1
    FailoverRetry = 1
    MaxPromptReports = 1
SYMMETRY MCSymmetry
INVARIANTS
    DriftExplained
    CountedWhileServed
CHECK_DEADLOCK FALSE
