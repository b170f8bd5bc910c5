SPECIFICATION FairSpec
CONSTANTS
    Tasks = {t1, t2, t3}
    NoTask = NoTask
    Workers = {w1, w2}
    Closers = {s1, s2}
    NoCloser = NoCloser
    QueueSize = 2
    MaxRetries = 1
INVARIANTS
    TypeOK
    ClosedChannelUntouched
    OwnedOnce
PROPERTIES
    ImplementsService
    CallsReturn
    AcceptedHandled
CHECK_DEADLOCK FALSE
