----------------------------- MODULE BreakerUse -----------------------------
(***************************************************************************)
(* One metadata-center endpoint guarded by one breaker and used by several *)
(* concurrent calls, the way doRequestWithRetry and GetAvailableHosts use  *)
(* it: Allow() is asked while candidates are collected, the HTTP call runs *)
(* outside the mutex, and its outcome is recorded when it ends, by which   *)
(* time other calls may have moved the breaker.                            *)
(*                                                                         *)
(* streak, goodRun and sinceTrip are history variables: an observer's view *)
(* of the reports and of the clock, kept apart from the breaker's own      *)
(* counters.  An observer counts no further than a threshold needs.        *)
(***************************************************************************)
EXTENDS CircuitBreaker, FiniteSets

CONSTANTS
    Callers,       \* concurrent users of the endpoint
    CallTime       \* ticks from Allow() to the report of the call's outcome,
                   \* at most: each of the failoverRetry + 1 attempts has a
                   \* context with a timeout

ASSUME CallTimeConfig == CallTime \in Nat \ {0}

VARIABLES
    cb,          \* the breaker
    call,        \* per caller: not calling, or when its call was admitted
    age,         \* per caller: ticks since its call was admitted
    up,          \* does the endpoint answer 200 within the timeout
    streak,      \* failure reports in a row, up to MaxFailures
    goodRun,     \* success reports in a row, up to HalfOpenRequests
    sinceTrip    \* ticks since the breaker last opened, up to Expired

vars == <<cb, call, age, up, streak, goodRun, sinceTrip>>

\* "probe": admitted in the half-open period that is still going on;
\* "earlier": admitted in an earlier state of the breaker.
CallStates == {"none", "probe", "earlier"}

TypeOK ==
    /\ cb \in Breaker
    /\ call \in [Callers -> CallStates]
    /\ age \in [Callers -> 0 .. CallTime]
    /\ up \in BOOLEAN
    /\ streak \in 0 .. MaxFailures
    /\ goodRun \in 0 .. HalfOpenRequests
    /\ sinceTrip \in 0 .. Expired

Init ==
    /\ cb = NewCircuitBreaker
    /\ call = [c \in Callers |-> "none"]
    /\ age = [c \in Callers |-> 0]
    /\ up \in BOOLEAN
    /\ streak = 0
    /\ goodRun = 0
    /\ sinceTrip = Expired

AtMost(n, bound) == IF n > bound THEN bound ELSE n

\* A call still running when the breaker changes state is no probe of the
\* state that follows.
Relabel(calls, before, after) ==
    IF before.state = after.state
    THEN calls
    ELSE [c \in Callers |-> IF calls[c] = "probe" THEN "earlier" ELSE calls[c]]

\* GetAvailableHosts asks Allow(); the endpoint is among the candidates and
\* caller c sends its request to it.
Call(c) ==
    /\ call[c] = "none"
    /\ Allowed(cb)
    /\ cb' = AfterAllow(cb)
    /\ call' = [call EXCEPT ![c] =
                    IF cb'.state = "half-open" THEN "probe" ELSE "earlier"]
    /\ age' = [age EXCEPT ![c] = 0]
    /\ UNCHANGED <<up, streak, goodRun, sinceTrip>>

\* GetAvailableHosts asks Allow() of every endpoint and the caller then
\* uses another one: the breaker has moved, yet no report will follow.
Scan ==
    /\ cb' = AfterAllow(cb)
    /\ cb' # cb
    /\ UNCHANGED <<call, age, up, streak, goodRun, sinceTrip>>

\* doSingleRequest returned a body: ReportSuccess.
ReportSuccess(c) ==
    /\ call[c] # "none"
    /\ up
    /\ cb' = RecordSuccess(cb)
    /\ call' = Relabel([call EXCEPT ![c] = "none"], cb, cb')
    /\ streak' = 0
    /\ goodRun' = AtMost(goodRun + 1, HalfOpenRequests)
    /\ UNCHANGED <<age, up, sinceTrip>>

\* doSingleRequest returned an error: ReportFailure.
ReportFailure(c) ==
    /\ call[c] # "none"
    /\ ~up
    /\ cb' = RecordFailure(cb)
    /\ call' = Relabel([call EXCEPT ![c] = "none"], cb, cb')
    /\ streak' = AtMost(streak + 1, MaxFailures)
    /\ goodRun' = 0
    /\ sinceTrip' = IF cb.state # "open" /\ cb'.state = "open"
                    THEN 0 ELSE sinceTrip
    /\ UNCHANGED <<age, up>>

\* Time passes, but no call outlives its deadline.
Tick ==
    /\ \A c \in Callers : call[c] # "none" => age[c] < CallTime
    /\ age' = [c \in Callers |->
                 IF call[c] # "none" THEN age[c] + 1 ELSE age[c]]
    /\ cb' = Aged(cb)
    /\ sinceTrip' = AtMost(sinceTrip + 1, Expired)
    /\ UNCHANGED <<call, up, streak, goodRun>>

\* The endpoint fails or comes back.
Flip ==
    /\ up' = ~up
    /\ UNCHANGED <<cb, call, age, streak, goodRun, sinceTrip>>

Next ==
    \/ \E c \in Callers : Call(c) \/ ReportSuccess(c) \/ ReportFailure(c)
    \/ Scan
    \/ Tick
    \/ Flip

Spec == Init /\ [][Next]_vars

(***************************************************************************)
(* Fairness.  Every call ends: its context carries a timeout.  The clock   *)
(* advances.  Traffic goes on: a caller that may call does.  Nothing is    *)
(* assumed of Flip.                                                        *)
(***************************************************************************)
Fairness ==
    /\ WF_vars(Tick)
    /\ \A c \in Callers :
         /\ WF_vars(ReportSuccess(c) \/ ReportFailure(c))
         /\ WF_vars(Call(c))

FairSpec == Spec /\ Fairness

-----------------------------------------------------------------------------

\* A closed breaker has never swallowed MaxFailures failures in a row,
\* however the concurrent calls' reports were interleaved
\* (circuit_breaker.go:92-100): the endpoint is cut off by the very report
\* that completes the run.
ClosedMeansHealthy == cb.state = "closed" => streak < MaxFailures

\* The breaker leaves closed only for open, and only on a run of
\* MaxFailures failures with no success between them: sporadic failures
\* never cut an endpoint off (circuit_breaker.go:78, 96).
TripJustified ==
    [][cb.state = "closed" /\ cb'.state # "closed"
         => cb'.state = "open" /\ streak' = MaxFailures]_vars

\* The breaker becomes closed again only from half-open and only after
\* HalfOpenRequests successes in a row with no failure between them
\* (circuit_breaker.go:80-83, 102-104).
RecoveryJustified ==
    [][cb.state # "closed" /\ cb'.state = "closed"
         => cb.state = "half-open" /\ goodRun' = HalfOpenRequests]_vars

\* No request is admitted to an endpoint until a whole CooldownPeriod has
\* passed since it was cut off, no matter who asks and how often
\* (circuit_breaker.go:60): once tripped, Allow says yes only after that.
CooldownRespected ==
    cb.state # "closed" /\ Allowed(cb) => sinceTrip > CooldownPeriod

\* Once the endpoint answers for good, the breaker settles in closed: no
\* late failure, no missing report and no combination of counters leaves a
\* healthy endpoint cut off or half open for ever.
Recovers == <>[]up => <>[](cb.state = "closed")

\* Every report a half-open breaker counts is a probe's: whatever was under
\* way when the endpoint was cut off has been reported, to the open breaker,
\* before the first probe starts.  It takes a cooldown no shorter than a
\* call (by default 5s against attempts of 100ms); without it a success from
\* before the outage would count as recovery (circuit_breaker.go:79-83).
NoStaleReports ==
    CallTime <= CooldownPeriod /\ cb.state = "half-open"
        => \A c \in Callers : call[c] # "earlier"

\* What learning/index.md:469 says of half-open, "允许少量探测请求通过" (a
\* small number of probes passes): no more probes are under way at once
\* than the HalfOpenRequests it takes to decide.
FewProbes ==
    Cardinality({c \in Callers : call[c] = "probe"}) <= HalfOpenRequests
=============================================================================
