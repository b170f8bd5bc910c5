--------------------------- MODULE CircuitBreaker ---------------------------
(***************************************************************************)
(* The per-endpoint circuit breaker of pkg/circuitbreaker, as operators on *)
(* one breaker.  Every method of countingCircuitBreaker runs under its     *)
(* mutex, so each is one atomic operator from the breaker before the call  *)
(* to the breaker after it.                                                *)
(*                                                                         *)
(* lastFailureTime is only ever compared with CooldownPeriod, so it is     *)
(* kept as the time elapsed since that instant, saturating just above the  *)
(* cooldown.  That loses nothing Allow can observe and leaves the model    *)
(* without a bound on time.                                                *)
(***************************************************************************)
EXTENDS Naturals

CONSTANTS
    MaxFailures,       \* consecutive failures that open a closed breaker
    CooldownPeriod,    \* clock ticks an open breaker stays shut
    HalfOpenRequests   \* successes that close a half-open breaker

ASSUME BreakerConfig ==
    /\ MaxFailures \in Nat \ {0}
    /\ CooldownPeriod \in Nat
    /\ HalfOpenRequests \in Nat \ {0}

\* Time since lastFailureTime once the cooldown is over.
Expired == CooldownPeriod + 1

Breaker == [ state            : {"closed", "open", "half-open"},
             failureCount     : Nat,
             successCount     : Nat,
             sinceLastFailure : 0 .. Expired ]

\* Mutant: the state field left at its zero value.
NewWithoutState ==
    [ state |-> "", failureCount |-> 0, successCount |-> 0,
      sinceLastFailure |-> Expired ]

\* A fresh breaker; the zero lastFailureTime lies arbitrarily far back.
NewCircuitBreaker ==
    [ state |-> "closed", failureCount |-> 0, successCount |-> 0,
      sinceLastFailure |-> Expired ]

\* What Allow() answers ...
Allowed(cb) ==
    \/ cb.state = "closed"
    \/ cb.state = "open" /\ cb.sinceLastFailure > CooldownPeriod
    \/ cb.state = "half-open" /\ cb.successCount < HalfOpenRequests

\* Mutant: the cooldown is not looked at.
AfterAllowNoCooldown(cb) ==
    IF cb.state = "open" THEN [cb EXCEPT !.state = "half-open"] ELSE cb

\* ... and what it leaves behind: asking an open breaker that has cooled
\* down moves it to half-open, whether or not a request then follows.
AfterAllow(cb) ==
    IF cb.state = "open" /\ cb.sinceLastFailure > CooldownPeriod
    THEN [cb EXCEPT !.state = "half-open"]
    ELSE cb

\* Mutant: only the failure counter is reset.
ResetFailuresOnly(cb, s) == [cb EXCEPT !.state = s, !.failureCount = 0]

\* resetCounters() on the way into state s.
Reset(cb, s) ==
    [cb EXCEPT !.state = s, !.failureCount = 0, !.successCount = 0]

\* Mutant: a success does not end the run of failures.
RecordSuccessKeepsRun(cb) ==
    CASE cb.state = "half-open" ->
            IF cb.successCount + 1 >= HalfOpenRequests
            THEN Reset(cb, "closed")
            ELSE [cb EXCEPT !.successCount = @ + 1]
      [] OTHER -> cb

\* Mutant: one success too many is asked for.
RecordSuccessOffByOne(cb) ==
    CASE cb.state = "closed" -> [cb EXCEPT !.failureCount = 0]
      [] cb.state = "half-open" ->
            IF cb.successCount + 1 > HalfOpenRequests
            THEN Reset(cb, "closed")
            ELSE [cb EXCEPT !.successCount = @ + 1]
      [] cb.state = "open" -> cb

RecordSuccess(cb) ==
    CASE cb.state = "closed" -> [cb EXCEPT !.failureCount = 0]
      [] cb.state = "half-open" ->
            IF cb.successCount + 1 >= HalfOpenRequests
            THEN Reset(cb, "closed")
            ELSE [cb EXCEPT !.successCount = @ + 1]
      [] cb.state = "open" -> cb

\* Mutant: > for >= at the threshold.
RecordFailureOffByOne(cb) ==
    LET counted == [cb EXCEPT !.failureCount = @ + 1,
                              !.sinceLastFailure = 0]
    IN  IF \/ cb.state = "closed" /\ counted.failureCount > MaxFailures
           \/ cb.state = "half-open"
        THEN Reset(counted, "open")
        ELSE counted

\* Mutant: lastFailureTime is not set.
RecordFailureNoTime(cb) ==
    LET counted == [cb EXCEPT !.failureCount = @ + 1]
    IN  IF \/ cb.state = "closed" /\ counted.failureCount >= MaxFailures
           \/ cb.state = "half-open"
        THEN Reset(counted, "open")
        ELSE counted

RecordFailure(cb) ==
    LET counted == [cb EXCEPT !.failureCount = @ + 1,
                              !.sinceLastFailure = 0]
    IN  IF \/ cb.state = "closed" /\ counted.failureCount >= MaxFailures
           \/ cb.state = "half-open"
        THEN Reset(counted, "open")
        ELSE counted

\* One tick of the clock, as this breaker sees it.
Aged(cb) ==
    IF cb.sinceLastFailure < Expired
    THEN [cb EXCEPT !.sinceLastFailure = @ + 1]
    ELSE cb
=============================================================================
