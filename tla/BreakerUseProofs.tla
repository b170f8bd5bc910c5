-------------------------- MODULE BreakerUseProofs --------------------------
(***************************************************************************)
(* The breaker's safety for every threshold, every cooldown and every      *)
(* number of concurrent callers.                                           *)
(*                                                                         *)
(* The invariants checked in BreakerUse are not inductive: they compare an *)
(* observer's counters with thresholds, and what makes them hold is how    *)
(* the breaker's own counters relate to the observer's in each state.      *)
(***************************************************************************)
EXTENDS BreakerUse, TLAPS

\* The breaker's counters against the observer's, state by state.
CountersAgree ==
    /\ cb.state = "closed" => /\ cb.failureCount = streak
                              /\ streak < MaxFailures
                              /\ cb.successCount = 0
    /\ cb.state = "open" => cb.successCount = 0
    /\ cb.state = "half-open" => /\ cb.successCount < HalfOpenRequests
                                 /\ cb.successCount <= goodRun

\* The breaker never believes more time has passed than has.
ClockAgrees ==
    /\ cb.state = "open" => cb.sinceLastFailure <= sinceTrip
    /\ cb.state = "half-open" => sinceTrip = Expired

\* Probes exist in half-open only, and any other call that is under way in
\* a tripped breaker started before the trip.
CallsAgree ==
    \A c \in Callers :
        /\ call[c] = "probe" => cb.state = "half-open"
        /\ call[c] = "earlier" /\ cb.state # "closed" => age[c] >= sinceTrip

IndInv == TypeOK /\ CountersAgree /\ ClockAgrees /\ CallsAgree

USE BreakerConfig, CallTimeConfig DEF BreakerConfig, CallTimeConfig

-----------------------------------------------------------------------------
\* The operators of CircuitBreaker map breakers to breakers
\* (circuit_breaker.go:46-117).
LEMMA BreakerOperators ==
    /\ NewCircuitBreaker \in Breaker
    /\ \A b \in Breaker : /\ AfterAllow(b) \in Breaker
                          /\ RecordSuccess(b) \in Breaker
                          /\ RecordFailure(b) \in Breaker
                          /\ Aged(b) \in Breaker
<1>1. NewCircuitBreaker \in Breaker
  BY DEF NewCircuitBreaker, Breaker, Expired
<1>2. ASSUME NEW b \in Breaker PROVE AfterAllow(b) \in Breaker
  BY DEF AfterAllow, Breaker
<1>r. ASSUME NEW b \in Breaker, NEW s \in {"closed", "open"}
      PROVE  Reset(b, s) \in Breaker
  BY DEF Reset, Breaker
<1>3. ASSUME NEW b \in Breaker PROVE RecordSuccess(b) \in Breaker
  <2>1. /\ [b EXCEPT !.failureCount = 0] \in Breaker
        /\ [b EXCEPT !.successCount = @ + 1] \in Breaker
        /\ b.state \in {"closed", "open", "half-open"}
    BY DEF Breaker
  <2> QED
    BY <1>r, <2>1 DEF RecordSuccess
<1>4. ASSUME NEW b \in Breaker PROVE RecordFailure(b) \in Breaker
  <2> DEFINE counted == [b EXCEPT !.failureCount = @ + 1,
                                  !.sinceLastFailure = 0]
  <2>a. 0 \in 0 .. Expired /\ b.failureCount + 1 \in Nat
    BY DEF Breaker, Expired
  <2>1. counted \in Breaker
    BY <2>a DEF Breaker
  <2> QED
    BY <1>r, <2>1 DEF RecordFailure
<1>5. ASSUME NEW b \in Breaker PROVE Aged(b) \in Breaker
  BY DEF Aged, Breaker, Expired
<1> QED
  BY <1>1, <1>2, <1>3, <1>4, <1>5

\* Initially the counters agree and no call is under way.
LEMMA InitInv == Init => IndInv
  BY DEF Init, IndInv, TypeOK, CountersAgree, ClockAgrees, CallsAgree,
         NewCircuitBreaker, Breaker, CallStates, Expired

\* Every step of a caller, of the scan, of the clock and of the endpoint
\* preserves the inductive invariant.
LEMMA NextInv == IndInv /\ [Next]_vars => IndInv'
<1> SUFFICES ASSUME IndInv, [Next]_vars PROVE IndInv'
  OBVIOUS
<1> USE DEF IndInv, TypeOK, CountersAgree, ClockAgrees, CallsAgree,
            CallStates, Expired
<1>1. ASSUME NEW c \in Callers, Call(c) PROVE IndInv'
  <2>1. cb' \in Breaker
    BY <1>1, BreakerOperators DEF Call
  <2> QED
    BY <1>1, <2>1 DEF Call, Allowed, AfterAllow, Breaker
<1>2. ASSUME NEW c \in Callers, ReportSuccess(c) PROVE IndInv'
  <2>1. cb' \in Breaker
    BY <1>2, BreakerOperators DEF ReportSuccess
  <2> QED
    BY <1>2, <2>1 DEF ReportSuccess, RecordSuccess, Reset, Relabel, AtMost,
                      Breaker
<1>3. ASSUME NEW c \in Callers, ReportFailure(c) PROVE IndInv'
  <2>1. cb' \in Breaker
    BY <1>3, BreakerOperators DEF ReportFailure
  <2> QED
    BY <1>3, <2>1 DEF ReportFailure, RecordFailure, Reset, Relabel, AtMost,
                      Breaker
<1>4. CASE Scan
  <2>1. cb' \in Breaker
    BY <1>4, BreakerOperators DEF Scan
  <2> QED
    BY <1>4, <2>1 DEF Scan, AfterAllow, Breaker
<1>5. CASE Tick
  <2>1. cb' \in Breaker
    BY <1>5, BreakerOperators DEF Tick
  <2> QED
    BY <1>5, <2>1 DEF Tick, Aged, AtMost, Breaker
<1>6. CASE Flip
  BY <1>6 DEF Flip
<1>7. CASE UNCHANGED vars
  BY <1>7 DEF vars
<1> QED
  BY <1>1, <1>2, <1>3, <1>4, <1>5, <1>6, <1>7 DEF Next

\* The inductive invariant holds throughout every behaviour.
LEMMA Inductive == Spec => []IndInv
  BY InitInv, NextInv, PTL DEF Spec

-----------------------------------------------------------------------------
\* The model's state stays well typed: in particular the breaker has no
\* fourth state and its counters never go negative (circuit_breaker.go:37-44).
THEOREM TypeCorrect == Spec => []TypeOK
<1>1. IndInv => TypeOK
  BY DEF IndInv
<1> QED
  BY <1>1, Inductive, PTL

\* For every threshold and any number of callers, a closed breaker has not
\* absorbed MaxFailures failures in a row (circuit_breaker.go:92-100).
THEOREM ClosedHealthy == Spec => []ClosedMeansHealthy
<1>1. IndInv => ClosedMeansHealthy
  BY DEF IndInv, CountersAgree, ClosedMeansHealthy
<1> QED
  BY <1>1, Inductive, PTL

\* For every cooldown, nothing is admitted after a trip before the cooldown
\* is over, even when late failures of calls admitted before the trip keep
\* being reported (circuit_breaker.go:60, 93).
THEOREM Cooldown == Spec => []CooldownRespected
<1>1. IndInv => CooldownRespected
  BY DEF IndInv, TypeOK, ClockAgrees, CooldownRespected, Allowed, Expired,
         Breaker
<1> QED
  BY <1>1, Inductive, PTL

\* If a cooldown is no shorter than a call, no report a half-open breaker
\* counts stems from a call admitted before the outage
\* (circuit_breaker.go:79-83).
THEOREM OnlyProbesReport == Spec => []NoStaleReports
<1>1. IndInv => NoStaleReports
  BY DEF IndInv, TypeOK, ClockAgrees, CallsAgree, NoStaleReports, Expired
<1> QED
  BY <1>1, Inductive, PTL

\* A breaker leaves closed only on MaxFailures failures in a row
\* (circuit_breaker.go:78, 96).
THEOREM Trip == Spec => TripJustified
<1>1. IndInv /\ [Next]_vars =>
        [cb.state = "closed" /\ cb'.state # "closed"
           => cb'.state = "open" /\ streak' = MaxFailures]_vars
  <2> SUFFICES ASSUME IndInv, Next, cb.state = "closed", cb'.state # "closed"
               PROVE  cb'.state = "open" /\ streak' = MaxFailures
    BY DEF vars
  <2> USE DEF IndInv, TypeOK, CountersAgree, Breaker
  <2>1. ASSUME NEW c \in Callers, ReportFailure(c)
        PROVE  cb'.state = "open" /\ streak' = MaxFailures
    BY <2>1 DEF ReportFailure, RecordFailure, Reset, AtMost
  <2>2. ASSUME NEW c \in Callers, Call(c) \/ ReportSuccess(c) PROVE FALSE
    BY <2>2 DEF Call, ReportSuccess, RecordSuccess, AfterAllow
  <2>3. ASSUME Scan \/ Tick \/ Flip PROVE FALSE
    BY <2>3 DEF Scan, Tick, Flip, AfterAllow, Aged
  <2> QED
    BY <2>1, <2>2, <2>3 DEF Next
<1> QED
  BY <1>1, Inductive, PTL DEF Spec, TripJustified

\* A breaker becomes closed only from half-open and only on
\* HalfOpenRequests successes in a row (circuit_breaker.go:80-83, 102-104).
THEOREM Recovery == Spec => RecoveryJustified
<1>1. IndInv /\ [Next]_vars =>
        [cb.state # "closed" /\ cb'.state = "closed"
           => cb.state = "half-open" /\ goodRun' = HalfOpenRequests]_vars
  <2> SUFFICES ASSUME IndInv, Next, cb.state # "closed", cb'.state = "closed"
               PROVE  cb.state = "half-open" /\ goodRun' = HalfOpenRequests
    BY DEF vars
  <2> USE DEF IndInv, TypeOK, CountersAgree, Breaker
  <2>1. ASSUME NEW c \in Callers, ReportSuccess(c)
        PROVE  cb.state = "half-open" /\ goodRun' = HalfOpenRequests
    BY <2>1 DEF ReportSuccess, RecordSuccess, Reset, AtMost
  <2>2. ASSUME NEW c \in Callers, Call(c) PROVE FALSE
    BY <2>2 DEF Call, AfterAllow
  <2>3. ASSUME NEW c \in Callers, ReportFailure(c) PROVE FALSE
    BY <2>3 DEF ReportFailure, RecordFailure, Reset
  <2>4. ASSUME Scan \/ Tick \/ Flip PROVE FALSE
    BY <2>4 DEF Scan, Tick, Flip, AfterAllow, Aged
  <2> QED
    BY <2>1, <2>2, <2>3, <2>4 DEF Next
<1> QED
  BY <1>1, Inductive, PTL DEF Spec, RecoveryJustified
=============================================================================
