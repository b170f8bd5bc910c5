--------------------------- MODULE MetaClientProofs ---------------------------
(***************************************************************************)
(* The metadata-center client's fail-over, for every set of endpoints, any *)
(* number of callers, every hash function and every number of fail-overs.  *)
(*                                                                         *)
(* What a call may do depends on where it is: only one that is trying has  *)
(* candidates, these are all among the hosts its scan found available, and *)
(* those it has not reported as failed are the ones from its attempt on.   *)
(***************************************************************************)
EXTENDS MetaClient, SequenceTheorems, FiniteSetTheorems, FunctionTheorems, TLAPS

USE BreakerConfig, ClientConfig DEF BreakerConfig, ClientConfig

\* While it scans, a call has no candidate yet and no result.
ScanInv(s) ==
    s.pc # "try" => s.candidates = <<>>

\* Every host among the candidates; all of hosts if they are few enough.
Covers(candidates, hosts) ==
    /\ \A i \in DOMAIN candidates : candidates[i] \in hosts
    /\ Cardinality(hosts) <= FailoverRetry + 1
         => \A h \in hosts : \E i \in DOMAIN candidates : candidates[i] = h

\* Every candidate was available at the end of the scan, and all that were
\* available are candidates if the attempts suffice.
CandidatesInv(s) ==
    s.pc = "try" => Covers(s.candidates, Available(s.got, s.cold))

\* The candidates that are not yet reported as failed lie ahead.
AheadInv(s) ==
    s.pc = "try" => /\ s.attempt \in 1 .. Len(s.candidates)
                    /\ s.untried \subseteq
                         {s.candidates[i] : i \in s.attempt .. Len(s.candidates)}

\* Only a call that is over has a result, and "all failed" leaves nothing
\* untried.
ResultInv(s) ==
    /\ s.pc # "idle" => s.result = "none"
    /\ s.result = "all failed" => s.untried = {}

CallInv ==
    \A c \in Callers : /\ ScanInv(call[c])
                       /\ CandidatesInv(call[c])
                       /\ AheadInv(call[c])
                       /\ ResultInv(call[c])

IndInv == TypeOK /\ CallInv

-----------------------------------------------------------------------------
\* The breaker's methods return breakers, and none of them closes a breaker
\* that is open (circuit_breaker.go:46-117).
LEMMA BreakerFacts ==
    /\ NewCircuitBreaker \in Breaker
    /\ \A b \in Breaker : /\ AfterAllow(b) \in Breaker
                          /\ RecordSuccess(b) \in Breaker
                          /\ RecordFailure(b) \in Breaker
                          /\ Aged(b) \in Breaker
    /\ \A b \in Breaker : b.state = "open" =>
                            /\ AfterAllow(b).state # "closed"
                            /\ RecordSuccess(b).state # "closed"
                            /\ RecordFailure(b).state # "closed"
                            /\ Aged(b).state # "closed"
<1>1. NewCircuitBreaker \in Breaker
    BY DEF NewCircuitBreaker, Breaker, Expired
<1>2. ASSUME NEW b \in Breaker
      PROVE  /\ AfterAllow(b) \in Breaker
             /\ b.state = "open" => AfterAllow(b).state # "closed"
    BY DEF AfterAllow, Breaker
<1>3. ASSUME NEW b \in Breaker, NEW s \in {"closed", "open"}
      PROVE  Reset(b, s) \in Breaker
    BY DEF Reset, Breaker
<1>4. ASSUME NEW b \in Breaker
      PROVE  /\ RecordSuccess(b) \in Breaker
             /\ b.state = "open" => RecordSuccess(b).state # "closed"
    <2>1. /\ [b EXCEPT !.failureCount = 0] \in Breaker
          /\ [b EXCEPT !.successCount = @ + 1] \in Breaker
          /\ b.state \in {"closed", "open", "half-open"}
        BY DEF Breaker
    <2>2. RecordSuccess(b) \in Breaker
        BY <1>3, <2>1 DEF RecordSuccess
    <2>3. b.state = "open" => RecordSuccess(b) = b
        BY DEF RecordSuccess
    <2>4. QED
        BY <2>2, <2>3
<1>5. ASSUME NEW b \in Breaker
      PROVE  /\ RecordFailure(b) \in Breaker
             /\ b.state = "open" => RecordFailure(b).state # "closed"
    <2> DEFINE counted == [b EXCEPT !.failureCount = @ + 1, !.sinceLastFailure = 0]
    <2>1. 0 \in 0 .. Expired /\ b.failureCount + 1 \in Nat
        BY DEF Breaker, Expired
    <2>2. counted \in Breaker /\ counted.state = b.state
        BY <2>1 DEF Breaker
    <2>3. RecordFailure(b) \in Breaker
        BY <1>3, <2>2 DEF RecordFailure
    <2>4. b.state = "open" => RecordFailure(b) = counted
        BY DEF RecordFailure
    <2>5. QED
        BY <2>2, <2>3, <2>4
<1>6. ASSUME NEW b \in Breaker
      PROVE  /\ Aged(b) \in Breaker
             /\ b.state = "open" => Aged(b).state # "closed"
    BY DEF Aged, Breaker, Expired
<1>7. QED
    BY <1>1, <1>2, <1>4, <1>5, <1>6

\* The hosts a scan found available are not none, and are some of those
\* whose breaker said yes (service_discovery.go:194-208).
LEMMA AvailableFacts ==
    ASSUME NEW got \in SUBSET Hosts, NEW cold \in SUBSET Hosts, got # {}
    PROVE  /\ Available(got, cold) \in SUBSET got
           /\ Available(got, cold) # {}
    BY DEF Available

\* How many of a finite set of integers are smaller than one of them: fewer
\* than there are, and more for a greater one.
LEMMA SmallerFacts ==
    ASSUME NEW S \in SUBSET Int, IsFiniteSet(S)
    PROVE  /\ \A x \in S : Cardinality({y \in S : y < x}) \in 0 .. Cardinality(S) - 1
           /\ \A x, y \in S : x < y =>
                 Cardinality({z \in S : z < x}) < Cardinality({z \in S : z < y})
<1> DEFINE n == Cardinality(S)
           T == 0 .. n - 1
           Smaller(x) == {y \in S : y < x}
<1>1. n \in Nat
    BY FS_CardinalityType
<1>2. ASSUME NEW x \in S
      PROVE  IsFiniteSet(Smaller(x)) /\ Cardinality(Smaller(x)) \in T
    <2>1. Smaller(x) \in SUBSET S /\ x \notin Smaller(x)
        OBVIOUS
    <2>2. /\ IsFiniteSet(Smaller(x)) /\ Cardinality(Smaller(x)) <= n
          /\ Cardinality(S) # Cardinality(Smaller(x))
        BY <2>1, FS_Subset
    <2>3. Cardinality(Smaller(x)) \in Nat
        BY <2>2, FS_CardinalityType
    <2>4. QED
        BY <1>1, <2>2, <2>3
<1>3. ASSUME NEW x \in S, NEW y \in S, x < y
      PROVE  Cardinality(Smaller(x)) < Cardinality(Smaller(y))
    <2>1. x \in Int /\ y \in Int /\ \A z \in S : z \in Int
        OBVIOUS
    <2>2. Smaller(x) \in SUBSET Smaller(y) /\ x \in Smaller(y) /\ x \notin Smaller(x)
        <3>1. \A z \in S : z < x => z < y
            BY <1>3, <2>1
        <3>2. Smaller(x) \in SUBSET Smaller(y)
            BY <3>1
        <3>3. x \in Smaller(y)
            BY <1>3
        <3>4. x \notin Smaller(x)
            BY <2>1
        <3>5. QED
            BY <3>2, <3>3, <3>4
    <2> HIDE DEF Smaller
    <2>3. PICK A : A = Smaller(x)
        OBVIOUS
    <2>4. PICK B : B = Smaller(y)
        OBVIOUS
    <2>5. IsFiniteSet(B) /\ A \in SUBSET B /\ A # B
        BY <1>2, <2>2, <2>3, <2>4
    <2>6. Cardinality(A) <= Cardinality(B) /\ Cardinality(B) # Cardinality(A)
        BY <2>5, FS_Subset
    <2>7. QED
        BY <1>1, <1>2, <2>3, <2>4, <2>6
<1>4. QED
    BY <1>2, <1>3

\* For every k less than their number one of them that exactly k others are
\* smaller than: what indexing the sorted hosts relies on.
LEMMA NthInteger ==
    ASSUME NEW S \in SUBSET Int, IsFiniteSet(S), NEW k \in 0 .. Cardinality(S) - 1
    PROVE  \E x \in S : Cardinality({y \in S : y < x}) = k
<1> DEFINE n == Cardinality(S)
           T == 0 .. n - 1
           Smaller(x) == {y \in S : y < x}
           rank == [x \in S |-> Cardinality(Smaller(x))]
<1>1. n \in Nat
    BY FS_CardinalityType
<1>2. \A x \in S : Cardinality(Smaller(x)) \in T
    BY SmallerFacts
<1>3. \A x, y \in S : x < y => Cardinality(Smaller(x)) < Cardinality(Smaller(y))
    BY SmallerFacts
<1>4. rank \in [S -> T]
    BY <1>2
<1> HIDE DEF Smaller
<1>5. \A x, y \in S : rank[x] = rank[y] => x = y
    <2>1. SUFFICES ASSUME NEW x \in S, NEW y \in S, x # y
                   PROVE  rank[x] # rank[y]
        OBVIOUS
    <2>2. x < y \/ y < x
        BY <2>1
    <2>3. rank[x] \in Int /\ rank[y] \in Int
        BY <1>1, <1>4
    <2>4. rank[x] < rank[y] \/ rank[y] < rank[x]
        BY <1>3, <2>2
    <2>5. QED
        BY <2>3, <2>4
<1>6. rank \in Injection(S, T)
    BY <1>4, <1>5, Fun_IsInj
<1>7. IsFiniteSet(T) /\ Cardinality(T) = n
    BY <1>1, FS_Interval
<1>8. rank \in Surjection(S, T)
    BY <1>6, <1>7, FS_Injection
<1>9. k \in T
    OBVIOUS
<1> HIDE DEF rank, T
<1>10. PICK x \in S : rank[x] = k
    <2>1. \A t \in T : \E s \in S : rank[s] = t
        BY <1>8, Fun_SurjectionProperties
    <2>2. QED
        BY <1>9, <2>1
<1>11. rank[x] = Cardinality(Smaller(x))
    BY DEF rank
<1>12. QED
    BY <1>10, <1>11 DEF Smaller

\* The host that as many others are smaller than as than h is h.
LEMMA NthOfRank ==
    ASSUME NEW S \in SUBSET Int, IsFiniteSet(S), NEW h \in S
    PROVE  Nth(S, Cardinality({y \in S : y < h})) = h
<1> DEFINE Smaller(x) == {y \in S : y < x}
<1>1. \A x \in S : Cardinality(Smaller(x)) \in Int
    BY FS_CardinalityType, SmallerFacts
<1>2. \A x, y \in S : x < y => Cardinality(Smaller(x)) < Cardinality(Smaller(y))
    BY SmallerFacts
<1> HIDE DEF Smaller
<1>3. \A x \in S : Cardinality(Smaller(x)) = Cardinality(Smaller(h)) => x = h
    <2>1. SUFFICES ASSUME NEW x \in S, x # h
                   PROVE  Cardinality(Smaller(x)) # Cardinality(Smaller(h))
        OBVIOUS
    <2>2. x < h \/ h < x
        BY <2>1
    <2>3. QED
        BY <1>1, <1>2, <2>2
<1>4. Nth(S, Cardinality(Smaller(h))) = h
    BY <1>3 DEF Nth, Smaller
<1>5. QED
    BY <1>4 DEF Smaller

\* Going round len places from place idx on meets every place.
LEMMA RoundAll ==
    ASSUME NEW len \in Nat \ {0}, NEW idx \in 0 .. len - 1, NEW k \in 0 .. len - 1
    PROVE  \E i \in 1 .. len : (idx + i - 1) % len = k
<1>1. CASE idx <= k
    <2>1. k - idx + 1 \in 1 .. len /\ idx + (k - idx + 1) - 1 = k
        BY <1>1
    <2>2. k % len = k
        OBVIOUS
    <2>3. QED
        BY <2>1, <2>2
<1>2. CASE idx > k
    <2>1. k - idx + 1 + len \in 1 .. len /\ idx + (k - idx + 1 + len) - 1 = k + len
        BY <1>2
    <2>2. (k + len) % len = k
        OBVIOUS
    <2>3. QED
        BY <2>1, <2>2
<1>3. QED
    BY <1>1, <1>2

\* A list of some of the hosts, and of all of them if num are enough.
ListOf(list, hosts, num) ==
    \E n \in 1 .. Cardinality(Hosts) :
        /\ list \in [1 .. n -> hosts]
        /\ Cardinality(hosts) <= num => \A h \in hosts : \E i \in 1 .. n : list[i] = h

\* GetHosts' candidates: at least one, no more than there are hosts, each of
\* them one of the hosts, all of them if the attempts suffice
\* (service_discovery.go:215-248).
LEMMA ChosenFacts ==
    ASSUME NEW hosts \in SUBSET Hosts, hosts # {}, NEW key \in Keys,
           NEW num \in Nat \ {0}
    PROVE  ListOf(Chosen(hosts, key, num), hosts, num)
<1> DEFINE len == Cardinality(hosts)
           n   == IF len < num THEN len ELSE num
           idx == Hash[key] % len
<1>1. IsFiniteSet(hosts) /\ len <= Cardinality(Hosts) /\ Cardinality(Hosts) \in Nat
    BY FS_Subset, FS_CardinalityType
<1>2. len \in Nat \ {0}
    BY <1>1, FS_CardinalityType, FS_EmptySet
<1>3. hosts \in SUBSET Int
    OBVIOUS
<1>4. idx \in Nat /\ idx \in 0 .. len - 1
    <2>1. Hash[key] \in Nat
        OBVIOUS
    <2>2. QED
        BY <1>2, <2>1
<1>5. ASSUME NEW i \in 1 .. n
      PROVE  Nth(hosts, (idx + i - 1) % len) \in hosts
    <2>1. i \in Nat /\ idx + i - 1 \in Nat
        BY <1>2, <1>4
    <2>2. (idx + i - 1) % len \in 0 .. len - 1
        BY <1>2, <2>1
    <2>3. PICK k \in 0 .. len - 1 : k = (idx + i - 1) % len
        BY <2>2
    <2>4. \E x \in hosts : Cardinality({y \in hosts : y < x}) = k
        BY <1>1, <1>3, NthInteger
    <2>5. Nth(hosts, k) \in hosts
        BY <2>4 DEF Nth
    <2>6. QED
        BY <2>3, <2>5
<1>6. n \in 1 .. Cardinality(Hosts)
    BY <1>1, <1>2
<1>7. Chosen(hosts, key, num) = [i \in 1 .. n |-> Nth(hosts, (idx + i - 1) % len)]
    BY DEF Chosen
<1>8. ASSUME len <= num, NEW h \in hosts
      PROVE  \E i \in 1 .. n : Chosen(hosts, key, num)[i] = h
    <2>1. PICK k \in 0 .. len - 1 : k = Cardinality({y \in hosts : y < h})
        BY <1>1, <1>3, SmallerFacts
    <2>2. Nth(hosts, k) = h
        BY <1>1, <1>3, <2>1, NthOfRank
    <2>3. PICK i \in 1 .. len : (idx + i - 1) % len = k
        BY <1>2, <1>4, RoundAll
    <2>4. i \in 1 .. n
        BY <1>2, <1>8
    <2>5. QED
        BY <1>7, <2>2, <2>3, <2>4
<1> HIDE DEF n, idx, len
<1>9. Chosen(hosts, key, num) \in [1 .. n -> hosts]
    BY <1>5, <1>7
<1>10. QED
    BY <1>6, <1>8, <1>9 DEF len, ListOf

-----------------------------------------------------------------------------
\* Where the candidates of a call come from.
CandidateLists == UNION {[1 .. n -> Hosts] : n \in 0 .. Cardinality(Hosts)}

\* The candidates Choose takes: a list, available, and it has a first one.
LEMMA CandidateFacts ==
    ASSUME NEW got \in SUBSET Hosts, NEW cold \in SUBSET Hosts, got # {}, NEW key \in Keys
    PROVE  LET chosen == Chosen(Available(got, cold), key, FailoverRetry + 1)
           IN  /\ chosen \in CandidateLists
               /\ Covers(chosen, Available(got, cold))
               /\ DOMAIN chosen = 1 .. Len(chosen)
               /\ Len(chosen) \in Nat \ {0}
<1> DEFINE hosts == Available(got, cold)
           chosen == Chosen(hosts, key, FailoverRetry + 1)
<1>1. hosts \in SUBSET Hosts /\ hosts # {}
    BY AvailableFacts
<1> HIDE DEF hosts
<1>2. PICK num \in Nat \ {0} : num = FailoverRetry + 1
    OBVIOUS
<1>3. PICK n \in 1 .. Cardinality(Hosts) :
         /\ chosen \in [1 .. n -> hosts]
         /\ Cardinality(hosts) <= FailoverRetry + 1 =>
               \A h \in hosts : \E i \in 1 .. n : chosen[i] = h
    <2>1. ListOf(Chosen(hosts, key, num), hosts, num)
        BY <1>1, ChosenFacts
    <2>2. ListOf(chosen, hosts, FailoverRetry + 1)
        BY <1>2, <2>1
    <2>3. QED
        BY <2>2 DEF ListOf
<1> HIDE DEF chosen
<1>4. n \in Nat \ {0} /\ n \in 0 .. Cardinality(Hosts)
    <2>1. Cardinality(Hosts) \in Nat
        BY FS_CardinalityType
    <2>2. QED
        BY <2>1
<1>5. chosen \in [1 .. n -> Hosts]
    BY <1>1, <1>3
<1>6. chosen \in CandidateLists
    BY <1>4, <1>5 DEF CandidateLists
<1>7. DOMAIN chosen = 1 .. n /\ Covers(chosen, hosts)
    BY <1>3 DEF Covers
<1>8. Len(chosen) = n
    BY <1>4, <1>5
<1>9. QED
    BY <1>4, <1>6, <1>7, <1>8 DEF chosen, hosts

\* No candidates yet.
LEMMA NoCandidates == <<>> \in CandidateLists /\ DOMAIN <<>> = {}
<1>1. <<>> \in [1 .. 0 -> Hosts]
    <2>1. <<>> \in Seq(Hosts) /\ Len(<<>>) = 0
        BY EmptySeq
    <2>2. QED
        BY <2>1, LenProperties
<1>2. 0 \in 0 .. Cardinality(Hosts)
    <2>1. Cardinality(Hosts) \in Nat
        BY FS_CardinalityType
    <2>2. QED
        BY <2>1
<1>3. DOMAIN <<>> = {}
    <2>1. DOMAIN <<>> = 1 .. 0
        BY <1>1
    <2>2. QED
        BY <2>1
<1>4. QED
    BY <1>1, <1>2, <1>3 DEF CandidateLists

\* A call that starts anew.
LEMMA NewCallType ==
    ASSUME NEW key \in Keys, NEW result \in {"none", "ok", "no host", "all failed"}
    PROVE  NewCall(key, result) \in CallState
    BY NoCandidates DEF NewCall, CallState, CandidateLists

LEMMA InitInv == Init => IndInv
<1> SUFFICES ASSUME Init PROVE IndInv
    OBVIOUS
<1>1. EmptyKey \in Keys /\ Fresh \in Node /\ Static \in Node
    BY BreakerFacts DEF Keys, Fresh, Static, Node
<1>2. NewCall(EmptyKey, "none") \in CallState
    BY <1>1, NewCallType
<1>3. TypeOK
    BY <1>1, <1>2 DEF Init, TypeOK, Known
<1>4. CallInv
    BY <1>2 DEF Init, CallInv, NewCall, ScanInv, CandidatesInv, AheadInv, ResultInv
<1>5. QED
    BY <1>3, <1>4 DEF IndInv

-----------------------------------------------------------------------------
\* The node map stays one.
LEMMA NodeMapType ==
    ASSUME TypeOK, [Next]_vars
    PROVE  /\ DOMAIN nodeMap' \subseteq Hosts
           /\ \A h \in DOMAIN nodeMap' : nodeMap'[h] \in Node
<1>a. /\ Known \subseteq Hosts
      /\ \A h \in Known : /\ nodeMap[h] \in Node
                          /\ nodeMap[h].breaker \in Breaker
                          /\ nodeMap[h].age \in 0 .. ColdStartDelay
    BY DEF TypeOK, Node
<1>b. Fresh \in Node
    BY BreakerFacts DEF Fresh, Node
<1>c. \A n \in Node, b \in Breaker : [n EXCEPT !.breaker = b] \in Node
    BY DEF Node
<1>1. CASE UNCHANGED nodeMap
    BY <1>1, <1>a DEF Known
<1>2. ASSUME NEW answer \in SUBSET Hosts, DnsLookUp(answer)
      PROVE  /\ DOMAIN nodeMap' \subseteq Hosts
             /\ \A h \in DOMAIN nodeMap' : nodeMap'[h] \in Node
    BY <1>2, <1>a, <1>b DEF DnsLookUp, LookedUp
<1>3. ASSUME NEW c \in Callers, NEW h \in Hosts, AskNode(c, h)
      PROVE  /\ DOMAIN nodeMap' \subseteq Hosts
             /\ \A g \in DOMAIN nodeMap' : nodeMap'[g] \in Node
    <2>1. nodeMap' = [nodeMap EXCEPT ![h].breaker = AfterAllow(@)]
        BY <1>3 DEF AskNode
    <2>2. h \in Known => [nodeMap[h] EXCEPT !.breaker = AfterAllow(@)] \in Node
        BY <1>a, <1>c, BreakerFacts
    <2>3. QED
        BY <1>a, <2>1, <2>2 DEF Known
<1>4. ASSUME NEW h, NEW ok \in BOOLEAN, nodeMap' = Reported(h, ok)
      PROVE  /\ DOMAIN nodeMap' \subseteq Hosts
             /\ \A g \in DOMAIN nodeMap' : nodeMap'[g] \in Node
    <2>1. CASE h \notin Known
        BY <1>4, <1>a, <2>1 DEF Reported, Known
    <2>2. CASE h \in Known
        <3>1. nodeMap' = [nodeMap EXCEPT ![h].breaker = IF ok THEN RecordSuccess(@)
                                                              ELSE RecordFailure(@)]
            BY <1>4, <2>2 DEF Reported
        <3>2. [nodeMap[h] EXCEPT !.breaker = IF ok THEN RecordSuccess(@)
                                                   ELSE RecordFailure(@)] \in Node
            BY <1>a, <1>c, <2>2, BreakerFacts
        <3>3. QED
            BY <1>a, <3>1, <3>2 DEF Known
    <2>3. QED
        BY <2>1, <2>2
<1>5. ASSUME Tick
      PROVE  /\ DOMAIN nodeMap' \subseteq Hosts
             /\ \A h \in DOMAIN nodeMap' : nodeMap'[h] \in Node
    <2>1. \A b \in Breaker, a \in 0 .. ColdStartDelay : [breaker |-> b, age |-> a] \in Node
        BY DEF Node
    <2>2. \A a \in 0 .. ColdStartDelay :
             (IF a < ColdStartDelay THEN a + 1 ELSE ColdStartDelay) \in 0 .. ColdStartDelay
        OBVIOUS
    <2>3. QED
        BY <1>5, <1>a, <2>1, <2>2, BreakerFacts DEF Tick, Known
<1>6. ASSUME NEW c \in Callers, Succeed(c) \/ Fail(c)
      PROVE  \E h : \E ok \in BOOLEAN : nodeMap' = Reported(h, ok)
    BY <1>6 DEF Succeed, Fail
<1>7. ASSUME NEW c \in Callers, Traffic(c) \/ NoHost(c) \/ Choose(c)
      PROVE  UNCHANGED nodeMap
    <2>1. Traffic(c) => \E key : StartCall(c, key)
        BY DEF Traffic
    <2>2. QED
        BY <1>7, <2>1 DEF StartCall, NoHost, Choose
<1>8. ASSUME NEW h \in Hosts, Flip(h)
      PROVE  UNCHANGED nodeMap
    BY <1>8 DEF Flip
<1>9. ASSUME Shutdown \/ UNCHANGED vars
      PROVE  UNCHANGED nodeMap
    BY <1>9 DEF Shutdown, vars
<1>10. QED
    BY <1>1, <1>2, <1>3, <1>4, <1>5, <1>6, <1>7, <1>8, <1>9 DEF Next, Step

\* What is said of one call.
GoodCall(s) ==
    /\ s \in CallState
    /\ ScanInv(s) /\ CandidatesInv(s) /\ AheadInv(s) /\ ResultInv(s)

\* A call that is over has tried everything if it says so.
LEMMA NewCallGood ==
    ASSUME NEW key \in Keys, NEW result \in {"none", "ok", "no host", "all failed"}
    PROVE  GoodCall(NewCall(key, result))
    BY NewCallType
       DEF GoodCall, NewCall, ScanInv, CandidatesInv, AheadInv, ResultInv

\* GetHosts begins: nothing is found yet.
LEMMA StartGood ==
    ASSUME TypeOK, NEW key \in Keys
    PROVE  GoodCall([NewCall(key, "none") EXCEPT
                        !.pc = "scan", !.todo = Known, !.cold = {h \in Known : IsCold(h)}])
<1>1. NewCall(key, "none") \in CallState /\ Known \subseteq Hosts
    BY NewCallType DEF TypeOK
<1>2. QED
    BY <1>1 DEF GoodCall, NewCall, CallState, ScanInv, CandidatesInv, AheadInv, ResultInv

\* A turn of the scan.
LEMMA AskGood ==
    ASSUME NEW s, GoodCall(s), s.pc = "scan", NEW h \in Hosts, NEW yes \in BOOLEAN
    PROVE  GoodCall([s EXCEPT !.todo = @ \ {h},
                              !.got = IF yes THEN @ \cup {h} ELSE @,
                              !.cold = IF yes THEN @ ELSE @ \ {h}])
    BY DEF GoodCall, CallState, ScanInv, CandidatesInv, AheadInv, ResultInv

\* The call s after Choose, and after Fail.
ChosenCall(s) ==
    LET chosen == Chosen(Available(s.got, s.cold), s.key, FailoverRetry + 1)
    IN  [s EXCEPT !.pc = "try", !.attempt = 1, !.key = EmptyKey,
                  !.candidates = chosen, !.untried = {chosen[i] : i \in DOMAIN chosen}]

FailedCall(s) ==
    LET untried == s.untried \ {s.candidates[s.attempt]}
    IN  IF s.attempt = Len(s.candidates)
        THEN [NewCall(EmptyKey, "all failed") EXCEPT !.untried = untried]
        ELSE [s EXCEPT !.attempt = @ + 1, !.untried = untried]

\* GetHosts returns its candidates.
LEMMA ChooseGood ==
    ASSUME NEW s, GoodCall(s), s.pc = "scan", s.got # {}
    PROVE  GoodCall(ChosenCall(s))
<1> DEFINE chosen == Chosen(Available(s.got, s.cold), s.key, FailoverRetry + 1)
           t == [s EXCEPT !.pc = "try", !.attempt = 1, !.key = EmptyKey,
                          !.candidates = chosen,
                          !.untried = {chosen[i] : i \in DOMAIN chosen}]
<1>1. s \in CallState /\ s.result = "none"
    BY DEF GoodCall, ResultInv
<1>2. s.got \in SUBSET Hosts /\ s.cold \in SUBSET Hosts /\ s.key \in Keys
    BY <1>1 DEF CallState
<1>3. /\ chosen \in CandidateLists
      /\ Covers(chosen, Available(s.got, s.cold))
      /\ DOMAIN chosen = 1 .. Len(chosen)
      /\ Len(chosen) \in Nat \ {0}
    BY <1>2, CandidateFacts
<1> HIDE DEF chosen
<1>4. {chosen[i] : i \in DOMAIN chosen} \in SUBSET Hosts
    BY <1>2, <1>3, AvailableFacts DEF Covers
<1>5. EmptyKey \in Keys
    BY DEF Keys
<1>6. /\ t \in CallState
      /\ t.pc = "try" /\ t.attempt = 1 /\ t.candidates = chosen
      /\ t.untried = {chosen[i] : i \in DOMAIN chosen}
      /\ t.got = s.got /\ t.cold = s.cold /\ t.result = "none"
    BY <1>1, <1>3, <1>4, <1>5 DEF CallState, CandidateLists
<1> HIDE DEF t
<1>7. ScanInv(t) /\ CandidatesInv(t) /\ ResultInv(t)
    BY <1>3, <1>6 DEF ScanInv, CandidatesInv, ResultInv
<1>8. AheadInv(t)
    <2>1. 1 \in 1 .. Len(chosen)
        BY <1>3
    <2>2. QED
        BY <1>3, <1>6, <2>1 DEF AheadInv
<1>9. GoodCall(t)
    BY <1>6, <1>7, <1>8 DEF GoodCall
<1>10. ChosenCall(s) = t
    BY DEF ChosenCall, chosen, t
<1>11. QED
    BY <1>9, <1>10

\* The attempt failed: the call goes on or gives up.
LEMMA FailGood ==
    ASSUME NEW s, GoodCall(s), s.pc = "try"
    PROVE  GoodCall(FailedCall(s))
<1> DEFINE last == s.attempt = Len(s.candidates)
           untried == s.untried \ {s.candidates[s.attempt]}
<1>1. /\ s \in CallState
      /\ s.attempt \in 1 .. Len(s.candidates)
      /\ s.untried \subseteq {s.candidates[i] : i \in s.attempt .. Len(s.candidates)}
    BY DEF GoodCall, AheadInv
<1>2. untried \in SUBSET Hosts
    BY <1>1 DEF CallState
<1>3. Len(s.candidates) \in Nat
    <2>1. PICK n \in 0 .. Cardinality(Hosts) : s.candidates \in [1 .. n -> Hosts]
        BY <1>1 DEF CallState
    <2>2. n \in Nat
        <3>1. Cardinality(Hosts) \in Nat
            BY FS_CardinalityType
        <3>2. QED
            BY <3>1
    <2>3. s.candidates \in Seq(Hosts)
        BY <2>1, <2>2, SeqDef
    <2>4. QED
        BY <2>3, LenProperties
<1>4. CASE last
    <2> DEFINE t == [NewCall(EmptyKey, "all failed") EXCEPT !.untried = untried]
    <2>1. \A i \in s.attempt .. Len(s.candidates) : i = s.attempt
        BY <1>1, <1>3, <1>4
    <2>2. untried = {}
        <3>1. \A h \in s.untried : h = s.candidates[s.attempt]
            BY <1>1, <2>1
        <3>2. QED
            BY <3>1
    <2> HIDE DEF untried
    <2>3. t = NewCall(EmptyKey, "all failed")
        <3>1. \A r \in CallState : r.untried = {} => [r EXCEPT !.untried = {}] = r
            BY DEF CallState
        <3>2. NewCall(EmptyKey, "all failed") \in CallState
            BY NewCallType DEF Keys
        <3>3. NewCall(EmptyKey, "all failed").untried = {}
            BY DEF NewCall
        <3>4. QED
            BY <2>2, <3>1, <3>2, <3>3
    <2>4. GoodCall(NewCall(EmptyKey, "all failed"))
        <3>1. EmptyKey \in Keys
            BY DEF Keys
        <3>2. QED
            BY <3>1, NewCallGood
    <2>5. QED
        BY <1>4, <2>3, <2>4 DEF FailedCall, untried
<1>5. CASE ~last
    <2> DEFINE t == [s EXCEPT !.attempt = @ + 1, !.untried = untried]
    <2>1. s.attempt \in Nat /\ s.attempt + 1 \in 1 .. Len(s.candidates)
        BY <1>1, <1>3, <1>5
    <2>n. s.attempt + 1 \in Nat
        BY <2>1
    <2> HIDE DEF untried
    <2>2. /\ t \in CallState
          /\ t.pc = s.pc /\ t.attempt = s.attempt + 1 /\ t.candidates = s.candidates
          /\ t.untried = untried /\ t.got = s.got /\ t.cold = s.cold
          /\ t.result = s.result
        BY <1>1, <1>2, <2>n DEF CallState
    <2> HIDE DEF t
    <2>3. ScanInv(t) /\ CandidatesInv(t) /\ ResultInv(t)
        BY <2>2 DEF GoodCall, ScanInv, CandidatesInv, ResultInv
    <2>4. untried \subseteq {s.candidates[i] : i \in s.attempt + 1 .. Len(s.candidates)}
        <3>1. SUFFICES ASSUME NEW h \in untried
                       PROVE  \E i \in s.attempt + 1 .. Len(s.candidates) : h = s.candidates[i]
            OBVIOUS
        <3>2. PICK i \in s.attempt .. Len(s.candidates) : h = s.candidates[i]
            BY <1>1 DEF untried
        <3>3. i # s.attempt
            BY <3>2 DEF untried
        <3>4. i \in s.attempt + 1 .. Len(s.candidates)
            BY <1>3, <2>1, <3>3
        <3>5. QED
            BY <3>2, <3>4
    <2>5. AheadInv(t)
        BY <2>1, <2>2, <2>4 DEF AheadInv
    <2>6. FailedCall(s) = t
        BY <1>5 DEF FailedCall, t, untried
    <2>7. QED
        BY <2>2, <2>3, <2>5, <2>6 DEF GoodCall
<1>6. QED
    BY <1>4, <1>5

\* A call's state stays good: only its own steps change it.
LEMMA CallStep ==
    ASSUME IndInv, [Next]_vars
    PROVE  call' \in [Callers -> CallState] /\ CallInv'
<1>1. TypeOK /\ call \in [Callers -> CallState] /\ \A c \in Callers : GoodCall(call[c])
    BY DEF IndInv, TypeOK, CallInv, GoodCall
<1>2. SUFFICES /\ call' \in [Callers -> CallState]
               /\ \A c \in Callers : GoodCall(call'[c])
    BY DEF CallInv, GoodCall
<1> DEFINE Goal == /\ call' \in [Callers -> CallState]
                   /\ \A c \in Callers : GoodCall(call'[c])
<1>3. ASSUME UNCHANGED call
      PROVE  Goal
    BY <1>1, <1>3
<1>4. ASSUME NEW c \in Callers, NEW s, GoodCall(s), call' = [call EXCEPT ![c] = s]
      PROVE  Goal
    <2>1. s \in CallState
        BY <1>4 DEF GoodCall
    <2>2. QED
        BY <1>1, <1>4, <2>1
<1> HIDE DEF Goal
<1>5. EmptyKey \in Keys
    BY DEF Keys
<1>6. ASSUME NEW c \in Callers, Traffic(c)
      PROVE  Goal
    <2>1. PICK key \in Keys : StartCall(c, key)
        <3>1. \A op \in Ops, cluster \in Clusters : HashKey(op, cluster) \in Keys
            BY DEF HashKey, Keys
        <3>2. QED
            BY <1>6, <3>1 DEF Traffic
    <2>2. QED
        BY <1>1, <1>4, <2>1, StartGood DEF StartCall
<1>7. ASSUME NEW c \in Callers, NEW h \in Hosts, AskNode(c, h)
      PROVE  Goal
    <2> DEFINE yes == Allowed(nodeMap[h].breaker)
               s == [call[c] EXCEPT !.todo = @ \ {h},
                                    !.got = IF yes THEN @ \cup {h} ELSE @,
                                    !.cold = IF yes THEN @ ELSE @ \ {h}]
    <2>1. call[c].pc = "scan" /\ call' = [call EXCEPT ![c] = s]
        BY <1>1, <1>7 DEF AskNode
    <2>2. yes \in BOOLEAN
        BY DEF Allowed
    <2> HIDE DEF yes
    <2>3. GoodCall(s)
        BY <1>1, <2>1, <2>2, AskGood
    <2> HIDE DEF s
    <2>4. QED
        BY <1>4, <2>1, <2>3
<1>8. ASSUME NEW c \in Callers, NoHost(c) \/ Succeed(c)
      PROVE  Goal
    BY <1>4, <1>5, <1>8, NewCallGood DEF NoHost, Succeed
<1>9. ASSUME NEW c \in Callers, Choose(c)
      PROVE  Goal
    <2>1. /\ call[c].pc = "scan" /\ call[c].got # {}
          /\ call' = [call EXCEPT ![c] = ChosenCall(call[c])]
        BY <1>1, <1>9 DEF Choose, ChosenCall
    <2>2. QED
        BY <1>1, <1>4, <2>1, ChooseGood
<1>10. ASSUME NEW c \in Callers, Fail(c)
       PROVE  Goal
    <2>1. /\ call[c].pc = "try"
          /\ call' = [call EXCEPT ![c] = FailedCall(call[c])]
        BY <1>1, <1>10 DEF Fail, Target, Exhausted, FailedCall
    <2>2. QED
        BY <1>1, <1>4, <2>1, FailGood
<1>11. ASSUME \/ \E answer \in SUBSET Hosts : DnsLookUp(answer)
              \/ Shutdown \/ Tick \/ \E h \in Hosts : Flip(h)
              \/ UNCHANGED vars
       PROVE  Goal
    BY <1>3, <1>11 DEF DnsLookUp, Shutdown, Tick, Flip, vars
<1>12. Goal
    BY <1>6, <1>7, <1>8, <1>9, <1>10, <1>11 DEF Next, Step
<1>13. QED
    BY <1>12 DEF Goal

LEMMA InvStep == IndInv /\ [Next]_vars => IndInv'
<1> SUFFICES ASSUME IndInv, [Next]_vars PROVE IndInv'
    OBVIOUS
<1>1. TypeOK
    BY DEF IndInv
<1>2. dnsLoop' \in BOOLEAN /\ up' \subseteq Hosts
    <2>1. dnsLoop \in BOOLEAN /\ up \subseteq Hosts
        BY <1>1 DEF TypeOK
    <2>2. CASE UNCHANGED <<dnsLoop, up>>
        BY <2>1, <2>2, SMTT(30)
    <2>3. ASSUME NEW c \in Callers, Step(c)
          PROVE  UNCHANGED <<dnsLoop, up>>
        BY <2>3 DEF Step, AskNode, NoHost, Choose, Succeed, Fail
    <2>4. ASSUME NEW c \in Callers, Traffic(c)
          PROVE  UNCHANGED <<dnsLoop, up>>
        <3>1. PICK key : StartCall(c, key)
            BY <2>4 DEF Traffic
        <3>2. QED
            BY <3>1 DEF StartCall
    <2>5. ASSUME Tick \/ (\E answer \in SUBSET Hosts : DnsLookUp(answer)) \/ UNCHANGED vars
          PROVE  UNCHANGED <<dnsLoop, up>>
        BY <2>5 DEF Tick, DnsLookUp, vars
    <2>6. CASE Shutdown
        BY <2>1, <2>6 DEF Shutdown
    <2>7. ASSUME NEW h \in Hosts, Flip(h)
          PROVE  dnsLoop' \in BOOLEAN /\ up' \subseteq Hosts
        BY <2>1, <2>7 DEF Flip
    <2>8. QED
        BY <2>2, <2>3, <2>4, <2>5, <2>6, <2>7 DEF Next
<1>4. /\ DOMAIN nodeMap' \subseteq Hosts
      /\ \A h \in DOMAIN nodeMap' : nodeMap'[h] \in Node
    BY <1>1, NodeMapType
<1>5. QED
    BY <1>2, <1>4, CallStep DEF IndInv, TypeOK, Known

LEMMA Invariance == Spec => []IndInv
    BY InitInv, InvStep, PTL DEF Spec

\* The state of the client keeps its shape: the breakers in the map are
\* breakers, and the candidates are a list of hosts.
THEOREM TypeCorrect == Spec => []TypeOK
<1>1. IndInv => TypeOK
    BY DEF IndInv
<1>2. QED
    BY <1>1, Invariance, PTL

\* A cold node is used only if the scan found no warm one that lets a call
\* through, with any number of calls under way while DNS answers, breakers
\* and ages change (service_discovery.go:194-208).
THEOREM WarmFirst == Spec => []ColdOnlyAsLastResort
<1>1. IndInv => ColdOnlyAsLastResort
    <2>1. SUFFICES ASSUME IndInv, NEW c \in Callers, NEW i \in DOMAIN call[c].candidates,
                          call[c].candidates[i] \in call[c].cold
                   PROVE  call[c].got \subseteq call[c].cold
        BY DEF ColdOnlyAsLastResort
    <2>2. ScanInv(call[c]) /\ CandidatesInv(call[c])
        BY <2>1, Zenon DEF IndInv, CallInv
    <2>3. call[c].pc = "try"
        BY <2>2, NoCandidates DEF ScanInv
    <2>4. call[c].candidates[i] \in Available(call[c].got, call[c].cold)
        BY <2>2, <2>3 DEF CandidatesInv, Covers
    <2>5. QED
        BY <2>1, <2>4 DEF Available
<1>2. QED
    BY <1>1, Invariance, PTL

\* Whatever the hash function and the key, the candidates of a call are all
\* the hosts its scan found available, if its attempts suffice for them
\* (service_discovery.go:217-229).
THEOREM KeyOrders == Spec => []KeyOnlyOrders
<1>1. IndInv => KeyOnlyOrders
    <2>1. SUFFICES ASSUME IndInv, NEW c \in Callers, call[c].pc = "try",
                          NEW available, available = Available(call[c].got, call[c].cold),
                          Cardinality(available) <= FailoverRetry + 1
                   PROVE  {call[c].candidates[i] : i \in DOMAIN call[c].candidates} = available
        BY DEF KeyOnlyOrders
    <2>2. Covers(call[c].candidates, available)
        BY <2>1, Zenon DEF IndInv, CallInv, CandidatesInv
    <2>3. QED
        BY <2>1, <2>2 DEF Covers
<1>2. QED
    BY <1>1, Invariance, PTL

\* A call that gives up has had a failure from every candidate, for every
\* number of candidates and of fail-overs (metadata_center.go:366-380).
THEOREM AllTried == Spec => []GivesUpOnlyWhenAllFailed
<1>1. IndInv => GivesUpOnlyWhenAllFailed
    BY DEF IndInv, CallInv, ResultInv, GivesUpOnlyWhenAllFailed
<1>2. QED
    BY <1>1, Invariance, PTL

\* No step, be it a DNS answer, a report, a scan or the clock, takes an open
\* breaker of a host that stays straight to closed (service_discovery.go:
\* 160-165; circuit_breaker.go:46-117).
THEOREM BreakersKept == Spec => LookupKeepsBreakers
<1> DEFINE Kept == \A h \in Hosts :
                      h \in Known /\ h \in DOMAIN nodeMap' /\ nodeMap[h].breaker.state = "open"
                        => nodeMap'[h].breaker.state # "closed"
<1>1. ASSUME TypeOK, [Next]_vars
      PROVE  Kept
    <2> SUFFICES ASSUME NEW h \in Hosts, h \in Known, h \in DOMAIN nodeMap',
                        nodeMap[h].breaker.state = "open"
                 PROVE  nodeMap'[h].breaker.state # "closed"
        OBVIOUS
    <2>a. nodeMap[h] \in Node /\ nodeMap[h].breaker \in Breaker
        BY <1>1 DEF TypeOK, Node
    <2>1. CASE UNCHANGED nodeMap
        BY <2>1
    <2>2. ASSUME NEW answer \in SUBSET Hosts, DnsLookUp(answer)
          PROVE  nodeMap'[h].breaker.state # "closed"
        BY <2>2 DEF DnsLookUp, LookedUp
    <2>3. ASSUME NEW c \in Callers, NEW g \in Hosts, AskNode(c, g)
          PROVE  nodeMap'[h].breaker.state # "closed"
        BY <2>3, <2>a, BreakerFacts DEF AskNode, Known, Node
    <2>4. ASSUME NEW g, NEW ok \in BOOLEAN, nodeMap' = Reported(g, ok)
          PROVE  nodeMap'[h].breaker.state # "closed"
        BY <2>4, <2>a, BreakerFacts DEF Reported, Known, Node
    <2>5. ASSUME Tick
          PROVE  nodeMap'[h].breaker.state # "closed"
        BY <2>5, <2>a, BreakerFacts DEF Tick, Known
    <2>6. ASSUME NEW c \in Callers, Succeed(c) \/ Fail(c)
          PROVE  \E g : \E ok \in BOOLEAN : nodeMap' = Reported(g, ok)
        BY <2>6 DEF Succeed, Fail
    <2>7. ASSUME NEW c \in Callers, Traffic(c) \/ NoHost(c) \/ Choose(c)
          PROVE  UNCHANGED nodeMap
        <3>1. Traffic(c) => \E key : StartCall(c, key)
            BY DEF Traffic
        <3>2. QED
            BY <2>7, <3>1 DEF StartCall, NoHost, Choose
    <2>8. ASSUME Shutdown \/ (\E g \in Hosts : Flip(g)) \/ UNCHANGED vars
          PROVE  UNCHANGED nodeMap
        BY <2>8 DEF Shutdown, Flip, vars
    <2>9. QED
        BY <1>1, <2>1, <2>2, <2>3, <2>4, <2>5, <2>6, <2>7, <2>8 DEF Next, Step
<1>2. TypeOK /\ [Next]_vars => [Kept]_vars
    BY <1>1
<1>3. QED
    BY <1>2, TypeCorrect, PTL DEF Spec, LookupKeepsBreakers
=============================================================================
