----------------------------- MODULE MetaClient -----------------------------
(***************************************************************************)
(* The metadata-center client: ServiceDiscovery's node map, kept by the    *)
(* DNS loop, and the calls of doRequestWithRetry that pick candidates from *)
(* it, fail over from one to the next and report each outcome back to the  *)
(* breaker of the endpoint, if the endpoint is still in the map then.      *)
(*                                                                         *)
(* sd.mutex: a scan of the map holds the read lock, so the DNS loop waits  *)
(* for it, but reports and other scans go on between its Allow() calls.    *)
(* A report looks its node up and records on it; recording on a node that  *)
(* is being removed has no effect, so the two are one step.                *)
(***************************************************************************)
EXTENDS CircuitBreaker, Sequences, FiniteSets

CONSTANTS
    Hosts,            \* endpoint addresses, ordered as sort.Strings does
    Callers,          \* goroutines that call doRequestWithRetry
    Clusters,         \* cluster names
    EmptyKey,         \* the hash key ""
    Hash,             \* hashKey: FNV-1a of a key, any function to Nat
    FailoverRetry,    \* AIGW_META_MAX_FAILOVER_RETRY
    ColdStartDelay    \* ticks a node found by DNS counts as cold

Keys == Clusters \cup {EmptyKey}

ASSUME ClientConfig ==
    /\ Hosts \subseteq Nat /\ IsFiniteSet(Hosts)
    /\ EmptyKey \notin Clusters
    /\ Hash \in [Keys -> Nat]
    /\ FailoverRetry \in Nat
    /\ ColdStartDelay \in Nat

VARIABLES
    dnsLoop,    \* the DNS loop runs
    nodeMap,    \* the nodes known: a function on a subset of Hosts
    up,         \* hosts that answer 200 within the timeout
    call        \* per caller: its doRequestWithRetry

vars == <<dnsLoop, nodeMap, up, call>>

Node == [breaker : Breaker, age : 0 .. ColdStartDelay]

Known == DOMAIN nodeMap

CallState ==
    [ pc : {"idle", "scan", "try"},
      key : Keys,               \* the hash key; not kept once it is used
      todo : SUBSET Hosts,      \* nodes the scan has still to ask
      cold : SUBSET Hosts,      \* of these and got: cold at the scan's "now"
      got : SUBSET Hosts,       \* nodes whose breaker said yes
      candidates : UNION {[1 .. n -> Hosts] : n \in 0 .. Cardinality(Hosts)},
      attempt : Nat,
      untried : SUBSET Hosts,   \* history: candidates not reported as failed
      result : {"none", "ok", "no host", "all failed"} ]

TypeOK ==
    /\ dnsLoop \in BOOLEAN
    /\ Known \subseteq Hosts /\ \A h \in Known : nodeMap[h] \in Node
    /\ up \subseteq Hosts
    /\ call \in [Callers -> CallState]

Fresh == [breaker |-> NewCircuitBreaker, age |-> 0]

\* initStaticHost switches the cold start off: its node is born warm.
Static == [breaker |-> NewCircuitBreaker, age |-> ColdStartDelay]

NewCall(key, result) ==
    [ pc |-> "idle", key |-> key, todo |-> {}, cold |-> {}, got |-> {},
      candidates |-> <<>>, attempt |-> 0, untried |-> {}, result |-> result ]

\* NewSimpleService: an IP is the one node; a name, which needs the DNS loop,
\* and an empty host leave the map empty.
Init ==
    /\ \/ dnsLoop = FALSE /\ \E h \in Hosts : nodeMap = [g \in {h} |-> Static]
       \/ dnsLoop \in BOOLEAN /\ nodeMap = [g \in {} |-> Fresh]
    /\ up \in SUBSET Hosts
    /\ call = [c \in Callers |-> NewCall(EmptyKey, "none")]

-----------------------------------------------------------------------------
\* Mutant: nodes DNS knows already start anew as well.
LookedUpAnew(answer) == [h \in answer |-> Fresh]

\* dnsLookUp's effect on the map: keep, add and remove.
LookedUp(answer) ==
    [h \in answer |-> IF h \in Known THEN nodeMap[h] ELSE Fresh]

\* dnsLookUp got an answer (a failed lookup changes nothing).
DnsLookUp(answer) ==
    /\ dnsLoop
    /\ \A c \in Callers : call[c].pc # "scan"
    /\ nodeMap' = LookedUp(answer)
    /\ UNCHANGED <<dnsLoop, up, call>>

\* Shutdown closes stopCh and the loop ends.
Shutdown ==
    /\ dnsLoop
    /\ dnsLoop' = FALSE
    /\ UNCHANGED <<nodeMap, up, call>>

-----------------------------------------------------------------------------
IsCold(h) == ColdStartDelay > 0 /\ nodeMap[h].age < ColdStartDelay

Ops == {"AddRequest", "DeleteRequest", "DeleteRequestPrompt", "QueryLoad",
        "QueryKVCache", "SaveKVCache"}

\* The hash key each operation gives its task: DeleteRequest and
\* DeleteRequestPrompt build an InferenceRequest without a cluster and then
\* use its Cluster.
HashKey(op, cluster) ==
    IF op \in {"DeleteRequest", "DeleteRequestPrompt"} THEN EmptyKey ELSE cluster

\* doRequestWithRetry, for an operation with this hash key, calls GetHosts,
\* which takes the read lock and "now".
StartCall(c, key) ==
    /\ call[c].pc = "idle"
    /\ call' = [call EXCEPT ![c] =
                   [NewCall(key, "none") EXCEPT
                       !.pc = "scan", !.todo = Known,
                       !.cold = {h \in Known : IsCold(h)}]]
    /\ UNCHANGED <<dnsLoop, nodeMap, up>>

\* One turn of GetAvailableHosts' loop: Allow() on the node's breaker.
AskNode(c, h) ==
    /\ call[c].pc = "scan" /\ h \in call[c].todo
    /\ nodeMap' = [nodeMap EXCEPT ![h].breaker = AfterAllow(@)]
    /\ call' = [call EXCEPT
                   ![c].todo = @ \ {h},
                   ![c].got = IF Allowed(nodeMap[h].breaker) THEN @ \cup {h} ELSE @,
                   ![c].cold = IF Allowed(nodeMap[h].breaker) THEN @ ELSE @ \ {h}]
    /\ UNCHANGED <<dnsLoop, up>>

\* Mutant: cold nodes are not told apart.
AvailableAll(got, cold) == got

\* The end of GetAvailableHosts: the warm ones, or failing those the cold.
Available(got, cold) == IF got \ cold # {} THEN got \ cold ELSE got

\* The k-th host, from 0, of hosts sorted.
Nth(hosts, k) ==
    CHOOSE h \in hosts : Cardinality({g \in hosts : g < h}) = k

\* Mutant: the index does not wrap round.
ChosenToTheEnd(hosts, key, num) ==
    LET len == Cardinality(hosts)
        idx == Hash[key] % len
        n   == IF len - idx < num THEN len - idx ELSE num
    IN  [i \in 1 .. n |-> Nth(hosts, idx + i - 1)]

\* GetHosts after the scan: num hosts from the key's index on, wrapping round.
Chosen(hosts, key, num) ==
    LET len == Cardinality(hosts)
        n   == IF len < num THEN len ELSE num
        idx == Hash[key] % len
    IN  [i \in 1 .. n |-> Nth(hosts, (idx + i - 1) % len)]

\* The scan is over and found no node to use.
NoHost(c) ==
    /\ call[c].pc = "scan" /\ call[c].todo = {} /\ call[c].got = {}
    /\ call' = [call EXCEPT ![c] = NewCall(EmptyKey, "no host")]
    /\ UNCHANGED <<dnsLoop, nodeMap, up>>

\* The scan is over: GetHosts returns the candidates.
Choose(c) ==
    /\ call[c].pc = "scan" /\ call[c].todo = {} /\ call[c].got # {}
    /\ LET chosen == Chosen(Available(call[c].got, call[c].cold),
                            call[c].key, FailoverRetry + 1)
       IN  call' = [call EXCEPT
              ![c].pc = "try", ![c].attempt = 1, ![c].key = EmptyKey,
              ![c].candidates = chosen,
              ![c].untried = {chosen[i] : i \in DOMAIN chosen}]
    /\ UNCHANGED <<dnsLoop, nodeMap, up>>

Target(c) == call[c].candidates[call[c].attempt]

\* The map after ReportSuccess (ok) or ReportFailure of host h.  A host that
\* has left the map is reported to nobody.
Reported(h, ok) ==
    IF h \in Known
    THEN [nodeMap EXCEPT ![h].breaker = IF ok THEN RecordSuccess(@)
                                              ELSE RecordFailure(@)]
    ELSE nodeMap

\* The attempt got its answer: ReportSuccess, and the call returns.
Succeed(c) ==
    /\ call[c].pc = "try" /\ Target(c) \in up
    /\ nodeMap' = Reported(Target(c), TRUE)
    /\ call' = [call EXCEPT ![c] = NewCall(EmptyKey, "ok")]
    /\ UNCHANGED <<dnsLoop, up>>

\* Mutant: the last candidate is never tried.
ExhaustedEarly(c) == call[c].attempt + 1 >= Len(call[c].candidates)

Exhausted(c) == call[c].attempt = Len(call[c].candidates)

\* The attempt failed or timed out: ReportFailure, and on to the next
\* candidate if there is one.
Fail(c) ==
    /\ call[c].pc = "try" /\ Target(c) \notin up
    /\ nodeMap' = Reported(Target(c), FALSE)
    /\ LET untried == call[c].untried \ {Target(c)}
       IN  call' = [call EXCEPT ![c] =
              IF Exhausted(c)
              THEN [NewCall(EmptyKey, "all failed") EXCEPT !.untried = untried]
              ELSE [call[c] EXCEPT !.attempt = @ + 1, !.untried = untried]]
    /\ UNCHANGED <<dnsLoop, up>>

-----------------------------------------------------------------------------
\* Time passes for the breakers and the cold nodes.
Tick ==
    /\ nodeMap' = [h \in Known |->
          [ breaker |-> Aged(nodeMap[h].breaker),
            age |-> IF nodeMap[h].age < ColdStartDelay THEN nodeMap[h].age + 1
                                                       ELSE ColdStartDelay ]]
    /\ nodeMap' # nodeMap
    /\ UNCHANGED <<dnsLoop, up, call>>

\* An endpoint fails or comes back.
Flip(h) ==
    /\ up' = IF h \in up THEN up \ {h} ELSE up \cup {h}
    /\ UNCHANGED <<dnsLoop, nodeMap, call>>

Traffic(c) ==
    \E key \in {HashKey(op, cluster) : op \in Ops, cluster \in Clusters} :
        StartCall(c, key)

Step(c) ==
    \/ \E h \in Hosts : AskNode(c, h)
    \/ NoHost(c)
    \/ Choose(c)
    \/ Succeed(c)
    \/ Fail(c)

Next ==
    \/ \E answer \in SUBSET Hosts : DnsLookUp(answer)
    \/ Shutdown
    \/ \E c \in Callers : Traffic(c)
    \/ \E c \in Callers : Step(c)
    \/ Tick
    \/ \E h \in Hosts : Flip(h)

Spec == Init /\ [][Next]_vars

\* Calls that have started run on, traffic goes on and time passes.
Fairness ==
    /\ WF_vars(Tick)
    /\ \A c \in Callers : /\ WF_vars(Step(c))
                          /\ WF_vars(Traffic(c))

FairSpec == Spec /\ Fairness

-----------------------------------------------------------------------------

\* A cold node is used only if no warm node's breaker let the call through,
\* as learning/index.md:483 says (service_discovery.go:194-208).
ColdOnlyAsLastResort ==
    \A c \in Callers : \A i \in DOMAIN call[c].candidates :
        call[c].candidates[i] \in call[c].cold
            => call[c].got \subseteq call[c].cold

\* A call gives up only after each of its candidates has failed and has been
\* reported (metadata_center.go:366-380).
GivesUpOnlyWhenAllFailed ==
    \A c \in Callers : call[c].result = "all failed" => call[c].untried = {}

\* A DNS answer that still lists a host does not forgive it: an endpoint that
\* is cut off and stays in the map never goes back to closed in one step, be
\* it a lookup, a report or time passing, so it is closed again only by way
\* of the half-open probes (service_discovery.go:160-165).
LookupKeepsBreakers ==
    [][\A h \in Hosts :
          h \in Known /\ h \in DOMAIN nodeMap' /\ nodeMap[h].breaker.state = "open"
            => nodeMap'[h].breaker.state # "closed"]_vars

\* With no more endpoints than candidates, one endpoint that stays in the map
\* and stays up is in the end enough: no call fails any more for want of a
\* host or because all its candidates failed, whatever the other endpoints
\* and their breakers do.
OneGoodHostIsEnough ==
    \A h \in Hosts :
        <>[](h \in Known /\ h \in up)
            => <>[](\A c \in Callers : call[c].result \in {"none", "ok"})

\* The key decides which host a call starts from, not which it works
\* through: with no more hosts available than attempts, every host that the
\* scan found available is a candidate.  So the reports about one request,
\* which AddRequest hashes by another key than the two deletes, still reach
\* the same nodes if the first ones fail (service_discovery.go:217-229;
\* metadata_center.go:203, 230, 264).
KeyOnlyOrders ==
    \A c \in Callers :
        LET available == Available(call[c].got, call[c].cold)
            candidates == {call[c].candidates[i] : i \in DOMAIN call[c].candidates}
        IN  call[c].pc = "try" /\ Cardinality(available) <= FailoverRetry + 1
            => candidates = available
=============================================================================
