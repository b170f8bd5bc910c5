----------------------------- MODULE InferenceLB -----------------------------
(***************************************************************************)
(* The inference load balancer: how a request's settings, the load and the *)
(* KV-cache hits the metadata center reports become the set of hosts one   *)
(* of which is picked at random.                                           *)
(*                                                                         *)
(* A load answer maps IPs to counts, a cache answer is a list of locations *)
(* with the length of the prefix matched there, in chunks of the prompt;   *)
(* QueryError is what a query that failed answers.  Scores are kept as     *)
(* integers: the code's floating-point score times the product of its      *)
(* denominators.                                                           *)
(***************************************************************************)
EXTENDS Integers, Sequences, FiniteSets, FiniteSetsExt

QueryError == [err |-> TRUE]

IsLoadAnswer(answer) ==
    answer # QueryError =>
        \A ip \in DOMAIN answer : answer[ip] \in [QueuedReqNum : Int, PromptLength : Int]

IsCacheAnswer(answer) ==
    answer # QueryError => answer.Locations \in Seq([Ip : STRING, Length : Int])

-----------------------------------------------------------------------------
\* Settings.

\* strconv.ParseBool of an environment variable, "bad" standing for what it
\* does not parse.
EnvBool(value, default) == IF value \in {"", "bad"} THEN default ELSE value = "true"

\* utils.go, IsMetaDataCenterEnable: a value that does not parse returns
\* before the host is looked at.
IsMetaDataCenterEnable(env) ==
    env.enable = "bad" \/ (EnvBool(env.enable, TRUE) /\ env.host)

\* The cache switch is read only on the way through with a host.
IsMetaDataCenterCacheEnable(env) ==
    env.enable # "bad" /\ IsMetaDataCenterEnable(env) => EnvBool(env.cache, TRUE)

\* What ChooseHost finds in its context: the model's LBConfig, put there by
\* setLoadBalanceConfig, or else the defaults of the process.
LBContext(lbConfig, nil, env) ==
    IF lbConfig # nil THEN lbConfig
    ELSE [ LoadAwareEnable   |-> IsMetaDataCenterEnable(env),
           CacheAwareEnable  |-> IsMetaDataCenterCacheEnable(env),
           CandidatePercent  |-> env.percent,
           RequestLoadWeight |-> 1,
           PrefillLoadWeight |-> 3,
           CacheRadioWeight  |-> 2 ]

\* Mutant: no lower bound of one host.
CandidateNumFloored(percent, n) == Min({(n * percent) \div 100, n})

\* At least 1, at most all.
candidateNum(percent, n) == Min({Max({1, (n * percent) \div 100}), n})

-----------------------------------------------------------------------------
\* What the metadata center's answers are turned into.

\* Mutant: a negative prompt length is kept.
KeptPromptLength(len) == len

\* metadata_center.go, QueryLoad: negative prompt lengths are clamped,
\* negative request counts are not.
revisePromptLength(len) == IF len < 0 THEN 0 ELSE len

QueryLoad(answer) ==
    [ ip \in DOMAIN answer |->
        [ TotalReqs    |-> answer[ip].QueuedReqNum,
          PromptLength |-> revisePromptLength(answer[ip].PromptLength) ] ]

ZeroStats == [TotalReqs |-> 0, PromptLength |-> 0]

\* No statistics: for want of hosts, of load awareness or of an answer.
NoStats == <<>>

\* getEndpointStatsByClusterName: a host nobody reports on has no load.
EndpointStats(stats, hosts) ==
    [ h \in hosts |-> IF h.ip \in DOMAIN stats THEN stats[h.ip] ELSE ZeroStats ]

\* ChooseHost of the load balancer asks for the load only if the model is
\* load aware.
ClusterStats(ctx, answer, hosts) ==
    IF ctx.LoadAwareEnable /\ answer # QueryError
    THEN EndpointStats(QueryLoad(answer), hosts) ELSE NoStats

\* cache_hash.go: one cumulative hash per chunk of the prompt, the last one
\* possibly shorter.  A hash is identified with the text it covers.
PromptToHash(prompt) == [ i \in DOMAIN prompt |-> SubSeq(prompt, 1, i) ]

\* QueryKVCache: the locations, none if the query failed.
QueryKVCache(answer) == IF answer = QueryError THEN <<>> ELSE answer.Locations

\* getEndpointCacheStats: of several locations with one IP the last counts;
\* without cache awareness or a hash nothing is asked and no host has
\* anything cached.
CacheHitLength(ctx, promptHash, answer, hosts) ==
    LET locations == IF ctx.CacheAwareEnable /\ promptHash # <<>>
                     THEN QueryKVCache(answer) ELSE <<>>
        At(ip) == { i \in DOMAIN locations : locations[i].Ip = ip }
    IN  [ h \in hosts |-> IF At(h.ip) = {} THEN 0 ELSE locations[Max(At(h.ip))].Length ]

-----------------------------------------------------------------------------
\* mergeEndpointsStatsWrapperCacheStats.

MaxQueueSize(load) == Max({0} \cup { load[h].TotalReqs : h \in DOMAIN load })
MinQueueSize(load) == Min({ load[h].TotalReqs : h \in DOMAIN load })
MaxPromptLength(load) == Max({1024} \cup { load[h].PromptLength : h \in DOMAIN load })

Delta(load) == Max({2, MaxQueueSize(load) - MinQueueSize(load)})

\* RequestLoad times Delta, and PrefillLoad times MaxPromptLength.
RequestLoad(load) == LET least == MinQueueSize(load)
                     IN  [ h \in DOMAIN load |-> load[h].TotalReqs - least ]
PrefillLoad(load) == [ h \in DOMAIN load |-> load[h].PromptLength ]

CeilDiv(a, b) == (a + b - 1) \div b

\* Mutant: the request load counts in a host's favour.
ScoreSigned(ctx, load, hit, chunks) ==
    LET d == Delta(load)
        p == MaxPromptLength(load)
        q == RequestLoad(load)
    IN  [ h \in DOMAIN load |->
            ctx.CacheRadioWeight * hit[h] * d * p
            + ctx.RequestLoadWeight * CeilDiv(d, 5) * q[h] * chunks * p
            - ctx.PrefillLoadWeight * load[h].PromptLength * chunks * d ]

\* score = W1 * cache_ratio - W2 * request_load - W3 * prefill_load, times
\* chunks * Delta * MaxPromptLength.
Score(ctx, load, hit, chunks) ==
    LET d == Delta(load)
        p == MaxPromptLength(load)
        requestLoad == RequestLoad(load)
        prefillLoad == PrefillLoad(load)
        requestLoadWeight == ctx.RequestLoadWeight * CeilDiv(d, 5)
    IN  [ h \in DOMAIN load |->
            ctx.CacheRadioWeight * hit[h] * d * p
            - requestLoadWeight * requestLoad[h] * chunks * p
            - ctx.PrefillLoadWeight * prefillLoad[h] * chunks * d ]

\* The first n after sorting by descending score: slices.SortFunc leaves
\* hosts of equal score in any order.
TopHosts(hosts, score, n) ==
    { C \in SUBSET hosts :
        /\ Cardinality(C) = n
        /\ \A c \in C, o \in hosts \ C : score[c] >= score[o] }

\* GetCandidateByStats: the candidate sets it may return.
GetCandidateByStats(ctx, load, hit, chunks) ==
    TopHosts(DOMAIN load, Score(ctx, load, hit, chunks),
             candidateNum(ctx.CandidatePercent, Cardinality(DOMAIN load)))

\* ChooseHost of the load balancer: the hosts it may return.  Without load
\* statistics every host is a candidate; nothing in the gateway puts a
\* selector into the context.
LBChooseHost(ctx, hosts, load, hit, promptHash) ==
    IF load = NoStats THEN hosts
    ELSE UNION GetCandidateByStats(ctx, load, hit, Max({1, Len(promptHash)}))
=============================================================================
