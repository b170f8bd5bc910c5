------------------------------- MODULE Routing -------------------------------
(***************************************************************************)
(* The way of a request from DecodeRequest to its upstream host, composed  *)
(* of the configuration it is decoded with (GatewayConfig), the cluster    *)
(* manager, whose clusters are created on first use and updated by the     *)
(* provider, and the load balancer of its cluster (InferenceLB).           *)
(*                                                                         *)
(* Requests run concurrently.  ChooseHost of the cluster manager is split  *)
(* at its lock and between the calls it makes; the provider pushes changes *)
(* at any time, once it is watched.  The static provider is the case       *)
(* MaxChanges = 0.                                                         *)
(***************************************************************************)
EXTENDS GatewayConfig, InferenceLB

CONSTANTS
    Requests,       \* requests under way at the same time
    NoRequest,      \* "nobody holds the lock"
    Inputs,         \* what a client may ask: model, headers, wellFormed
    Configs,        \* configurations that may be pushed
    Envs,           \* settings of the process's environment
    Answers,        \* what the metadata center may answer: load, cache
    Provided,       \* the provider's clusters at the start: name -> hosts
    HostSets,       \* host sets a change may bring
    MaxChanges,     \* bound: changes of a cluster's endpoints
    MaxPushes,      \* bound: configurations pushed
    Prompt          \* the prompt all requests carry, a sequence of chunks

ASSUME RoutingConstants ==
    /\ NoRequest \notin Requests
    /\ MaxChanges \in Nat /\ MaxPushes \in Nat
    /\ \A c \in Configs : IsConfig(c)
    /\ \A e \in Envs : e.percent \in Int
    /\ \A a \in Answers : IsLoadAnswer(a.load) /\ IsCacheAnswer(a.cache)
    /\ \A c \in DOMAIN Provided : IsFiniteSet(Provided[c])
    /\ \A hosts \in HostSets : IsFiniteSet(hosts)
    /\ Prompt \in Seq(STRING)

\* RegisterLbType has been called for one type only; RoundRobin, which
\* CreateLbByType falls back to, is not among them.
LbFactories == {"inference_lb"}

Protocols == {"openai"}

VARIABLES
    cfg,            \* the configuration new filters get
    pushes, changes,
    env, answers,   \* fixed for a behaviour
    info,           \* the provider: cluster name -> hosts
    watched,        \* clusters under WatchCluster
    clusters,       \* Manager.clusters: name -> hosts and LB instances
    mux,            \* who holds Manager.mux
    req,            \* per request: its state
    raced           \* history: clusters changed while being created

static  == <<env, answers>>
config  == <<cfg, pushes>>
manager == <<info, changes, watched, clusters, raced>>

vars == <<cfg, pushes, changes, env, answers, info, watched, clusters, mux, req, raced>>

NoConfig == [nil |-> TRUE]
NoInput == [nil |-> TRUE]
NoHost == [nil |-> TRUE]
NoData == [nil |-> TRUE]

Idle == [ pc |-> "idle", in |-> NoInput, cfg |-> NoConfig, hosts |-> {},
          data |-> NoData, load |-> NoStats, hit |-> <<>>, host |-> NoHost, out |-> "" ]

Init ==
    /\ cfg = NoConfig /\ pushes = 0 /\ changes = 0
    /\ env \in Envs /\ answers \in Answers
    /\ info = Provided /\ watched = {} /\ clusters = <<>> /\ raced = {}
    /\ mux = NoRequest
    /\ req = [ r \in Requests |-> Idle ]

-----------------------------------------------------------------------------
\* Configuration: Validate, Parse and Init; what one of them refuses changes
\* nothing for the requests to come.
PushConfig(c) ==
    /\ pushes < MaxPushes
    /\ pushes' = pushes + 1
    /\ IF Validate(c) /\ Parse(c) THEN cfg' \in InitConfig(c) ELSE UNCHANGED cfg
    /\ UNCHANGED <<changes, static, info, watched, clusters, mux, req, raced>>

-----------------------------------------------------------------------------
\* The request's own data.

ClusterOf(r) == Cluster(req[r].data)
LBConfigOf(r) == FindLbMappingRule(req[r].cfg, req[r].data.ModelName)

\* metadata_center.go, isModelCacheAwareEnable: on unless configured off.
FilterCacheAware(r) == LBConfigOf(r) = NoLBConfig \/ LBConfigOf(r).CacheAwareEnable

\* PromptDataHash and setPromptsContext.
PromptHash(r) == IF FilterCacheAware(r) THEN PromptToHash(Prompt) ELSE <<>>

\* initLoadBalanceContext and setLoadBalanceConfig.
Context(r) == LBContext(LBConfigOf(r), NoLBConfig, env)

\* r leaves ChooseHost or DecodeRequest with an answer of the filter's own.
Refuse(r, code) ==
    /\ req' = [req EXCEPT ![r].pc = "done", ![r].out = code]

\* A map with one entry more, or with a new value for one.
Put(map, key, value) ==
    [k \in DOMAIN map \cup {key} |-> IF k = key THEN value ELSE map[k]]

\* Mutant: the lock is kept.
KeepLock(r) == UNCHANGED mux

\* The deferred Unlock.
Unlock(r) == mux' = IF mux = r THEN NoRequest ELSE mux

-----------------------------------------------------------------------------
\* filter.go, DecodeRequest up to ChooseServer: no transcoder for the
\* protocol, a body that is no chat request, an unknown model, no rule.
DecodeRequest(r, in) ==
    /\ req[r].pc = "idle" /\ cfg # NoConfig
    /\ LET data == GetRequestData(cfg, in)
           err  == IF cfg.Protocol \notin Protocols THEN "400" ELSE data.err
       IN  req' = [req EXCEPT ![r] = [@ EXCEPT
                      !.in = in, !.cfg = cfg, !.data = data, !.out = err,
                      !.pc = IF err = "" THEN "load" ELSE "done"]]
    /\ UNCHANGED <<config, manager, static, mux>>

Stored(r) == ClusterOf(r) \in DOMAIN clusters

Go(r, place) == req' = [req EXCEPT ![r].pc = place]

\* Manager.ChooseHost: the lookup without the lock.
LoadCluster(r) ==
    /\ req[r].pc = "load"
    /\ Go(r, IF Stored(r) THEN "next" ELSE "lock")
    /\ UNCHANGED <<config, manager, static, mux>>

\* Mutant: the cluster is not looked up again.
AfterLockCreate(r) == "create"

\* Get again after lock.
AfterLock(r) == IF Stored(r) THEN "next" ELSE "create"

LockManager(r) ==
    /\ req[r].pc = "lock" /\ mux = NoRequest
    /\ mux' = r
    /\ Go(r, AfterLock(r))
    /\ UNCHANGED <<config, manager, static>>

\* The provider's answer; no endpoints for a cluster it does not know.
Endpoints(c) == IF c \in DOMAIN info THEN info[c] ELSE {}

\* GetClusterInfo: unknown to the provider, or without endpoints ...
NoClusterInfo(r) ==
    /\ req[r].pc = "create"
    /\ Endpoints(ClusterOf(r)) = {}
    /\ Refuse(r, "404")
    /\ Unlock(r)
    /\ UNCHANGED <<config, manager, static>>

\* ... or known: newCluster.
GetClusterInfo(r) ==
    /\ req[r].pc = "create"
    /\ Endpoints(ClusterOf(r)) # {}
    /\ req' = [req EXCEPT ![r].pc = "watch", ![r].hosts = Endpoints(ClusterOf(r))]
    /\ UNCHANGED <<config, manager, static, mux>>

\* Mutant: UpdateCluster replaces the hosts and keeps the old balancer.
UpdateServersHostsOnly(c, hosts) ==
    IF c \in DOMAIN clusters
    THEN [clusters EXCEPT ![c].hosts = hosts] ELSE clusters

\* Manager.updateServers and UpdateCluster: every LB instance gets the new
\* hosts; the hosts kept for further instances stay.  A cluster that is not
\* stored is ignored.
updateServers(c, hosts) ==
    IF c \in DOMAIN clusters
    THEN [clusters EXCEPT ![c].lbs = [t \in DOMAIN @ |-> hosts]] ELSE clusters

\* WatchCluster: the provider notifies at once of what it has.
WatchCluster(r) ==
    LET c == ClusterOf(r)
    IN  /\ req[r].pc = "watch"
        /\ watched' = watched \cup {c}
        /\ clusters' = updateServers(c, Endpoints(c))
        /\ Go(r, "store")
        /\ UNCHANGED <<config, static, info, changes, mux, raced>>

\* newCluster and NewClusterManager: no LB instance yet.
NewCluster(hosts) == [hosts |-> hosts, lbs |-> <<>>]

StoreCluster(r) ==
    /\ req[r].pc = "store"
    /\ clusters' = Put(clusters, ClusterOf(r), NewCluster(req[r].hosts))
    /\ Go(r, "next")
    /\ UNCHANGED <<config, static, info, changes, watched, mux, raced>>

\* NextServer and GetCluster: CreateLbByType knows no such type ...
NoLoadBalancer(r) ==
    /\ req[r].pc = "next"
    /\ req[r].cfg.Algorithm \notin LbFactories
    /\ Refuse(r, "404")
    /\ Unlock(r)
    /\ UNCHANGED <<config, manager, static>>

\* ... or the instance is there or is made from the cluster's hosts.
GetCluster(r) ==
    LET c == ClusterOf(r)
        t == req[r].cfg.Algorithm
        lbs == IF t \in DOMAIN clusters[c].lbs THEN clusters[c].lbs
               ELSE Put(clusters[c].lbs, t, clusters[c].hosts)
    IN  /\ req[r].pc = "next" /\ t \in LbFactories
        /\ clusters' = [clusters EXCEPT ![c].lbs = lbs]
        /\ req' = [req EXCEPT ![r].pc = "query", ![r].hosts = lbs[t]]
        /\ UNCHANGED <<config, static, info, changes, watched, mux, raced>>

\* The balancer asks the metadata center for loads and cache hits ...
QueryStats(r) ==
    LET ctx == Context(r)
        hosts == req[r].hosts
    IN  /\ req[r].pc = "query"
        /\ req' = [req EXCEPT ![r] = [@ EXCEPT
                      !.pc = "choose", !.load = ClusterStats(ctx, answers.load, hosts),
                      !.hit = CacheHitLength(ctx, PromptHash(r), answers.cache, hosts)]]
        /\ UNCHANGED <<config, manager, static, mux>>

Candidates(r) ==
    LBChooseHost(Context(r), req[r].hosts, req[r].load, req[r].hit, PromptHash(r))

\* ... and picks one of its candidates; without any NextServer fails.
PickHost(r) ==
    /\ req[r].pc = "choose"
    /\ IF Candidates(r) = {} THEN Refuse(r, "404")
       ELSE \E h \in Candidates(r) :
               req' = [req EXCEPT ![r].pc = "override", ![r].host = h]
    /\ Unlock(r)
    /\ UNCHANGED <<config, manager, static>>

\* ChooseServer: SetUpstreamOverrideHost, which Envoy may refuse.
OverrideHost(r, ok) ==
    /\ req[r].pc = "override"
    /\ Refuse(r, IF ok THEN "200" ELSE "404")
    /\ UNCHANGED <<config, manager, static, mux>>

\* Is cluster c on its way from GetClusterInfo to its first LB instance?
UnderCreation(c) ==
    \/ \E r \in Requests : req[r].pc \in {"watch", "store"} /\ ClusterOf(r) = c
    \/ c \in DOMAIN clusters /\ DOMAIN clusters[c].lbs = {}

\* The provider learns of other endpoints and notifies the watcher.
ChangeEndpoints(c, hosts) ==
    /\ changes < MaxChanges /\ hosts # info[c]
    /\ changes' = changes + 1
    /\ info' = [info EXCEPT ![c] = hosts]
    /\ clusters' = IF c \in watched THEN updateServers(c, hosts) ELSE clusters
    /\ raced' = IF UnderCreation(c) THEN raced \cup {c} ELSE raced \ {c}
    /\ UNCHANGED <<config, static, watched, mux, req>>

-----------------------------------------------------------------------------
Step(r) ==
    \/ LoadCluster(r)
    \/ LockManager(r)
    \/ NoClusterInfo(r)
    \/ GetClusterInfo(r)
    \/ WatchCluster(r)
    \/ StoreCluster(r)
    \/ NoLoadBalancer(r)
    \/ GetCluster(r)
    \/ QueryStats(r)
    \/ PickHost(r)
    \/ \E ok \in BOOLEAN : OverrideHost(r, ok)

Next ==
    \/ \E c \in Configs : PushConfig(c)
    \/ \E r \in Requests : Step(r) \/ \E in \in Inputs : DecodeRequest(r, in)
    \/ \E c \in DOMAIN Provided, hosts \in HostSets : ChangeEndpoints(c, hosts)

Spec == Init /\ [][Next]_vars

\* A goroutine that can go on does; the metadata center's queries have
\* timeouts, so asking it does not hold a request up for good.
FairSpec == Spec /\ \A r \in Requests : WF_vars(Step(r))

-----------------------------------------------------------------------------

Decoded(r) == req[r].in # NoInput /\ req[r].in.wellFormed

\* The rule a request is routed by is one it matches and, whatever order
\* sorting left rules of equally many headers in, none it matches asks for
\* more headers; a model's request is refused for want of a rule only if it
\* matches none (config.go:38-42, 200-225).
MostSpecificRule ==
    \A r \in Requests : Decoded(r) /\ req[r].in.model \in DOMAIN req[r].cfg.ModelMappings =>
        LET tuples   == req[r].cfg.ModelMappings[req[r].in.model]
            matching == { i \in DOMAIN tuples : Range(tuples[i].Headers) \subseteq req[r].in.headers }
            rule     == req[r].data.rule
        IN  IF rule = NoRule THEN matching = {}
            ELSE \E i \in matching :
                    /\ rule = tuples[i]
                    /\ \A j \in matching : HeaderNum(tuples[j]) <= HeaderNum(rule)

\* The guide's gray routing: after the push of a well-formed configuration,
\* while an earlier one is in use, a request with the headers of one of a
\* model's rules goes to the cluster that rule names, and one without any to
\* the default rule's (learning/index.md:236, of rules that name different
\* headers).  Parse refuses the configuration if these clusters differ, and
\* the requests go on by the earlier one (config.go:137-148, 158-163).
HeadersChooseCluster ==
    [][\A c \in Configs : cfg # NoConfig /\ PushConfig(c) /\ Validate(c) =>
          \A m \in DOMAIN c.ModelMappingRule : \A rule \in Range(c.ModelMappingRule[m]) :
             LET in == [model |-> m, headers |-> Range(rule.Headers), wellFormed |-> TRUE]
             IN  Cluster(GetRequestData(cfg', in)) = rule.Cluster]_vars

\* The answers the balancer works on are a negative prompt length away from
\* raw: what the metadata center reports of a host.
Reported(h) == IF h.ip \in DOMAIN answers.load THEN answers.load[h.ip]
               ELSE [QueuedReqNum |-> 0, PromptLength |-> 0]
CachedAt(r, h) ==
    IF ~Context(r).CacheAwareEnable \/ PromptHash(r) = <<>> \/ answers.cache = QueryError
    THEN 0
    ELSE LET found == answers.cache.Locations
             at    == { i \in DOMAIN found : found[i].Ip = h.ip }
         IN  IF at = {} THEN 0 ELSE found[Max(at)].Length

\* o is no worse than h in anything reported and better in something that
\* has weight.
Better(r, o, h) ==
    LET ctx == Context(r)
        q(x) == Reported(x).QueuedReqNum
        p(x) == Max({0, Reported(x).PromptLength})
    IN  /\ q(o) <= q(h) /\ p(o) <= p(h) /\ CachedAt(r, o) >= CachedAt(r, h)
        /\ \/ q(o) < q(h) /\ ctx.RequestLoadWeight > 0
           \/ p(o) < p(h) /\ ctx.PrefillLoadWeight > 0
           \/ CachedAt(r, o) > CachedAt(r, h) /\ ctx.CacheRadioWeight > 0

ByStats(r) == req[r].pc = "override" /\ req[r].load # NoStats

\* A request goes to one of the best hosts: those that beat its host on
\* every reported count all fit among the candidates, if no weight is
\* negative (inference_lb.go:322-426).
FewBetterHosts ==
    \A r \in Requests : ByStats(r) =>
        LET ctx == Context(r)
            n == Cardinality(req[r].hosts)
        IN  Min({ctx.RequestLoadWeight, ctx.PrefillLoadWeight, ctx.CacheRadioWeight}) >= 0
            => LET better == { o \in req[r].hosts : Better(r, o, req[r].host) }
               IN  better = {} \/ Cardinality(better) * 100 < n * ctx.CandidatePercent

\* Request and prefill loads are fractions between zero and one, with
\* negative counts, one host, or hosts unknown to the metadata center too
\* (inference_lb.go:322-376; metadata_center.go:305-323).
LoadsNormalised ==
    \A r \in Requests : ByStats(r) =>
        LET load == req[r].load
        IN  \A h \in req[r].hosts :
              /\ RequestLoad(load)[h] \in 0 .. Delta(load)
              /\ PrefillLoad(load)[h] \in 0 .. MaxPromptLength(load)

\* Whatever the metadata center answers or fails to answer, a request whose
\* balancer has hosts is given one of them (learning/index.md 5.1,
\* "每一级都保证请求仍能被转发").
RoutedWhateverAnswered ==
    \A r \in Requests :
        req[r].pc = "done" /\ req[r].cfg # NoConfig /\ req[r].hosts # {}
        /\ req[r].cfg.Algorithm \in LbFactories
        => req[r].host \in req[r].hosts

\* A balancer works on the provider's current endpoints, unless they changed
\* between GetClusterInfo and the creation of the balancer: that change is
\* lost until the next one (manager.go:59-71; cluster.go:61-103).
StaleOnlyIfRaced ==
    \A c \in DOMAIN clusters \ raced : \A t \in DOMAIN clusters[c].lbs :
        clusters[c].lbs[t] = info[c]

\* A cluster is created once: the object other requests work with is not
\* replaced (manager.go:49-56).
ClusterCreatedOnce ==
    [][\A c \in DOMAIN clusters :
          /\ c \in DOMAIN clusters'
          /\ DOMAIN clusters[c].lbs \subseteq DOMAIN clusters'[c].lbs]_vars

\* Every request is answered: none waits for good behind the lock, which is
\* held across the queries to the metadata center (manager.go:49-71).
RequestsAnswered ==
    \A r \in Requests : req[r].pc # "idle" ~> req[r].pc = "done"
=============================================================================
