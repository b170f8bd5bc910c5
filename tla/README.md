# aigw: a TLA+ verification project

aigw is an AI gateway: a Go plugin (`plugins/llmproxy`) that Envoy loads through
HTNN.  It parses an OpenAI-style request, chooses an inference server by load and
prefix cache, reports the load it creates to an external *metadata center*, and
converts the response on its way back.  This directory holds TLA+ modules
translated from that code, the TLC runs that check them on small instances, and
proofs that TLAPS checks for every value of the constants.

`PROJECT.json` lists components, runs, mutants, hazards and theorems, and maps
every modelling definition to the source lines it stands for.

## Inventory

| component | state | operations | what is hard | what makes it correct |
|---|---|---|---|---|
| circuit breaker (`pkg/circuitbreaker`) | state, two counters, time of last failure, one mutex | `Allow`, `RecordSuccess`, `RecordFailure` | calls end after others have moved the breaker; `Allow` changes state | opens and closes for a reason, keeps the cooldown, recovers |
| async queue (`pkg/async_request`) | bounded channel, workers, RW lock, closed flag, context | `Dispatch`, worker loop with retries, `Shutdown` | shutdown against dispatch and receive; retries; full queue | one owner per task, no send on a closed channel, everything returns |
| service discovery (`pkg/metadata_center/servicediscovery`) | map of nodes: breaker and time of discovery | `dnsLookUp`, `GetHosts`, `ReportSuccess/Failure`, `Shutdown` | the map changes between a scan and the reports it leads to | cold nodes last, breakers survive lookups |
| metadata-center client (`pkg/metadata_center`) | none of its own | `AddRequest`, `DeleteRequest`, `DeleteRequestPrompt`, `SaveKVCache` (through the queue), `QueryLoad`, `QueryKVCache` (direct), fail-over | time-outs, fail-over of what may have been applied, reports that overtake each other | a request is counted while it is served, and no longer |
| llmproxy filter (`plugins/llmproxy`) | flags of one request, prompt timer, stream state | Envoy's callbacks, the timer's goroutine | timer against response, every way a request can end | load given back exactly once, error delivered alone |
| transcoder (`plugins/llmproxy/transcoder`, `.../log`) | remaining bytes, chunk count, reasoning state, log items | `GetRequestData`, `EncodeRequest`, `DecodeHeaders`, `GetResponseData` | messages cut across frames, reasoning that spans chunks | output independent of how the stream is cut |
| model mapping (`plugins/llmproxy/config`) | parsed and sorted rules | `Validate`, `Parse`, `Init`, `GetCandidateRule`, `FindLbMappingRule` | order of rules, what is refused | the most specific rule wins |
| inference load balancer (`pkg/aigateway/loadbalancer`) | its host list | `ChooseHost`: statistics, cache hits, scores, candidates | missing, zero, negative or stale statistics | a good host is chosen, and always one |
| cluster manager (`pkg/aigateway/clustermanager`) | clusters, balancers of each, one mutex | `ChooseHost`, `GetCluster`, `UpdateCluster` | first requests of a cluster at once; updates against creation; lock held across queries | created once, current hosts, everyone answered |
| static discovery, CDS server (`pkg/aigateway/discovery`) | clusters, callbacks, pending responses | `GetClusterInfo`, `WatchCluster`, `DeltaClusters` | reconnects | the current stream is sent the clusters |
| TTFT statistics, predictors (`pkg/metrics_stats`, `pkg/prediction`) | tables and estimators by model name, segments | `RecordTTFT`, `MatchTTFT`, `Train`, `Predict`, `Clone` | no lock on the tables; thresholds | exact without overlap, bounded with it; right segment |
| async log (`pkg/async_log`) | bounded queue | `Write`, `run` | full queue | never blocks a request |

**Interaction.**  The filter's `DecodeRequest` finds a rule (model mapping), asks the
cluster manager for a host (which creates and watches clusters and asks the balancer,
which asks the metadata center for load and cache locations), then reports through
the client into the queue; the queue's workers run `doRequestWithRetry`, which takes
candidates from service discovery and reports each outcome to the endpoint's breaker.
The DNS loop changes the node map meanwhile, discovery changes the clusters.  The
prompt timer, whose length the TTFT statistics give, is a goroutine that calls back
into the filter.  Responses pass the transcoder frame by frame.

## Modules

| module | models | role |
|---|---|---|
| `CircuitBreaker` | `circuit_breaker.go` | the methods as operators on one breaker, used by two specifications |
| `BreakerUse`, `BreakerUseProofs` | `doRequestWithRetry`, `GetAvailableHosts` | concurrent callers of one breaker; theorems |
| `TaskService` | | abstract specification: what the queue promises |
| `AsyncQueue`, `AsyncQueueProofs` | `async_request.go` | dispatchers, workers, Shutdown; implements `TaskService`; theorems |
| `MetaClient`, `MetaClientProofs` | `service_discovery.go`, `doRequestWithRetry` | node map, DNS loop, calls with fail-over; composes `CircuitBreaker`; theorems |
| `LoadReporting`, `LoadReportingProofs` | `metadata_center.go`, the queue, its workers, an external metadata center | what the center counts of each request; theorems |
| `LLMFilter`, `LLMFilterProofs` | `filter.go`, `metadata_center.go` of the plugin | one request: callbacks and timer; theorems |
| `GatewayConfig` | `config.go`, the generated validators, `GetRequestData` | which configurations are accepted, which rule a request gets; operators |
| `InferenceLB` | `inference_lb.go`, `QueryLoad`, `QueryKVCache`, `cache_hash.go`, switches in `utils.go` | from the center's answers to candidates; operators |
| `Routing`, `RoutingProofs` | `manager.go`, `cluster.go`, provider, `DecodeRequest` | concurrent requests from configuration to host; composes `GatewayConfig` and `InferenceLB`; theorems |
| `Transcoder`, `TranscoderProofs` | `openai.go`, `common.go`, `log_content.go` | one response, received in frames; theorems |
| `CDSServer` | `cds_server.go` | streams that reconnect, one channel of responses |
| `TTFTStats` | `pkg/metrics_stats`, `RLS` | tables of recorded times, callers without a lock |
| `TpotPredictor` | `tpot_prediction.go`, `rls.go` | segments, training, clones |
| `Predictors`, `PredictorsProofs` | | the two side by side, and their properties; theorems |
| `MC...` | | instances for TLC |

### How state and actions correspond to the code

*CircuitBreaker.*  Each method holds `cb.mu` throughout, so it is one operator.
`lastFailureTime` is only compared with the cooldown; the model keeps the time
elapsed since, saturating at `CooldownPeriod + 1`, so that time needs no bound.

*BreakerUse.*  `Call` is `Allow()` and the start of the HTTP request, `Scan` an
`Allow()` after which another endpoint is used, `ReportSuccess` and
`ReportFailure` the end of a call.  `streak`, `goodRun` and `sinceTrip` are an
observer's history, kept independently of the breaker's counters so that the
properties do not restate them.

*AsyncQueue.*  A dispatcher is named by its task.  `DispatchRLock` and
`ShutdownLock` are the two ends of Go's `RWMutex` (a waiting writer keeps new
readers out); the body between lock and unlock is one action.  The two `select`
statements choose among ready cases nondeterministically, as Go does.  A worker's
loop is `Receive`, then `HandleOK` or `HandleError`, then `Retry` after the
sleep, which does not watch the context.  An attempt that begins under a
cancelled context cannot succeed.  `result` "panic" and the task `NoTask` are what
a send on, or a receive from, the closed channel would give.

*LLMFilter.*  `main` runs the callbacks in the order HTNN makes them;
`DeletePromptLength` is split at every access to shared state (`CheckPrompt`,
`StopInDelete`, `CallDelete`, `MarkDeleted`), because the timer's goroutine may run
it at the same time.  `StartTimer`/`KeepTimer` separate `AfterFunc` from the
assignment of its result.  The choice of a host, the answer of `Dispatch` and the
outcome of a frame are choices here; `Routing`, `AsyncQueue` and `Transcoder` say
what they can be.  `OnLog` may come whenever no callback is under way, which covers a
client that leaves.

*MetaClient.*  `StartCall` takes the read lock, `AskNode` is one turn of the loop
over the map (reports and other scans interleave), `Choose` sorts, hashes and
cuts the candidates, `Succeed` and `Fail` are attempts.  `DnsLookUp` waits for
scans, as the write lock does.  Every operation enters with the hash key the code
gives it (`HashKey`).

*LoadReporting.*  A filter's report is `AddRequest`, `DeleteRequestPrompt` or
`DeleteRequest`, each a task that `Dispatch` queues or refuses; the prompt may be
reported after the end too, by a timer's callback that `OnLog` no longer stops.  `Take` is a worker
asking for nodes and receiving some or none; `Answered`, `AttemptLost` and
`AttemptTimedOut` end one attempt, `NextNode` goes on to the next or gives up, and
`ArriveLate` lets a timed-out attempt reach its node after all.  When
all nodes have failed `HandleRequest` returns an error and the worker's own loop asks
for nodes again, `AIGW_METADATA_CENTER_MAX_RETRY` times, by default never; `FailoverRetry` counts
the attempts after the first over both loops.  The center is external; its nodes are taken to share
a store keyed by request id, as the ids and paths of the reports suggest.

*Routing.*  A request is a goroutine; its steps are the accesses of
`Manager.ChooseHost` to the cluster map and the provider (`LoadCluster`,
`LockManager`, `GetClusterInfo`, `WatchCluster`, `StoreCluster`), `GetCluster`, the
queries and the choice.  The mutex is held from `LockManager` to the return, so
also across the queries.  `ChangeEndpoints` is discovery calling the watcher, in one step although
`updateServers` takes no lock; the static provider of the repository never does.  The
configuration a request sees is the one at its start.  `raced` records changes that
fell between `GetClusterInfo` and the creation of a balancer.  Scores are integers
over a common denominator, ordered as the code's floating-point ones are.

*Transcoder.*  A stream is a sequence of tokens (data, CR, LF) that `ReceiveFrame`
takes in pieces of any length; `unifySSEChunk`, `bytes.Split` and the remaining
bytes are modelled on these tokens, so every cut, also one inside CR LF, is there.
What a message says is looked up in `Body`.  A whole response (`ReceiveWhole`) goes
the unstreamed way.

*CDSServer.*  A stream has a handler (`DeltaClusters`) and a goroutine that sends
(`processDeltaClusterResponse`); `responseChan` is the server's.  The goroutine's
`select` may take a response although its context is done.

*TTFTStats, TpotPredictor.*  `RecordTTFT`, `Create`, `Read` and `Write` are the
look-up, the creation and store, the read and the write of one record (the code reads
an average twice, but one that is not zero stays so, and the last read decides); tables and
estimators are heap objects, so a lost or shared one shows.  An estimator is the
sequence of samples it was trained with, which is what determines it when the
forgetting factor is one, as it always is here; two trainings at once leave it
`Garbled`.  Two histories say what should have happened: `serial`, the table a
name's samples make when each is recorded in one step, and `trained`, for each
predictor and segment the batch sizes that belong there.

## Runs

| run | instance | shows |
|---|---|---|
| `breaker` | 3 callers, 2 failures, cooldown 2, 2 probes | `ClosedMeansHealthy`, `TripJustified`, `RecoveryJustified`, `CooldownRespected`, `NoStaleReports`, `Recovers` |
| `queue` | 3 tasks, 2 workers, 2 closers, queue of 2, 1 retry | `ClosedChannelUntouched`, `OwnedOnce`, `ImplementsService`, `CallsReturn`, `AcceptedHandled` |
| `filter` | 3 frames, all configurations | `ReleaseOnlyRecorded`, `PromptReleaseBound`, `LoadGivenBack`, `ErrorStandsAlone`, `LoadReleased` |
| `client` | 2 hosts, 2 callers, cold start on, 1 fail-over | `ColdOnlyAsLastResort`, `GivesUpOnlyWhenAllFailed`, `LookupKeepsBreakers`, `KeyOnlyOrders`, `OneGoodHostIsEnough` |
| `routing` | 2 requests, 2 clusters, 4 configurations, 3 answers of the center, 1 change of endpoints | `MostSpecificRule`, `FewBetterHosts`, `LoadsNormalised`, `RoutedWhateverAnswered`, `StaleOnlyIfRaced`, `ClusterCreatedOnce`, `RequestsAnswered` |
| `responses` | 9 streams of up to 7 events and every single event, 3 line ends, all cuts, streamed or whole | `CutIndependent`, `DamageConfined`, `ReasoningSplitAgrees`, `LogAgrees` |
| `load` | 2 requests, 2 workers (symmetric), queue of 1, 1 fail-over | `DriftExplained`, `CountedWhileServed` |
| `predictors` | 2 callers, 2 models (symmetric), 3 records, both modes; 4 threshold lists, clones, 3 samples an estimator | `ExactUnlessOverlapped`, `MatchWithinRecorded`, `SegmentsApart` |
| `breaker_probes`, `filter_once`, `routing_gray`, `cds` | small | refute a statement of a document or a comment, see below |

Every property of a passing run has a mutant of the code that breaks it.

What some of them say that is easy to overlook:

* `DriftExplained`: the load of a request that has ended can stay counted, but only
  if its `DeleteRequest` is still under way, was refused or given up, or was
  overtaken by its own `AddRequest`.  Nothing in the gateway repairs these three.
* `StaleOnlyIfRaced`: a change of endpoints that falls between `GetClusterInfo` and
  the creation of the balancer is lost until the next change.
* `CutIndependent` and `DamageConfined`: `unifySSEChunk` sees one frame at a time, so
  a cut between CR and LF makes two line ends of one.  What is damaged then is a
  message, never the first, never the order; two such cuts may end the response
  with 503.
* `LoadsNormalised`: negative prompt lengths are clamped by `QueryLoad`, negative
  request counts are absorbed by the subtraction of the smallest.
* `SegmentsApart`: a predictor without thresholds is accepted by `NewTpotPredictor`
  (and by its test), but `segment` returns index 1 of a list of one, so its first
  `Train` or `Predict` panics.  With thresholds no call does.

**Bounds.**  Three callers are enough for a call that started before a trip, one
that trips, and one that probes to exist together; two failures and two probes
separate "the last one" from "the one before".  Three tasks with a queue of two
make a full queue with a worker busy.  Two frames decide the first chunk, the third
is dropped or delivered after it.  Two hosts with fail-over to all let the index wrap, and two callers let a scan, a report and a lookup meet on one breaker.  Two requests are enough to meet at the
manager's lock, and the configurations hold rules of zero, one and two headers, two
clusters for one model (refused), an unknown algorithm and no rules.  A queue of one
is full with one task; two workers can swap two tasks; one fail-over lets an attempt
be late while its successor is answered.  Three records give the moving average its
general weight (0.81, 0.09, 0.1; `WeighedByAge` in `MCPredictors` evaluates this on its
own) and let two calls meet on a table a third created.
Only the runs of systems that may stop (all tasks done, request over, response
received, bounded work used up) do without a check for deadlock.

**Fairness.**  `BreakerUse`, `MetaClient`: calls end because each attempt has a
context with a timeout; the clock advances; traffic goes on.  Nothing is assumed
of the endpoints or of DNS.  `AsyncQueue`: every goroutine that can run does;
nobody has to call `Dispatch` or `Shutdown`.  `Worker` is weakly fair as a whole,
so a worker may prefer the channel to the cancelled context as long as tasks are
left.  `LLMFilter`: Envoy makes the next callback or logs the request, and the
timer's goroutine runs.  `Routing`: a request that can go on does; the queries it
makes under the lock have timeouts.  `CDSServer`: handler and sender of a stream run;
Envoy need not connect or disconnect.

### Where code and documentation disagree

* `breaker_probes`: `learning/index.md:469` says half-open lets a few probes
  through.  `Allow` limits the successes counted, not the requests under way.
* `filter_once`: `learning/index.md:281` and `:507` say `isPromptLengthDeleted`
  makes `DeletePromptLength` run once.  Timer and `EncodeResponse` can both find
  it clear.  `PromptReleaseBound` says what does hold.
* `routing_gray`: the example of gray routing at `learning/index.md:222-236` sends
  one model's requests with the header `x-tenant: premium` to a cluster and backend of
  their own.  `validateRules` refuses two clusters or backends for one model (as `:189`
  and `:206` of the same document say), so the push changes nothing: in the run the
  model has its default rule already, and after the push of the documented rules
  premium requests still go to the default cluster.
* `cds`: the comment at `cds_server.go:108` says the current stream sends; the
  goroutine of a stream that is gone may take and lose its response.

Seen on the way, without a run: `learning/index.md:476` says the cluster name is the
hash key, but `DeleteRequest` and `DeleteRequestPrompt` (`metadata_center.go:230`, `264`)
hash the empty string, so they may start from another node than the `AddRequest` they
belong to (`KeyOnlyOrders` says what does hold); the comment at `filter.go:234` says only status 200
saves the KV cache, any status below 400 does; `learning/index.md:189` names a default
backend although validation asks for a name; the comment in `utils.go` says a switch defaults
to false and it defaults to true; `learning/index.md:886` says `Train` is called after
every request, but nothing calls `RecordTTFT`; choices of one chunk share one
reasoning state, so `ReasoningSplitAgrees` is stated for one choice.

## Proofs

Each module of theorems proves, for every value of the constants that its assumption
admits, the safety properties that a run checks on a small instance.

| module | theorems | for any | assumption |
|---|---|---|---|
| `BreakerUseProofs` | 6 | callers, thresholds, cooldown, call time | `BreakerConfig` (thresholds at least one), `CallTimeConfig` |
| `AsyncQueueProofs` | 4, the refinement of `TaskService` among them | tasks, workers, closers, queue size, retries | `QueueConfig` (the queue has room for one, `NoTask` is no task) |
| `LLMFilterProofs` | 6 | frames of a response | `FrameBound` |
| `MetaClientProofs` | 5 | hosts, callers, keys and hashes, fail-overs, cold-start delay | `ClientConfig` (hosts are finitely many, in the order of their names) |
| `LoadReportingProofs` | 3 | requests, workers, queue, nodes | `ReportingConstants` (sizes are numbers, `NoTask` is no attempt) |
| `RoutingProofs` | 6 | requests, clusters, endpoints, configurations, answers, prompts | `RoutingConstants` (configurations, answers and settings have the types the code declares; endpoints are finitely many) |
| `PredictorsProofs` | 3 | callers, names, lengths, times, units, thresholds, batch sizes | `StatsConstants`, `TpotConstants` (lengths and times are numbers, there is a unit, thresholds are a list) |
| `TranscoderProofs` | 5 | responses, contents of messages, line ends, cuts of the stream | `BodyAssumption` (a message is a chunk with choices and usage, an error, something else or the end mark, and its name is none of the tokens of the framing), `ResponsesAssumption`, `LineEndsAssumption` (the line ends are those of the SSE format) |

An assumption is evaluated by TLC on every run of its module.  The argument is the
same throughout: an inductive invariant, whose parts TLC can evaluate were checked on the
instance of the run before they were proved, one lemma for each action, and a last step of temporal logic.

*Breaker.*  `ClosedMeansHealthy` is not inductive: nothing in it ties the
observer's `streak` to `failureCount`.  The invariant says that while closed they
agree, that while half-open `successCount` is at most `goodRun` and no failure has
been seen since, and relates `sinceLastFailure` to `sinceTrip`, and the age of the
calls to both, which gives the cooldown and `NoStaleReports`.

*Filter.*  `IndInv` has five parts, one lemma each, one step per callback:
`TypeOK`; `RecordInv` (`isIncreaseRecorded` follows the accepted `AddRequest`, and
whatever releases is behind it); `TimerInv` (a waiting timer can be reached through
the field except between `AfterFunc` and its assignment, so `OnLog` stops it);
`PromptInv`, the accounting of releases: while the flag is clear, the releases
accepted are those of threads about to set it, and releases plus threads that have
passed the test are at most one, or two once the threads have overlapped;
`DeliverInv` (before the first chunk nothing was delivered; a delivered error means
the rest is dropped).

*Load reporting.*  `DriftExplained` and `CountedWhileServed` say nothing of what is
still in the queue, with a worker or late.  The invariant adds `NotBefore` (no report
of a request exists before the phase it belongs to) and `EndAccounted` (the end of a
request is under way, given up or answered, unless its begin was refused and it was
never counted).  All steps of workers and late attempts are first shown to be of one
shape, `Consumes`: they bring no new report and apply at most one that had been sent;
three lemmas then carry the invariant over any such step, and three more over the
filters' reports.

*Queue.*  `OwnedOnce` and `ClosedChannelUntouched` need to know why a closed channel is
not met: `IndInv` adds that the writer holds the lock it waits under (`LockInv`), that
the channel is closed only after `isClosed` was set and all workers have left
(`CloseInv`), that a worker has a task exactly while it handles one (`WorkerInv`), and
that a task without a result is untouched (`DispatchInv`).  `Implements` maps a task
to `statusBar` (where it is and what `Dispatch` answered) and the flags `isClosed` and
`chanClosed` to the service's mode; under the same invariant `DispatchBody`, `Receive`,
the end of the last attempt, `ShutdownCancel` and `ShutdownClose` are steps of
`TaskService`, and everything else stutters.  `TaskService` promises no progress; that
is `CallsReturn` and `AcceptedHandled`.

*Client.*  The properties speak of the end of a call, the invariant of its course:
there are no candidates before the scan ends (`ScanInv`), every candidate was available
then, a cold one only if no warm one was (`CandidatesInv`), those not yet reported as
failed lie ahead of the attempt under way (`AheadInv`), so that nothing is left untried
when the attempts are used up (`ResultInv`).  For `KeyOnlyOrders` the invariant adds that
the candidates are all the available hosts if the attempts suffice (`Covers`): a host is
the n-th of the sorted list where n is the number of smaller ones, and an index that goes
round from any start meets every n.
`LookupKeepsBreakers` follows from the type invariant and from what the breaker's
methods may do to an open breaker.

*Routing.*  Three invariants, each resting on the one before.  `ManagerInv`: whoever
creates a cluster holds the lock and the cluster is not there; a cluster is watched
before it is stored; hosts on their way from `GetClusterInfo` to the first balancer
are the provider's unless the cluster was raced.  `ConfigInv`: a request works on the
data its configuration gives for its input, and the configuration has passed
`Validate`, `Parse` and `Init`; that its rules are sorted by number of headers is a
lemma about `GatewayConfig`, and the first match in a sorted list has the most headers.
`ChoiceInv`: hosts, statistics and choice of a request are what `InferenceLB` computes
from the answers.  `LoadsNormalised` is a lemma about the smallest and the largest of
finitely many numbers; `FewBetterHosts` counts the hosts that come before the chosen one
and shows, with products of signs, that one that is better on every count scores
higher.

*Predictors.*  `SegmentsApart` needs that no estimator serves two segments or two
predictors (`Unshared`), and that `segment` returns the one segment a batch size is in:
in an ascending list nothing at or below a number follows one above it, shown with the
smallest counterexample instead of an induction.  `ExactUnlessOverlapped` needs that no
table is owned by two names (`TablesApart`; a name owns the table it is stored under and
those its callers still write to) and, for a name never overlapped, what its one
caller finds at each of its steps (`Alone`).  `MatchWithinRecorded` needs that every average,
also in a table that was replaced and in the hands of a caller, is zero or between two
times of the name in that unit (`MeansInv`).

*Transcoder.*  Everything the transcoder does is a fold, and what a fold returns has to
be shown by induction.  The library's induction theorems take a predicate as a
parameter, which the provers cannot instantiate; `Induction` takes a *set* of numbers
instead and follows from the well-foundedness of the natural numbers.  From it come
`Folds` (a fold given as a function on pairs has one value, which the library's
`FoldLeft` computes) and, for each fold of the model, what it makes of the empty
sequence, of one element more and of a concatenation.

`TranscoderInv` is the invariant: a stream keeps `StreamInv`, a whole response
`WholeInv`.  The heart of `StreamInv` is `Placed`: with q tokens received, i events and
o tokens of the next, what waits in `remainBuf` is one line feed or none, followed by the
unified tokens of the event begun, and n messages have been passed on, where `Spot` lists
what i, o, n and the line feed can be.  It is not enough to know this at the end of a
frame: the invariant of the fold (`FrameFacts`) says it for every token of the frame,
together with whether the last token was a CR, because a CR LF that the cut has parted leaves
a line feed too many, and only then is a piece too short or its first five bytes not `data:`
(`GoodPiece`, `BadPiece`).  `Settled` says that unifying and splitting what waits a second
time, with the next frame, changes nothing.  As long as nothing was parted the state is
the one that handling the first `Received` messages gives (`Handles`), which is
`CutIndependent`; that the frames add up is the rule for folds over a concatenation.
`DamageConfined` follows from `OutFollows` (message by message) and from `PlacedCount` (no
event received to its last byte is missing).

`LogAgrees` holds of every state in `LoggedStates`, a set closed under `HandleMessage`.
`ReasoningSplitAgrees` rests on `ChunkContinues`: if the two flags say of the text x so far
whether it is empty and whether its reasoning is open (`Remembers`), then splitting the
chunk c continues the split of x to that of x followed by c, whether c is empty, is the
first, or comes later, with or without an end mark.

Only model-checked: all liveness properties (`Recovers`, `CallsReturn`,
`AcceptedHandled`, `LoadReleased`, `OneGoodHostIsEnough`, `RequestsAnswered`), because
the prover does not handle fairness; and `CDSServer`, whose one run refutes a comment.

## Not modelled

HTNN, Envoy and the metadata center are external: their behaviour is an
assumption (serial phases of a request; a store keyed by request id) or a choice
(answers, failures).  JSON, protobuf messages, URLs, headers other than those rules
match, metrics, and generated accessors are left out: formatting and I/O without
state.  `filterHostsBySelector` is left out because nothing puts a selector into the
context, the gRPC backends because their branch of the transcoder is a stub.
`AsyncLogger` has no caller of `Write`: a queue that drops, which nothing fills.  The
linear algebra of recursive least squares is floating-point and out of reach.  Go's
memory model is represented by the interleaving of single accesses to shared fields;
the values such a race can tear are single words, except in an estimator, where
any outcome is `Garbled`.

## Plan

Done: every component above is modelled, and every safety property of the passing runs is
a theorem.  What would come next: the safety facts that liveness rests on, such as in
`MetaClient` that a scan comes to an end, and the gRPC branch of the transcoder once it
does something.  Liveness stays with TLC.
