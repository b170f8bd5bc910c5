---------------------------- MODULE LoadReporting ----------------------------
(***************************************************************************)
(* What the metadata center knows of the requests under way.  The filters  *)
(* report their requests' begin, first token and end; each report is a     *)
(* task of the asynchronous queue, which a worker sends to one node of the *)
(* metadata center after another until one answers.                        *)
(*                                                                         *)
(* Workers take tasks in order and finish them in any order.  An attempt   *)
(* that times out may have reached its node, may reach it later, or never. *)
(* The metadata center is external: its nodes share one store, which keeps *)
(* requests by their id.                                                   *)
(***************************************************************************)
EXTENDS Integers, Sequences, FiniteSets

CONSTANTS
    Requests,           \* requests of one or several gateways' filters
    Workers, NoTask,
    QueueSize,          \* tasks the queue holds
    FailoverRetry,      \* attempts after the first: fail-over and retries
    MaxPromptReports    \* bound: DeleteRequestPrompt calls of a request

VARIABLES
    phase,          \* per request: "new", "recorded", "ended", or "refused" at once
    promptReports,  \* per request: DeleteRequestPrompt calls made
    tasks,          \* the queue
    work,           \* per worker: its task, and how many nodes are left to try
    late,           \* attempts given up that may still reach a node
    load, prompt,   \* the metadata center: ids it counts, ids with a prompt
    \* history
    answered,       \* tasks a node answered with success
    dropped,        \* tasks refused by Dispatch or given up by their worker
    overtaken       \* ids whose AddRequest reached a node after DeleteRequest

center == <<load, prompt, overtaken>>
vars == <<phase, promptReports, tasks, work, late, center, answered, dropped>>

Ops == {"AddRequest", "DeleteRequestPrompt", "DeleteRequest"}
Task(op, id) == [op |-> op, id |-> id]
AllTasks == [op : Ops, id : Requests]
Attempts == [task : AllTasks, left : 0 .. FailoverRetry + 1]

ASSUME ReportingConstants ==
    /\ QueueSize \in Nat \ {0}
    /\ FailoverRetry \in Nat
    /\ MaxPromptReports \in Nat
    /\ NoTask \notin Attempts

Init ==
    /\ phase = [r \in Requests |-> "new"]
    /\ promptReports = [r \in Requests |-> 0]
    /\ tasks = <<>>
    /\ work = [w \in Workers |-> NoTask]
    /\ late = {} /\ load = {} /\ prompt = {}
    /\ answered = {} /\ dropped = {} /\ overtaken = {}

-----------------------------------------------------------------------------
\* The filters' side.

\* Mutant: filters share an id.
SharedId(r) == CHOOSE q \in Requests : TRUE

\* UniqueId: made once per filter.
UniqueId(r) == r

\* Dispatch: at the back of the queue, or refused if it is full.
Dispatch(op, id) ==
    IF Len(tasks) < QueueSize
    THEN tasks' = Append(tasks, Task(op, id)) /\ UNCHANGED dropped
    ELSE dropped' = dropped \cup {Task(op, id)} /\ UNCHANGED tasks

\* A request whose begin could not be recorded reports nothing more.
AddRequest(r) ==
    /\ phase[r] = "new"
    /\ Dispatch("AddRequest", UniqueId(r))
    /\ phase' = [phase EXCEPT ![r] = IF Len(tasks) < QueueSize THEN "recorded" ELSE "refused"]
    /\ UNCHANGED <<promptReports, work, late, center, answered>>

\* The first token, or the timer of a non-streaming request; both may report
\* at once, a refused report is made again, and a timer's callback that runs
\* while the request ends may report after its end.
DeleteRequestPrompt(r) ==
    /\ phase[r] \in {"recorded", "ended"} /\ promptReports[r] < MaxPromptReports
    /\ promptReports' = [promptReports EXCEPT ![r] = @ + 1]
    /\ Dispatch("DeleteRequestPrompt", UniqueId(r))
    /\ UNCHANGED <<phase, work, late, center, answered>>

\* The request has ended.
DeleteRequest(r) ==
    /\ phase[r] = "recorded"
    /\ phase' = [phase EXCEPT ![r] = "ended"]
    /\ Dispatch("DeleteRequest", UniqueId(r))
    /\ UNCHANGED <<promptReports, work, late, center, answered>>

-----------------------------------------------------------------------------
\* The metadata center's side.

\* What a request to the metadata center does there, by method and path.
Apply(task) ==
    /\ load' = CASE task.op = "AddRequest"    -> load \cup {task.id}
                 [] task.op = "DeleteRequest" -> load \ {task.id}
                 [] OTHER                     -> load
    /\ prompt' = IF task.op = "AddRequest" THEN prompt \cup {task.id}
                 ELSE prompt \ {task.id}
    /\ overtaken' = IF task.op = "AddRequest" /\ Task("DeleteRequest", task.id) \in answered
                    THEN overtaken \cup {task.id} ELSE overtaken

-----------------------------------------------------------------------------
\* The workers: HandleRequest and doRequestWithRetry.  GetHosts gives one
\* node and up to FailoverRetry others, or none.

Take(w, n) ==
    /\ work[w] = NoTask /\ tasks # <<>>
    /\ tasks' = Tail(tasks)
    /\ work' = [work EXCEPT ![w] = IF n = 0 THEN NoTask ELSE [task |-> Head(tasks), left |-> n]]
    /\ dropped' = IF n = 0 THEN dropped \cup {Head(tasks)} ELSE dropped
    /\ UNCHANGED <<phase, promptReports, late, center, answered>>

\* A node answers with success.
Answered(w) ==
    /\ work[w] # NoTask
    /\ Apply(work[w].task)
    /\ answered' = answered \cup {work[w].task}
    /\ work' = [work EXCEPT ![w] = NoTask]
    /\ UNCHANGED <<phase, promptReports, tasks, late, dropped>>

\* Mutant: the task is forgotten with its first node.
NextNodeNever(w) ==
    /\ work' = [work EXCEPT ![w] = NoTask]
    /\ UNCHANGED dropped

\* On to the next node, if there is one.
NextNode(w) ==
    IF work[w].left = 1
    THEN work' = [work EXCEPT ![w] = NoTask] /\ dropped' = dropped \cup {work[w].task}
    ELSE work' = [work EXCEPT ![w].left = @ - 1] /\ UNCHANGED dropped

\* The attempt fails, and its request is lost for good ...
AttemptLost(w) ==
    /\ work[w] # NoTask
    /\ NextNode(w)
    /\ UNCHANGED <<phase, promptReports, tasks, late, center, answered>>

\* ... or times out while it is on its way.
AttemptTimedOut(w) ==
    /\ work[w] # NoTask
    /\ late' = late \cup {work[w]}
    /\ NextNode(w)
    /\ UNCHANGED <<phase, promptReports, tasks, center, answered>>

\* A request that was given up reaches its node after all.
ArriveLate(a) ==
    /\ a \in late
    /\ late' = late \ {a}
    /\ Apply(a.task)
    /\ UNCHANGED <<phase, promptReports, tasks, work, answered, dropped>>

Next ==
    \/ \E r \in Requests : AddRequest(r) \/ DeleteRequestPrompt(r) \/ DeleteRequest(r)
    \/ \E w \in Workers : \/ \E n \in 0 .. FailoverRetry + 1 : Take(w, n)
                          \/ Answered(w)
                          \/ AttemptLost(w)
                          \/ AttemptTimedOut(w)
    \/ \E a \in late : ArriveLate(a)

Spec == Init /\ [][Next]_vars

-----------------------------------------------------------------------------
TypeOK ==
    /\ phase \in [Requests -> {"new", "recorded", "ended", "refused"}]
    /\ promptReports \in [Requests -> 0 .. MaxPromptReports]
    /\ tasks \in Seq(AllTasks) /\ Len(tasks) <= QueueSize
    /\ work \in [Workers -> Attempts \cup {NoTask}]
    /\ \A w \in Workers : work[w] # NoTask => work[w].left > 0
    /\ late \subseteq Attempts
    /\ load \subseteq Requests /\ prompt \subseteq Requests
    /\ answered \subseteq AllTasks /\ dropped \subseteq AllTasks
    /\ overtaken \subseteq Requests

UnderWay(task) ==
    \/ \E i \in DOMAIN tasks : tasks[i] = task
    \/ \E w \in Workers : work[w] # NoTask /\ work[w].task = task

\* A request that has ended is still counted only while its end is being
\* reported, if that report was refused or given up, or if its begin reached
\* the metadata center after its end: no other order of workers, fail-over
\* and delayed attempts leaves a count behind
\* (metadata_center.go:186-243, 357-398; async_request.go:77-125).
DriftExplained ==
    \A r \in Requests : phase[r] \in {"ended", "refused"} /\ r \in load =>
        \/ UnderWay(Task("DeleteRequest", r))
        \/ Task("DeleteRequest", r) \in dropped
        \/ r \in overtaken

\* From the answer to its AddRequest until its end is reported a request is
\* counted, and so is its prompt until its first token is reported: neither
\* another request's reports nor its own retried ones take it away
\* (metadata_center.go:186-278; plugins/llmproxy/metadata_center.go:31-117).
CountedWhileServed ==
    \A r \in Requests : phase[r] = "recorded" /\ Task("AddRequest", r) \in answered =>
        /\ r \in load
        /\ promptReports[r] = 0 => r \in prompt
=============================================================================
