----------------------------- MODULE AsyncQueue -----------------------------
(***************************************************************************)
(* pkg/async_request: a bounded channel of tasks, a pool of workers, and a *)
(* Shutdown that races with dispatchers and workers.  All reports to the   *)
(* metadata center go through it.                                          *)
(*                                                                         *)
(* Each task is dispatched by its own request's goroutine, so a dispatcher *)
(* is named by its task.  aq.mu is Go's RWMutex: a writer that waits for   *)
(* readers already keeps new readers out.                                  *)
(***************************************************************************)
EXTENDS Naturals, Sequences, FiniteSets

CONSTANTS
    Tasks,         \* tasks that requests may dispatch
    NoTask,        \* the zero Task: what a receive from a closed channel yields
    Workers,       \* worker goroutines (Config.WorkerCount of them)
    Closers,       \* goroutines that may call Shutdown
    NoCloser,      \* "nobody holds or awaits the write lock"
    QueueSize,     \* Config.QueueSize
    MaxRetries     \* Config.MaxRetries

ASSUME QueueConfig ==
    /\ NoTask \notin Tasks
    /\ NoCloser \notin Closers
    /\ QueueSize \in Nat \ {0}
    /\ MaxRetries \in Nat

VARIABLES
    queue,        \* the buffered channel aq.tasks
    chanClosed,   \* close(aq.tasks) has run
    isClosed,     \* aq.isClosed
    cancelled,    \* aq.ctx has been cancelled
    readers,      \* dispatchers that hold the read lock
    writer,       \* the closer that holds or awaits the write lock
    dpc,          \* per task: where its Dispatch call stands
    result,       \* per task: what Dispatch did
    spc,          \* per closer: where its Shutdown call stands
    worker,       \* per worker: pc, task in hand, attempt, doomed
    tries,        \* history: HandleRequest calls made for each task
    succeeded     \* history: tasks HandleRequest has returned nil for

vars == <<queue, chanClosed, isClosed, cancelled, readers, writer, dpc,
          result, spc, worker, tries, succeeded>>

lockVars  == <<readers, writer>>
closeVars == <<chanClosed, isClosed, cancelled>>
history   == <<tries, succeeded>>

WorkerState ==
    [ pc      : {"select", "handle", "sleep", "exited"},
      task    : Tasks \cup {NoTask},
      attempt : 0 .. MaxRetries,
      doomed  : BOOLEAN ]       \* the attempt began under a cancelled context

TypeOK ==
    /\ queue \in Seq(Tasks) /\ Len(queue) <= QueueSize
    /\ chanClosed \in BOOLEAN /\ isClosed \in BOOLEAN /\ cancelled \in BOOLEAN
    /\ readers \subseteq Tasks
    /\ writer \in Closers \cup {NoCloser}
    /\ dpc \in [Tasks -> {"idle", "called", "locked", "done"}]
    /\ result \in [Tasks -> {"none", "ok", "closed", "cancelled", "full", "panic"}]
    /\ spc \in [Closers -> {"idle", "called", "locking", "waiting", "done"}]
    /\ worker \in [Workers -> WorkerState]
    /\ tries \in [Tasks -> Nat]
    /\ succeeded \subseteq Tasks

Idle == [pc |-> "select", task |-> NoTask, attempt |-> 0, doomed |-> FALSE]

\* NewAsyncQueue: every worker goroutine is started.
Init ==
    /\ queue = <<>>
    /\ chanClosed = FALSE /\ isClosed = FALSE /\ cancelled = FALSE
    /\ readers = {} /\ writer = NoCloser
    /\ dpc = [t \in Tasks |-> "idle"]
    /\ result = [t \in Tasks |-> "none"]
    /\ spc = [s \in Closers |-> "idle"]
    /\ worker = [w \in Workers |-> Idle]
    /\ tries = [t \in Tasks |-> 0]
    /\ succeeded = {}

-----------------------------------------------------------------------------
\* Dispatch, lines 77-98.

\* A request calls Dispatch(t).
DispatchCall(t) ==
    /\ dpc[t] = "idle"
    /\ dpc' = [dpc EXCEPT ![t] = "called"]
    /\ UNCHANGED <<queue, closeVars, lockVars, result, spc, worker, history>>

\* aq.mu.RLock().
DispatchRLock(t) ==
    /\ dpc[t] = "called"
    /\ writer = NoCloser
    /\ readers' = readers \cup {t}
    /\ dpc' = [dpc EXCEPT ![t] = "locked"]
    /\ UNCHANGED <<queue, closeVars, writer, result, spc, worker, history>>

\* What the select of lines 89-97 may do.  A send on a closed channel
\* panics; of several ready cases Go picks any; default is for none ready.
SelectOutcomes ==
    LET ready == (IF chanClosed THEN {"panic"}
                  ELSE IF Len(queue) < QueueSize THEN {"ok"} ELSE {})
                 \cup (IF cancelled THEN {"cancelled"} ELSE {})
    IN  IF ready = {} THEN {"full"} ELSE ready

\* Mutant: isClosed is not looked at.
OutcomesUnchecked == SelectOutcomes

\* What the call can come to: refused outright once closed.
Outcomes == IF isClosed THEN {"closed"} ELSE SelectOutcomes

\* The body under the read lock, and the deferred RUnlock.
DispatchBody(t) ==
    /\ dpc[t] = "locked"
    /\ \E r \in Outcomes :
          /\ result' = [result EXCEPT ![t] = r]
          /\ queue' = IF r = "ok" THEN Append(queue, t) ELSE queue
    /\ readers' = readers \ {t}
    /\ dpc' = [dpc EXCEPT ![t] = "done"]
    /\ UNCHANGED <<closeVars, writer, spc, worker, history>>

-----------------------------------------------------------------------------
\* worker, lines 100-125.

\* HandleRequest is called for task t on the given attempt.
Attempt(w, t, n) ==
    /\ worker' = [worker EXCEPT ![w] = [pc |-> "handle", task |-> t,
                                        attempt |-> n, doomed |-> cancelled]]
    /\ tries' = IF t \in Tasks THEN [tries EXCEPT ![t] = @ + 1] ELSE tries

\* The select takes "case task := <-aq.tasks": ready if the channel holds a
\* task, and also, with the zero Task, if it is closed and drained.
Receive(w) ==
    /\ worker[w].pc = "select"
    /\ queue # <<>> \/ chanClosed
    /\ IF queue # <<>>
       THEN Attempt(w, Head(queue), 0) /\ queue' = Tail(queue)
       ELSE Attempt(w, NoTask, 0) /\ UNCHANGED queue
    /\ UNCHANGED <<closeVars, lockVars, dpc, result, spc, succeeded>>

\* Mutant: <= for < in the test for a further attempt.
AfterErrorOffByOne(state) ==
    IF state.attempt <= MaxRetries THEN [state EXCEPT !.pc = "sleep"] ELSE Idle

\* Mutant: the worker returns on an error.
AfterErrorReturns(state) == [Idle EXCEPT !.pc = "exited"]

\* A failed attempt: sleep before the next one, if there is one.
AfterError(state) ==
    IF state.attempt < MaxRetries THEN [state EXCEPT !.pc = "sleep"] ELSE Idle

\* A successful attempt: break, log, back to the select.
AfterSuccess(state) == Idle

\* HandleRequest returned nil.  A request made under a cancelled context
\* cannot succeed.
HandleOK(w) ==
    /\ worker[w].pc = "handle"
    /\ ~worker[w].doomed
    /\ succeeded' = succeeded \cup {worker[w].task}
    /\ worker' = [worker EXCEPT ![w] = AfterSuccess(@)]
    /\ UNCHANGED <<queue, closeVars, lockVars, dpc, result, spc, tries>>

\* Mutant: a failed task is also put back into the channel.
HandleErrorRequeues(w) ==
    /\ worker[w].pc = "handle" /\ Len(queue) < QueueSize
    /\ worker' = [worker EXCEPT ![w] = AfterError(@)]
    /\ queue' = Append(queue, worker[w].task)
    /\ UNCHANGED <<closeVars, lockVars, dpc, result, spc, history>>

\* HandleRequest returned an error.
HandleError(w) ==
    /\ worker[w].pc = "handle"
    /\ worker' = [worker EXCEPT ![w] = AfterError(@)]
    /\ UNCHANGED <<queue, closeVars, lockVars, dpc, result, spc, history>>

\* The sleep is over (it does not watch the context): next attempt.
Retry(w) ==
    /\ worker[w].pc = "sleep"
    /\ Attempt(w, worker[w].task, worker[w].attempt + 1)
    /\ UNCHANGED <<queue, closeVars, lockVars, dpc, result, spc, succeeded>>

\* Mutant: workers leave when the channel is closed.
ExitOnClose(w) ==
    /\ worker[w].pc = "select" /\ chanClosed
    /\ worker' = [worker EXCEPT ![w].pc = "exited"]
    /\ UNCHANGED <<queue, closeVars, lockVars, dpc, result, spc, history>>

\* The select takes "case <-aq.ctx.Done()": return, wg.Done().
Exit(w) ==
    /\ worker[w].pc = "select"
    /\ cancelled
    /\ worker' = [worker EXCEPT ![w].pc = "exited"]
    /\ UNCHANGED <<queue, closeVars, lockVars, dpc, result, spc, history>>

-----------------------------------------------------------------------------
\* Shutdown, lines 147-159.

ShutdownCall(s) ==
    /\ spc[s] = "idle"
    /\ spc' = [spc EXCEPT ![s] = "called"]
    /\ UNCHANGED <<queue, closeVars, lockVars, dpc, result, worker, history>>

\* aq.mu.Lock() announces itself: from here new readers wait.
ShutdownLock(s) ==
    /\ spc[s] = "called"
    /\ writer = NoCloser
    /\ writer' = s
    /\ spc' = [spc EXCEPT ![s] = "locking"]
    /\ UNCHANGED <<queue, closeVars, readers, dpc, result, worker, history>>

\* The lock is held; somebody else has already shut the queue down.
ShutdownAgain(s) ==
    /\ spc[s] = "locking"
    /\ readers = {}
    /\ isClosed
    /\ writer' = NoCloser
    /\ spc' = [spc EXCEPT ![s] = "done"]
    /\ UNCHANGED <<queue, closeVars, readers, dpc, result, worker, history>>

\* The lock is held: isClosed = true; cancel().
ShutdownCancel(s) ==
    /\ spc[s] = "locking"
    /\ readers = {}
    /\ ~isClosed
    /\ isClosed' = TRUE
    /\ cancelled' = TRUE
    /\ spc' = [spc EXCEPT ![s] = "waiting"]
    /\ UNCHANGED <<queue, chanClosed, lockVars, dpc, result, worker, history>>

\* Mutant: the wait is missing.
WaitedNot == TRUE

\* wg.Wait() returns.
Waited == \A w \in Workers : worker[w].pc = "exited"

\* After the wait, close(aq.tasks) and the deferred Unlock.
ShutdownClose(s) ==
    /\ spc[s] = "waiting"
    /\ Waited
    /\ chanClosed' = TRUE
    /\ writer' = NoCloser
    /\ spc' = [spc EXCEPT ![s] = "done"]
    /\ UNCHANGED <<queue, isClosed, cancelled, readers, dpc, result, worker,
                   history>>

-----------------------------------------------------------------------------
Dispatcher(t) == DispatchRLock(t) \/ DispatchBody(t)

Worker(w) == Receive(w) \/ HandleOK(w) \/ HandleError(w) \/ Retry(w) \/ Exit(w)

Closer(s) == \/ ShutdownLock(s) \/ ShutdownAgain(s)
             \/ ShutdownCancel(s) \/ ShutdownClose(s)

Next ==
    \/ \E t \in Tasks : DispatchCall(t) \/ Dispatcher(t)
    \/ \E w \in Workers : Worker(w)
    \/ \E s \in Closers : ShutdownCall(s) \/ Closer(s)

Spec == Init /\ [][Next]_vars

\* Every goroutine that can run does (Go's scheduler; HandleRequest returns
\* because each of its attempts has a timeout).  Nobody has to call Dispatch
\* or Shutdown.
Fairness ==
    /\ \A t \in Tasks : WF_vars(Dispatcher(t))
    /\ \A w \in Workers : WF_vars(Worker(w))
    /\ \A s \in Closers : WF_vars(Closer(s))

FairSpec == Spec /\ Fairness

-----------------------------------------------------------------------------
Holds(w, t) == worker[w].task = t

\* No dispatcher ever sends on the closed channel, which would panic, and no
\* worker ever takes the zero Task a closed channel yields: Shutdown closes
\* aq.tasks only under the write lock and after the last worker has left
\* (lines 148-158).
ClosedChannelUntouched ==
    /\ \A t \in Tasks : result[t] # "panic"
    /\ \A w \in Workers : worker[w].pc = "handle" => worker[w].task \in Tasks

\* A task is in one place: it sits once in the channel or with one worker,
\* never both, and only if Dispatch said it was accepted.  No interleaving of
\* dispatchers, workers and Shutdown duplicates a report.
OwnedOnce ==
    /\ \A i, j \in 1 .. Len(queue) : queue[i] = queue[j] => i = j
    /\ \A i \in 1 .. Len(queue) :
          /\ result[queue[i]] = "ok"
          /\ tries[queue[i]] = 0
    /\ \A w \in Workers : worker[w].task # NoTask =>
          /\ result[worker[w].task] = "ok"
          /\ \A i \in 1 .. Len(queue) : queue[i] # worker[w].task
          /\ \A v \in Workers : Holds(v, worker[w].task) => v = w

\* Shutdown returns, whatever the workers are in the middle of and however
\* often they prefer the next task to the cancelled context, and Dispatch
\* returns to the request that called it, even if it arrives while Shutdown
\* holds the lock and waits for the workers (lines 78-97, 147-159).
CallsReturn ==
    /\ \A s \in Closers : spc[s] = "called" ~> spc[s] = "done"
    /\ \A t \in Tasks : dpc[t] = "called" ~> dpc[t] = "done"

\* An accepted task is attempted and done with, unless the queue is shut
\* down first: no wake-up is lost and no worker is stuck.
AcceptedHandled ==
    \A t \in Tasks : result[t] = "ok" ~>
        \/ cancelled
        \/ tries[t] > 0 /\ \A w \in Workers : ~Holds(w, t)

-----------------------------------------------------------------------------
\* The queue seen as a TaskService.
InQueue(t) == \E i \in 1 .. Len(queue) : queue[i] = t

Held(t) == \E w \in Workers : Holds(w, t)

Status(res, queued, held) ==
    CASE res = "none"            -> "new"
      [] res \notin {"none", "ok"} -> "refused"
      [] res = "ok" /\ queued    -> "accepted"
      [] res = "ok" /\ ~queued /\ held -> "running"
      [] OTHER                   -> "finished"

statusBar == [t \in Tasks |-> Status(result[t], InQueue(t), Held(t))]

modeBar == IF chanClosed THEN "stopped" ELSE IF isClosed THEN "closing" ELSE "open"

Service == INSTANCE TaskService WITH status <- statusBar, mode <- modeBar

\* The queue implements TaskService: accepted at most once, run at most once,
\* nothing run or begun once Shutdown has returned.
ImplementsService == Service!Spec
=============================================================================
