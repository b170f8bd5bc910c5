-------------------------- MODULE AsyncQueueProofs --------------------------
(***************************************************************************)
(* Proofs about AsyncQueue, for any tasks, workers, closers, queue size    *)
(* and number of retries: types, the safety properties, and that it        *)
(* implements TaskService.                                                 *)
(***************************************************************************)
EXTENDS AsyncQueue, TLAPS

\* Shutdown's calls exclude one another: only the owner of the write lock is
\* between Lock and Unlock.
LockInv ==
    \A s \in Closers : spc[s] \in {"locking", "waiting"} => writer = s

\* The channel is closed by a Shutdown that has set isClosed and has seen
\* every worker leave.
CloseInv ==
    /\ \A s \in Closers : spc[s] = "waiting" => isClosed /\ ~chanClosed
    /\ chanClosed => isClosed /\ \A w \in Workers : worker[w].pc = "exited"

\* A worker has a task exactly while it handles it or sleeps before the next
\* attempt, which is one that is left.
WorkerInv ==
    \A w \in Workers :
        /\ worker[w].pc \in {"select", "exited"} => worker[w].task = NoTask
        /\ worker[w].pc \in {"handle", "sleep"} => worker[w].task \in Tasks
        /\ worker[w].pc = "sleep" => worker[w].attempt < MaxRetries

\* A task without a result has not been touched, and no result is a panic.
DispatchInv ==
    \A t \in Tasks :
        /\ dpc[t] # "done" => result[t] = "none"
        /\ result[t] = "none" => tries[t] = 0
        /\ result[t] # "panic"

IndInv == TypeOK /\ LockInv /\ CloseInv /\ WorkerInv /\ DispatchInv /\ OwnedOnce

-----------------------------------------------------------------------------
(* Sequences of tasks *)

\* Append keeps what is there and adds its element at the end.
LEMMA AppendFacts ==
    ASSUME NEW q \in Seq(Tasks), NEW t \in Tasks
    PROVE  /\ Append(q, t) \in Seq(Tasks)
           /\ Len(Append(q, t)) = Len(q) + 1
           /\ Append(q, t)[Len(q) + 1] = t
           /\ \A i \in 1 .. Len(q) : Append(q, t)[i] = q[i]
           /\ Len(q) \in Nat
  OBVIOUS

\* Head and Tail part a sequence.
LEMMA TailFacts ==
    ASSUME NEW q \in Seq(Tasks), q # <<>>
    PROVE  /\ Head(q) \in Tasks /\ Head(q) = q[1]
           /\ Tail(q) \in Seq(Tasks)
           /\ Len(q) \in Nat \ {0} /\ Len(Tail(q)) = Len(q) - 1
           /\ \A i \in 1 .. Len(Tail(q)) : i + 1 \in 1 .. Len(q) /\ Tail(q)[i] = q[i + 1]
  OBVIOUS

-----------------------------------------------------------------------------
(* Types *)

\* The first state is well typed.
LEMMA InitType == Init => TypeOK
  <1> SUFFICES ASSUME Init PROVE TypeOK
    OBVIOUS
  <1>1. Idle \in WorkerState
    BY QueueConfig DEF Idle, WorkerState
  <1>2. queue \in Seq(Tasks) /\ Len(queue) <= QueueSize
    BY QueueConfig DEF Init
  <1> QED BY <1>1, <1>2 DEF Init, TypeOK

\* What a failed attempt leaves of a worker is a worker's state.
LEMMA AfterErrorType ==
    ASSUME NEW x \in WorkerState, x.pc = "handle", x.task \in Tasks
    PROVE  /\ AfterError(x) \in WorkerState
           /\ \/ AfterError(x) = Idle
              \/ /\ x.attempt < MaxRetries /\ AfterError(x).pc = "sleep"
                 /\ AfterError(x).task = x.task /\ AfterError(x).attempt = x.attempt
  BY QueueConfig DEF AfterError, WorkerState, Idle

\* Every step keeps the state well typed.
LEMMA TypeStep ==
    ASSUME TypeOK, WorkerInv, [Next]_vars
    PROVE  TypeOK'
  <1> USE QueueConfig DEF TypeOK, lockVars, closeVars, history
  <1>1. ASSUME NEW t \in Tasks, DispatchCall(t) PROVE TypeOK'
    BY <1>1 DEF DispatchCall
  <1>2. ASSUME NEW t \in Tasks, DispatchRLock(t) PROVE TypeOK'
    BY <1>2 DEF DispatchRLock
  <1>3. ASSUME NEW t \in Tasks, DispatchBody(t) PROVE TypeOK'
    <2>1. PICK r \in Outcomes : /\ result' = [result EXCEPT ![t] = r]
                                /\ queue' = IF r = "ok" THEN Append(queue, t) ELSE queue
      BY <1>3 DEF DispatchBody
    <2>2. /\ r \in {"ok", "closed", "cancelled", "full", "panic"}
          /\ r = "ok" => Len(queue) < QueueSize
      BY <2>1 DEF Outcomes, SelectOutcomes
    <2>3. queue' \in Seq(Tasks) /\ Len(queue') <= QueueSize
      BY <2>1, <2>2, AppendFacts
    <2> QED BY <1>3, <2>1, <2>2, <2>3 DEF DispatchBody
  <1>4. ASSUME NEW w \in Workers, NEW t \in Tasks, NEW n \in 0 .. MaxRetries, Attempt(w, t, n)
        PROVE  worker' \in [Workers -> WorkerState] /\ tries' \in [Tasks -> Nat]
    BY <1>4 DEF Attempt, WorkerState
  <1>5. ASSUME NEW w \in Workers, Receive(w) PROVE TypeOK'
    <2>1. CASE queue # <<>>
      <3>1. Head(queue) \in Tasks /\ Tail(queue) \in Seq(Tasks) /\ Len(Tail(queue)) <= QueueSize
        BY <2>1, TailFacts
      <3>2. Attempt(w, Head(queue), 0) /\ queue' = Tail(queue)
        BY <1>5, <2>1 DEF Receive
      <3>3. worker' \in [Workers -> WorkerState] /\ tries' \in [Tasks -> Nat]
        BY <1>4, <3>1, <3>2
      <3> QED BY <1>5, <3>1, <3>2, <3>3 DEF Receive
    <2>2. CASE queue = <<>>
      <3>1. /\ worker' = [worker EXCEPT ![w] = [pc |-> "handle", task |-> NoTask,
                                                attempt |-> 0, doomed |-> cancelled]]
            /\ UNCHANGED <<tries, queue>>
        BY <1>5, <2>2 DEF Receive, Attempt
      <3> QED BY <1>5, <3>1 DEF Receive, WorkerState
    <2> QED BY <2>1, <2>2
  <1>6. ASSUME NEW w \in Workers, HandleOK(w) PROVE TypeOK'
    <2>1. worker[w].task \in Tasks
      BY <1>6 DEF HandleOK, WorkerInv
    <2> QED BY <1>6, <2>1 DEF HandleOK, AfterSuccess, Idle, WorkerState
  <1>7. ASSUME NEW w \in Workers, HandleError(w) PROVE TypeOK'
    <2>1. AfterError(worker[w]) \in WorkerState
      BY <1>7, AfterErrorType DEF HandleError, WorkerInv
    <2> QED BY <1>7, <2>1 DEF HandleError
  <1>8. ASSUME NEW w \in Workers, Retry(w) PROVE TypeOK'
    <2>1. worker[w] \in WorkerState /\ worker[w].task \in Tasks /\ worker[w].attempt < MaxRetries
      BY <1>8 DEF Retry, WorkerInv
    <2>2. worker[w].attempt + 1 \in 0 .. MaxRetries
      BY <2>1 DEF WorkerState
    <2>3. worker' \in [Workers -> WorkerState] /\ tries' \in [Tasks -> Nat]
      BY <1>4, <1>8, <2>1, <2>2 DEF Retry
    <2> QED BY <1>8, <2>3 DEF Retry
  <1>9. ASSUME NEW w \in Workers, Exit(w) PROVE TypeOK'
    BY <1>9, ZenonT(30) DEF Exit, WorkerState
  <1>10. ASSUME NEW s \in Closers, ShutdownCall(s) PROVE TypeOK'
    BY <1>10 DEF ShutdownCall
  <1>11. ASSUME NEW s \in Closers, Closer(s) PROVE TypeOK'
    BY <1>11 DEF Closer, ShutdownLock, ShutdownAgain, ShutdownCancel, ShutdownClose
  <1>12. CASE UNCHANGED vars
    BY <1>12 DEF vars
  <1> QED BY <1>1, <1>2, <1>3, <1>5, <1>6, <1>7, <1>8, <1>9, <1>10, <1>11, <1>12
          DEF Next, Dispatcher, Worker

-----------------------------------------------------------------------------
(* Locks, closing, workers and results *)

\* Only Shutdown touches the write lock, and it takes it when it is free.
LEMMA LockStep ==
    ASSUME TypeOK, LockInv, [Next]_vars
    PROVE  LockInv'
  <1> USE DEF TypeOK, LockInv, lockVars
  <1>1. CASE UNCHANGED <<spc, writer>>
    BY <1>1
  <1>2. ASSUME NEW s \in Closers, ShutdownCall(s) PROVE LockInv'
    BY <1>2 DEF ShutdownCall
  <1>3. ASSUME NEW s \in Closers, ShutdownLock(s) PROVE LockInv'
    <2>1. \A u \in Closers : spc[u] \notin {"locking", "waiting"}
      BY <1>3, QueueConfig DEF ShutdownLock
    <2> QED BY <1>3, <2>1 DEF ShutdownLock
  <1>4. ASSUME NEW s \in Closers, ShutdownCancel(s) PROVE LockInv'
    BY <1>4 DEF ShutdownCancel
  <1>5. ASSUME NEW s \in Closers, ShutdownAgain(s) \/ ShutdownClose(s) PROVE LockInv'
    <2>1. writer = s /\ \A u \in Closers \ {s} : spc[u] \notin {"locking", "waiting"}
      BY <1>5 DEF ShutdownAgain, ShutdownClose
    <2> QED BY <1>5, <2>1 DEF ShutdownAgain, ShutdownClose
  <1> QED BY <1>1, <1>2, <1>3, <1>4, <1>5 DEF Next, Dispatcher, Worker, Closer, vars,
          DispatchCall, DispatchRLock, DispatchBody, Receive, HandleOK, HandleError, Retry, Exit

\* The channel stays open until the last worker has left, and no worker
\* comes back.
LEMMA CloseStep ==
    ASSUME TypeOK, LockInv, CloseInv, [Next]_vars
    PROVE  CloseInv'
  <1> USE DEF TypeOK, CloseInv, closeVars
  <1>1. CASE UNCHANGED <<spc, closeVars, worker>>
    BY <1>1
  <1>2. ASSUME NEW w \in Workers, Worker(w) PROVE CloseInv'
    <2>1. worker[w].pc # "exited" /\ UNCHANGED <<spc, closeVars>>
      BY <1>2 DEF Worker, Receive, HandleOK, HandleError, Retry, Exit
    <2> QED BY <2>1
  <1>3. ASSUME NEW s \in Closers, ShutdownCall(s) \/ ShutdownLock(s) \/ ShutdownAgain(s)
        PROVE  CloseInv'
    BY <1>3 DEF ShutdownCall, ShutdownLock, ShutdownAgain
  <1>4. ASSUME NEW s \in Closers, ShutdownCancel(s) PROVE CloseInv'
    BY <1>4 DEF ShutdownCancel
  <1>5. ASSUME NEW s \in Closers, ShutdownClose(s) PROVE CloseInv'
    <2>1. isClosed /\ \A u \in Closers \ {s} : spc[u] # "waiting"
      BY <1>5 DEF ShutdownClose, LockInv
    <2> QED BY <1>5, <2>1 DEF ShutdownClose, Waited
  <1> QED BY <1>1, <1>2, <1>3, <1>4, <1>5 DEF Next, Dispatcher, Closer, vars,
          DispatchCall, DispatchRLock, DispatchBody

\* A worker only ever takes a real task: the closed channel has no reader.
LEMMA WorkerStep ==
    ASSUME TypeOK, CloseInv, WorkerInv, [Next]_vars
    PROVE  WorkerInv'
  <1> USE DEF TypeOK, WorkerInv
  <1>1. CASE UNCHANGED worker
    BY <1>1
  <1>2. ASSUME NEW w \in Workers, NEW x,
               worker' = [worker EXCEPT ![w] = x],
               x.pc \in {"select", "exited"} => x.task = NoTask,
               x.pc \in {"handle", "sleep"} => x.task \in Tasks,
               x.pc = "sleep" => x.attempt < MaxRetries
        PROVE  WorkerInv'
    BY <1>2
  <1>3. ASSUME NEW w \in Workers, Receive(w) PROVE WorkerInv'
    <2>1. queue # <<>>
      BY <1>3 DEF Receive, CloseInv
    <2>2. Head(queue) \in Tasks
      BY <2>1, TailFacts
    <2> DEFINE x == [pc |-> "handle", task |-> Head(queue), attempt |-> 0, doomed |-> cancelled]
    <2>3. worker' = [worker EXCEPT ![w] = x]
      BY <1>3, <2>1 DEF Receive, Attempt
    <2>4. x.pc = "handle" /\ x.task \in Tasks
      BY <2>2
    <2> QED BY <1>2, <2>3, <2>4
  <1>4. ASSUME NEW w \in Workers, HandleOK(w) PROVE WorkerInv'
    <2>1. worker' = [worker EXCEPT ![w] = Idle] /\ Idle.pc = "select" /\ Idle.task = NoTask
      BY <1>4 DEF HandleOK, AfterSuccess, Idle
    <2> QED BY <1>2, <2>1
  <1>5. ASSUME NEW w \in Workers, HandleError(w) PROVE WorkerInv'
    <2> DEFINE x == AfterError(worker[w])
    <2>1. worker[w] \in WorkerState /\ worker[w].pc = "handle" /\ worker[w].task \in Tasks
      BY <1>5 DEF HandleError
    <2>2. \/ x.pc = "select" /\ x.task = NoTask
          \/ x.pc = "sleep" /\ x.task \in Tasks /\ x.attempt < MaxRetries
      BY <2>1, AfterErrorType DEF Idle
    <2>3. worker' = [worker EXCEPT ![w] = x]
      BY <1>5 DEF HandleError
    <2> HIDE DEF x
    <2> QED BY <1>2, <2>2, <2>3
  <1>6. ASSUME NEW w \in Workers, Retry(w) PROVE WorkerInv'
    <2> DEFINE x == [pc |-> "handle", task |-> worker[w].task,
                     attempt |-> worker[w].attempt + 1, doomed |-> cancelled]
    <2>1. worker' = [worker EXCEPT ![w] = x]
      BY <1>6 DEF Retry, Attempt
    <2>2. x.pc = "handle" /\ x.task \in Tasks
      BY <1>6 DEF Retry
    <2> QED BY <1>2, <2>1, <2>2
  <1>7. ASSUME NEW w \in Workers, Exit(w) PROVE WorkerInv'
    <2> DEFINE x == [worker[w] EXCEPT !.pc = "exited"]
    <2>1. worker' = [worker EXCEPT ![w] = x]
      BY <1>7 DEF Exit
    <2>2. worker[w] \in WorkerState /\ worker[w].task = NoTask
      BY <1>7 DEF Exit
    <2>3. x.pc = "exited" /\ x.task = NoTask
      BY <2>2 DEF WorkerState
    <2> QED BY <1>2, <2>1, <2>3
  <1> QED BY <1>1, <1>3, <1>4, <1>5, <1>6, <1>7 DEF Next, Dispatcher, Worker, Closer, vars,
          DispatchCall, DispatchRLock, DispatchBody,
          ShutdownCall, ShutdownLock, ShutdownAgain, ShutdownCancel, ShutdownClose

\* A task with a worker is one of Tasks, and was accepted.
LEMMA HeldAccepted ==
    ASSUME WorkerInv, OwnedOnce, NEW w \in Workers, worker[w].pc \in {"handle", "sleep"}
    PROVE  /\ worker[w].task \in Tasks /\ worker[w].task # NoTask
           /\ result[worker[w].task] = "ok"
  BY QueueConfig DEF WorkerInv, OwnedOnce

\* A result is given once, is no panic, and is there before the first try.
LEMMA DispatchStep ==
    ASSUME TypeOK, CloseInv, WorkerInv, DispatchInv, OwnedOnce, [Next]_vars
    PROVE  DispatchInv'
  <1> USE DEF TypeOK, DispatchInv
  <1>1. CASE UNCHANGED <<dpc, result, tries>>
    BY <1>1
  <1>2. ASSUME NEW t \in Tasks, DispatchCall(t) \/ DispatchRLock(t) PROVE DispatchInv'
    BY <1>2 DEF DispatchCall, DispatchRLock, history
  <1>3. ASSUME NEW t \in Tasks, DispatchBody(t) PROVE DispatchInv'
    <2>1. PICK r \in Outcomes : result' = [result EXCEPT ![t] = r]
      BY <1>3 DEF DispatchBody
    <2>2. r \notin {"none", "panic"}
      BY <2>1 DEF Outcomes, SelectOutcomes, CloseInv
    <2> QED BY <1>3, <2>1, <2>2 DEF DispatchBody, history
  <1>4. ASSUME NEW t \in Tasks, result[t] = "ok", tries' = [tries EXCEPT ![t] = @ + 1],
               UNCHANGED <<dpc, result>>
        PROVE  DispatchInv'
    BY <1>4
  <1>5. ASSUME NEW w \in Workers, Receive(w) PROVE DispatchInv'
    <2>1. queue # <<>>
      BY <1>5 DEF Receive, CloseInv
    <2>2. Head(queue) \in Tasks /\ Head(queue) = queue[1] /\ 1 \in 1 .. Len(queue)
      BY <2>1, TailFacts
    <2>3. result[Head(queue)] = "ok"
      BY <2>2 DEF OwnedOnce
    <2> QED BY <1>4, <1>5, <2>1, <2>2, <2>3 DEF Receive, Attempt
  <1>6. ASSUME NEW w \in Workers, Retry(w) PROVE DispatchInv'
    <2>1. worker[w].task \in Tasks /\ result[worker[w].task] = "ok"
      BY <1>6, HeldAccepted DEF Retry
    <2> QED BY <1>4, <1>6, <2>1 DEF Retry, Attempt
  <1> QED BY <1>1, <1>2, <1>3, <1>5, <1>6 DEF Next, Dispatcher, Worker, Closer, vars, history,
          HandleOK, HandleError, Exit,
          ShutdownCall, ShutdownLock, ShutdownAgain, ShutdownCancel, ShutdownClose

\* A task changes hands, it is never copied.
LEMMA OwnedStep ==
    ASSUME TypeOK, CloseInv, WorkerInv, DispatchInv, OwnedOnce, [Next]_vars
    PROVE  OwnedOnce'
  <1> USE QueueConfig DEF TypeOK, Holds
  <1>1. CASE UNCHANGED <<queue, worker, result, tries>>
    BY <1>1 DEF OwnedOnce
  <1>2. ASSUME NEW t \in Tasks, DispatchBody(t) PROVE OwnedOnce'
    <2>1. PICK r \in Outcomes : /\ result' = [result EXCEPT ![t] = r]
                                /\ queue' = IF r = "ok" THEN Append(queue, t) ELSE queue
      BY <1>2 DEF DispatchBody
    <2>2. result[t] = "none" /\ tries[t] = 0
      BY <1>2 DEF DispatchBody, DispatchInv
    <2>3. /\ \A i \in 1 .. Len(queue) : queue[i] # t
          /\ \A w \in Workers : worker[w].task # t
      BY <2>2 DEF OwnedOnce
    <2>4. UNCHANGED <<worker, tries>>
      BY <1>2 DEF DispatchBody, history
    <2>5. \A u \in Tasks : u # t => result'[u] = result[u]
      BY <2>1
    <2>6. CASE r # "ok"
      <3>1. \A i \in 1 .. Len(queue) : result'[queue[i]] = result[queue[i]]
        BY <2>3, <2>5
      <3>2. \A w \in Workers : worker[w].task # NoTask =>
               result'[worker[w].task] = result[worker[w].task]
        BY <2>3, <2>5 DEF WorkerState
      <3> QED BY <2>1, <2>4, <2>6, <3>1, <3>2, ZenonT(30) DEF OwnedOnce
    <2>7. CASE r = "ok"
      <3>1. /\ queue' = Append(queue, t) /\ Len(queue') = Len(queue) + 1 /\ Len(queue) \in Nat
            /\ queue'[Len(queue) + 1] = t /\ \A i \in 1 .. Len(queue) : queue'[i] = queue[i]
        BY <2>1, <2>7, AppendFacts
      <3>2. result'[t] = "ok"
        BY <2>1, <2>7
      <3>3. \A i \in 1 .. Len(queue') :
               \/ i \in 1 .. Len(queue) /\ queue'[i] = queue[i] /\ queue[i] # t
               \/ i = Len(queue) + 1 /\ queue'[i] = t
        BY <2>3, <3>1
      <3>4. ASSUME NEW i \in 1 .. Len(queue'), NEW j \in 1 .. Len(queue'), queue'[i] = queue'[j]
            PROVE  i = j
        BY <3>3, <3>4, ZenonT(40) DEF OwnedOnce
      <3>5. ASSUME NEW i \in 1 .. Len(queue')
            PROVE  result'[queue'[i]] = "ok" /\ tries'[queue'[i]] = 0
        <4>1. CASE i = Len(queue) + 1
          BY <2>2, <2>4, <3>1, <3>2, <4>1
        <4>2. CASE i \in 1 .. Len(queue)
          <5>1. queue'[i] = queue[i] /\ queue[i] \in Tasks /\ queue[i] # t
            BY <2>3, <3>1, <4>2
          <5>2. result[queue[i]] = "ok" /\ tries[queue[i]] = 0
            BY <4>2 DEF OwnedOnce
          <5> QED BY <2>4, <2>5, <5>1, <5>2
        <4> QED BY <3>3, <4>1, <4>2
      <3>6. ASSUME NEW w \in Workers, worker[w].task # NoTask
            PROVE  /\ result'[worker[w].task] = "ok"
                   /\ \A i \in 1 .. Len(queue') : queue'[i] # worker[w].task
                   /\ \A v \in Workers : Holds(v, worker[w].task) => v = w
        <4>1. worker[w].task \in Tasks /\ worker[w].task # t
          BY <2>3, <3>6 DEF WorkerState
        <4> QED BY <2>5, <3>3, <3>6, <4>1 DEF OwnedOnce
      <3> QED BY <2>4, <3>4, <3>5, <3>6 DEF OwnedOnce
    <2> QED BY <2>6, <2>7
  <1>3. ASSUME NEW w \in Workers, Receive(w) PROVE OwnedOnce'
    <2> DEFINE h == Head(queue)
    <2>1. queue # <<>>
      BY <1>3 DEF Receive, CloseInv
    <2>2. /\ h \in Tasks /\ h = queue[1] /\ 1 \in 1 .. Len(queue)
          /\ queue' = Tail(queue)
          /\ \A i \in 1 .. Len(queue') : /\ i + 1 \in 1 .. Len(queue) /\ i + 1 # 1
                                         /\ queue'[i] = queue[i + 1]
      <3>1. queue \in Seq(Tasks) /\ queue' = Tail(queue)
        BY <1>3, <2>1 DEF Receive
      <3>2. \A i \in 1 .. Len(queue') : i + 1 # 1
        BY <3>1, <2>1, TailFacts
      <3> QED BY <2>1, <3>1, <3>2, TailFacts
    <2>3. /\ worker' = [worker EXCEPT ![w] = [pc |-> "handle", task |-> h,
                                             attempt |-> 0, doomed |-> cancelled]]
          /\ tries' = [tries EXCEPT ![h] = @ + 1]
          /\ UNCHANGED result
      BY <1>3, <2>1, <2>2 DEF Receive, Attempt
    <2> HIDE DEF h
    <2>4. /\ worker'[w].task = h /\ \A v \in Workers \ {w} : worker'[v] = worker[v]
          /\ \A u \in Tasks : u # h => tries'[u] = tries[u]
      BY <2>2, <2>3
    <2>5. /\ result[h] = "ok"
          /\ \A i \in 1 .. Len(queue') : queue'[i] # h
          /\ \A v \in Workers : worker[v].task # h
      <3>1. \A v \in Workers : worker[v].task # h
        BY <2>2 DEF OwnedOnce
      <3> QED BY <2>2, <3>1 DEF OwnedOnce
    <2>6. ASSUME NEW i \in 1 .. Len(queue'), NEW j \in 1 .. Len(queue'), queue'[i] = queue'[j]
          PROVE  i = j
      <3>1. i + 1 = j + 1
        BY <2>2, <2>6 DEF OwnedOnce
      <3> QED BY <3>1
    <2>7. ASSUME NEW i \in 1 .. Len(queue')
          PROVE  result'[queue'[i]] = "ok" /\ tries'[queue'[i]] = 0
      <3>1. queue'[i] \in Tasks /\ queue'[i] # h
        BY <2>2, <2>5
      <3> QED BY <2>2, <2>3, <2>4, <3>1 DEF OwnedOnce
    <2>8. ASSUME NEW v \in Workers, worker'[v].task # NoTask
          PROVE  /\ result'[worker'[v].task] = "ok"
                 /\ \A i \in 1 .. Len(queue') : queue'[i] # worker'[v].task
                 /\ \A x \in Workers : worker'[x].task = worker'[v].task => x = v
      <3>1. CASE v = w
        BY <2>3, <2>4, <2>5, <3>1
      <3>2. CASE v # w
        BY <2>2, <2>3, <2>4, <2>5, <2>8, <3>2 DEF OwnedOnce
      <3> QED BY <3>1, <3>2
    <2> QED BY <2>6, <2>7, <2>8 DEF OwnedOnce
  <1>4. ASSUME NEW w \in Workers, UNCHANGED <<queue, result>>,
               \A v \in Workers : worker'[v].task \in {worker[v].task, NoTask},
               \/ UNCHANGED tries
               \/ worker[w].task \in Tasks /\ tries' = [tries EXCEPT ![worker[w].task] = @ + 1]
        PROVE  OwnedOnce'
    <2>1. \A i \in 1 .. Len(queue) : tries'[queue[i]] = 0
      <3>1. worker[w].task \in Tasks => \A i \in 1 .. Len(queue) : queue[i] # worker[w].task
        BY DEF OwnedOnce
      <3> QED BY <1>4, <3>1 DEF OwnedOnce
    <2>2. ASSUME NEW v \in Workers, worker'[v].task # NoTask
          PROVE  /\ worker'[v].task = worker[v].task /\ worker[v].task # NoTask
                 /\ \A x \in Workers : worker'[x].task = worker'[v].task => x = v
      <3>1. worker'[v].task = worker[v].task
        BY <1>4, <2>2
      <3>2. \A x \in Workers : worker'[x].task = worker[v].task => worker[x].task = worker[v].task
        BY <1>4, <2>2, <3>1
      <3> QED BY <2>2, <3>1, <3>2 DEF OwnedOnce
    <2> QED BY <1>4, <2>1, <2>2 DEF OwnedOnce
  <1>5. ASSUME NEW w \in Workers, HandleOK(w) PROVE OwnedOnce'
    <2>1. \A v \in Workers : worker'[v].task \in {worker[v].task, NoTask}
      BY <1>5 DEF HandleOK, AfterSuccess, Idle
    <2> QED BY <1>4, <1>5, <2>1 DEF HandleOK
  <1>6. ASSUME NEW w \in Workers, HandleError(w) PROVE OwnedOnce'
    <2>1. AfterError(worker[w]).task \in {worker[w].task, NoTask}
      BY <1>6, AfterErrorType DEF HandleError, WorkerInv, Idle
    <2>2. worker' = [worker EXCEPT ![w] = AfterError(worker[w])]
      BY <1>6 DEF HandleError
    <2>3. \A v \in Workers : worker'[v].task \in {worker[v].task, NoTask}
      BY <2>1, <2>2
    <2> QED BY <1>4, <1>6, <2>3 DEF HandleError, history
  <1>7. ASSUME NEW w \in Workers, Retry(w) PROVE OwnedOnce'
    <2>1. worker[w].task \in Tasks
      BY <1>7 DEF Retry, WorkerInv
    <2>2. /\ \A v \in Workers : worker'[v].task \in {worker[v].task, NoTask}
          /\ tries' = [tries EXCEPT ![worker[w].task] = @ + 1]
      BY <1>7, <2>1 DEF Retry, Attempt
    <2> QED BY <1>4, <1>7, <2>1, <2>2 DEF Retry
  <1>8. ASSUME NEW w \in Workers, Exit(w) PROVE OwnedOnce'
    <2>1. \A v \in Workers : worker'[v].task \in {worker[v].task, NoTask}
      BY <1>8 DEF Exit, WorkerState
    <2> QED BY <1>4, <1>8, <2>1 DEF Exit, history
  <1> QED BY <1>1, <1>2, <1>3, <1>5, <1>6, <1>7, <1>8
          DEF Next, Dispatcher, Worker, Closer, vars, history, DispatchCall, DispatchRLock,
              ShutdownCall, ShutdownLock, ShutdownAgain, ShutdownCancel, ShutdownClose

-----------------------------------------------------------------------------
(* The results *)

\* The invariant holds throughout.
LEMMA Invariance == Spec => []IndInv
  <1>1. Init => IndInv
    <2> SUFFICES ASSUME Init PROVE IndInv
      OBVIOUS
    <2>1. LockInv /\ CloseInv
      BY DEF Init, LockInv, CloseInv
    <2>2. WorkerInv
      BY DEF Init, WorkerInv, Idle
    <2>3. DispatchInv
      BY DEF Init, DispatchInv
    <2>4. OwnedOnce
      BY DEF Init, OwnedOnce, Idle
    <2> QED BY <2>1, <2>2, <2>3, <2>4, InitType DEF IndInv
  <1>2. IndInv /\ [Next]_vars => IndInv'
    BY TypeStep, LockStep, CloseStep, WorkerStep, DispatchStep, OwnedStep DEF IndInv
  <1> QED BY <1>1, <1>2, PTL DEF Spec

\* The queue never holds more than QueueSize tasks and no attempt goes beyond
\* MaxRetries (async_request.go:77-125).
THEOREM TypeCorrect == Spec => []TypeOK
  <1>1. IndInv => TypeOK
    BY DEF IndInv
  <1> QED BY <1>1, Invariance, PTL

\* No dispatcher sends on the closed channel and no worker takes a zero Task
\* from it, however Shutdown races with them (async_request.go:147-159).
THEOREM ChannelUntouched == Spec => []ClosedChannelUntouched
  <1>1. IndInv => ClosedChannelUntouched
    BY DEF IndInv, DispatchInv, WorkerInv, ClosedChannelUntouched
  <1> QED BY <1>1, Invariance, PTL

\* An accepted task is in one place, the channel or one worker, and in none
\* twice: retries and Shutdown duplicate no report (async_request.go:77-125).
THEOREM Owned == Spec => []OwnedOnce
  <1>1. IndInv => OwnedOnce
    BY DEF IndInv
  <1> QED BY <1>1, Invariance, PTL

-----------------------------------------------------------------------------
(* The queue implements TaskService *)

\* Where the place of no task changes, the status of none does.
LEMMA SameStatus ==
    ASSUME \A u \in Tasks : /\ result'[u] = result[u]
                            /\ InQueue(u)' <=> InQueue(u)
                            /\ Held(u)' <=> Held(u)
    PROVE  statusBar' = statusBar
  <1>1. ASSUME NEW u \in Tasks
        PROVE  Status(result'[u], InQueue(u)', Held(u)') = Status(result[u], InQueue(u), Held(u))
    BY DEF Status
  <1> QED BY <1>1 DEF statusBar

\* No task but t changes its place.
OnlyTask(t) ==
    \A u \in Tasks \ {t} : /\ result'[u] = result[u]
                           /\ InQueue(u)' <=> InQueue(u)
                           /\ Held(u)' <=> Held(u)

\* Where the place of one task changes, only its status does.
LEMMA OneStatus ==
    ASSUME NEW t \in Tasks, OnlyTask(t)
    PROVE  statusBar' = [statusBar EXCEPT ![t] = Status(result'[t], InQueue(t)', Held(t)')]
  <1> USE DEF OnlyTask
  <1>1. ASSUME NEW u \in Tasks \ {t}
        PROVE  Status(result'[u], InQueue(u)', Held(u)') = Status(result[u], InQueue(u), Held(u))
    BY DEF Status
  <1> QED BY <1>1 DEF statusBar

\* The first state is the service's first state.
LEMMA InitRefines == Init => Service!Init
  <1> SUFFICES ASSUME Init PROVE Service!Init
    OBVIOUS
  <1>1. \A t \in Tasks : Status(result[t], InQueue(t), Held(t)) = "new"
    BY DEF Init, Status
  <1>2. modeBar = "open"
    BY DEF Init, modeBar
  <1> QED BY <1>1, <1>2 DEF Service!Init, statusBar

\* Dispatch accepts or refuses its task.
LEMMA DispatchRefines ==
    ASSUME IndInv, NEW t \in Tasks, DispatchBody(t)
    PROVE  Service!Accept(t) \/ Service!Refuse(t)
  <1> USE DEF IndInv, TypeOK
  <1>1. PICK r \in Outcomes : /\ result' = [result EXCEPT ![t] = r]
                              /\ queue' = IF r = "ok" THEN Append(queue, t) ELSE queue
    BY DEF DispatchBody
  <1>2. UNCHANGED <<worker, closeVars>> /\ modeBar' = modeBar
    BY DEF DispatchBody, modeBar, closeVars
  <1>3. result[t] = "none"
    BY DEF DispatchBody, DispatchInv
  <1>4. statusBar[t] = "new"
    BY <1>3 DEF statusBar, Status
  <1>5. \A u \in Tasks \ {t} : /\ result'[u] = result[u]
                               /\ Held(u)' <=> Held(u)
    BY <1>1, <1>2 DEF Held, Holds
  <1>6. CASE r = "ok"
    <2>1. modeBar = "open"
      BY <1>6 DEF Outcomes, CloseInv, modeBar
    <2>2. \A u \in Tasks : InQueue(u)' <=> InQueue(u) \/ u = t
      <3>1. /\ queue' = Append(queue, t) /\ Len(queue') = Len(queue) + 1 /\ Len(queue) \in Nat
            /\ queue'[Len(queue) + 1] = t /\ \A i \in 1 .. Len(queue) : queue'[i] = queue[i]
        BY <1>1, <1>6, AppendFacts
      <3>2. ASSUME NEW u \in Tasks PROVE InQueue(u)' <=> InQueue(u) \/ u = t
        <4>1. InQueue(u)' => InQueue(u) \/ u = t
          BY <3>1 DEF InQueue
        <4>2. InQueue(u) => InQueue(u)'
          BY <3>1 DEF InQueue
        <4>3. InQueue(t)'
          BY <3>1 DEF InQueue
        <4> QED BY <4>1, <4>2, <4>3
      <3> QED BY <3>2
    <2> OnlyTask(t)
      BY <1>5, <2>2 DEF OnlyTask
    <2>3. statusBar' = [statusBar EXCEPT ![t] = Status(result'[t], InQueue(t)', Held(t)')]
      BY OneStatus
    <2>4. Status(result'[t], InQueue(t)', Held(t)') = "accepted"
      BY <1>1, <1>6, <2>2 DEF Status
    <2> QED BY <1>2, <1>4, <2>1, <2>3, <2>4 DEF Service!Accept, Service!Move
  <1>7. CASE r # "ok"
    <2>1. r \notin {"none", "ok"}
      BY <1>7 DEF Outcomes, SelectOutcomes
    <2>2. \A u \in Tasks : InQueue(u)' <=> InQueue(u)
      BY <1>1, <1>7 DEF InQueue
    <2> OnlyTask(t)
      BY <1>5, <2>2 DEF OnlyTask
    <2>3. statusBar' = [statusBar EXCEPT ![t] = Status(result'[t], InQueue(t)', Held(t)')]
      BY OneStatus
    <2>4. Status(result'[t], InQueue(t)', Held(t)') = "refused"
      BY <1>1, <2>1 DEF Status
    <2> QED BY <1>2, <1>4, <2>3, <2>4 DEF Service!Refuse, Service!Move
  <1> QED BY <1>6, <1>7

\* A worker that receives a task begins it.
LEMMA ReceiveRefines ==
    ASSUME IndInv, NEW w \in Workers, Receive(w)
    PROVE  \E t \in Tasks : Service!Begin(t)
  <1> USE DEF IndInv, TypeOK
  <1>1. queue # <<>> /\ ~chanClosed
    BY DEF Receive, CloseInv
  <1> PICK h \in Tasks : h = Head(queue)
    BY <1>1, TailFacts
  <1>2. /\ h \in Tasks /\ h = queue[1] /\ 1 \in 1 .. Len(queue)
        /\ queue' = Tail(queue) /\ Len(queue') = Len(queue) - 1 /\ Len(queue) \in Nat
        /\ \A i \in 1 .. Len(queue') : i + 1 \in 1 .. Len(queue) /\ queue'[i] = queue[i + 1]
    <2>1. queue' = Tail(queue)
      BY <1>1 DEF Receive
    <2> QED BY <1>1, <2>1, TailFacts
  <1>3. worker' = [worker EXCEPT ![w] = [pc |-> "handle", task |-> h,
                                         attempt |-> 0, doomed |-> cancelled]]
    BY <1>1 DEF Receive, Attempt
  <1>4. UNCHANGED <<result, closeVars>> /\ modeBar' = modeBar /\ modeBar # "stopped"
    BY <1>1 DEF Receive, modeBar, closeVars
  <1>5. result[h] = "ok" /\ InQueue(h)
    BY <1>2 DEF OwnedOnce, InQueue
  <1>6. worker[w].task = NoTask /\ worker'[w].task = h
        /\ \A v \in Workers \ {w} : worker'[v] = worker[v]
    BY <1>3 DEF Receive, WorkerInv
  <1>7. ~InQueue(h)' /\ Held(h)'
    <2>1. ASSUME NEW i \in 1 .. Len(queue') PROVE queue'[i] # h
      <3>1. i + 1 \in 1 .. Len(queue) /\ i + 1 # 1
        BY <1>2
      <3> QED BY <1>2, <3>1 DEF OwnedOnce
    <2> QED BY <1>6, <2>1 DEF InQueue, Held, Holds
  <1>8. ASSUME NEW u \in Tasks \ {h} PROVE /\ InQueue(u)' <=> InQueue(u)
                                           /\ Held(u)' <=> Held(u)
    <2>1. InQueue(u)' => InQueue(u)
      BY <1>2 DEF InQueue
    <2>2. ASSUME NEW i \in 1 .. Len(queue), queue[i] = u PROVE InQueue(u)'
      <3>1. i # 1
        BY <1>2, <2>2
      <3>2. i - 1 \in 1 .. Len(queue') /\ (i - 1) + 1 = i
        BY <1>2, <3>1
      <3>3. queue'[i - 1] = u
        BY <1>2, <2>2, <3>2
      <3> QED BY <3>2, <3>3 DEF InQueue
    <2>3. Held(u)' <=> Held(u)
      BY <1>6, QueueConfig DEF Held, Holds
    <2> QED BY <2>1, <2>2, <2>3 DEF InQueue
  <1>9. statusBar' = [statusBar EXCEPT ![h] = Status(result'[h], InQueue(h)', Held(h)')]
    <2>1. OnlyTask(h)
      BY <1>4, <1>8 DEF OnlyTask
    <2> QED BY <2>1, OneStatus
  <1>10. statusBar[h] = "accepted" /\ Status(result'[h], InQueue(h)', Held(h)') = "running"
    BY <1>2, <1>4, <1>5, <1>7 DEF statusBar, Status
  <1> QED BY <1>2, <1>4, <1>9, <1>10 DEF Service!Begin, Service!Move

\* A worker that is done with its task finishes it.
LEMMA DoneRefines ==
    ASSUME IndInv, NEW w \in Workers, worker[w].pc = "handle",
           worker' = [worker EXCEPT ![w] = Idle],
           UNCHANGED <<queue, result, closeVars>>
    PROVE  \E t \in Tasks : Service!Finish(t)
  <1> USE DEF IndInv, TypeOK
  <1> PICK t \in Tasks : t = worker[w].task
    BY HeldAccepted
  <1>1. t # NoTask /\ result[t] = "ok"
    BY HeldAccepted
  <1>2. ~InQueue(t) /\ Held(t) /\ \A v \in Workers \ {w} : worker[v].task # t
    BY <1>1 DEF OwnedOnce, InQueue, Held, Holds
  <1>3. worker'[w].task = NoTask /\ \A v \in Workers \ {w} : worker'[v] = worker[v]
    BY DEF Idle
  <1>4. \A u \in Tasks : InQueue(u)' <=> InQueue(u)
    BY DEF InQueue
  <1>5. ~Held(t)' /\ \A u \in Tasks \ {t} : Held(u)' <=> Held(u)
    <2>1. ~Held(t)'
      BY <1>1, <1>2, <1>3 DEF Held, Holds
    <2>2. ASSUME NEW u \in Tasks \ {t} PROVE Held(u)' <=> Held(u)
      BY <1>3, <2>2, QueueConfig DEF Held, Holds
    <2> QED BY <2>1, <2>2
  <1>6. statusBar' = [statusBar EXCEPT ![t] = Status(result'[t], InQueue(t)', Held(t)')]
    <2>1. OnlyTask(t)
      BY <1>4, <1>5 DEF OnlyTask
    <2> QED BY <2>1, OneStatus
  <1>7. statusBar[t] = "running" /\ Status(result'[t], InQueue(t)', Held(t)') = "finished"
    BY <1>1, <1>2, <1>4, <1>5 DEF statusBar, Status
  <1>8. modeBar' = modeBar
    BY DEF modeBar, closeVars
  <1> QED BY <1>1, <1>6, <1>7, <1>8 DEF Service!Finish, Service!Move

\* A step that moves no task and closes nothing is not seen.
LEMMA Unseen ==
    ASSUME UNCHANGED <<queue, result, closeVars>>,
           \A v \in Workers : worker'[v].task = worker[v].task
    PROVE  UNCHANGED <<statusBar, modeBar>>
  <1>1. \A u \in Tasks : /\ result'[u] = result[u]
                         /\ InQueue(u)' <=> InQueue(u)
                         /\ Held(u)' <=> Held(u)
    BY DEF InQueue, Held, Holds
  <1> QED BY <1>1, SameStatus DEF modeBar, closeVars

\* Every step of the queue is a step of the service, or is not seen.
LEMMA StepRefines ==
    ASSUME IndInv, [Next]_vars
    PROVE  Service!Next \/ UNCHANGED <<statusBar, modeBar>>
  <1> USE DEF IndInv
  <1>1. ASSUME NEW t \in Tasks, DispatchCall(t) \/ DispatchRLock(t)
        PROVE  UNCHANGED <<statusBar, modeBar>>
    BY <1>1, Unseen DEF DispatchCall, DispatchRLock
  <1>2. ASSUME NEW w \in Workers, HandleError(w)
        PROVE  Service!Next \/ UNCHANGED <<statusBar, modeBar>>
    <2>1. /\ worker[w] \in WorkerState /\ worker[w].pc = "handle" /\ worker[w].task \in Tasks
          /\ worker \in [Workers -> WorkerState]
          /\ worker' = [worker EXCEPT ![w] = AfterError(worker[w])]
          /\ UNCHANGED <<queue, result, closeVars>>
      BY <1>2 DEF HandleError, WorkerInv, TypeOK
    <2>2. CASE AfterError(worker[w]) = Idle
      BY <2>1, <2>2, DoneRefines DEF Service!Next
    <2>3. CASE AfterError(worker[w]) # Idle
      <3>1. AfterError(worker[w]).task = worker[w].task
        BY <2>1, <2>3, AfterErrorType
      <3>2. \A v \in Workers : worker'[v].task = worker[v].task
        BY <2>1, <3>1
      <3> QED BY <2>1, <3>2, Unseen
    <2> QED BY <2>2, <2>3
  <1>3. ASSUME NEW w \in Workers, HandleOK(w)
        PROVE  Service!Next
    BY <1>3, DoneRefines DEF HandleOK, AfterSuccess, Service!Next
  <1>4. ASSUME NEW w \in Workers, Retry(w) \/ Exit(w)
        PROVE  UNCHANGED <<statusBar, modeBar>>
    <2>1. \A v \in Workers : worker'[v].task = worker[v].task
      <3>1. CASE Retry(w)
        BY <3>1 DEF Retry, Attempt, TypeOK
      <3>2. CASE Exit(w)
        BY <3>2 DEF Exit, TypeOK, WorkerState
      <3> QED BY <1>4, <3>1, <3>2
    <2> QED BY <1>4, <2>1, Unseen DEF Retry, Exit
  <1>5. ASSUME NEW s \in Closers, ShutdownCall(s) \/ ShutdownLock(s) \/ ShutdownAgain(s)
        PROVE  UNCHANGED <<statusBar, modeBar>>
    BY <1>5, Unseen DEF ShutdownCall, ShutdownLock, ShutdownAgain
  <1>6. ASSUME UNCHANGED <<queue, result, worker>>
        PROVE  statusBar' = statusBar
    BY <1>6, SameStatus DEF InQueue, Held, Holds
  <1>7. ASSUME NEW s \in Closers, ShutdownCancel(s)
        PROVE  Service!Close
    <2>1. statusBar' = statusBar
      BY <1>6, <1>7 DEF ShutdownCancel
    <2>2. modeBar = "open" /\ modeBar' = "closing"
      BY <1>7 DEF ShutdownCancel, CloseInv, modeBar
    <2> QED BY <2>1, <2>2 DEF Service!Close
  <1>8. ASSUME NEW s \in Closers, ShutdownClose(s)
        PROVE  Service!Stop
    <2>1. statusBar' = statusBar
      BY <1>6, <1>8 DEF ShutdownClose
    <2>2. modeBar = "closing" /\ modeBar' = "stopped"
      BY <1>8 DEF ShutdownClose, CloseInv, modeBar
    <2>3. \A t \in Tasks : ~Held(t)
      BY <1>8, QueueConfig DEF ShutdownClose, Waited, WorkerInv, Held, Holds
    <2>4. \A t \in Tasks : statusBar[t] # "running"
      BY <2>3 DEF statusBar, Status
    <2> QED BY <2>1, <2>2, <2>4 DEF Service!Stop
  <1>9. CASE UNCHANGED vars
    BY <1>9, Unseen DEF vars, closeVars
  <1> QED BY <1>1, <1>2, <1>3, <1>4, <1>5, <1>7, <1>8, <1>9, DispatchRefines, ReceiveRefines
          DEF Next, Dispatcher, Worker, Closer, Service!Next

\* pkg/async_request keeps the promises of TaskService: a task is accepted or
\* refused once, begun and finished at most once, and nothing runs or begins
\* after Shutdown has returned (async_request.go:77-159).
THEOREM Implements == Spec => ImplementsService
  <1>1. IndInv /\ [Next]_vars => [Service!Next]_(Service!svars)
    BY StepRefines DEF Service!svars
  <1> QED BY <1>1, InitRefines, Invariance, PTL DEF Spec, ImplementsService, Service!Spec
=============================================================================
