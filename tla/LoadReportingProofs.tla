------------------------ MODULE LoadReportingProofs ------------------------
(***************************************************************************)
(* What the metadata center knows of a request, for any number of requests *)
(* and workers, any length of the queue and any number of nodes.           *)
(*                                                                         *)
(* The argument: a report can change the metadata center only while it is  *)
(* queued, with a worker or late, or if it was answered; which reports of  *)
(* a request can be there is settled by the phase the request is in.       *)
(***************************************************************************)
EXTENDS LoadReporting, TLAPS

\* The report may have reached the metadata center or may still reach it.
Sent(task) ==
    \/ UnderWay(task)
    \/ \E a \in late : a.task = task
    \/ task \in answered

Add(r) == Task("AddRequest", r)
Prompt(r) == Task("DeleteRequestPrompt", r)
Del(r) == Task("DeleteRequest", r)

\* Nothing is reported of a request before its begin, its first token and
\* its end.
NotBefore ==
    \A r \in Requests :
        /\ phase[r] = "new" =>
              /\ ~Sent(Add(r)) /\ ~Sent(Prompt(r)) /\ ~Sent(Del(r))
              /\ r \notin load
        /\ phase[r] = "recorded" => ~Sent(Del(r))
        /\ promptReports[r] = 0 => ~Sent(Prompt(r))

\* The end of a request is accounted for, unless its begin was refused.
EndAccounted ==
    \A r \in Requests : phase[r] \in {"ended", "refused"} =>
        \/ UnderWay(Del(r)) \/ Del(r) \in dropped \/ Del(r) \in answered
        \/ ~Sent(Add(r)) /\ r \notin load

IndInv == TypeOK /\ NotBefore /\ EndAccounted /\ DriftExplained /\ CountedWhileServed

-----------------------------------------------------------------------------
(* Sequences *)

\* Append adds its element and nothing else.
LEMMA InAppend ==
    ASSUME NEW S, NEW s \in Seq(S), NEW e \in S, NEW t
    PROVE  (\E i \in DOMAIN Append(s, e) : Append(s, e)[i] = t)
             <=> (\E i \in DOMAIN s : s[i] = t) \/ t = e
  <1> DEFINE n == Len(s)
  <1>1. /\ n \in Nat /\ DOMAIN s = 1 .. n /\ DOMAIN Append(s, e) = 1 .. n + 1
        /\ Append(s, e)[n + 1] = e
        /\ \A i \in 1 .. n : Append(s, e)[i] = s[i]
    OBVIOUS
  <1>2. ASSUME NEW i \in DOMAIN Append(s, e), Append(s, e)[i] = t
        PROVE  (\E k \in DOMAIN s : s[k] = t) \/ t = e
    <2>1. i \in 1 .. n \/ i = n + 1
      BY <1>1
    <2> QED BY <1>1, <1>2, <2>1
  <1>3. ASSUME NEW i \in DOMAIN s, s[i] = t
        PROVE  \E k \in DOMAIN Append(s, e) : Append(s, e)[k] = t
    <2>1. i \in DOMAIN Append(s, e) /\ Append(s, e)[i] = t
      BY <1>1, <1>3
    <2> QED BY <2>1
  <1>4. ASSUME t = e PROVE \E k \in DOMAIN Append(s, e) : Append(s, e)[k] = t
    <2>1. n + 1 \in DOMAIN Append(s, e) /\ Append(s, e)[n + 1] = t
      BY <1>1, <1>4
    <2> QED BY <2>1
  <1> QED BY <1>2, <1>3, <1>4

\* Head and Tail part a sequence.
LEMMA InTail ==
    ASSUME NEW s \in Seq(AllTasks), s # <<>>, NEW t
    PROVE  /\ Head(s) \in AllTasks /\ Tail(s) \in Seq(AllTasks)
           /\ Len(Tail(s)) = Len(s) - 1
           /\ (\E i \in DOMAIN s : s[i] = t)
                <=> (\E i \in DOMAIN Tail(s) : Tail(s)[i] = t) \/ t = Head(s)
  <1> DEFINE n == Len(s)
  <1>1. /\ n \in Nat \ {0} /\ DOMAIN s = 1 .. n
        /\ Head(s) = s[1] /\ Head(s) \in AllTasks
    OBVIOUS
  <1>2. /\ Tail(s) \in Seq(AllTasks) /\ Len(Tail(s)) = n - 1
        /\ DOMAIN Tail(s) = 1 .. n - 1
        /\ \A i \in 1 .. n - 1 : Tail(s)[i] = s[i + 1]
    OBVIOUS
  <1>3. ASSUME NEW i \in DOMAIN s, s[i] = t
        PROVE  (\E k \in DOMAIN Tail(s) : Tail(s)[k] = t) \/ t = Head(s)
    <2>1. CASE i = 1
      BY <1>1, <1>3, <2>1
    <2>2. CASE i # 1
      <3>1. i - 1 \in DOMAIN Tail(s) /\ (i - 1) + 1 = i
        BY <1>1, <1>2, <2>2
      <3>2. Tail(s)[i - 1] = t
        BY <1>2, <1>3, <3>1
      <3> QED BY <3>1, <3>2
    <2> QED BY <2>1, <2>2
  <1>4. ASSUME NEW i \in DOMAIN Tail(s), Tail(s)[i] = t PROVE \E k \in DOMAIN s : s[k] = t
    <2>1. i + 1 \in DOMAIN s /\ s[i + 1] = t
      BY <1>1, <1>2, <1>4
    <2> QED BY <2>1
  <1>5. ASSUME t = Head(s) PROVE \E k \in DOMAIN s : s[k] = t
    <2>1. 1 \in DOMAIN s /\ s[1] = t
      BY <1>1, <1>5
    <2> QED BY <2>1
  <1> QED BY <1>1, <1>2, <1>3, <1>4, <1>5

-----------------------------------------------------------------------------
(* Types *)

\* The three reports of a request are tasks, and different ones.
LEMMA TaskTypes ==
    ASSUME NEW r \in Requests, NEW op \in Ops
    PROVE  Task(op, r) \in AllTasks
  BY DEF Task, AllTasks

\* Dispatch keeps the queue within its size.
LEMMA DispatchTypes ==
    ASSUME TypeOK, NEW op \in Ops, NEW r \in Requests, Dispatch(op, r)
    PROVE  /\ tasks' \in Seq(AllTasks) /\ Len(tasks') <= QueueSize
           /\ dropped' \subseteq AllTasks
  <1>1. Task(op, r) \in AllTasks
    BY TaskTypes
  <1>2. QueueSize \in Nat /\ tasks \in Seq(AllTasks) /\ Len(tasks) <= QueueSize
    BY ReportingConstants DEF TypeOK
  <1>3. CASE Len(tasks) < QueueSize
    <2>1. tasks' = Append(tasks, Task(op, r)) /\ dropped' = dropped
      BY <1>3 DEF Dispatch
    <2>2. Append(tasks, Task(op, r)) \in Seq(AllTasks)
      BY <1>1, <1>2
    <2>3. Len(Append(tasks, Task(op, r))) = Len(tasks) + 1
      BY <1>1, <1>2
    <2>4. Len(tasks) + 1 <= QueueSize
      BY <1>2, <1>3
    <2> QED BY <2>1, <2>2, <2>3, <2>4 DEF TypeOK
  <1>4. CASE ~(Len(tasks) < QueueSize)
    BY <1>1, <1>2, <1>4 DEF Dispatch, TypeOK
  <1> QED BY <1>3, <1>4

\* A task with a worker is an attempt with nodes left.
LEMMA WorkTypes ==
    ASSUME TypeOK, NEW w \in Workers, work[w] # NoTask
    PROVE  /\ work[w] \in Attempts
           /\ work[w].task \in AllTasks
           /\ work[w].left \in 1 .. FailoverRetry + 1
  BY ReportingConstants DEF TypeOK, Attempts

\* Applying a task changes the sets of ids only.
LEMMA ApplyTypes ==
    ASSUME TypeOK, NEW task \in AllTasks, Apply(task)
    PROVE  load' \subseteq Requests /\ prompt' \subseteq Requests /\ overtaken' \subseteq Requests
  BY DEF TypeOK, Apply, AllTasks

\* The next attempt at a task, or none.
LEMMA NextNodeTypes ==
    ASSUME TypeOK, NEW w \in Workers, work[w] # NoTask, NextNode(w)
    PROVE  /\ work' \in [Workers -> Attempts \cup {NoTask}]
           /\ \A v \in Workers : work'[v] # NoTask => work'[v].left > 0
           /\ dropped' \subseteq AllTasks
  <1>1. /\ work[w] \in Attempts /\ work[w].task \in AllTasks
        /\ work[w].left \in 1 .. FailoverRetry + 1
    BY WorkTypes
  <1>2. CASE work[w].left = 1
    BY <1>1, <1>2 DEF NextNode, TypeOK
  <1>3. CASE work[w].left # 1
    <2>1. work' = [work EXCEPT ![w] = [work[w] EXCEPT !.left = work[w].left - 1]]
      BY <1>3 DEF NextNode, TypeOK
    <2>2. [work[w] EXCEPT !.left = work[w].left - 1] \in Attempts
      BY <1>1, <1>3, ReportingConstants DEF Attempts
    <2>3. [work[w] EXCEPT !.left = work[w].left - 1].left > 0
      BY <1>1, <1>3, ReportingConstants DEF Attempts
    <2> QED BY <2>1, <2>2, <2>3, <1>3 DEF NextNode, TypeOK
  <1> QED BY <1>2, <1>3

\* Every step keeps the types.
LEMMA TypeStep == TypeOK /\ [Next]_vars => TypeOK'
  <1> SUFFICES ASSUME TypeOK, [Next]_vars PROVE TypeOK'
    OBVIOUS
  <1> USE DEF TypeOK
  <1>1. ASSUME NEW r \in Requests, AddRequest(r) PROVE TypeOK'
    <2>1. Dispatch("AddRequest", r)
      BY <1>1 DEF AddRequest, UniqueId
    <2> QED BY <1>1, <2>1, DispatchTypes DEF AddRequest, Ops, center
  <1>2. ASSUME NEW r \in Requests, DeleteRequestPrompt(r) PROVE TypeOK'
    <2>1. Dispatch("DeleteRequestPrompt", r)
      BY <1>2 DEF DeleteRequestPrompt, UniqueId
    <2>2. promptReports' \in [Requests -> 0 .. MaxPromptReports]
      BY <1>2, ReportingConstants DEF DeleteRequestPrompt
    <2> QED BY <1>2, <2>1, <2>2, DispatchTypes DEF DeleteRequestPrompt, Ops, center
  <1>3. ASSUME NEW r \in Requests, DeleteRequest(r) PROVE TypeOK'
    <2>1. Dispatch("DeleteRequest", r)
      BY <1>3 DEF DeleteRequest, UniqueId
    <2> QED BY <1>3, <2>1, DispatchTypes DEF DeleteRequest, Ops, center
  <1>4. ASSUME NEW w \in Workers, NEW n \in 0 .. FailoverRetry + 1, Take(w, n) PROVE TypeOK'
    <2>1. /\ Head(tasks) \in AllTasks /\ Tail(tasks) \in Seq(AllTasks)
          /\ Len(Tail(tasks)) <= QueueSize
      BY <1>4, InTail, ReportingConstants DEF Take
    <2>2. n > 0 => [task |-> Head(tasks), left |-> n] \in Attempts
      BY <2>1 DEF Attempts
    <2>3. /\ work' \in [Workers -> Attempts \cup {NoTask}]
          /\ \A v \in Workers : work'[v] # NoTask => work'[v].left > 0
      BY <1>4, <2>2, ReportingConstants DEF Take
    <2> QED BY <1>4, <2>1, <2>3 DEF Take, center
  <1>5. ASSUME NEW w \in Workers, Answered(w) PROVE TypeOK'
    BY <1>5, WorkTypes, ApplyTypes DEF Answered
  <1>6. ASSUME NEW w \in Workers, AttemptLost(w) PROVE TypeOK'
    BY <1>6, NextNodeTypes DEF AttemptLost, center
  <1>7. ASSUME NEW w \in Workers, AttemptTimedOut(w) PROVE TypeOK'
    BY <1>7, NextNodeTypes, WorkTypes DEF AttemptTimedOut, center
  <1>8. ASSUME NEW a \in late, ArriveLate(a) PROVE TypeOK'
    <2>1. a.task \in AllTasks
      BY DEF Attempts
    <2> QED BY <1>8, <2>1, ApplyTypes DEF ArriveLate
  <1>9. CASE UNCHANGED vars
    BY <1>9 DEF vars, center
  <1> QED BY <1>1, <1>2, <1>3, <1>4, <1>5, <1>6, <1>7, <1>8, <1>9 DEF Next

-----------------------------------------------------------------------------
(* What a step does to the reports *)

\* Reports differ by operation and request.
LEMMA TasksDiffer ==
    ASSUME NEW r, NEW q, NEW op, NEW op2
    PROVE  Task(op, r) = Task(op2, q) <=> op = op2 /\ r = q
  BY DEF Task

\* Dispatch adds one report, or refuses it.
LEMMA DispatchReach ==
    ASSUME TypeOK, NEW op \in Ops, NEW r \in Requests, Dispatch(op, r),
           UNCHANGED <<work, late, answered>>
    PROVE  /\ dropped \subseteq dropped'
           /\ Len(tasks) < QueueSize \/ Task(op, r) \in dropped'
           /\ \A t : /\ UnderWay(t)' <=> UnderWay(t) \/ (Len(tasks) < QueueSize /\ t = Task(op, r))
                     /\ Sent(t)' <=> Sent(t) \/ (Len(tasks) < QueueSize /\ t = Task(op, r))
  <1>1. tasks \in Seq(AllTasks) /\ Task(op, r) \in AllTasks
    BY TaskTypes DEF TypeOK
  <1>2. ASSUME NEW t
        PROVE  UnderWay(t)' <=> UnderWay(t) \/ (Len(tasks) < QueueSize /\ t = Task(op, r))
    <2>1. CASE Len(tasks) < QueueSize
      <3>1. tasks' = Append(tasks, Task(op, r))
        BY <2>1 DEF Dispatch
      <3>2. (\E i \in DOMAIN tasks' : tasks'[i] = t)
              <=> (\E i \in DOMAIN tasks : tasks[i] = t) \/ t = Task(op, r)
        BY <1>1, <3>1, InAppend
      <3> QED BY <2>1, <3>2 DEF UnderWay
    <2>2. CASE ~(Len(tasks) < QueueSize)
      BY <2>2 DEF Dispatch, UnderWay
    <2> QED BY <2>1, <2>2
  <1>3. dropped \subseteq dropped' /\ (Len(tasks) < QueueSize \/ Task(op, r) \in dropped')
    BY DEF Dispatch
  <1> QED BY <1>2, <1>3 DEF Sent

\* A step of a worker or of a late attempt brings no new report.  It leaves
\* the metadata center alone, or applies one report that had been sent; a
\* report no longer under way was given up or is the one applied.
Quiet ==
    /\ UNCHANGED <<load, prompt, overtaken, answered>>
    /\ \A t : UnderWay(t) => UnderWay(t)' \/ t \in dropped'

Applies(task) ==
    /\ Sent(task)
    /\ Apply(task)
    /\ answered \subseteq answered' /\ answered' \subseteq answered \cup {task}
    /\ \A t : UnderWay(t) => UnderWay(t)' \/ t \in dropped' \/ (t = task /\ t \in answered')

Consumes ==
    /\ UNCHANGED <<phase, promptReports>>
    /\ dropped \subseteq dropped'
    /\ \A t : Sent(t)' => Sent(t)
    /\ Quiet \/ \E task \in AllTasks : Applies(task)

\* Take moves the first report from the queue to a worker, or gives it up.
LEMMA TakeConsumes ==
    ASSUME TypeOK, NEW w \in Workers, NEW n \in 0 .. FailoverRetry + 1, Take(w, n)
    PROVE  Consumes
  <1>1. tasks \in Seq(AllTasks) /\ tasks # <<>> /\ work[w] = NoTask
    BY DEF TypeOK, Take
  <1>2. \A t : (\E i \in DOMAIN tasks : tasks[i] = t)
                 <=> (\E i \in DOMAIN tasks' : tasks'[i] = t) \/ t = Head(tasks)
    <2>1. tasks' = Tail(tasks)
      BY DEF Take
    <2>2. ASSUME NEW t
          PROVE  (\E i \in DOMAIN tasks : tasks[i] = t)
                   <=> (\E i \in DOMAIN Tail(tasks) : Tail(tasks)[i] = t) \/ t = Head(tasks)
      BY <1>1, InTail
    <2> QED BY <2>1, <2>2, Zenon
  <1>3. CASE n = 0
    <2>1. work' = work /\ Head(tasks) \in dropped'
      BY <1>1, <1>3 DEF Take, TypeOK
    <2>2. \A t : UnderWay(t) => UnderWay(t)' \/ t \in dropped'
      BY <1>2, <2>1 DEF UnderWay
    <2>3. \A t : UnderWay(t)' => UnderWay(t)
      BY <1>2, <2>1 DEF UnderWay
    <2> QED BY <2>2, <2>3 DEF Consumes, Quiet, Sent, Take, center
  <1>4. CASE n # 0
    <2>1. work' = [work EXCEPT ![w] = [task |-> Head(tasks), left |-> n]]
      BY <1>4 DEF Take
    <2>2. [task |-> Head(tasks), left |-> n] # NoTask
      <3>1. Head(tasks) \in AllTasks
        BY <1>1, InTail, Zenon
      <3> QED BY <3>1, ReportingConstants DEF Attempts
    <2>3. /\ work'[w] # NoTask /\ work'[w].task = Head(tasks)
          /\ \A v \in Workers \ {w} : work'[v] = work[v]
      BY <2>1, <2>2 DEF TypeOK
    <2>4. \A t : (\E v \in Workers : work'[v] # NoTask /\ work'[v].task = t)
                   <=> (\E v \in Workers : work[v] # NoTask /\ work[v].task = t) \/ t = Head(tasks)
      BY <1>1, <2>3
    <2>5. \A t : UnderWay(t)' <=> UnderWay(t)
      BY <1>2, <2>4 DEF UnderWay
    <2> QED BY <2>5 DEF Consumes, Quiet, Sent, Take, center
  <1> QED BY <1>3, <1>4

\* An answered report was with its worker and has been applied.
LEMMA AnsweredConsumes ==
    ASSUME TypeOK, NEW w \in Workers, Answered(w)
    PROVE  Consumes
  <1> DEFINE task == work[w].task
  <1>1. task \in AllTasks /\ UnderWay(task) /\ Sent(task)
    BY WorkTypes DEF Answered, UnderWay, Sent
  <1>2. work'[w] = NoTask /\ \A v \in Workers \ {w} : work'[v] = work[v]
    BY DEF Answered, TypeOK
  <1>3. answered' = answered \cup {task} /\ task \in answered' /\ tasks' = tasks
    BY DEF Answered
  <1>4. ASSUME NEW t PROVE UnderWay(t) => UnderWay(t)' \/ t = task
    BY <1>2, <1>3 DEF UnderWay
  <1>5. ASSUME NEW t PROVE UnderWay(t)' => UnderWay(t)
    BY <1>2, <1>3 DEF UnderWay
  <1>6. ASSUME NEW t PROVE Sent(t)' => Sent(t)
    BY <1>1, <1>3, <1>5 DEF Sent, Answered
  <1>7. Applies(task)
    BY <1>1, <1>3, <1>4 DEF Applies, Answered
  <1> QED BY <1>1, <1>6, <1>7 DEF Consumes, Answered

\* After a failed attempt the report goes to the next node or is given up.
LEMMA NextNodeReach ==
    ASSUME TypeOK, NEW w \in Workers, work[w] # NoTask, NextNode(w), UNCHANGED tasks
    PROVE  /\ dropped \subseteq dropped'
           /\ \A t : UnderWay(t) => UnderWay(t)' \/ t \in dropped'
           /\ \A t : UnderWay(t)' => UnderWay(t)
  <1>1. /\ work[w] \in Attempts /\ work[w].task \in AllTasks
        /\ work[w].left \in 1 .. FailoverRetry + 1
    BY WorkTypes
  <1>2. CASE work[w].left = 1
    <2>1. work'[w] = NoTask /\ \A v \in Workers \ {w} : work'[v] = work[v]
      BY <1>2 DEF NextNode, TypeOK
    <2>2. dropped' = dropped \cup {work[w].task}
      BY <1>2 DEF NextNode
    <2> QED BY <2>1, <2>2 DEF UnderWay
  <1>3. CASE work[w].left # 1
    <2>1. work' = [work EXCEPT ![w] = [work[w] EXCEPT !.left = work[w].left - 1]]
      BY <1>3 DEF NextNode, TypeOK
    <2>2. /\ [work[w] EXCEPT !.left = work[w].left - 1] \in Attempts
          /\ [work[w] EXCEPT !.left = work[w].left - 1].task = work[w].task
      BY <1>1, <1>3, ReportingConstants DEF Attempts
    <2>3. /\ work'[w] # NoTask /\ work'[w].task = work[w].task
          /\ \A v \in Workers \ {w} : work'[v] = work[v]
      BY <2>1, <2>2, ReportingConstants DEF TypeOK
    <2>4. dropped' = dropped
      BY <1>3 DEF NextNode
    <2> QED BY <2>3, <2>4 DEF UnderWay
  <1> QED BY <1>2, <1>3

\* A failed attempt leaves the metadata center alone for now.
LEMMA LostConsumes ==
    ASSUME TypeOK, NEW w \in Workers, AttemptLost(w) \/ AttemptTimedOut(w)
    PROVE  Consumes
  <1>1. /\ work[w] # NoTask /\ NextNode(w) /\ UNCHANGED tasks
        /\ UNCHANGED <<phase, promptReports, load, prompt, overtaken, answered>>
        /\ late' = late \/ late' = late \cup {work[w]}
    BY DEF AttemptLost, AttemptTimedOut, center
  <1>2. UnderWay(work[w].task)
    BY <1>1 DEF UnderWay
  <1>3. \A t : Sent(t)' => Sent(t)
    BY <1>1, <1>2, NextNodeReach DEF Sent
  <1> QED BY <1>1, <1>3, NextNodeReach DEF Consumes, Quiet

\* A late attempt had been sent.
LEMMA LateConsumes ==
    ASSUME TypeOK, NEW a \in late, ArriveLate(a)
    PROVE  Consumes
  <1>1. a.task \in AllTasks /\ Sent(a.task)
    BY DEF TypeOK, Attempts, Sent
  <1>2. \A t : UnderWay(t)' <=> UnderWay(t)
    BY DEF ArriveLate, UnderWay
  <1>3. Applies(a.task)
    BY <1>1, <1>2 DEF Applies, ArriveLate
  <1>4. \A t : Sent(t)' => Sent(t)
    BY <1>2 DEF Sent, ArriveLate
  <1> QED BY <1>1, <1>3, <1>4 DEF Consumes, ArriveLate

-----------------------------------------------------------------------------
(* The invariant *)

\* Which reports of a request exist, and what became of them.
Reports == NotBefore /\ EndAccounted

\* What applying a report does to the count of a request.
LEMMA ApplyEffect ==
    ASSUME NEW task \in AllTasks, Apply(task), NEW r \in Requests
    PROVE  /\ task = Add(r) => /\ r \in load' /\ r \in prompt'
                               /\ Del(r) \in answered => r \in overtaken'
           /\ task = Del(r) => r \notin load'
           /\ r \in load' /\ r \notin load => task = Add(r)
           /\ r \in load /\ task # Del(r) => r \in load'
           /\ r \in prompt /\ task # Del(r) /\ task # Prompt(r) => r \in prompt'
           /\ overtaken \subseteq overtaken'
  <1>1. PICK op \in Ops, q \in Requests : task = Task(op, q)
    BY DEF AllTasks, Task
  <1>2. task.op = op /\ task.id = q
    BY <1>1 DEF Task
  <1> QED BY <1>1, <1>2, TasksDiffer DEF Apply, Ops, Add, Del, Prompt

\* Reports that are taken, sent, answered or lost were there before.
LEMMA ConsumesReports ==
    ASSUME IndInv, Consumes
    PROVE  Reports'
  <1>1. /\ phase' = phase /\ promptReports' = promptReports /\ dropped \subseteq dropped'
        /\ \A t : Sent(t)' => Sent(t)
        /\ answered \subseteq answered'
    BY DEF Consumes, Quiet, Applies
  <1>2. ASSUME NEW r \in Requests, r \in load', r \notin load PROVE Sent(Add(r))
    <2>1. PICK task \in AllTasks : Applies(task)
      BY <1>2 DEF Consumes, Quiet
    <2>2. task = Add(r)
      BY <1>2, <2>1, ApplyEffect DEF Applies
    <2> QED BY <2>1, <2>2 DEF Applies
  <1>3. ASSUME NEW t, UnderWay(t) PROVE UnderWay(t)' \/ t \in dropped' \/ t \in answered'
    BY <1>3 DEF Consumes, Quiet, Applies
  <1>4. NotBefore'
    <2> SUFFICES ASSUME NEW r \in Requests
                 PROVE  /\ phase[r] = "new" =>
                             /\ ~Sent(Add(r))' /\ ~Sent(Prompt(r))' /\ ~Sent(Del(r))'
                             /\ r \notin load'
                        /\ phase[r] = "recorded" => ~Sent(Del(r))'
                        /\ promptReports[r] = 0 => ~Sent(Prompt(r))'
      BY <1>1 DEF NotBefore, Add, Prompt, Del, Task
    <2> QED BY <1>1, <1>2 DEF IndInv, NotBefore
  <1>5. EndAccounted'
    <2> SUFFICES ASSUME NEW r \in Requests, phase[r] \in {"ended", "refused"}
                 PROVE  \/ UnderWay(Del(r))' \/ Del(r) \in dropped' \/ Del(r) \in answered'
                        \/ ~Sent(Add(r))' /\ r \notin load'
      BY <1>1 DEF EndAccounted, Add, Del, Task
    <2>1. CASE ~Sent(Add(r)) /\ r \notin load
      BY <1>1, <1>2, <2>1
    <2>2. CASE UnderWay(Del(r)) \/ Del(r) \in dropped \/ Del(r) \in answered
      BY <1>1, <1>3, <2>2
    <2> QED BY <2>1, <2>2 DEF IndInv, EndAccounted
  <1> QED BY <1>4, <1>5 DEF Reports

\* A count left behind stays explained.
LEMMA ConsumesDrift ==
    ASSUME IndInv, Consumes
    PROVE  DriftExplained'
  <1> SUFFICES ASSUME NEW r \in Requests, phase'[r] \in {"ended", "refused"}, r \in load'
               PROVE  UnderWay(Del(r))' \/ Del(r) \in dropped' \/ r \in overtaken'
    BY DEF DriftExplained, Del, Task
  <1>1. phase[r] \in {"ended", "refused"} /\ dropped \subseteq dropped'
    BY DEF Consumes
  <1>2. CASE Quiet
    <2>1. r \in load /\ overtaken' = overtaken
      BY <1>2 DEF Quiet
    <2>2. UnderWay(Del(r)) \/ Del(r) \in dropped \/ r \in overtaken
      BY <1>1, <2>1 DEF IndInv, DriftExplained, Del
    <2> QED BY <1>1, <1>2, <2>1, <2>2 DEF Quiet
  <1>3. ASSUME NEW task \in AllTasks, Applies(task)
        PROVE  UnderWay(Del(r))' \/ Del(r) \in dropped' \/ r \in overtaken'
    <2>1. task # Del(r) /\ overtaken \subseteq overtaken'
      BY <1>3, ApplyEffect DEF Applies
    <2>2. UnderWay(Del(r)) => UnderWay(Del(r))' \/ Del(r) \in dropped'
      BY <1>3, <2>1 DEF Applies
    <2>3. CASE r \in load
      <3>1. UnderWay(Del(r)) \/ Del(r) \in dropped \/ r \in overtaken
        BY <1>1, <2>3 DEF IndInv, DriftExplained, Del
      <3> QED BY <1>1, <2>1, <2>2, <3>1
    <2>4. CASE r \notin load
      <3>1. task = Add(r) /\ Sent(Add(r)) /\ (Del(r) \in answered => r \in overtaken')
        BY <1>3, <2>4, ApplyEffect DEF Applies
      <3>2. UnderWay(Del(r)) \/ Del(r) \in dropped \/ Del(r) \in answered
        BY <1>1, <3>1 DEF IndInv, EndAccounted
      <3> QED BY <1>1, <2>2, <3>1, <3>2
    <2> QED BY <2>3, <2>4
  <1> QED BY <1>2, <1>3 DEF Consumes

\* No report that can be there takes a request's count away.
LEMMA ConsumesCounted ==
    ASSUME IndInv, Consumes
    PROVE  CountedWhileServed'
  <1> SUFFICES ASSUME NEW r \in Requests, phase'[r] = "recorded", Add(r) \in answered'
               PROVE  r \in load' /\ (promptReports'[r] = 0 => r \in prompt')
    BY DEF CountedWhileServed, Add, Task
  <1>1. /\ phase[r] = "recorded" /\ promptReports' = promptReports
        /\ ~Sent(Del(r)) /\ (promptReports[r] = 0 => ~Sent(Prompt(r)))
    BY DEF Consumes, IndInv, NotBefore
  <1>2. Add(r) \in answered => r \in load /\ (promptReports[r] = 0 => r \in prompt)
    BY <1>1 DEF IndInv, CountedWhileServed, Add
  <1>3. CASE Quiet
    BY <1>1, <1>2, <1>3 DEF Quiet
  <1>4. ASSUME NEW task \in AllTasks, Applies(task)
        PROVE  r \in load' /\ (promptReports'[r] = 0 => r \in prompt')
    <2>1. task # Del(r) /\ (promptReports[r] = 0 => task # Prompt(r))
      BY <1>1, <1>4 DEF Applies
    <2>2. Add(r) \in answered \/ task = Add(r)
      BY <1>4 DEF Applies
    <2> QED BY <1>1, <1>2, <1>4, <2>1, <2>2, ApplyEffect DEF Applies
  <1> QED BY <1>3, <1>4 DEF Consumes

\* The first report of a request.
LEMMA AddStep ==
    ASSUME IndInv, NEW r \in Requests, AddRequest(r)
    PROVE  Reports' /\ DriftExplained' /\ CountedWhileServed'
  <1>1. /\ Dispatch("AddRequest", r) /\ "AddRequest" \in Ops /\ TypeOK
        /\ UNCHANGED <<promptReports, work, late, load, prompt, overtaken, answered>>
        /\ phase[r] = "new"
        /\ phase' = [phase EXCEPT ![r] = IF Len(tasks) < QueueSize THEN "recorded" ELSE "refused"]
    BY DEF AddRequest, UniqueId, Ops, IndInv, center
  <1>2. /\ dropped \subseteq dropped'
        /\ \A t : /\ UnderWay(t)' <=> UnderWay(t) \/ (Len(tasks) < QueueSize /\ t = Add(r))
                  /\ Sent(t)' <=> Sent(t) \/ (Len(tasks) < QueueSize /\ t = Add(r))
    BY <1>1, DispatchReach DEF Add
  <1>3. /\ \A q \in Requests \ {r} : phase'[q] = phase[q] /\ Add(q) # Add(r)
        /\ phase'[r] = IF Len(tasks) < QueueSize THEN "recorded" ELSE "refused"
        /\ \A q \in Requests : Prompt(q) # Add(r) /\ Del(q) # Add(r)
    BY <1>1, TasksDiffer DEF TypeOK, Add, Prompt, Del
  <1>4. /\ ~Sent(Add(r)) /\ ~Sent(Prompt(r)) /\ ~Sent(Del(r)) /\ r \notin load
    BY <1>1 DEF IndInv, NotBefore
  <1>5. NotBefore'
    <2> SUFFICES ASSUME NEW q \in Requests
                 PROVE  /\ phase'[q] = "new" =>
                             /\ ~Sent(Add(q))' /\ ~Sent(Prompt(q))' /\ ~Sent(Del(q))'
                             /\ q \notin load
                        /\ phase'[q] = "recorded" => ~Sent(Del(q))'
                        /\ promptReports[q] = 0 => ~Sent(Prompt(q))'
      BY <1>1 DEF NotBefore, Add, Prompt, Del, Task
    <2>1. CASE q = r
      BY <1>2, <1>3, <1>4, <2>1
    <2>2. CASE q # r
      BY <1>2, <1>3, <2>2 DEF IndInv, NotBefore
    <2> QED BY <2>1, <2>2
  <1>6. EndAccounted'
    <2> SUFFICES ASSUME NEW q \in Requests, phase'[q] \in {"ended", "refused"}
                 PROVE  \/ UnderWay(Del(q))' \/ Del(q) \in dropped' \/ Del(q) \in answered
                        \/ ~Sent(Add(q))' /\ q \notin load
      BY <1>1 DEF EndAccounted, Add, Del, Task
    <2>1. CASE q = r
      BY <1>2, <1>3, <1>4, <2>1
    <2>2. CASE q # r
      BY <1>2, <1>3, <2>2 DEF IndInv, EndAccounted
    <2> QED BY <2>1, <2>2
  <1>7. DriftExplained'
    <2> SUFFICES ASSUME NEW q \in Requests, phase'[q] \in {"ended", "refused"}, q \in load
                 PROVE  UnderWay(Del(q))' \/ Del(q) \in dropped' \/ q \in overtaken
      BY <1>1 DEF DriftExplained, Del, Task
    <2>1. q # r
      BY <1>4
    <2> QED BY <1>2, <1>3, <2>1 DEF IndInv, DriftExplained, Del
  <1>8. CountedWhileServed'
    <2> SUFFICES ASSUME NEW q \in Requests, phase'[q] = "recorded", Add(q) \in answered
                 PROVE  q \in load /\ (promptReports[q] = 0 => q \in prompt)
      BY <1>1 DEF CountedWhileServed, Add, Task
    <2>1. q # r
      BY <1>4 DEF Sent
    <2> QED BY <1>3, <2>1 DEF IndInv, CountedWhileServed, Add
  <1> QED BY <1>5, <1>6, <1>7, <1>8 DEF Reports

\* The report of the first token.
LEMMA PromptStep ==
    ASSUME IndInv, NEW r \in Requests, DeleteRequestPrompt(r)
    PROVE  Reports' /\ DriftExplained' /\ CountedWhileServed'
  <1>1. /\ Dispatch("DeleteRequestPrompt", r) /\ "DeleteRequestPrompt" \in Ops /\ TypeOK
        /\ UNCHANGED <<phase, work, late, load, prompt, overtaken, answered>>
        /\ phase[r] \in {"recorded", "ended"}
        /\ promptReports' = [promptReports EXCEPT ![r] = @ + 1]
    BY DEF DeleteRequestPrompt, UniqueId, Ops, IndInv, center
  <1>2. /\ dropped \subseteq dropped'
        /\ \A t : /\ UnderWay(t)' <=> UnderWay(t) \/ (Len(tasks) < QueueSize /\ t = Prompt(r))
                  /\ Sent(t)' <=> Sent(t) \/ (Len(tasks) < QueueSize /\ t = Prompt(r))
    BY <1>1, DispatchReach DEF Prompt
  <1>3. /\ promptReports'[r] # 0
        /\ \A q \in Requests \ {r} : promptReports'[q] = promptReports[q] /\ Prompt(q) # Prompt(r)
        /\ \A q \in Requests : Add(q) # Prompt(r) /\ Del(q) # Prompt(r)
    BY <1>1, TasksDiffer, ReportingConstants DEF TypeOK, Add, Prompt, Del
  <1>4. NotBefore'
    <2> SUFFICES ASSUME NEW q \in Requests
                 PROVE  /\ phase[q] = "new" =>
                             /\ ~Sent(Add(q))' /\ ~Sent(Prompt(q))' /\ ~Sent(Del(q))'
                             /\ q \notin load
                        /\ phase[q] = "recorded" => ~Sent(Del(q))'
                        /\ promptReports'[q] = 0 => ~Sent(Prompt(q))'
      BY <1>1 DEF NotBefore, Add, Prompt, Del, Task
    <2>1. CASE q = r
      BY <1>1, <1>2, <1>3, <2>1 DEF IndInv, NotBefore
    <2>2. CASE q # r
      BY <1>2, <1>3, <2>2 DEF IndInv, NotBefore
    <2> QED BY <2>1, <2>2
  <1>5. EndAccounted'
    <2> SUFFICES ASSUME NEW q \in Requests, phase[q] \in {"ended", "refused"}
                 PROVE  \/ UnderWay(Del(q))' \/ Del(q) \in dropped' \/ Del(q) \in answered
                        \/ ~Sent(Add(q))' /\ q \notin load
      BY <1>1 DEF EndAccounted, Add, Del, Task
    <2> QED BY <1>2, <1>3 DEF IndInv, EndAccounted
  <1>6. DriftExplained'
    <2> SUFFICES ASSUME NEW q \in Requests, phase[q] \in {"ended", "refused"}, q \in load
                 PROVE  UnderWay(Del(q))' \/ Del(q) \in dropped' \/ q \in overtaken
      BY <1>1 DEF DriftExplained, Del, Task
    <2> QED BY <1>2 DEF IndInv, DriftExplained, Del
  <1>7. CountedWhileServed'
    <2> SUFFICES ASSUME NEW q \in Requests, phase[q] = "recorded", Add(q) \in answered
                 PROVE  q \in load /\ (promptReports'[q] = 0 => q \in prompt)
      BY <1>1 DEF CountedWhileServed, Add, Task
    <2> QED BY <1>3 DEF IndInv, CountedWhileServed, Add
  <1> QED BY <1>4, <1>5, <1>6, <1>7 DEF Reports

\* The last report of a request.
LEMMA DelStep ==
    ASSUME IndInv, NEW r \in Requests, DeleteRequest(r)
    PROVE  Reports' /\ DriftExplained' /\ CountedWhileServed'
  <1>1. /\ Dispatch("DeleteRequest", r) /\ "DeleteRequest" \in Ops /\ TypeOK
        /\ UNCHANGED <<promptReports, work, late, load, prompt, overtaken, answered>>
        /\ phase[r] = "recorded"
        /\ phase' = [phase EXCEPT ![r] = "ended"]
    BY DEF DeleteRequest, UniqueId, Ops, IndInv, center
  <1>2. /\ dropped \subseteq dropped'
        /\ Len(tasks) < QueueSize \/ Del(r) \in dropped'
        /\ \A t : /\ UnderWay(t)' <=> UnderWay(t) \/ (Len(tasks) < QueueSize /\ t = Del(r))
                  /\ Sent(t)' <=> Sent(t) \/ (Len(tasks) < QueueSize /\ t = Del(r))
    BY <1>1, DispatchReach DEF Del
  <1>3. /\ phase'[r] = "ended"
        /\ \A q \in Requests \ {r} : phase'[q] = phase[q] /\ Del(q) # Del(r)
        /\ \A q \in Requests : Add(q) # Del(r) /\ Prompt(q) # Del(r)
    BY <1>1, TasksDiffer DEF TypeOK, Add, Prompt, Del
  <1>4. UnderWay(Del(r))' \/ Del(r) \in dropped'
    BY <1>2
  <1>5. NotBefore'
    <2> SUFFICES ASSUME NEW q \in Requests
                 PROVE  /\ phase'[q] = "new" =>
                             /\ ~Sent(Add(q))' /\ ~Sent(Prompt(q))' /\ ~Sent(Del(q))'
                             /\ q \notin load
                        /\ phase'[q] = "recorded" => ~Sent(Del(q))'
                        /\ promptReports[q] = 0 => ~Sent(Prompt(q))'
      BY <1>1 DEF NotBefore, Add, Prompt, Del, Task
    <2>1. CASE q = r
      BY <1>2, <1>3, <2>1 DEF IndInv, NotBefore
    <2>2. CASE q # r
      BY <1>2, <1>3, <2>2 DEF IndInv, NotBefore
    <2> QED BY <2>1, <2>2
  <1>6. EndAccounted'
    <2> SUFFICES ASSUME NEW q \in Requests, phase'[q] \in {"ended", "refused"}
                 PROVE  \/ UnderWay(Del(q))' \/ Del(q) \in dropped' \/ Del(q) \in answered
                        \/ ~Sent(Add(q))' /\ q \notin load
      BY <1>1 DEF EndAccounted, Add, Del, Task
    <2>1. CASE q = r
      BY <1>4, <2>1
    <2>2. CASE q # r
      BY <1>2, <1>3, <2>2 DEF IndInv, EndAccounted
    <2> QED BY <2>1, <2>2
  <1>7. DriftExplained'
    <2> SUFFICES ASSUME NEW q \in Requests, phase'[q] \in {"ended", "refused"}, q \in load
                 PROVE  UnderWay(Del(q))' \/ Del(q) \in dropped' \/ q \in overtaken
      BY <1>1 DEF DriftExplained, Del, Task
    <2>1. CASE q = r
      BY <1>4, <2>1
    <2>2. CASE q # r
      BY <1>2, <1>3, <2>2 DEF IndInv, DriftExplained, Del
    <2> QED BY <2>1, <2>2
  <1>8. CountedWhileServed'
    <2> SUFFICES ASSUME NEW q \in Requests, phase'[q] = "recorded", Add(q) \in answered
                 PROVE  q \in load /\ (promptReports[q] = 0 => q \in prompt)
      BY <1>1 DEF CountedWhileServed, Add, Task
    <2> QED BY <1>3 DEF IndInv, CountedWhileServed, Add
  <1> QED BY <1>5, <1>6, <1>7, <1>8 DEF Reports

\* A new gateway has sent nothing.
LEMMA InitInv == Init => IndInv
  <1> SUFFICES ASSUME Init PROVE IndInv
    OBVIOUS
  <1>1. TypeOK
    BY ReportingConstants DEF Init, TypeOK
  <1>2. \A t : ~UnderWay(t) /\ ~Sent(t)
    BY DEF Init, UnderWay, Sent
  <1>3. NotBefore
    BY <1>2 DEF Init, NotBefore
  <1>4. EndAccounted /\ DriftExplained /\ CountedWhileServed
    BY DEF Init, EndAccounted, DriftExplained, CountedWhileServed
  <1> QED BY <1>1, <1>3, <1>4 DEF IndInv

\* Every step keeps the invariant.
LEMMA InvStep == IndInv /\ [Next]_vars => IndInv'
  <1> SUFFICES ASSUME IndInv, [Next]_vars PROVE IndInv'
    OBVIOUS
  <1>1. TypeOK /\ TypeOK'
    BY TypeStep DEF IndInv
  <1> DEFINE Kept == Reports' /\ DriftExplained' /\ CountedWhileServed'
  <1>2. ASSUME NEW r \in Requests, AddRequest(r) PROVE Kept
    BY <1>2, AddStep
  <1>3. ASSUME NEW r \in Requests, DeleteRequestPrompt(r) PROVE Kept
    BY <1>3, PromptStep
  <1>4. ASSUME NEW r \in Requests, DeleteRequest(r) PROVE Kept
    BY <1>4, DelStep
  <1>5. Consumes => Kept
    BY ConsumesReports, ConsumesDrift, ConsumesCounted
  <1>6. ASSUME NEW w \in Workers, NEW n \in 0 .. FailoverRetry + 1, Take(w, n) PROVE Kept
    BY <1>1, <1>5, <1>6, TakeConsumes
  <1>7. ASSUME NEW w \in Workers, Answered(w) PROVE Kept
    BY <1>1, <1>5, <1>7, AnsweredConsumes
  <1>8. ASSUME NEW w \in Workers, AttemptLost(w) \/ AttemptTimedOut(w) PROVE Kept
    BY <1>1, <1>5, <1>8, LostConsumes
  <1>9. ASSUME NEW a \in late, ArriveLate(a) PROVE Kept
    <2>1. Consumes
      BY <1>1, <1>9, LateConsumes
    <2> QED BY <1>5, <2>1
  <1>10. ASSUME UNCHANGED vars PROVE Kept
    <2>1. UNCHANGED <<phase, promptReports, tasks, work, late, load, prompt, overtaken,
                      answered, dropped>>
      BY <1>10 DEF vars, center
    <2>2. \A t : (UnderWay(t)' <=> UnderWay(t)) /\ (Sent(t)' <=> Sent(t))
      BY <2>1 DEF Sent, UnderWay
    <2>3. Consumes
      BY <2>1, <2>2 DEF Consumes, Quiet
    <2> QED BY <1>5, <2>3
  <1>11. Kept
    BY <1>2, <1>3, <1>4, <1>6, <1>7, <1>8, <1>9, <1>10 DEF Next
  <1> QED BY <1>1, <1>11 DEF IndInv, Reports

-----------------------------------------------------------------------------
(* The results *)

\* The invariant holds throughout.
LEMMA Invariance == Spec => []IndInv
  BY InitInv, InvStep, PTL DEF Spec

\* The queue never holds more than its size, a worker never has more nodes
\* to try than the first and FailoverRetry others, and only requests'
\* reports are sent (async_request.go:77-98, metadata_center.go:366).
THEOREM TypeCorrect == Spec => []TypeOK
  <1>1. IndInv => TypeOK
    BY DEF IndInv
  <1> QED BY <1>1, Invariance, PTL

\* The count of a request that has ended is left behind only while its end is
\* being reported, if that report was refused or given up, or if its begin
\* arrived after its end (metadata_center.go:186-243, 357-398).
THEOREM Drift == Spec => []DriftExplained
  <1>1. IndInv => DriftExplained
    BY DEF IndInv
  <1> QED BY <1>1, Invariance, PTL

\* From the answer to its AddRequest to its end a request is counted, and its
\* prompt until its first token, whatever fail-over and late attempts do
\* (metadata_center.go:186-278).
THEOREM Counted == Spec => []CountedWhileServed
  <1>1. IndInv => CountedWhileServed
    BY DEF IndInv
  <1> QED BY <1>1, Invariance, PTL
=============================================================================
