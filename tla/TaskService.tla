----------------------------- MODULE TaskService -----------------------------
(***************************************************************************)
(* What pkg/async_request promises the filters that report through it: a   *)
(* task is accepted or refused at once, an accepted task is begun at most  *)
(* once and finished at most once, and a service that has stopped neither  *)
(* runs nor begins anything.  Queue, workers, locks and retries are not    *)
(* visible here.                                                           *)
(***************************************************************************)
CONSTANT Tasks

VARIABLES
    status,    \* per task
    mode       \* "open", "closing" (refuses new tasks) or "stopped"

svars == <<status, mode>>

TaskStatus == {"new", "refused", "accepted", "running", "finished"}

Init ==
    /\ status = [t \in Tasks |-> "new"]
    /\ mode = "open"

Move(t, from, to) ==
    /\ status[t] = from
    /\ status' = [status EXCEPT ![t] = to]
    /\ UNCHANGED mode

Accept(t) == mode = "open" /\ Move(t, "new", "accepted")

Refuse(t) == Move(t, "new", "refused")

Begin(t) == mode # "stopped" /\ Move(t, "accepted", "running")

Finish(t) == Move(t, "running", "finished")

Close ==
    /\ mode = "open"
    /\ mode' = "closing"
    /\ UNCHANGED status

Stop ==
    /\ mode = "closing"
    /\ \A t \in Tasks : status[t] # "running"
    /\ mode' = "stopped"
    /\ UNCHANGED status

Next ==
    \/ \E t \in Tasks : Accept(t) \/ Refuse(t) \/ Begin(t) \/ Finish(t)
    \/ Close
    \/ Stop

Spec == Init /\ [][Next]_svars
=============================================================================
