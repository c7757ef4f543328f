--------------------------- MODULE TaskLifecycle ---------------------------
(***************************************************************************)
(* What task-service promises about one order, whatever the number of      *)
(* handlers, consumers and cron jobs working on it: the order moves along  *)
(* the workflow one edge at a time, the person holding it is the only one  *)
(* who hands it on, and from approval on nobody holds it and its owner no  *)
(* longer changes.  Each action is one atomic step of the whole order; the *)
(* handlers of TaskService.tla, which read, check and write in separate    *)
(* steps, are shown to implement it.                                       *)
(***************************************************************************)
CONSTANTS Tasks, Users, Null

VARIABLES
    status,     \* tasks.status, "none" before the INSERT
    assignee,   \* tasks.assignee: who works on the order now, or Null
    owner       \* tasks.owner: who the order belongs to now

vars == <<status, assignee, owner>>

Init ==
    /\ status = [t \in Tasks |-> "none"]
    /\ assignee = [t \in Tasks |-> Null]
    /\ owner = [t \in Tasks |-> Null]

Move(t, from, to, holder, proprietor) ==
    /\ status[t] = from
    /\ status' = [status EXCEPT ![t] = to]
    /\ assignee' = [assignee EXCEPT ![t] = holder]
    /\ owner' = [owner EXCEPT ![t] = proprietor]

Submit(t) == \E c \in Users : Move(t, "none", "unassigned", Null, c)

Staff(t) == \E a \in Users : Move(t, "unassigned", "analyst", a, a)

SendToReview(t) == \E v \in Users : Move(t, "analyst", "reviewer", v, v)

HandOver(t) == \E v \in Users : Move(t, "reviewer", "reviewer", v, v)

Reject(t) == \E a \in Users : Move(t, "reviewer", "analyst", a, a)

Approve(t) == \E p \in Users : Move(t, "reviewer", "done", Null, p)

Pay(t) == Move(t, "done", "paid", Null, owner[t])

Close(t) == Move(t, "paid", "closed", Null, owner[t])

Next ==
    \E t \in Tasks :
        \/ Submit(t)
        \/ Staff(t)
        \/ SendToReview(t)
        \/ HandOver(t)
        \/ Reject(t)
        \/ Approve(t)
        \/ Pay(t)
        \/ Close(t)

Spec == Init /\ [][Next]_vars
=============================================================================
