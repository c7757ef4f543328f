----------------------------- MODULE TaskGrants -----------------------------
(***************************************************************************)
(* Who was eligible while a request ran.  The routes of TaskService check  *)
(* a receiver (active, the stage's role, the order's service, or a linked  *)
(* PM) at one await and give it the order at a later one, and no statement *)
(* asks again: a role revoked or a user deactivated in between does not    *)
(* stop the hand-over.  An auxiliary variable remembers, for each request  *)
(* in flight, everybody who was eligible at some moment of it, as the      *)
(* tables of that moment say.                                              *)
(***************************************************************************)
EXTENDS TaskService

VARIABLE fitted    \* the users eligible at some moment since the request arrived

grantsVars == <<vars, fitted>>

GrantsTypeOK == fitted \in [Requests -> SUBSET Users]

\* Who may, right now, receive what a request gives away: the stage its order
\* moves to, the finished order, or (linkPm) an account.
Eligible(q) ==
    LET row == tasks[q.task]
        submitted == row.status # "none"
        holds(u, role) == {role, row.service} \subseteq users[u].roles
        linked(u) == u \in managers[AccountOfOrder(row)] /\ row.service \in users[u].roles
    IN
    {u \in Users :
        \/ q.op \in {"assign", "reject"} /\ users[u].active /\ holds(u, "analyst")
        \/ q.op = "claim" /\ u = q.caller /\ {"analyst", row.service} \subseteq q.claims
        \/ q.op = "moveToReview" /\ submitted /\ linked(u)
        \/ q.op = "reviewer" /\ submitted /\ users[u].active /\ (holds(u, "reviewer") \/ linked(u))
        \/ q.op = "approve" /\ "project-manager" \in q.claims /\ u = q.caller
        \/ q.op = "approve" /\ "project-manager" \notin q.claims /\ submitted /\ linked(u)
        \/ q.op = "linkPm" /\ users[u].active /\ "project-manager" \in users[u].roles}

InProgress(q) == q.at \in {"read", "resolve", "write"}

Observe ==
    fitted' = [r \in Requests |->
                IF InProgress(req'[r]) THEN fitted[r] \cup Eligible(req[r])' ELSE {}]

GrantsInit == Init /\ fitted = [r \in Requests |-> {}]

GrantsNext == Next /\ Observe

GrantsSpec == GrantsInit /\ [][GrantsNext]_grantsVars

FairGrantsSpec == GrantsSpec /\ SweepFairness
-----------------------------------------------------------------------------
(* Properties *)

Gives == {"assign", "claim", "moveToReview", "reviewer", "approve", "reject"}

\* However many handlers, token syncs, deactivations and links fall between the
\* check and the UPDATE, and whatever other handlers did to the order meanwhile:
\* an order goes only to somebody who was eligible for its new stage at some
\* moment of the very request that gives it, and an account gets only such PMs.
\* That it need not be the moment of the write is the most the code offers.
GivenToEligible ==
    [][/\ \A r \in Requests :
            req[r].op \in Gives /\ req[r].at = "write" /\ req'[r].at = "publish" =>
                LET row == tasks'[req[r].task] IN
                (IF req[r].op = "approve" THEN row.owner ELSE row.assignee) \in fitted[r]
       /\ \A a \in Accounts : \A u \in managers'[a] \ managers[a] :
            \E r \in Requests : req[r].op = "linkPm" /\ u \in fitted[r]]_grantsVars
=============================================================================
