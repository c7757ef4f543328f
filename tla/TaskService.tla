---------------------------- MODULE TaskService ----------------------------
(***************************************************************************)
(* business-services/task-service: the orders ("tasks"), the users it      *)
(* mirrors from Keycloak, the PMs linked to an account, and everything     *)
(* that runs concurrently against them in one Node process in front of     *)
(* PostgreSQL:                                                             *)
(*   - REST handlers (Requests are the slots of handlers in flight), each  *)
(*     an await-separated sequence                                         *)
(*        arrive (syncUser, role check) -> read (findById and its checks)  *)
(*        -> resolve (who receives the order) -> write (one conditional    *)
(*        UPDATE) -> publish (the Kafka event, best effort);               *)
(*   - the bill.paid consumer, and the daily auto-close sweep;             *)
(*   - an admin toggling users.active, and a restart of the process.       *)
(* PostgreSQL executes one statement at a time per row: a statement is an  *)
(* atomic step.  Emails identify users here: tasks.assignee and            *)
(* tasks.owner hold the user, and a user's email does not change.          *)
(***************************************************************************)
EXTENDS Naturals, Sequences, FiniteSets

CONSTANTS
    Users,            \* people with a Keycloak login
    Tasks,            \* order ids (minted by the client)
    Services,         \* domain services; a role set holding s holds "service:s"
    Accounts,         \* companies or individuals
    Contents,         \* what title, context, tags and due date can say
    Requests,         \* slots of REST handlers in flight
    AccountOf,        \* users.account_id of each user
    AccountManagerOf, \* accounts.account_manager_id of each account
    TokenRoles,       \* the role sets Keycloak tokens of a user may carry
    Onboarded,        \* users with a row when the behaviour starts, and its roles
    MaxEvents,        \* bound: no request arrives once the topic is this long
    MaxSuspended,     \* bound: how many users are deactivated at a time
    Null

PlatformRoles ==
    {"customer", "project-manager", "analyst", "reviewer", "account-manager"}

Role == PlatformRoles \cup Services

ASSUME ConstantsAssumption ==
    /\ Null \notin Users \cup Tasks \cup Contents
    /\ AccountOf \in [Users -> Accounts]
    /\ AccountManagerOf \in [Accounts -> Users \cup {Null}]
    /\ TokenRoles \in [Users -> SUBSET SUBSET Role]
    /\ DOMAIN Onboarded \subseteq Users
    /\ \A u \in DOMAIN Onboarded : Onboarded[u] \in TokenRoles[u]
    /\ MaxEvents \in Nat
    /\ MaxSuspended \in Nat

VARIABLES
    tasks,     \* the tasks table, NoRow for an id not inserted
    users,     \* the users table
    managers,  \* pm_accounts: the PMs linked to each account
    req,       \* the REST handlers in flight
    billing,   \* the event the bill.paid consumer has yet to publish, or NoEvent
    sweep,     \* the auto-close job: ids still to close, event to publish
    topic      \* the task-service.tasks Kafka topic, oldest first

vars == <<tasks, users, managers, req, billing, sweep, topic>>

-----------------------------------------------------------------------------
(* Rows, events and handlers in flight *)

Statuses == {"unassigned", "analyst", "reviewer", "done", "paid", "closed"}

EditableStatuses == {"unassigned", "analyst"}

\* `paid` abstracts paid_at: not set, set within the grace period, or longer ago.
Row == [status   : Statuses \cup {"none"},
        customer : Users \cup {Null},
        service  : Services \cup {Null},
        assignee : Users \cup {Null},
        owner    : Users \cup {Null},
        content  : Contents \cup {Null},
        noIndex  : BOOLEAN,
        paid     : {"no", "recent", "stale"}]

NoRow == [status |-> "none", customer |-> Null, service |-> Null, assignee |-> Null,
          owner |-> Null, content |-> Null, noIndex |-> FALSE, paid |-> "no"]

UserRow == [synced : BOOLEAN, active : BOOLEAN, roles : SUBSET Role]

EventNames ==
    {"task.created", "task.no-index-changed", "task.assigned", "task.claimed",
     "task.moved-to-review", "task.reviewer-reassigned", "task.approved",
     "task.rejected", "task.paid", "task.closed"}

\* taskToEvent: the full state of the row the UPDATE returned, not a delta.
Event == [name : EventNames, task : Tasks, row : Row]

NoEvent == [name |-> "none", task |-> Null, row |-> NoRow]

\* The role a route demands of its caller: one of these, in the token's claims.
CallerRoles ==
    [create       |-> {"customer"},
     edit         |-> {"customer"},
     noIndex      |-> {"account-manager", "customer"},
     assign       |-> {"project-manager"},
     claim        |-> {"analyst"},
     moveToReview |-> {"analyst"},
     reviewer     |-> {"project-manager", "reviewer"},
     approve      |-> {"project-manager", "reviewer"},
     reject       |-> {"project-manager", "reviewer"},
     linkPm       |-> {"account-manager"}]

Ops == DOMAIN CallerRoles

\* A handler: where it stands, what was asked by whom, who it has resolved to
\* give the order to, and the event it publishes last.
Handler == [at     : {"idle", "read", "resolve", "write", "publish"},
            op     : Ops \cup {Null},
            caller : Users \cup {Null},
            claims : SUBSET Role,
            task   : Tasks \cup {Null},
            who    : Users \cup {Null},
            event  : Event \cup {NoEvent}]

Idle == [at |-> "idle", op |-> Null, caller |-> Null, claims |-> {},
         task |-> Null, who |-> Null, event |-> NoEvent]

Sweep == [stale : SUBSET Tasks, event : Event \cup {NoEvent}]

NoSweep == [stale |-> {}, event |-> NoEvent]

TypeOK ==
    /\ tasks \in [Tasks -> Row]
    /\ users \in [Users -> UserRow]
    /\ managers \in [Accounts -> SUBSET Users]
    /\ req \in [Requests -> Handler]
    /\ billing \in Event \cup {NoEvent}
    /\ sweep \in Sweep
    /\ topic \in Seq(Event)

Init ==
    /\ tasks = [t \in Tasks |-> NoRow]
    /\ users = [u \in Users |->
                  [synced |-> u \in DOMAIN Onboarded,
                   active |-> TRUE,
                   roles |-> IF u \in DOMAIN Onboarded THEN Onboarded[u] ELSE {}]]
    /\ managers = [a \in Accounts |-> {}]
    /\ req = [r \in Requests |-> Idle]
    /\ billing = NoEvent
    /\ sweep = NoSweep
    /\ topic = <<>>

-----------------------------------------------------------------------------
(* Who is who, as the database answers it *)

AccountOfOrder(row) == AccountOf[row.customer]

\* The account's PMs narrowed to the order's service; `active` is not asked.
ProjectManagersFor(row) ==
    {u \in Users : u \in managers[AccountOfOrder(row)] /\ row.service \in users[u].roles}

\* Deviation: `active` is checked and the roles are not.
ActiveUsers(roles) == {u \in Users : users[u].active}

ActiveHolders(roles) == {u \in Users : users[u].active /\ roles \subseteq users[u].roles}

\* The users the handler can resolve the order to.  The row it read earlier is
\* asked only for its service and account, which never change.
Candidates(q, row) ==
    CASE q.op = "create" -> {u \in {q.caller} : users[u].synced}
      [] q.op \in {"assign", "reject"} -> ActiveHolders({"analyst", row.service})
      [] q.op = "moveToReview" -> ProjectManagersFor(row)
      [] q.op = "reviewer" ->
            ActiveHolders({"reviewer", row.service})
                \cup (ProjectManagersFor(row) \cap ActiveHolders({}))
      [] q.op = "approve" ->
            IF "project-manager" \in q.claims THEN {q.caller} ELSE ProjectManagersFor(row)
      [] q.op = "linkPm" -> ActiveHolders({"project-manager"})
      [] OTHER -> {}

\* Requests whose caller names the receiver, and may name an unfit one.
NamesReceiver == {"assign", "reviewer", "reject", "linkPm"}

-----------------------------------------------------------------------------
(* Users: the mirror of Keycloak, and its local `active` flag *)

\* Deviation: Keycloak's built-in realm roles are kept.
UpsertedUnfiltered(u, claims) ==
    [users EXCEPT ![u].synced = TRUE, ![u].roles = claims \cup {"offline_access"}]

Upserted(u, claims) == [users EXCEPT ![u].synced = TRUE, ![u].roles = claims]

\* A request that ends after syncUser, or only reads: an inactive caller gets a
\* 403, but its row follows the token all the same.
SyncUser(u, claims) ==
    /\ users' = Upserted(u, claims)
    /\ UNCHANGED <<tasks, managers, req, billing, sweep, topic>>

\* PATCH /users/:id by an administrator.
SetActive(u, active) ==
    /\ users[u].synced
    /\ active \/ Cardinality({v \in Users : ~users[v].active}) < MaxSuspended
    /\ users' = [users EXCEPT ![u].active = active]
    /\ UNCHANGED <<tasks, managers, req, billing, sweep, topic>>

-----------------------------------------------------------------------------
(* REST handlers *)

\* syncUser lets an active caller through, and anyone when its upsert throws.
Arrive(r, op, u, claims, t) ==
    /\ req[r] = Idle
    /\ Len(topic) < MaxEvents
    /\ claims \cap CallerRoles[op] # {}
    /\ \/ users[u].active /\ users' = Upserted(u, claims)
       \/ UNCHANGED users
    /\ req' = [req EXCEPT ![r] =
                [Idle EXCEPT !.at = IF op \in {"create", "linkPm"} THEN "resolve" ELSE "read",
                             !.op = op, !.caller = u, !.claims = claims, !.task = t]]
    /\ UNCHANGED <<tasks, managers, billing, sweep, topic>>

\* What a handler demands of the row findById returned.
ReadPasses(q, row) ==
    /\ row.status # "none"
    /\ \/ q.op = "edit" /\ row.customer = q.caller /\ row.status \in EditableStatuses
       \/ /\ q.op = "noIndex"
          /\ IF "account-manager" \in q.claims
             THEN AccountManagerOf[AccountOfOrder(row)] = q.caller
             ELSE row.customer = q.caller
       \/ q.op = "assign" /\ row.status = "unassigned"
       \/ q.op = "claim" /\ row.status = "unassigned" /\ row.service \in q.claims
       \/ q.op = "moveToReview" /\ row.status = "analyst" /\ row.assignee = q.caller
       \/ /\ q.op \in {"reviewer", "approve", "reject"}
          /\ row.status = "reviewer"
          /\ row.assignee = q.caller

ReadTask(r) ==
    LET q == req[r] IN
    /\ q.at = "read"
    /\ req' = [req EXCEPT ![r] =
                IF ~ReadPasses(q, tasks[q.task]) THEN Idle
                ELSE [q EXCEPT !.at = IF q.op \in {"edit", "noIndex", "claim"}
                                      THEN "write" ELSE "resolve"]]
    /\ UNCHANGED <<tasks, users, managers, billing, sweep, topic>>

\* getUser / listPmsForAccount / listAllPms / ensureAccountForCustomer.
Resolve(r) ==
    LET q == req[r]
        found == Candidates(q, tasks[q.task])
    IN
    /\ q.at = "resolve"
    /\ \/ \E w \in found : req' = [req EXCEPT ![r] = [q EXCEPT !.at = "write", !.who = w]]
       \/ /\ found = {} \/ q.op \in NamesReceiver
          /\ req' = [req EXCEPT ![r] = Idle]
    /\ UNCHANGED <<tasks, users, managers, billing, sweep, topic>>

RowReturned(r, name, row) ==
    LET q == req[r] IN
    /\ tasks' = [tasks EXCEPT ![q.task] = row]
    /\ req' = [req EXCEPT ![r] =
                [q EXCEPT !.at = "publish",
                          !.event = [name |-> name, task |-> q.task, row |-> row]]]

NoRowReturned(r) ==
    /\ req' = [req EXCEPT ![r] = Idle]
    /\ UNCHANGED tasks

\* Deviation: UPDATE ... WHERE id = $1, without the status and the assignee.
UpdateById(r, op, guard, name, row) ==
    /\ req[r].at = "write"
    /\ req[r].op = op
    /\ RowReturned(r, name, row)
    /\ UNCHANGED <<users, managers, billing, sweep, topic>>

\* One conditional UPDATE ... WHERE guard RETURNING *: the row returned is the
\* event published next; no row is a 409.
Update(r, op, guard, name, row) ==
    /\ req[r].at = "write"
    /\ req[r].op = op
    /\ \/ guard /\ RowReturned(r, name, row)
       \/ ~guard /\ NoRowReturned(r)
    /\ UNCHANGED <<users, managers, billing, sweep, topic>>

\* Deviation: the new holder is not made the owner.
AssignedTo(row, status, holder) == [row EXCEPT !.status = status, !.assignee = holder]

HeldBy(row, status, holder) == [row EXCEPT !.status = status, !.assignee = holder, !.owner = holder]

\* INSERT; a second order under the same id violates the primary key.
Create(r) ==
    LET q == req[r] IN
    \E s \in Services \cap q.claims, c \in Contents, n \in BOOLEAN :
        Update(r, "create", tasks[q.task].status = "none", "task.created",
               [NoRow EXCEPT !.status = "unassigned", !.customer = q.caller, !.service = s,
                             !.owner = q.caller, !.content = c, !.noIndex = n])

\* Deviation: the edit window is checked on the row read, not by the UPDATE.
UpdateOrderDetailsById(r) ==
    /\ req[r].at = "write" /\ req[r].op = "edit"
    /\ \E c \in Contents : tasks' = [tasks EXCEPT ![req[r].task].content = c]
    /\ req' = [req EXCEPT ![r] = Idle]
    /\ UNCHANGED <<users, managers, billing, sweep, topic>>

\* PUT /tasks/:id publishes nothing.
UpdateOrderDetails(r) ==
    LET q == req[r]
        row == tasks[q.task]
    IN
    /\ q.at = "write" /\ q.op = "edit"
    /\ \/ /\ row.status \in EditableStatuses
          /\ \E c \in Contents : tasks' = [tasks EXCEPT ![q.task].content = c]
       \/ /\ row.status \notin EditableStatuses
          /\ UNCHANGED tasks
    /\ req' = [req EXCEPT ![r] = Idle]
    /\ UNCHANGED <<users, managers, billing, sweep, topic>>

SetNoIndex(r) ==
    \E n \in BOOLEAN :
        Update(r, "noIndex", TRUE, "task.no-index-changed",
               [tasks[req[r].task] EXCEPT !.noIndex = n])

AssignAnalyst(r) ==
    LET q == req[r]
        row == tasks[q.task]
    IN  Update(r, "assign", row.status = "unassigned", "task.assigned",
               HeldBy(row, "analyst", q.who))

ClaimTask(r) ==
    LET q == req[r]
        row == tasks[q.task]
    IN  Update(r, "claim", row.status = "unassigned", "task.claimed",
               HeldBy(row, "analyst", q.caller))

MoveToReview(r) ==
    LET q == req[r]
        row == tasks[q.task]
    IN  Update(r, "moveToReview", row.status = "analyst" /\ row.assignee = q.caller,
               "task.moved-to-review", HeldBy(row, "reviewer", q.who))

ReassignReviewer(r) ==
    LET q == req[r]
        row == tasks[q.task]
    IN  Update(r, "reviewer", row.status = "reviewer" /\ row.assignee = q.caller,
               "task.reviewer-reassigned", HeldBy(row, "reviewer", q.who))

ApproveTask(r) ==
    LET q == req[r]
        row == tasks[q.task]
    IN  Update(r, "approve", row.status = "reviewer" /\ row.assignee = q.caller,
               "task.approved",
               [row EXCEPT !.status = "done", !.assignee = Null, !.owner = q.who])

RejectTask(r) ==
    LET q == req[r]
        row == tasks[q.task]
    IN  Update(r, "reject", row.status = "reviewer" /\ row.assignee = q.caller,
               "task.rejected", HeldBy(row, "analyst", q.who))

\* PATCH /projects/:id/pm, up to the link it leaves behind in pm_accounts.
LinkPmToAccount(r) ==
    LET q == req[r] IN
    /\ q.at = "write" /\ q.op = "linkPm"
    /\ \E a \in Accounts :
        /\ AccountManagerOf[a] = q.caller
        /\ managers' = [managers EXCEPT ![a] = @ \cup {q.who}]
    /\ req' = [req EXCEPT ![r] = Idle]
    /\ UNCHANGED <<tasks, users, billing, sweep, topic>>

PublishTaskEvent(r) ==
    /\ req[r].at = "publish"
    /\ topic' = Append(topic, req[r].event)
    /\ req' = [req EXCEPT ![r] = Idle]
    /\ UNCHANGED <<tasks, users, managers, billing, sweep>>

\* A query throws (500), the broker refuses the event (logged), or the process
\* stops: nothing more comes of this request.
FailRequest(r) ==
    /\ req[r] # Idle
    /\ req' = [req EXCEPT ![r] = Idle]
    /\ UNCHANGED <<tasks, users, managers, billing, sweep, topic>>

-----------------------------------------------------------------------------
(* The bill.paid consumer: one message at a time, at least once *)

PaidRow(row) == [row EXCEPT !.status = "paid", !.paid = "recent"]

\* Deviation: the order is marked paid whenever it is at least done.
MarkPaidAgain(t) ==
    /\ billing = NoEvent
    /\ tasks[t].status \in {"done", "paid", "closed"}
    /\ tasks' = [tasks EXCEPT ![t] = PaidRow(@)]
    /\ billing' = [name |-> "task.paid", task |-> t, row |-> PaidRow(tasks[t])]
    /\ UNCHANGED <<users, managers, req, sweep, topic>>

\* A message for an order that is not done, or no longer, changes nothing.
MarkPaid(t) ==
    /\ billing = NoEvent
    /\ tasks[t].status = "done"
    /\ tasks' = [tasks EXCEPT ![t] = PaidRow(@)]
    /\ billing' = [name |-> "task.paid", task |-> t, row |-> PaidRow(tasks[t])]
    /\ UNCHANGED <<users, managers, req, sweep, topic>>

PublishPaid ==
    /\ billing # NoEvent
    /\ topic' = Append(topic, billing)
    /\ billing' = NoEvent
    /\ UNCHANGED <<tasks, users, managers, req, sweep>>

FailBilling ==
    /\ billing # NoEvent
    /\ billing' = NoEvent
    /\ UNCHANGED <<tasks, users, managers, req, sweep, topic>>

-----------------------------------------------------------------------------
(* The auto-close sweep *)

\* Time passes: paid_at of this order is now beyond TASK_AUTO_CLOSE_DAYS.
GracePeriodElapses(t) ==
    /\ tasks[t].paid = "recent"
    /\ tasks' = [tasks EXCEPT ![t].paid = "stale"]
    /\ UNCHANGED <<users, managers, req, billing, sweep, topic>>

\* Deviation: the sweep lists every paid order.
Paid == {t \in Tasks : tasks[t].status = "paid"}

\* Deviation: the comparison with paid_at is the wrong way round.
RecentlyPaid == {t \in Tasks : tasks[t].status = "paid" /\ tasks[t].paid = "recent"}

StalePaid == {t \in Tasks : tasks[t].status = "paid" /\ tasks[t].paid = "stale"}

ListStalePaid ==
    /\ sweep = NoSweep
    /\ StalePaid # {}
    /\ sweep' = [NoSweep EXCEPT !.stale = StalePaid]
    /\ UNCHANGED <<tasks, users, managers, req, billing, topic>>

\* The UPDATE asks for status = 'paid' again, not for paid_at.
CloseTask(t) ==
    /\ t \in sweep.stale
    /\ sweep.event = NoEvent
    /\ tasks[t].status = "paid"
    /\ LET row == [tasks[t] EXCEPT !.status = "closed"] IN
        /\ tasks' = [tasks EXCEPT ![t] = row]
        /\ sweep' = [stale |-> sweep.stale \ {t},
                     event |-> [name |-> "task.closed", task |-> t, row |-> row]]
    /\ UNCHANGED <<users, managers, req, billing, topic>>

\* The row moved on since it was listed, or closing it failed: go on to the next.
SkipTask(t) ==
    /\ t \in sweep.stale
    /\ sweep.event = NoEvent
    /\ sweep' = [sweep EXCEPT !.stale = @ \ {t}]
    /\ UNCHANGED <<tasks, users, managers, req, billing, topic>>

PublishClosed ==
    /\ sweep.event # NoEvent
    /\ topic' = Append(topic, sweep.event)
    /\ sweep' = [sweep EXCEPT !.event = NoEvent]
    /\ UNCHANGED <<tasks, users, managers, req, billing>>

\* The broker refuses the event (the sweep goes on), or the process stops.
FailSweep ==
    /\ sweep # NoSweep
    /\ \/ sweep.event # NoEvent /\ sweep' = [sweep EXCEPT !.event = NoEvent]
       \/ sweep' = NoSweep
    /\ UNCHANGED <<tasks, users, managers, req, billing, topic>>

-----------------------------------------------------------------------------

Handle(r) ==
    \/ ReadTask(r)
    \/ Resolve(r)
    \/ Create(r)
    \/ UpdateOrderDetails(r)
    \/ SetNoIndex(r)
    \/ AssignAnalyst(r)
    \/ ClaimTask(r)
    \/ MoveToReview(r)
    \/ ReassignReviewer(r)
    \/ ApproveTask(r)
    \/ RejectTask(r)
    \/ LinkPmToAccount(r)
    \/ PublishTaskEvent(r)

Next ==
    \/ \E u \in Users : \E claims \in TokenRoles[u] : SyncUser(u, claims)
    \/ \E u \in Users, active \in BOOLEAN : SetActive(u, active)
    \/ \E r \in Requests, op \in Ops, u \in Users, t \in Tasks :
            \E claims \in TokenRoles[u] : Arrive(r, op, u, claims, t)
    \/ \E r \in Requests : Handle(r) \/ FailRequest(r)
    \/ \E t \in Tasks : MarkPaid(t) \/ GracePeriodElapses(t) \/ CloseTask(t) \/ SkipTask(t)
    \/ PublishPaid
    \/ FailBilling
    \/ ListStalePaid
    \/ PublishClosed
    \/ FailSweep

Spec == Init /\ [][Next]_vars

(* Time passes, cron runs the sweep every day, and not every one of its        *)
(* attempts to close an order fails.                                           *)
SweepFairness ==
    /\ \A t \in Tasks : WF_vars(GracePeriodElapses(t))
    /\ WF_vars(ListStalePaid)
    /\ WF_vars(PublishClosed)
    /\ \A t \in Tasks : SF_vars(CloseTask(t))

FairSpec == Spec /\ SweepFairness
-----------------------------------------------------------------------------
(* Properties *)

\* The Assignee / Owner table of the workflow as the UPDATEs keep it: before
\* assignment the order is the customer's, while held it belongs to its holder,
\* from approval on it has an owner and no holder; paid_at is set with `paid`.
RowCoherent ==
    \A t \in Tasks :
        LET row == tasks[t] IN
        /\ row.assignee # Null <=> row.status \in {"analyst", "reviewer"}
        /\ row.status = "unassigned" => row.owner = row.customer
        /\ row.status \in {"analyst", "reviewer"} => row.owner = row.assignee
        /\ row.status \in {"done", "paid", "closed"} => row.owner # Null
        /\ row.status \in {"paid", "closed"} <=> row.paid # "no"

\* The events an order goes through once; either of the last two staffs it.
Once(name) == IF name = "task.claimed" THEN "task.assigned" ELSE name

OnceOnly == {"task.created", "task.assigned", "task.approved", "task.paid", "task.closed"}

SameMilestone(e, f) == e.task = f.task /\ Once(e.name) = Once(f.name) /\ Once(e.name) \in OnceOnly

InFlight == {req[r].event : r \in Requests} \cup {billing, sweep.event}

\* Of all the handlers that race to submit, staff, approve, pay or close one
\* order, and of all redeliveries, one alone succeeds: the topic carries that
\* milestone at most once, and no other handler is about to publish it again.
AnnouncedOnce ==
    /\ \A i, j \in DOMAIN topic : SameMilestone(topic[i], topic[j]) => i = j
    /\ \A i \in DOMAIN topic : \A e \in InFlight : ~SameMilestone(topic[i], e)
    /\ \A r, s \in Requests : SameMilestone(req[r].event, req[s].event) => r = s

\* Nobody takes an order away from its holder: it changes hands only in a step of
\* a handler called by the holder, whatever that handler and others read before.
HandoverByHolder ==
    [][\A t \in Tasks :
        tasks[t].assignee # Null /\ tasks'[t].assignee # tasks[t].assignee =>
            \E r \in Requests :
                /\ req[r].at = "write" /\ req'[r].at = "publish"
                /\ req[r].task = t /\ req[r].caller = tasks[t].assignee]_vars

\* An order is closed only after the grace period since its payment, although the
\* UPDATE that closes it asks for its status alone.
ClosedAfterGrace ==
    [][\A t \in Tasks :
        tasks'[t].status = "closed" /\ tasks[t].status # "closed" => tasks[t].paid = "stale"]_vars

\* What the customer wrote stands still once the work is under review, also
\* against an edit whose check ran before the hand-over.
FrozenInReview ==
    [][\A t \in Tasks :
        tasks[t].status \notin EditableStatuses \cup {"none"} =>
            tasks'[t].content = tasks[t].content]_vars

Lifecycle == INSTANCE TaskLifecycle WITH
    status   <- [t \in Tasks |-> tasks[t].status],
    assignee <- [t \in Tasks |-> tasks[t].assignee],
    owner    <- [t \in Tasks |-> tasks[t].owner]

\* The handlers, the consumer and the sweep together implement the atomic order
\* of TaskLifecycle.
ImplementsLifecycle == Lifecycle!Spec

\* An order that has been paid is closed in the end, whatever fails in one sweep
\* or another.
PaidOrderCloses ==
    \A t \in Tasks : tasks[t].status = "paid" ~> tasks[t].status = "closed"

\* What the comment on listUsers says: a deactivated user is not eligible for
\* new assignments, so no handler picks one to hold the order.  The PMs an order
\* is moved to review to are not asked for `active`.
DeactivatedNotPicked ==
    [][\A r \in Requests :
        /\ req[r].op \in {"assign", "moveToReview", "reviewer", "reject"}
        /\ req[r].at = "resolve" /\ req'[r].at = "write"
        => users[req'[r].who].active]_vars
=============================================================================
