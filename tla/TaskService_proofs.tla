----------------------- MODULE TaskService_proofs -----------------------
(***************************************************************************)
(* What TaskService.tla keeps, whatever the number of users, orders and    *)
(* handlers in flight.                                                     *)
(***************************************************************************)
EXTENDS TaskGrants, TLAPS

-----------------------------------------------------------------------------
(* A handler in flight knows its order and its caller; past resolve it knows *)
(* the receiver too; and what it holds to publish is an event.               *)

NeedsReceiver == Ops \ {"edit", "noIndex", "claim"}

HandlersKnow ==
    \A r \in Requests :
        /\ req[r].at # "idle" =>
            req[r].op \in Ops /\ req[r].caller \in Users /\ req[r].task \in Tasks
        /\ req[r].at = "write" /\ req[r].op \in NeedsReceiver => req[r].who \in Users
        /\ req[r].at = "publish" => req[r].event \in Event

TypeInv == TypeOK /\ HandlersKnow

\* Whoever a handler resolves an order to is a user.
LEMMA CandidatesAreUsers ==
    ASSUME NEW q, q.op \in Ops, q.caller \in Users, NEW row
    PROVE  Candidates(q, row) \subseteq Users
BY DEF Candidates, ActiveHolders, ProjectManagersFor, Ops, CallerRoles

\* An empty tasks table, the onboarded users, no handler: all of their types.
LEMMA TypeInit == Init => TypeInv
<1> SUFFICES ASSUME Init PROVE TypeInv
    OBVIOUS
<1>1. tasks \in [Tasks -> Row]
    BY DEF Init, NoRow, Row
<1>2. users \in [Users -> UserRow]
    BY ConstantsAssumption DEF Init, UserRow
<1>3. req \in [Requests -> Handler]
    BY DEF Init, Idle, Handler
<1>4. HandlersKnow
    BY DEF Init, Idle, HandlersKnow
<1>5. sweep \in Sweep
    BY DEF Init, NoSweep, Sweep
<1> QED
    BY <1>1, <1>2, <1>3, <1>4, <1>5 DEF Init, TypeInv, TypeOK

\* The new row of each UPDATE is a row.
LEMMA HeldByIsRow ==
    ASSUME NEW row \in Row, NEW status \in Statuses, NEW holder \in Users
    PROVE  HeldBy(row, status, holder) \in Row
BY DEF HeldBy, Row

\* What the bill.paid consumer writes is a row.
LEMMA PaidRowIsRow ==
    ASSUME NEW row \in Row
    PROVE  PaidRow(row) \in Row
BY DEF PaidRow, Row, Statuses

\* A token sync leaves rows, with platform and service roles only.
LEMMA UpsertedIsUsers ==
    ASSUME users \in [Users -> UserRow], NEW u \in Users, NEW claims \in SUBSET Role
    PROVE  Upserted(u, claims) \in [Users -> UserRow]
BY DEF Upserted, UserRow

\* A conditional UPDATE keeps the types, whatever its guard.
LEMMA UpdateType ==
    ASSUME TypeInv, NEW r \in Requests, NEW op, NEW guard, NEW name \in EventNames,
           NEW row \in Row, Update(r, op, guard, name, row)
    PROVE  TypeInv'
<1> DEFINE q == req[r]
<1>1. /\ q \in Handler /\ q.task \in Tasks /\ q.caller \in Users /\ q.op \in Ops
      /\ q.at = "write"
    BY DEF TypeInv, TypeOK, HandlersKnow, Update
<1>2. CASE RowReturned(r, name, row)
    <2> DEFINE event == [name |-> name, task |-> q.task, row |-> row]
               after == [q EXCEPT !.at = "publish", !.event = event]
    <2>1. event \in Event
        BY <1>1 DEF Event
    <2>2. after \in Handler /\ after.op \in Ops /\ after.caller \in Users
          /\ after.task \in Tasks /\ after.at = "publish" /\ after.event = event
        BY <1>1, <2>1 DEF Handler
    <2>3. req' = [req EXCEPT ![r] = after] /\ tasks' = [tasks EXCEPT ![q.task] = row]
        BY <1>2 DEF RowReturned
    <2> HIDE DEF after, event, q
    <2>4. tasks' \in [Tasks -> Row] /\ req' \in [Requests -> Handler]
        BY <1>1, <2>2, <2>3 DEF TypeInv, TypeOK
    <2>5. HandlersKnow'
        BY <2>1, <2>2, <2>3 DEF HandlersKnow, TypeInv, TypeOK
    <2> QED
        BY <2>4, <2>5 DEF Update, TypeInv, TypeOK
<1>3. CASE NoRowReturned(r)
    <2>1. Idle \in Handler
        BY DEF Idle, Handler
    <2>2. req' \in [Requests -> Handler]
        BY <1>3, <2>1 DEF NoRowReturned, TypeInv, TypeOK
    <2>3. HandlersKnow'
        BY <1>3 DEF NoRowReturned, HandlersKnow, TypeInv, TypeOK, Idle
    <2> QED
        BY <1>3, <2>2, <2>3 DEF NoRowReturned, Update, TypeInv, TypeOK
<1> QED
    BY <1>2, <1>3 DEF Update

\* A handler that ends, or goes on with the facts it needs, keeps TypeInv.
LEMMA HandlerEnds ==
    ASSUME TypeInv, NEW r \in Requests, req' = [req EXCEPT ![r] = Idle]
    PROVE  req' \in [Requests -> Handler] /\ HandlersKnow'
<1>1. Idle \in Handler
    BY DEF Idle, Handler
<1>2. req' \in [Requests -> Handler]
    BY <1>1 DEF TypeInv, TypeOK
<1>3. HandlersKnow'
    BY DEF HandlersKnow, TypeInv, TypeOK, Idle
<1> QED
    BY <1>2, <1>3

\* A handler that goes on to its next await knows what that one needs.
LEMMA HandlerGoesOn ==
    ASSUME TypeInv, NEW r \in Requests, NEW after \in Handler,
           after.op \in Ops, after.caller \in Users, after.task \in Tasks,
           after.at # "publish",
           after.at = "write" /\ after.op \in NeedsReceiver => after.who \in Users,
           req' = [req EXCEPT ![r] = after]
    PROVE  req' \in [Requests -> Handler] /\ HandlersKnow'
BY DEF HandlersKnow, TypeInv, TypeOK

\* No step of a handler, the consumer, the sweep or an administrator leaves
\* the types, one step per action.
LEMMA TypeStep ==
    TypeInv /\ [Next]_vars => TypeInv'
<1> SUFFICES ASSUME TypeInv, [Next]_vars
             PROVE  TypeInv'
    OBVIOUS
<1> USE DEF TypeInv, TypeOK
<1>1. ASSUME NEW u \in Users, NEW claims \in TokenRoles[u], SyncUser(u, claims)
      PROVE  TypeInv'
    <2>1. claims \in SUBSET Role
        BY <1>1, ConstantsAssumption
    <2>2. users' \in [Users -> UserRow]
        BY <1>1, <2>1, UpsertedIsUsers DEF SyncUser
    <2> QED
        BY <1>1, <2>2 DEF SyncUser, HandlersKnow
<1>2. ASSUME NEW u \in Users, NEW active \in BOOLEAN, SetActive(u, active)
      PROVE  TypeInv'
    <2>1. users' \in [Users -> UserRow]
        BY <1>2 DEF SetActive, UserRow
    <2> QED
        BY <1>2, <2>1 DEF SetActive, HandlersKnow
<1>3. ASSUME NEW r \in Requests, NEW op \in Ops, NEW u \in Users, NEW t \in Tasks,
             NEW claims \in TokenRoles[u], Arrive(r, op, u, claims, t)
      PROVE  TypeInv'
    <2> DEFINE after ==
            [Idle EXCEPT !.at = IF op \in {"create", "linkPm"} THEN "resolve" ELSE "read",
                         !.op = op, !.caller = u, !.claims = claims, !.task = t]
    <2>1. claims \in SUBSET Role
        BY <1>3, ConstantsAssumption
    <2>2. users' \in [Users -> UserRow]
        BY <1>3, <2>1, UpsertedIsUsers DEF Arrive
    <2>3. after \in Handler /\ after.op = op /\ after.caller = u /\ after.task = t
          /\ after.at \in {"resolve", "read"}
        BY <2>1 DEF Idle, Handler
    <2>4. req' = [req EXCEPT ![r] = after]
        BY <1>3 DEF Arrive
    <2> HIDE DEF after
    <2>5. req' \in [Requests -> Handler] /\ HandlersKnow'
        BY <2>3, <2>4, HandlerGoesOn
    <2> QED
        BY <1>3, <2>2, <2>5 DEF Arrive
<1>4. ASSUME NEW r \in Requests, ReadTask(r)
      PROVE  TypeInv'
    <2> DEFINE q == req[r]
               after == [q EXCEPT !.at = IF q.op \in {"edit", "noIndex", "claim"}
                                         THEN "write" ELSE "resolve"]
    <2>1. q \in Handler /\ q.op \in Ops /\ q.caller \in Users /\ q.task \in Tasks
        BY <1>4 DEF ReadTask, HandlersKnow
    <2>2. after \in Handler /\ after.op \in Ops /\ after.caller \in Users
          /\ after.task \in Tasks /\ after.at # "publish"
          /\ (after.at = "write" => after.op \notin NeedsReceiver)
        BY <2>1 DEF Handler, NeedsReceiver
    <2>3. req' = [req EXCEPT ![r] = Idle] \/ req' = [req EXCEPT ![r] = after]
        BY <1>4 DEF ReadTask
    <2> HIDE DEF after, q
    <2>4. req' \in [Requests -> Handler] /\ HandlersKnow'
        BY <2>2, <2>3, HandlerEnds, HandlerGoesOn
    <2> QED
        BY <1>4, <2>4 DEF ReadTask
<1>5. ASSUME NEW r \in Requests, Resolve(r)
      PROVE  TypeInv'
    <2> DEFINE q == req[r]
    <2>1. q \in Handler /\ q.op \in Ops /\ q.caller \in Users /\ q.task \in Tasks
        BY <1>5 DEF Resolve, HandlersKnow
    <2>2. req' \in [Requests -> Handler] /\ HandlersKnow'
        <3>1. CASE req' = [req EXCEPT ![r] = Idle]
            BY <3>1, HandlerEnds
        <3>2. ASSUME NEW w \in Candidates(q, tasks[q.task]),
                     req' = [req EXCEPT ![r] = [q EXCEPT !.at = "write", !.who = w]]
              PROVE  req' \in [Requests -> Handler] /\ HandlersKnow'
            <4> DEFINE after == [q EXCEPT !.at = "write", !.who = w]
            <4>1. w \in Users
                BY <2>1, <3>2, CandidatesAreUsers
            <4>2. after \in Handler /\ after.op \in Ops /\ after.caller \in Users
                  /\ after.task \in Tasks /\ after.at = "write" /\ after.who = w
                BY <2>1, <4>1 DEF Handler
            <4>3. req' = [req EXCEPT ![r] = after]
                BY <3>2
            <4> HIDE DEF after
            <4> QED
                BY <4>1, <4>2, <4>3, HandlerGoesOn
        <3> QED
            BY <1>5, <3>1, <3>2 DEF Resolve
    <2> QED
        BY <1>5, <2>2 DEF Resolve
<1>6. ASSUME NEW r \in Requests, Create(r)
      PROVE  TypeInv'
    <2> DEFINE q == req[r]
    <2>1. PICK s \in Services \cap q.claims, c \in Contents, n \in BOOLEAN :
            Update(r, "create", tasks[q.task].status = "none", "task.created",
                   [NoRow EXCEPT !.status = "unassigned", !.customer = q.caller,
                                 !.service = s, !.owner = q.caller, !.content = c,
                                 !.noIndex = n])
        BY <1>6 DEF Create
    <2> DEFINE row == [NoRow EXCEPT !.status = "unassigned", !.customer = q.caller,
                                    !.service = s, !.owner = q.caller, !.content = c,
                                    !.noIndex = n]
    <2>2. q.caller \in Users
        BY <2>1 DEF Update, HandlersKnow
    <2>3. row \in Row
        BY <2>2 DEF NoRow, Row, Statuses
    <2> HIDE DEF row
    <2>4. Update(r, "create", tasks[q.task].status = "none", "task.created", row)
        BY <2>1 DEF row
    <2> QED
        BY <2>3, <2>4, UpdateType DEF EventNames
<1>7. ASSUME NEW r \in Requests, UpdateOrderDetails(r)
      PROVE  TypeInv'
    <2>1. tasks' \in [Tasks -> Row]
        <3>1. CASE UNCHANGED tasks
            BY <3>1
        <3>2. ASSUME NEW c \in Contents, tasks' = [tasks EXCEPT ![req[r].task].content = c]
              PROVE  tasks' \in [Tasks -> Row]
            <4>1. ASSUME NEW row \in Row
                  PROVE  [row EXCEPT !.content = c] \in Row
                BY DEF Row
            <4> QED
                BY <3>2, <4>1
        <3> QED
            BY <1>7, <3>1, <3>2 DEF UpdateOrderDetails
    <2>2. req' \in [Requests -> Handler] /\ HandlersKnow'
        BY <1>7, HandlerEnds DEF UpdateOrderDetails
    <2> QED
        BY <1>7, <2>1, <2>2 DEF UpdateOrderDetails
<1>8. ASSUME NEW r \in Requests, SetNoIndex(r)
      PROVE  TypeInv'
    <2>1. PICK n \in BOOLEAN :
            Update(r, "noIndex", TRUE, "task.no-index-changed",
                   [tasks[req[r].task] EXCEPT !.noIndex = n])
        BY <1>8 DEF SetNoIndex
    <2> DEFINE row == [tasks[req[r].task] EXCEPT !.noIndex = n]
    <2>2. req[r].task \in Tasks
        BY <2>1 DEF Update, HandlersKnow
    <2>3. row \in Row
        BY SMTT(60), <2>2 DEF Row
    <2> QED
        BY <2>1, <2>3, UpdateType DEF EventNames
<1>9. ASSUME NEW r \in Requests,
             \/ AssignAnalyst(r) \/ ClaimTask(r) \/ MoveToReview(r)
             \/ ReassignReviewer(r) \/ ApproveTask(r) \/ RejectTask(r)
      PROVE  TypeInv'
    <2> DEFINE q == req[r]
               row == tasks[q.task]
    <2> USE DEF NeedsReceiver, Ops, CallerRoles, EventNames
    <2>1. CASE AssignAnalyst(r)
        <3>1. row \in Row /\ q.who \in Users
            BY <2>1 DEF AssignAnalyst, Update, HandlersKnow
        <3>2. HeldBy(row, "analyst", q.who) \in Row
            BY <3>1, HeldByIsRow DEF Statuses
        <3> QED
            BY <2>1, <3>2, UpdateType DEF AssignAnalyst
    <2>2. CASE ClaimTask(r)
        <3>1. row \in Row /\ q.caller \in Users
            BY <2>2 DEF ClaimTask, Update, HandlersKnow
        <3>2. HeldBy(row, "analyst", q.caller) \in Row
            BY <3>1, HeldByIsRow DEF Statuses
        <3> QED
            BY <2>2, <3>2, UpdateType DEF ClaimTask
    <2>3. CASE MoveToReview(r)
        <3>1. row \in Row /\ q.who \in Users
            BY <2>3 DEF MoveToReview, Update, HandlersKnow
        <3>2. HeldBy(row, "reviewer", q.who) \in Row
            BY <3>1, HeldByIsRow DEF Statuses
        <3> QED
            BY <2>3, <3>2, UpdateType DEF MoveToReview
    <2>4. CASE ReassignReviewer(r)
        <3>1. row \in Row /\ q.who \in Users
            BY <2>4 DEF ReassignReviewer, Update, HandlersKnow
        <3>2. HeldBy(row, "reviewer", q.who) \in Row
            BY <3>1, HeldByIsRow DEF Statuses
        <3> QED
            BY <2>4, <3>2, UpdateType DEF ReassignReviewer
    <2>5. CASE ApproveTask(r)
        <3> DEFINE new == [row EXCEPT !.status = "done", !.assignee = Null, !.owner = q.who]
        <3>1. row \in Row /\ q.who \in Users
            BY <2>5 DEF ApproveTask, Update, HandlersKnow
        <3>2. new \in Row
            BY <3>1 DEF Row, Statuses
        <3> QED
            BY <2>5, <3>2, UpdateType DEF ApproveTask
    <2>6. CASE RejectTask(r)
        <3>1. row \in Row /\ q.who \in Users
            BY <2>6 DEF RejectTask, Update, HandlersKnow
        <3>2. HeldBy(row, "analyst", q.who) \in Row
            BY <3>1, HeldByIsRow DEF Statuses
        <3> QED
            BY <2>6, <3>2, UpdateType DEF RejectTask
    <2> QED
        BY <1>9, <2>1, <2>2, <2>3, <2>4, <2>5, <2>6
<1>10. ASSUME NEW r \in Requests, LinkPmToAccount(r)
       PROVE  TypeInv'
    <2>1. req[r].op = "linkPm" /\ req[r].who \in Users
        BY <1>10 DEF LinkPmToAccount, HandlersKnow, NeedsReceiver, Ops, CallerRoles
    <2>2. managers' \in [Accounts -> SUBSET Users]
        BY <1>10, <2>1 DEF LinkPmToAccount
    <2>3. req' \in [Requests -> Handler] /\ HandlersKnow'
        BY <1>10, HandlerEnds DEF LinkPmToAccount
    <2> QED
        BY <1>10, <2>2, <2>3 DEF LinkPmToAccount
<1>11. ASSUME NEW r \in Requests, PublishTaskEvent(r) \/ FailRequest(r)
       PROVE  TypeInv'
    <2>1. req' \in [Requests -> Handler] /\ HandlersKnow'
        BY <1>11, HandlerEnds DEF PublishTaskEvent, FailRequest
    <2>2. topic' \in Seq(Event)
        BY SMTT(60), <1>11 DEF PublishTaskEvent, FailRequest, HandlersKnow
    <2> QED
        BY <1>11, <2>1, <2>2 DEF PublishTaskEvent, FailRequest
<1>12. ASSUME NEW t \in Tasks, MarkPaid(t)
       PROVE  TypeInv'
    <2>1. PaidRow(tasks[t]) \in Row
        BY PaidRowIsRow
    <2>2. tasks' \in [Tasks -> Row] /\ billing' \in Event
        BY <1>12, <2>1 DEF MarkPaid, Event, EventNames
    <2> QED
        BY <1>12, <2>2 DEF MarkPaid, HandlersKnow
<1>13. ASSUME NEW t \in Tasks, GracePeriodElapses(t)
       PROVE  TypeInv'
    <2>1. [tasks[t] EXCEPT !.paid = "stale"] \in Row
        BY DEF Row
    <2>2. tasks' \in [Tasks -> Row]
        BY <1>13, <2>1 DEF GracePeriodElapses
    <2> QED
        BY <1>13, <2>2 DEF GracePeriodElapses, HandlersKnow
<1>14. ASSUME NEW t \in Tasks, CloseTask(t)
       PROVE  TypeInv'
    <2> DEFINE row == [tasks[t] EXCEPT !.status = "closed"]
    <2>1. row \in Row
        BY ZenonT(60) DEF Row, Statuses
    <2>2. tasks' \in [Tasks -> Row] /\ sweep' \in Sweep
        BY <1>14, <2>1 DEF CloseTask, Sweep, Event, EventNames
    <2> QED
        BY <1>14, <2>2 DEF CloseTask, HandlersKnow
<1>15. ASSUME \/ \E t \in Tasks : SkipTask(t)
              \/ ListStalePaid \/ PublishClosed \/ FailSweep
       PROVE  TypeInv'
    <2>1. sweep' \in Sweep
        BY <1>15 DEF SkipTask, ListStalePaid, StalePaid, PublishClosed, FailSweep, NoSweep, Sweep
    <2>2. topic' \in Seq(Event)
        <3>1. sweep.event \in Event \cup {NoEvent}
            BY DEF Sweep
        <3>2. ASSUME NEW e \in Event, topic' = Append(topic, e)
              PROVE  topic' \in Seq(Event)
            BY <3>2
        <3>3. CASE PublishClosed
            BY <3>1, <3>2, <3>3 DEF PublishClosed
        <3> QED
            BY <1>15, <3>3 DEF SkipTask, ListStalePaid, FailSweep
    <2> QED
        BY <1>15, <2>1, <2>2 DEF SkipTask, ListStalePaid, PublishClosed, FailSweep, HandlersKnow
<1>16. ASSUME PublishPaid \/ FailBilling
       PROVE  TypeInv'
    <2>1. ASSUME NEW e \in Event, topic' = Append(topic, e)
          PROVE  topic' \in Seq(Event)
        BY <2>1
    <2>2. topic' \in Seq(Event)
        BY <1>16, <2>1 DEF PublishPaid, FailBilling
    <2> QED
        BY <1>16, <2>2 DEF PublishPaid, FailBilling, HandlersKnow
<1>17. ASSUME UNCHANGED vars
       PROVE  TypeInv'
    BY <1>17 DEF vars, HandlersKnow
<1> QED
    BY <1>1, <1>2, <1>3, <1>4, <1>5, <1>6, <1>7, <1>8, <1>9, <1>10, <1>11, <1>12,
       <1>13, <1>14, <1>15, <1>16, <1>17 DEF Next, Handle

\* Every table, handler, event and pending write has its type, in every state,
\* for any people, orders and number of requests in flight.
THEOREM TypesCorrect == Spec => []TypeOK
<1>1. TypeInv => TypeOK
    BY DEF TypeInv
<1> QED
    BY <1>1, TypeInit, TypeStep, PTL DEF Spec

-----------------------------------------------------------------------------
(* How one step can change the tasks table: it leaves it alone, or it changes  *)
(* one row along one edge of the workflow.  Every result below about orders    *)
(* follows from this and from TypeInv.                                         *)

Touches(t) == t \in Tasks /\ tasks' = [tasks EXCEPT ![t] = tasks'[t]]

KeepsOrder(t) ==
    /\ tasks'[t].customer = tasks[t].customer
    /\ tasks'[t].service = tasks[t].service

KeepsText(t) == tasks'[t].content = tasks[t].content

KeepsHolder(t) ==
    /\ tasks'[t].assignee = tasks[t].assignee
    /\ tasks'[t].owner = tasks[t].owner

Submits(t) ==
    /\ tasks[t].status = "none"
    /\ tasks'[t].status = "unassigned"
    /\ tasks'[t].customer \in Users
    /\ tasks'[t].service \in Services
    /\ tasks'[t].assignee = Null
    /\ tasks'[t].owner = tasks'[t].customer
    /\ tasks'[t].paid = "no"

Amends(t) ==
    /\ tasks'[t].status = tasks[t].status
    /\ tasks'[t].paid = tasks[t].paid
    /\ KeepsOrder(t)
    /\ KeepsHolder(t)
    /\ KeepsText(t) \/ tasks[t].status \in EditableStatuses

Moves(t, from, to) ==
    /\ tasks[t].status = from
    /\ tasks'[t].status = to
    /\ tasks'[t].paid = tasks[t].paid
    /\ KeepsOrder(t)
    /\ KeepsText(t)

Receives(t, who) == who \in Users /\ tasks'[t].assignee = who /\ tasks'[t].owner = who

\* The holder of the order has the handler that hands it on.
ByHolder(t) ==
    \E r \in Requests :
        /\ req[r].at = "write" /\ req'[r].at = "publish"
        /\ req[r].task = t /\ req[r].caller = tasks[t].assignee

Staffs(t) == Moves(t, "unassigned", "analyst") /\ \E a \in Users : Receives(t, a)

HandsOver(t) ==
    /\ \/ Moves(t, "analyst", "reviewer")
       \/ Moves(t, "reviewer", "reviewer")
       \/ Moves(t, "reviewer", "analyst")
    /\ \E h \in Users : Receives(t, h)
    /\ ByHolder(t)

Approves(t) ==
    /\ Moves(t, "reviewer", "done")
    /\ tasks'[t].assignee = Null
    /\ tasks'[t].owner \in Users
    /\ ByHolder(t)

Pays(t) ==
    /\ tasks[t].status = "done"
    /\ tasks'[t].status = "paid"
    /\ tasks'[t].paid = "recent"
    /\ KeepsOrder(t) /\ KeepsText(t) /\ KeepsHolder(t)

Ages(t) ==
    /\ tasks'[t].status = tasks[t].status
    /\ tasks[t].paid = "recent"
    /\ tasks'[t].paid = "stale"
    /\ KeepsOrder(t) /\ KeepsText(t) /\ KeepsHolder(t)

Closes(t) ==
    /\ t \in sweep.stale
    /\ Moves(t, "paid", "closed")
    /\ KeepsHolder(t)

RowStep(t) ==
    \/ Submits(t) \/ Amends(t) \/ Staffs(t) \/ HandsOver(t) \/ Approves(t)
    \/ Pays(t) \/ Ages(t) \/ Closes(t)

\* A handler about to write knows its order, its caller and, where the order
\* is handed on, the receiver.
LEMMA WriterKnows ==
    ASSUME TypeInv, NEW r \in Requests, req[r].at = "write"
    PROVE  /\ req[r].task \in Tasks /\ req[r].caller \in Users /\ tasks[req[r].task] \in Row
           /\ req[r].op \in NeedsReceiver => req[r].who \in Users
BY DEF TypeInv, TypeOK, HandlersKnow

\* An UPDATE by id writes the row of its order and no other.
LEMMA RowReturnedTouches ==
    ASSUME TypeInv, NEW r \in Requests, req[r].at = "write", NEW name, NEW row,
           RowReturned(r, name, row)
    PROVE  /\ Touches(req[r].task)
           /\ tasks'[req[r].task] = row
           /\ req'[r].at = "publish"
<1>1. req[r].task \in Tasks
    BY WriterKnows
<1>2. tasks' = [tasks EXCEPT ![req[r].task] = row]
    BY DEF RowReturned
<1>3. tasks'[req[r].task] = row /\ Touches(req[r].task)
    BY <1>1, <1>2 DEF Touches, TypeInv, TypeOK
<1>4. req'[r].at = "publish"
    BY DEF RowReturned, TypeInv, TypeOK, Handler
<1> QED
    BY <1>3, <1>4

\* What HeldBy leaves of a row, for the four statements that hand an order on.
LEMMA HeldByFields ==
    ASSUME NEW row \in Row, NEW status, NEW holder
    PROVE  LET new == HeldBy(row, status, holder) IN
           /\ new.status = status /\ new.assignee = holder /\ new.owner = holder
           /\ new.customer = row.customer /\ new.service = row.service
           /\ new.content = row.content /\ new.paid = row.paid
BY DEF HeldBy, Row

\* Every step of the service leaves all rows alone or moves one of them along
\* one edge of the workflow.  All that follows is proved per edge.
LEMMA ChangesOneRow ==
    ASSUME TypeInv, [Next]_vars
    PROVE  UNCHANGED tasks \/ \E t \in Tasks : Touches(t) /\ RowStep(t)
<1> DEFINE Goal == UNCHANGED tasks \/ \E t \in Tasks : Touches(t) /\ RowStep(t)
<1> USE DEF RowStep
<1>1. ASSUME NEW r \in Requests, Create(r)
      PROVE  Goal
    <2> DEFINE q == req[r]
    <2>1. PICK s \in Services \cap q.claims, c \in Contents, n \in BOOLEAN :
            Update(r, "create", tasks[q.task].status = "none", "task.created",
                   [NoRow EXCEPT !.status = "unassigned", !.customer = q.caller,
                                 !.service = s, !.owner = q.caller, !.content = c,
                                 !.noIndex = n])
        BY <1>1 DEF Create
    <2> DEFINE new == [NoRow EXCEPT !.status = "unassigned", !.customer = q.caller,
                                    !.service = s, !.owner = q.caller, !.content = c,
                                    !.noIndex = n]
    <2>2. /\ new.status = "unassigned" /\ new.customer = q.caller /\ new.service = s
          /\ new.assignee = Null /\ new.owner = q.caller /\ new.paid = "no"
        BY DEF NoRow
    <2> HIDE DEF new
    <2>3. q.at = "write" /\ (\/ UNCHANGED tasks
                             \/ /\ tasks[q.task].status = "none"
                                /\ RowReturned(r, "task.created", new))
        BY <2>1 DEF new, Update, NoRowReturned
    <2>4. CASE tasks[q.task].status = "none" /\ RowReturned(r, "task.created", new)
        <3>1. Touches(q.task) /\ tasks'[q.task] = new
            BY <2>3, <2>4, RowReturnedTouches
        <3>2. Submits(q.task) /\ q.task \in Tasks
            BY <2>2, <2>3, <2>4, <3>1, WriterKnows DEF Submits
        <3> QED
            BY <3>1, <3>2
    <2> QED
        BY <2>3, <2>4
<1>2. ASSUME NEW r \in Requests, UpdateOrderDetails(r)
      PROVE  Goal
    <2>1. req[r].task \in Tasks
        BY <1>2 DEF UpdateOrderDetails, TypeInv, HandlersKnow
    <2>2. ASSUME NEW c \in Contents, tasks' = [tasks EXCEPT ![req[r].task].content = c],
                 tasks[req[r].task].status \in EditableStatuses
          PROVE  Touches(req[r].task) /\ Amends(req[r].task)
        <3> DEFINE old == tasks[req[r].task]
                   new == [old EXCEPT !.content = c]
        <3>1. tasks' = [tasks EXCEPT ![req[r].task] = new]
            BY <2>2
        <3>2. /\ new.status = old.status /\ new.paid = old.paid
              /\ new.customer = old.customer /\ new.service = old.service
              /\ new.assignee = old.assignee /\ new.owner = old.owner
            BY <2>1 DEF TypeInv, TypeOK, Row
        <3> HIDE DEF new
        <3>3. tasks'[req[r].task] = new /\ Touches(req[r].task)
            BY <2>1, <3>1 DEF Touches, TypeInv, TypeOK
        <3> QED
            BY <2>2, <3>2, <3>3 DEF Amends, KeepsOrder, KeepsHolder
    <2> QED
        BY <1>2, <2>1, <2>2 DEF UpdateOrderDetails
<1>3. ASSUME NEW r \in Requests, SetNoIndex(r)
      PROVE  Goal
    <2>1. PICK n \in BOOLEAN :
            Update(r, "noIndex", TRUE, "task.no-index-changed",
                   [tasks[req[r].task] EXCEPT !.noIndex = n])
        BY <1>3 DEF SetNoIndex
    <2> DEFINE old == tasks[req[r].task]
               new == [old EXCEPT !.noIndex = n]
    <2>2. req[r].task \in Tasks /\ req[r].at = "write"
        BY <2>1, WriterKnows DEF Update
    <2>3. /\ new.status = old.status /\ new.paid = old.paid /\ new.customer = old.customer
          /\ new.service = old.service /\ new.assignee = old.assignee
          /\ new.owner = old.owner /\ new.content = old.content
        BY <2>2 DEF TypeInv, TypeOK, Row
    <2>4. RowReturned(r, "task.no-index-changed", new)
        BY <2>1 DEF Update
    <2> HIDE DEF new
    <2>5. Touches(req[r].task) /\ tasks'[req[r].task] = new
        BY <2>2, <2>4, RowReturnedTouches
    <2> QED
        BY <2>2, <2>3, <2>5 DEF Amends, KeepsOrder, KeepsHolder, KeepsText
<1>4. ASSUME NEW r \in Requests, AssignAnalyst(r) \/ ClaimTask(r)
      PROVE  Goal
    <2> DEFINE t == req[r].task
    <2>1. req[r].at = "write" /\ t \in Tasks /\ tasks[t] \in Row
        BY <1>4, WriterKnows DEF AssignAnalyst, ClaimTask, Update
    <2>2. CASE UNCHANGED tasks
        BY <2>2
    <2>3. CASE ~UNCHANGED tasks
        <3>1. PICK a \in Users :
                /\ tasks[t].status = "unassigned"
                /\ Touches(t) /\ tasks'[t] = HeldBy(tasks[t], "analyst", a)
            <4>1. CASE AssignAnalyst(r)
                <5>1. /\ tasks[t].status = "unassigned" /\ req[r].op = "assign"
                      /\ RowReturned(r, "task.assigned", HeldBy(tasks[t], "analyst", req[r].who))
                    BY <2>3, <4>1 DEF AssignAnalyst, Update, NoRowReturned
                <5>2. req[r].who \in Users
                    BY <2>1, <5>1, WriterKnows DEF NeedsReceiver, Ops, CallerRoles
                <5>3. Touches(t) /\ tasks'[t] = HeldBy(tasks[t], "analyst", req[r].who)
                    BY <2>1, <5>1, RowReturnedTouches
                <5> QED
                    BY <5>1, <5>2, <5>3
            <4>2. CASE ClaimTask(r)
                <5>1. /\ tasks[t].status = "unassigned"
                      /\ RowReturned(r, "task.claimed", HeldBy(tasks[t], "analyst", req[r].caller))
                    BY <2>3, <4>2 DEF ClaimTask, Update, NoRowReturned
                <5>2. Touches(t) /\ tasks'[t] = HeldBy(tasks[t], "analyst", req[r].caller)
                    BY <2>1, <5>1, RowReturnedTouches
                <5>3. req[r].caller \in Users
                    BY <2>1, WriterKnows
                <5> QED
                    BY <5>1, <5>2, <5>3
            <4> QED
                BY <1>4, <4>1, <4>2
        <3>2. Staffs(t)
            BY <2>1, <3>1, HeldByFields
               DEF Staffs, Moves, Receives, KeepsOrder, KeepsText
        <3> QED
            BY <2>1, <3>1, <3>2
    <2> QED
        BY <2>2, <2>3
<1>5. ASSUME NEW r \in Requests, MoveToReview(r) \/ ReassignReviewer(r) \/ RejectTask(r)
      PROVE  Goal
    <2> DEFINE t == req[r].task
    <2>1. req[r].at = "write" /\ t \in Tasks /\ tasks[t] \in Row
        BY <1>5, WriterKnows DEF MoveToReview, ReassignReviewer, RejectTask, Update
    <2>2. CASE UNCHANGED tasks
        BY <2>2
    <2>3. CASE ~UNCHANGED tasks
        <3>1. PICK h \in Users, from \in {"analyst", "reviewer"},
                   to \in {"analyst", "reviewer"} :
                /\ from = "reviewer" \/ to = "reviewer"
                /\ tasks[t].status = from /\ tasks[t].assignee = req[r].caller
                /\ Touches(t) /\ tasks'[t] = HeldBy(tasks[t], to, h) /\ req'[r].at = "publish"
            <4>1. req[r].who \in Users
                BY <1>5, <2>1, WriterKnows
                   DEF MoveToReview, ReassignReviewer, RejectTask, Update,
                       NeedsReceiver, Ops, CallerRoles
            <4>2. CASE MoveToReview(r)
                <5>1. /\ tasks[t].status = "analyst" /\ tasks[t].assignee = req[r].caller
                      /\ RowReturned(r, "task.moved-to-review",
                                     HeldBy(tasks[t], "reviewer", req[r].who))
                    BY <2>3, <4>2 DEF MoveToReview, Update, NoRowReturned
                <5>2. /\ Touches(t) /\ tasks'[t] = HeldBy(tasks[t], "reviewer", req[r].who)
                      /\ req'[r].at = "publish"
                    BY <2>1, <5>1, RowReturnedTouches
                <5> QED
                    BY <4>1, <5>1, <5>2
            <4>3. CASE ReassignReviewer(r)
                <5>1. /\ tasks[t].status = "reviewer" /\ tasks[t].assignee = req[r].caller
                      /\ RowReturned(r, "task.reviewer-reassigned",
                                     HeldBy(tasks[t], "reviewer", req[r].who))
                    BY <2>3, <4>3 DEF ReassignReviewer, Update, NoRowReturned
                <5>2. /\ Touches(t) /\ tasks'[t] = HeldBy(tasks[t], "reviewer", req[r].who)
                      /\ req'[r].at = "publish"
                    BY <2>1, <5>1, RowReturnedTouches
                <5> QED
                    BY <4>1, <5>1, <5>2
            <4>4. CASE RejectTask(r)
                <5>1. /\ tasks[t].status = "reviewer" /\ tasks[t].assignee = req[r].caller
                      /\ RowReturned(r, "task.rejected",
                                     HeldBy(tasks[t], "analyst", req[r].who))
                    BY <2>3, <4>4 DEF RejectTask, Update, NoRowReturned
                <5>2. /\ Touches(t) /\ tasks'[t] = HeldBy(tasks[t], "analyst", req[r].who)
                      /\ req'[r].at = "publish"
                    BY <2>1, <5>1, RowReturnedTouches
                <5> QED
                    BY <4>1, <5>1, <5>2
            <4> QED
                BY <1>5, <4>2, <4>3, <4>4
        <3>2. Moves(t, from, to) /\ Receives(t, h)
            BY <2>1, <3>1, HeldByFields DEF Moves, Receives, KeepsOrder, KeepsText
        <3>3. ByHolder(t)
            BY <2>1, <3>1 DEF ByHolder
        <3> QED
            BY <2>1, <3>1, <3>2, <3>3 DEF HandsOver
    <2> QED
        BY <2>2, <2>3
<1>6. ASSUME NEW r \in Requests, ApproveTask(r)
      PROVE  Goal
    <2> DEFINE t == req[r].task
               new == [tasks[t] EXCEPT !.status = "done", !.assignee = Null,
                                       !.owner = req[r].who]
    <2>1. /\ req[r].at = "write" /\ t \in Tasks /\ req[r].who \in Users
          /\ tasks[t] \in Row
        BY <1>6, WriterKnows DEF ApproveTask, Update, NeedsReceiver, Ops, CallerRoles
    <2>2. /\ new.status = "done" /\ new.assignee = Null /\ new.owner = req[r].who
          /\ new.customer = tasks[t].customer /\ new.service = tasks[t].service
          /\ new.content = tasks[t].content /\ new.paid = tasks[t].paid
        BY <2>1 DEF Row
    <2>3. \/ UNCHANGED tasks
          \/ /\ tasks[t].status = "reviewer" /\ tasks[t].assignee = req[r].caller
             /\ RowReturned(r, "task.approved", new)
        BY <1>6 DEF ApproveTask, Update, NoRowReturned
    <2> HIDE DEF new
    <2>4. CASE ~UNCHANGED tasks
        <3>1. Touches(t) /\ tasks'[t] = new /\ req'[r].at = "publish"
            BY <2>1, <2>3, <2>4, RowReturnedTouches
        <3>2. Approves(t)
            BY <2>1, <2>2, <2>3, <2>4, <3>1 DEF Approves, Moves, KeepsOrder, KeepsText, ByHolder
        <3> QED
            BY <2>1, <3>1, <3>2
    <2> QED
        BY <2>4
<1>7. ASSUME NEW t \in Tasks, MarkPaid(t)
      PROVE  Goal
    BY <1>7 DEF MarkPaid, PaidRow, Touches, Pays, KeepsOrder, KeepsText, KeepsHolder,
                TypeInv, TypeOK, Row
<1>8. ASSUME NEW t \in Tasks, GracePeriodElapses(t)
      PROVE  Goal
    BY <1>8 DEF GracePeriodElapses, Touches, Ages, KeepsOrder, KeepsText, KeepsHolder,
                TypeInv, TypeOK, Row
<1>9. ASSUME NEW t \in Tasks, CloseTask(t)
      PROVE  Goal
    <2> DEFINE new == [tasks[t] EXCEPT !.status = "closed"]
    <2>1. tasks[t].status = "paid" /\ t \in sweep.stale /\ tasks' = [tasks EXCEPT ![t] = new]
        BY <1>9 DEF CloseTask
    <2> QED
        BY <2>1 DEF Touches, Closes, Moves, KeepsOrder, KeepsText, KeepsHolder,
                    TypeInv, TypeOK, Row
<1>10. ASSUME \/ \E r \in Requests : \/ ReadTask(r) \/ Resolve(r) \/ LinkPmToAccount(r)
                                     \/ PublishTaskEvent(r) \/ FailRequest(r)
              \/ \E u \in Users : \E claims \in TokenRoles[u] : SyncUser(u, claims)
              \/ \E u \in Users, active \in BOOLEAN : SetActive(u, active)
              \/ \E r \in Requests, op \in Ops, u \in Users, t \in Tasks :
                    \E claims \in TokenRoles[u] : Arrive(r, op, u, claims, t)
              \/ \E t \in Tasks : SkipTask(t)
              \/ PublishPaid \/ FailBilling \/ ListStalePaid \/ PublishClosed \/ FailSweep
              \/ UNCHANGED vars
       PROVE  UNCHANGED tasks
    BY <1>10 DEF ReadTask, Resolve, LinkPmToAccount, PublishTaskEvent, FailRequest,
                 SyncUser, SetActive, Arrive, SkipTask, PublishPaid, FailBilling,
                 ListStalePaid, PublishClosed, FailSweep, vars
<1> QED
    BY <1>1, <1>2, <1>3, <1>4, <1>5, <1>6, <1>7, <1>8, <1>9, <1>10 DEF Next, Handle

-----------------------------------------------------------------------------
(* The invariant of the orders: the rows are coherent, and what a sweep has     *)
(* listed is still past its grace period.                                      *)

ListedIsStale == \A t \in sweep.stale : tasks[t].paid = "stale"

OrderInv == TypeInv /\ RowCoherent /\ ListedIsStale

\* No order, no list: the inductive invariant holds at the start.
LEMMA OrderInit == Init => OrderInv
<1> SUFFICES ASSUME Init PROVE OrderInv
    OBVIOUS
<1>1. RowCoherent
    BY DEF Init, RowCoherent, NoRow
<1>2. ListedIsStale
    BY DEF Init, ListedIsStale, NoSweep
<1> QED
    BY <1>1, <1>2, TypeInit DEF OrderInv

\* The row of every other order is what it was.
LEMMA OthersKeep ==
    ASSUME TypeInv, TypeInv', NEW t \in Tasks, Touches(t), NEW u \in Tasks, u # t
    PROVE  tasks'[u] = tasks[u]
BY DEF Touches, TypeInv, TypeOK

\* Each edge of the workflow keeps its row coherent.
LEMMA CoherentStep ==
    ASSUME OrderInv, TypeInv', [Next]_vars
    PROVE  RowCoherent'
<1> USE DEF OrderInv
<1>1. CASE UNCHANGED tasks
    BY <1>1 DEF RowCoherent
<1>2. ASSUME NEW t \in Tasks, Touches(t), RowStep(t)
      PROVE  RowCoherent'
    <2> DEFINE Coherent(row) ==
            /\ row.assignee # Null <=> row.status \in {"analyst", "reviewer"}
            /\ row.status = "unassigned" => row.owner = row.customer
            /\ row.status \in {"analyst", "reviewer"} => row.owner = row.assignee
            /\ row.status \in {"done", "paid", "closed"} => row.owner # Null
            /\ row.status \in {"paid", "closed"} <=> row.paid # "no"
    <2>1. Coherent(tasks[t])
        BY DEF RowCoherent
    <2>2. Null \notin Users
        BY ConstantsAssumption
    <2>3. Coherent(tasks'[t])
        <3>1. CASE Submits(t)
            BY <3>1 DEF Submits
        <3>2. CASE Amends(t) \/ Ages(t)
            BY <2>1, <3>2 DEF Amends, Ages, KeepsOrder, KeepsHolder
        <3>3. CASE Staffs(t) \/ HandsOver(t)
            BY <2>1, <2>2, <3>3 DEF Staffs, HandsOver, Moves, Receives
        <3>4. CASE Approves(t)
            BY <2>1, <2>2, <3>4 DEF Approves, Moves
        <3>5. CASE Pays(t) \/ Closes(t)
            BY <2>1, <3>5 DEF Pays, Closes, Moves, KeepsHolder
        <3> QED
            BY <1>2, <3>1, <3>2, <3>3, <3>4, <3>5 DEF RowStep
    <2>4. ASSUME NEW u \in Tasks
          PROVE  Coherent(tasks'[u])
        <3>1. CASE u = t
            BY <2>3, <3>1
        <3>2. CASE u # t
            BY <1>2, <3>2, OthersKeep DEF RowCoherent
        <3> QED
            BY <3>1, <3>2
    <2> QED
        BY <2>4 DEF RowCoherent
<1> QED
    BY <1>1, <1>2, ChangesOneRow

\* The list only shrinks, or is taken afresh from rows past their grace period.
LEMMA ListedStep ==
    ASSUME OrderInv, TypeInv', [Next]_vars
    PROVE  ListedIsStale'
<1> USE DEF OrderInv
<1>1. ASSUME NEW t \in Tasks, tasks[t].paid = "stale"
      PROVE  tasks'[t].paid = "stale"
    <2>1. ASSUME Touches(t), RowStep(t)
          PROVE  tasks'[t].paid = "stale"
        BY <1>1, <2>1 DEF RowStep, Submits, Amends, Staffs, HandsOver, Approves, Pays, Ages,
                          Closes, Moves, RowCoherent
    <2>2. ASSUME NEW u \in Tasks, u # t, Touches(u)
          PROVE  tasks'[t].paid = "stale"
        BY <1>1, <2>2, OthersKeep
    <2> QED
        BY <1>1, <2>1, <2>2, ChangesOneRow
<1>2. \/ sweep'.stale \subseteq sweep.stale
      \/ UNCHANGED tasks /\ sweep'.stale = StalePaid
    <2>1. CASE UNCHANGED sweep
        BY <2>1
    <2>2. ASSUME NEW t \in Tasks, CloseTask(t) \/ SkipTask(t)
          PROVE  sweep'.stale \subseteq sweep.stale
        BY <2>2 DEF CloseTask, SkipTask, TypeInv, TypeOK, Sweep
    <2>3. CASE ListStalePaid
        BY <2>3 DEF ListStalePaid, NoSweep
    <2>4. CASE PublishClosed \/ FailSweep
        BY <2>4 DEF PublishClosed, FailSweep, NoSweep, TypeInv, TypeOK, Sweep
    <2>5. ASSUME NEW r \in Requests, Handle(r) \/ FailRequest(r)
          PROVE  UNCHANGED sweep
        BY <2>5 DEF Handle, ReadTask, Resolve, Create, UpdateOrderDetails, SetNoIndex,
                    AssignAnalyst, ClaimTask, MoveToReview, ReassignReviewer, ApproveTask,
                    RejectTask, Update, LinkPmToAccount, PublishTaskEvent, FailRequest
    <2> QED
        BY ZenonT(60), <2>1, <2>2, <2>3, <2>4, <2>5
           DEF Next, vars, SyncUser, SetActive, Arrive, MarkPaid, GracePeriodElapses,
               PublishPaid, FailBilling
<1>3. sweep.stale \subseteq Tasks /\ StalePaid \subseteq Tasks
    BY DEF TypeInv, TypeOK, Sweep, StalePaid
<1> QED
    BY <1>1, <1>2, <1>3 DEF ListedIsStale, StalePaid

\* The invariant is inductive.
LEMMA OrderStep == OrderInv /\ [Next]_vars => OrderInv'
BY TypeStep, CoherentStep, ListedStep DEF OrderInv

\* ... and so holds in every state.
LEMMA OrderAlways == Spec => []OrderInv
BY OrderInit, OrderStep, PTL DEF Spec

\* The Assignee / Owner table holds in every state, whatever handlers interleave.
THEOREM RowsCoherent == Spec => []RowCoherent
<1>1. OrderInv => RowCoherent
    BY DEF OrderInv
<1> QED
    BY <1>1, OrderAlways, PTL

\* No handler takes an order away from its holder but one the holder called: the
\* UPDATE asks for the assignee the handler read.
THEOREM HolderHandsOver == Spec => HandoverByHolder
<1> DEFINE Step ==
        \A t \in Tasks :
            tasks[t].assignee # Null /\ tasks'[t].assignee # tasks[t].assignee => ByHolder(t)
<1>1. OrderInv /\ OrderInv' /\ [Next]_vars => [Step]_vars
    <2> SUFFICES ASSUME OrderInv, OrderInv', [Next]_vars, NEW t \in Tasks,
                        tasks[t].assignee # Null, tasks'[t].assignee # tasks[t].assignee
                 PROVE  ByHolder(t)
        OBVIOUS
    <2>1. Touches(t) /\ RowStep(t)
        BY ChangesOneRow, OthersKeep DEF OrderInv
    <2>2. ~Submits(t) /\ ~Staffs(t)
        <3>1. tasks[t].status \notin {"none", "unassigned"}
            BY DEF OrderInv, RowCoherent
        <3> QED
            BY <3>1 DEF Submits, Staffs, Moves
    <2>3. ~Amends(t) /\ ~Pays(t) /\ ~Ages(t) /\ ~Closes(t)
        BY DEF Amends, Pays, Ages, Closes, KeepsHolder
    <2> QED
        BY <2>1, <2>2, <2>3 DEF RowStep, HandsOver, Approves
<1> QED
    BY <1>1, OrderAlways, PTL DEF Spec, HandoverByHolder, ByHolder

\* An edit whose check ran before the hand-over to review changes nothing.
THEOREM TextFrozenInReview == Spec => FrozenInReview
<1> DEFINE Step ==
        \A t \in Tasks : tasks[t].status \notin EditableStatuses \cup {"none"} => KeepsText(t)
<1>1. OrderInv /\ OrderInv' /\ [Next]_vars => [Step]_vars
    <2> SUFFICES ASSUME OrderInv, OrderInv', [Next]_vars, NEW t \in Tasks,
                        tasks[t].status \notin EditableStatuses \cup {"none"}
                 PROVE  KeepsText(t)
        OBVIOUS
    <2>1. CASE Touches(t) /\ RowStep(t)
        BY <2>1 DEF RowStep, Submits, Amends, Staffs, HandsOver, Approves, Pays, Ages, Closes, Moves
    <2>2. CASE tasks'[t] = tasks[t]
        BY <2>2 DEF KeepsText
    <2> QED
        BY <2>1, <2>2, ChangesOneRow, OthersKeep DEF OrderInv
<1> QED
    BY <1>1, OrderAlways, PTL DEF Spec, FrozenInReview, KeepsText

\* The sweep closes what it listed, and what it listed is still past its grace
\* period when the UPDATE runs: paid_at is set once.
THEOREM ClosedOnlyAfterGrace == Spec => ClosedAfterGrace
<1> DEFINE Step ==
        \A t \in Tasks :
            tasks'[t].status = "closed" /\ tasks[t].status # "closed" => tasks[t].paid = "stale"
<1>1. OrderInv /\ OrderInv' /\ [Next]_vars => [Step]_vars
    <2> SUFFICES ASSUME OrderInv, OrderInv', [Next]_vars, NEW t \in Tasks,
                        tasks'[t].status = "closed", tasks[t].status # "closed"
                 PROVE  tasks[t].paid = "stale"
        OBVIOUS
    <2>1. Touches(t) /\ RowStep(t)
        BY ChangesOneRow, OthersKeep DEF OrderInv
    <2>2. Closes(t)
        BY <2>1 DEF RowStep, Submits, Amends, Staffs, HandsOver, Approves, Pays, Ages, Moves
    <2> QED
        BY <2>2 DEF Closes, OrderInv, ListedIsStale
<1> QED
    BY <1>1, OrderAlways, PTL DEF Spec, ClosedAfterGrace

-----------------------------------------------------------------------------
(* Refinement: the rows, seen as the three maps of TaskLifecycle.               *)

\* No order in the table is no order submitted.
LEMMA MapsInit == Init => Lifecycle!Init
BY DEF Init, NoRow, Lifecycle!Init

\* A step of one row along an edge is that edge's atomic step.
LEMMA MapsMove ==
    ASSUME TypeInv, TypeInv', NEW t \in Tasks, Touches(t), NEW from, NEW to,
           tasks[t].status = from, tasks'[t].status = to
    PROVE  /\ [u \in Tasks |-> tasks[u].status][t] = from
           /\ [u \in Tasks |-> tasks'[u].status] =
                [[u \in Tasks |-> tasks[u].status] EXCEPT ![t] = to]
           /\ [u \in Tasks |-> tasks'[u].assignee] =
                [[u \in Tasks |-> tasks[u].assignee] EXCEPT ![t] = tasks'[t].assignee]
           /\ [u \in Tasks |-> tasks'[u].owner] =
                [[u \in Tasks |-> tasks[u].owner] EXCEPT ![t] = tasks'[t].owner]
BY DEF Touches, TypeInv, TypeOK

\* A step of the service is one atomic step of the order, or none.
LEMMA MapsStep ==
    ASSUME OrderInv, OrderInv', [Next]_vars
    PROVE  [Lifecycle!Next]_(Lifecycle!vars)
<1> USE DEF OrderInv
<1>1. CASE UNCHANGED tasks
    BY <1>1 DEF Lifecycle!vars
<1>2. ASSUME NEW t \in Tasks, Touches(t), RowStep(t)
      PROVE  [Lifecycle!Next]_(Lifecycle!vars)
    <2>1. CASE Submits(t)
        <3>1. Lifecycle!Submit(t)
            BY <1>2, <2>1, MapsMove DEF Submits, Lifecycle!Submit, Lifecycle!Move
        <3> QED
            BY <3>1 DEF Lifecycle!Next
    <2>2. CASE Staffs(t)
        <3>1. Lifecycle!Staff(t)
            BY <1>2, <2>2, MapsMove DEF Staffs, Moves, Receives, Lifecycle!Staff, Lifecycle!Move
        <3> QED
            BY <3>1 DEF Lifecycle!Next
    <2>3. CASE HandsOver(t)
        <3>0. PICK h \in Users : Receives(t, h)
            BY <2>3 DEF HandsOver
        <3>1. CASE Moves(t, "analyst", "reviewer")
            <4>1. Lifecycle!SendToReview(t)
                BY <1>2, <3>0, <3>1, MapsMove DEF Moves, Receives, Lifecycle!SendToReview, Lifecycle!Move
            <4> QED
                BY <4>1 DEF Lifecycle!Next
        <3>2. CASE Moves(t, "reviewer", "reviewer")
            <4>1. Lifecycle!HandOver(t)
                BY ZenonT(60), <1>2, <3>0, <3>2, MapsMove DEF Moves, Receives, Lifecycle!HandOver, Lifecycle!Move
            <4> QED
                BY <4>1 DEF Lifecycle!Next
        <3>3. CASE Moves(t, "reviewer", "analyst")
            <4>1. Lifecycle!Reject(t)
                BY <1>2, <3>0, <3>3, MapsMove DEF Moves, Receives, Lifecycle!Reject, Lifecycle!Move
            <4> QED
                BY <4>1 DEF Lifecycle!Next
        <3> QED
            BY <2>3, <3>1, <3>2, <3>3 DEF HandsOver
    <2>4. CASE Approves(t)
        <3>1. Lifecycle!Approve(t)
            BY ZenonT(60), <1>2, <2>4, MapsMove DEF Approves, Moves, Lifecycle!Approve, Lifecycle!Move
        <3> QED
            BY <3>1 DEF Lifecycle!Next
    <2>5. CASE Pays(t) \/ Closes(t)
        <3>1. tasks'[t].assignee = Null /\ tasks'[t].owner = tasks[t].owner
            BY <2>5 DEF Pays, Closes, Moves, KeepsHolder, RowCoherent
        <3>2. Lifecycle!Pay(t) \/ Lifecycle!Close(t)
            BY ZenonT(60), <1>2, <2>5, <3>1, MapsMove DEF Pays, Closes, Moves, Lifecycle!Pay, Lifecycle!Close, Lifecycle!Move
        <3> QED
            BY <3>2 DEF Lifecycle!Next
    <2>6. CASE Amends(t) \/ Ages(t)
        <3>1. \A u \in Tasks : /\ tasks'[u].status = tasks[u].status
                               /\ tasks'[u].assignee = tasks[u].assignee
                               /\ tasks'[u].owner = tasks[u].owner
            BY <1>2, <2>6, OthersKeep DEF Amends, Ages, KeepsHolder
        <3> QED
            BY <3>1 DEF Lifecycle!vars
    <2> QED
        BY <1>2, <2>1, <2>2, <2>3, <2>4, <2>5, <2>6 DEF RowStep
<1> QED
    BY <1>1, <1>2, ChangesOneRow

\* Handlers that read, check and write in separate steps, the consumer and the
\* sweep implement the atomic order.
THEOREM RefinesLifecycle == Spec => ImplementsLifecycle
BY OrderAlways, MapsInit, MapsStep, PTL DEF Spec, ImplementsLifecycle, Lifecycle!Spec
-----------------------------------------------------------------------------
(* Milestones: an order goes through each once, because the UPDATE that brings *)
(* it there asks for a status it never has again.                              *)

\* The order of an event has reached the milestone the event tells of.
Reached(e, rows) ==
    LET status == rows[e.task].status IN
    /\ Once(e.name) = "task.created" => status # "none"
    /\ Once(e.name) = "task.assigned" => status \notin {"none", "unassigned"}
    /\ Once(e.name) = "task.approved" => status \in {"done", "paid", "closed"}
    /\ Once(e.name) = "task.paid" => status \in {"paid", "closed"}
    /\ Once(e.name) = "task.closed" => status = "closed"

NotYet(e, rows) == Once(e.name) \in OnceOnly => ~Reached(e, rows)

\* What is on its way to the topic, and who alone may send it.
HandlersHold ==
    \A r \in Requests :
        /\ req[r].at # "publish" => req[r].event = NoEvent
        /\ req[r].at = "publish" =>
            /\ req[r].event.name \notin {"task.paid", "task.closed"}
            /\ Reached(req[r].event, tasks)

OthersHold ==
    /\ billing # NoEvent => billing.name = "task.paid" /\ Reached(billing, tasks)
    /\ sweep.event # NoEvent => sweep.event.name = "task.closed" /\ Reached(sweep.event, tasks)

TopicReached == \A i \in DOMAIN topic : Reached(topic[i], tasks)

MilestoneInv == TypeInv /\ HandlersHold /\ OthersHold /\ TopicReached /\ AnnouncedOnce

LEMMA MilestoneInit == Init => MilestoneInv
<1> SUFFICES ASSUME Init PROVE MilestoneInv
    OBVIOUS
<1>1. DOMAIN topic = {}
    BY DEF Init
<1>2. HandlersHold /\ OthersHold /\ TopicReached
    BY <1>1 DEF Init, HandlersHold, OthersHold, TopicReached, Idle, NoSweep
<1>3. AnnouncedOnce
    BY <1>1 DEF Init, AnnouncedOnce, Idle, SameMilestone, Once, OnceOnly, NoEvent
<1> QED
    BY <1>2, <1>3, TypeInit DEF MilestoneInv

\* No event is no milestone, and a milestone is reached for all events of it.
LEMMA Milestones ==
    /\ \A e : ~SameMilestone(NoEvent, e) /\ ~SameMilestone(e, NoEvent)
    /\ \A e, f : SameMilestone(e, f) => SameMilestone(f, e)
    /\ \A e, f, rows : SameMilestone(e, f) /\ Reached(e, rows) => ~NotYet(f, rows)
BY DEF SameMilestone, Once, OnceOnly, NoEvent, Reached, NotYet

\* No step takes a milestone back.
LEMMA ReachedStays ==
    ASSUME TypeInv, TypeInv', [Next]_vars, NEW e, e.task \in Tasks, Reached(e, tasks)
    PROVE  Reached(e, tasks')
<1>1. PICK t \in Tasks : t = e.task
    OBVIOUS
<1>2. CASE Touches(t) /\ RowStep(t)
    BY <1>1, <1>2 DEF RowStep, Submits, Amends, Staffs, HandsOver, Approves, Pays, Ages, Closes,
                      Moves, Reached
<1>3. CASE tasks'[t] = tasks[t]
    BY <1>1, <1>3 DEF Reached
<1> QED
    BY <1>2, <1>3, ChangesOneRow, OthersKeep

\* What is published or on its way stays reached, whatever the step.
LEMMA AllReachedStay ==
    ASSUME MilestoneInv, TypeInv', [Next]_vars
    PROVE  /\ \A i \in DOMAIN topic : Reached(topic[i], tasks')
           /\ \A r \in Requests : req[r].at = "publish" => Reached(req[r].event, tasks')
           /\ billing # NoEvent => Reached(billing, tasks')
           /\ sweep.event # NoEvent => Reached(sweep.event, tasks')
<1> USE DEF MilestoneInv
<1>1. \A e \in Event : e.task \in Tasks
    BY DEF Event
<1>2. /\ \A i \in DOMAIN topic : topic[i] \in Event
      /\ \A r \in Requests : req[r].at = "publish" => req[r].event \in Event
      /\ billing # NoEvent => billing \in Event
      /\ sweep.event # NoEvent => sweep.event \in Event
    <2>1. topic \in Seq(Event)
        BY DEF TypeInv, TypeOK
    <2>2. \A i \in DOMAIN topic : topic[i] \in Event
        BY <2>1
    <2> QED
        BY <2>2 DEF TypeInv, TypeOK, HandlersKnow, Sweep
<1> QED
    BY <1>1, <1>2, ReachedStays DEF HandlersHold, OthersHold, TopicReached

\* A step that sends nothing and has nothing new to send.
LEMMA QuietStep ==
    ASSUME MilestoneInv, TypeInv', [Next]_vars, topic' = topic,
           \A r \in Requests : \/ req'[r] = req[r]
                               \/ req'[r].at # "publish" /\ req'[r].event = NoEvent,
           billing' \in {billing, NoEvent}, sweep'.event \in {sweep.event, NoEvent}
    PROVE  MilestoneInv'
<1> USE DEF MilestoneInv
<1>1. HandlersHold'
    BY AllReachedStay DEF HandlersHold
<1>2. OthersHold'
    BY AllReachedStay DEF OthersHold
<1>3. TopicReached'
    BY AllReachedStay DEF TopicReached
<1>4. AnnouncedOnce'
    BY Milestones DEF AnnouncedOnce, InFlight
<1> QED
    BY <1>1, <1>2, <1>3, <1>4
\* A step that brings an order to a milestone, and has that to send.
LEMMA ReturnedStep ==
    ASSUME MilestoneInv, TypeInv', [Next]_vars, topic' = topic,
           NEW e, NotYet(e, tasks), Reached(e, tasks'),
           \/ /\ \E r \in Requests :
                    /\ req'[r].at = "publish" /\ req'[r].event = e
                    /\ \A s \in Requests : s # r => req'[s] = req[s]
              /\ e.name \notin {"task.paid", "task.closed"}
              /\ UNCHANGED <<billing, sweep>>
           \/ billing' = e /\ e.name = "task.paid" /\ UNCHANGED <<req, sweep>>
           \/ sweep'.event = e /\ e.name = "task.closed" /\ UNCHANGED <<req, billing>>
    PROVE  MilestoneInv'
<1> USE DEF MilestoneInv
<1>1. HandlersHold' /\ OthersHold'
    BY AllReachedStay DEF HandlersHold, OthersHold
<1>2. TopicReached'
    BY AllReachedStay DEF TopicReached
<1>3. /\ \A i \in DOMAIN topic : ~SameMilestone(topic[i], e)
      /\ \A r \in Requests : ~SameMilestone(req[r].event, e) /\ ~SameMilestone(e, req[r].event)
    BY Milestones DEF TopicReached, HandlersHold
<1>4. AnnouncedOnce'
    <2>1. \A x \in InFlight' : x = e \/ x \in InFlight
        BY DEF InFlight
    <2>2. \A i \in DOMAIN topic : \A x \in InFlight' : ~SameMilestone(topic[i], x)
        BY <1>3, <2>1 DEF AnnouncedOnce
    <2>3. \A r, s \in Requests : SameMilestone(req'[r].event, req'[s].event) => r = s
        BY <1>3 DEF AnnouncedOnce
    <2> QED
        BY <2>2, <2>3 DEF AnnouncedOnce
<1> QED
    BY <1>1, <1>2, <1>4

\* A step that publishes what it held.
LEMMA PublishedStep ==
    ASSUME MilestoneInv, TypeInv', [Next]_vars, NEW e \in InFlight, e \in Event,
           topic' = Append(topic, e), UNCHANGED tasks, Reached(e, tasks),
           InFlight' \subseteq InFlight \cup {NoEvent},
           \A x \in InFlight' : ~SameMilestone(e, x),
           \A r \in Requests : \/ req'[r] = req[r]
                               \/ req'[r].at # "publish" /\ req'[r].event = NoEvent,
           billing' \in {billing, NoEvent}, sweep'.event \in {sweep.event, NoEvent}
    PROVE  MilestoneInv'
<1> USE DEF MilestoneInv
<1>1. HandlersHold' /\ OthersHold'
    BY DEF HandlersHold, OthersHold
<1>2. /\ \A i \in DOMAIN topic' : (i \in DOMAIN topic /\ topic'[i] = topic[i]) \/ (topic'[i] = e /\ i = Len(topic) + 1)
      /\ topic \in Seq(Event)
    <2>1. topic \in Seq(Event)
        BY DEF TypeInv, TypeOK
    <2> QED
        BY <2>1
<1>3. TopicReached'
    BY <1>2 DEF TopicReached
<1>4. \A i \in DOMAIN topic : ~SameMilestone(topic[i], e) /\ ~SameMilestone(e, topic[i])
    BY Milestones DEF AnnouncedOnce
<1>5. AnnouncedOnce'
    <2>1. \A i, j \in DOMAIN topic' : SameMilestone(topic'[i], topic'[j]) => i = j
        BY <1>2, <1>4 DEF AnnouncedOnce
    <2>2. \A i \in DOMAIN topic' : \A x \in InFlight' : ~SameMilestone(topic'[i], x)
        BY <1>2, Milestones DEF AnnouncedOnce
    <2>3. \A r, s \in Requests : SameMilestone(req'[r].event, req'[s].event) => r = s
        BY Milestones DEF AnnouncedOnce
    <2> QED
        BY <2>1, <2>2, <2>3 DEF AnnouncedOnce
<1> QED
    BY <1>1, <1>3, <1>5

\* A handler's conditional UPDATE: a row is returned for an order that was not there yet.
LEMMA UpdateSends ==
    ASSUME MilestoneInv, TypeInv', [Next]_vars, NEW r \in Requests, NEW name, NEW row,
           req[r].at = "write", UNCHANGED <<users, managers, billing, sweep, topic>>,
           name \notin {"task.paid", "task.closed"},
           \/ NoRowReturned(r)
           \/ /\ RowReturned(r, name, row)
              /\ Once(name) \in OnceOnly =>
                    ~Reached([name |-> name, task |-> req[r].task, row |-> row], tasks)
              /\ Once(name) = "task.created" => row.status # "none"
              /\ Once(name) = "task.assigned" => row.status \notin {"none", "unassigned"}
              /\ Once(name) = "task.approved" => row.status = "done"
    PROVE  MilestoneInv'
<1>1. req[r].at = "write" /\ UNCHANGED <<users, managers, billing, sweep, topic>>
    OBVIOUS
<1>2. CASE NoRowReturned(r)
    <2>1. \A s \in Requests : req'[s] = IF s = r THEN Idle ELSE req[s]
        BY <1>2 DEF NoRowReturned, MilestoneInv, TypeInv, TypeOK
    <2>2. Idle.at # "publish" /\ Idle.event = NoEvent
        BY DEF Idle
    <2>3. \A s \in Requests : \/ req'[s] = req[s]
                              \/ req'[s].at # "publish" /\ req'[s].event = NoEvent
        BY <2>1, <2>2
    <2>4. topic' = topic /\ billing' = billing /\ sweep' = sweep
        BY <1>1
    <2>5. billing' \in {billing, NoEvent} /\ sweep'.event \in {sweep.event, NoEvent}
        BY <2>4
    <2> QED
        BY <2>3, <2>4, <2>5, QuietStep
<1>3. CASE RowReturned(r, name, row) /\ ~NoRowReturned(r)
    <2> DEFINE e == [name |-> name, task |-> req[r].task, row |-> row]
    <2>0. req' = [req EXCEPT ![r] = [req[r] EXCEPT !.at = "publish", !.event = e]]
        BY <1>3 DEF RowReturned
    <2>A. tasks'[req[r].task] = row
        BY <1>1, <1>3, RowReturnedTouches DEF MilestoneInv
    <2>1. /\ req' = [req EXCEPT ![r] = [req[r] EXCEPT !.at = "publish", !.event = e]]
          /\ tasks'[req[r].task] = row
        BY <2>0, <2>A
    <2>2. req'[r].at = "publish" /\ req'[r].event = e
        BY <2>1 DEF MilestoneInv, TypeInv, TypeOK, Handler
    <2>3. \A s \in Requests : s # r => req'[s] = req[s]
        BY <2>1 DEF MilestoneInv, TypeInv, TypeOK
    <2>4. Once(name) \notin {"task.paid", "task.closed"}
        BY DEF Once
    <2>5. e.name = name /\ e.task = req[r].task
        OBVIOUS
    <2> HIDE DEF e
    <2>6. Reached(e, tasks')
        BY <1>3, <2>1, <2>4, <2>5 DEF Reached
    <2>7. NotYet(e, tasks)
        BY <1>3 DEF e, NotYet
    <2> QED
        BY <1>1, <2>2, <2>3, <2>5, <2>6, <2>7, ReturnedStep
<1> QED
    BY <1>2, <1>3

\* What each UPDATE of the workflow asks for is what its milestone has not reached.
LEMMA UpdatesSend ==
    ASSUME MilestoneInv, TypeInv', [Next]_vars, NEW r \in Requests,
           \/ Create(r) \/ SetNoIndex(r) \/ AssignAnalyst(r) \/ ClaimTask(r) \/ MoveToReview(r)
           \/ ReassignReviewer(r) \/ ApproveTask(r) \/ RejectTask(r)
    PROVE  MilestoneInv'
<1>0. req[r].task \in Tasks /\ tasks[req[r].task] \in Row
    BY WriterKnows DEF MilestoneInv, Create, SetNoIndex, AssignAnalyst, ClaimTask, MoveToReview,
                       ReassignReviewer, ApproveTask, RejectTask, Update
<1>1. CASE Create(r)
    <2>1. PICK s \in Services, c \in Contents, n \in BOOLEAN :
              Update(r, "create", tasks[req[r].task].status = "none", "task.created",
                     [NoRow EXCEPT !.status = "unassigned", !.customer = req[r].caller,
                                   !.service = s, !.owner = req[r].caller, !.content = c,
                                   !.noIndex = n])
        BY <1>1 DEF Create
    <2>2. PICK row : row = [NoRow EXCEPT !.status = "unassigned", !.customer = req[r].caller,
                                         !.service = s, !.owner = req[r].caller, !.content = c,
                                         !.noIndex = n]
        OBVIOUS
    <2>3. row.status = "unassigned"
        BY <2>2 DEF NoRow
    <2>4. /\ req[r].at = "write" /\ UNCHANGED <<users, managers, billing, sweep, topic>>
          /\ \/ NoRowReturned(r)
             \/ tasks[req[r].task].status = "none" /\ RowReturned(r, "task.created", row)
        BY <2>1, <2>2 DEF Update
    <2> QED
        BY SMTT(60), <2>3, <2>4, UpdateSends DEF Reached, Once
<1>2. CASE SetNoIndex(r)
    <2>1. PICK n \in BOOLEAN :
              Update(r, "noIndex", TRUE, "task.no-index-changed",
                     [tasks[req[r].task] EXCEPT !.noIndex = n])
        BY <1>2 DEF SetNoIndex
    <2>2. PICK row : row = [tasks[req[r].task] EXCEPT !.noIndex = n]
        OBVIOUS
    <2>3. /\ req[r].at = "write" /\ UNCHANGED <<users, managers, billing, sweep, topic>>
          /\ RowReturned(r, "task.no-index-changed", row)
        BY <2>1, <2>2 DEF Update
    <2>4. \A name : name = "task.no-index-changed" =>
              /\ name \notin {"task.paid", "task.closed"}
              /\ Once(name) \notin OnceOnly
              /\ Once(name) \notin {"task.created", "task.assigned", "task.approved"}
        BY DEF Once, OnceOnly
    <2> QED
        BY <2>3, <2>4, UpdateSends
<1>3. CASE MoveToReview(r) \/ ReassignReviewer(r) \/ RejectTask(r)
    <2>1. ASSUME NEW name, NEW status,
                 name \in {"task.moved-to-review", "task.reviewer-reassigned", "task.rejected"},
                 req[r].at = "write", UNCHANGED <<users, managers, billing, sweep, topic>>,
                 \/ NoRowReturned(r)
                 \/ RowReturned(r, name, HeldBy(tasks[req[r].task], status, req[r].who))
          PROVE  MilestoneInv'
        <3>1. PICK row : row = HeldBy(tasks[req[r].task], status, req[r].who)
            OBVIOUS
        <3> QED
            BY <2>1, <3>1, UpdateSends DEF Once, OnceOnly
    <2>2. CASE MoveToReview(r)
        BY <2>1, <2>2 DEF MoveToReview, Update
    <2>3. CASE ReassignReviewer(r)
        BY <2>1, <2>3 DEF ReassignReviewer, Update
    <2>4. CASE RejectTask(r)
        BY <2>1, <2>4 DEF RejectTask, Update
    <2> QED
        BY <1>3, <2>2, <2>3, <2>4
<1>4. CASE AssignAnalyst(r) \/ ClaimTask(r)
    <2>1. PICK name, who :
            /\ name \in {"task.assigned", "task.claimed"}
            /\ req[r].at = "write" /\ UNCHANGED <<users, managers, billing, sweep, topic>>
            /\ \/ NoRowReturned(r)
               \/ /\ tasks[req[r].task].status = "unassigned"
                  /\ RowReturned(r, name, HeldBy(tasks[req[r].task], "analyst", who))
        BY <1>4 DEF AssignAnalyst, ClaimTask, Update
    <2>2. PICK row : row = HeldBy(tasks[req[r].task], "analyst", who)
        OBVIOUS
    <2>3. row.status = "analyst"
        BY <1>0, <2>2 DEF HeldBy, Row
    <2> QED
        BY <2>1, <2>2, <2>3, UpdateSends DEF Reached, Once
<1>5. CASE ApproveTask(r)
    <2>1. PICK row : row = [tasks[req[r].task] EXCEPT !.status = "done", !.assignee = Null,
                                                      !.owner = req[r].who]
        OBVIOUS
    <2>2. row.status = "done"
        BY <1>0, <2>1 DEF Row
    <2>3. /\ req[r].at = "write" /\ UNCHANGED <<users, managers, billing, sweep, topic>>
          /\ \/ NoRowReturned(r)
             \/ tasks[req[r].task].status = "reviewer" /\ RowReturned(r, "task.approved", row)
        BY <1>5, <2>1 DEF ApproveTask, Update
    <2> QED
        BY <2>2, <2>3, UpdateSends DEF Reached, Once
<1> QED
    BY SMTT(60), <1>1, <1>2, <1>3, <1>4, <1>5

\* The events in flight after one holder has let go of its own.
LEMMA InFlightShrinks ==
    ASSUME \A r \in Requests : req'[r] = req[r] \/ req'[r].event = NoEvent,
           billing' \in {billing, NoEvent}, sweep'.event \in {sweep.event, NoEvent}
    PROVE  InFlight' \subseteq InFlight \cup {NoEvent}
BY DEF InFlight

\* A handler publishes its event and is done.
LEMMA HandlerPublishes ==
    ASSUME MilestoneInv, TypeInv', [Next]_vars, NEW r \in Requests, PublishTaskEvent(r)
    PROVE  MilestoneInv'
<1> USE DEF MilestoneInv
<1>1. PICK e : e = req[r].event
    OBVIOUS
<1>2. req[r].at = "publish" /\ topic' = Append(topic, e)
    BY <1>1 DEF PublishTaskEvent
<1>3. \A s \in Requests : req'[s] = IF s = r THEN Idle ELSE req[s]
    BY DEF PublishTaskEvent, TypeInv, TypeOK
<1>4. Idle.at # "publish" /\ Idle.event = NoEvent
    BY DEF Idle
<1>5. tasks' = tasks /\ billing' = billing /\ sweep' = sweep
    BY DEF PublishTaskEvent
<1>6. e \in Event /\ e \in InFlight
    BY <1>1, <1>2 DEF TypeInv, HandlersKnow, InFlight
<1>7. Reached(e, tasks)
    BY <1>1, <1>2 DEF HandlersHold
<1>8. \A s \in Requests : s # r => ~SameMilestone(e, req[s].event)
    BY <1>1 DEF AnnouncedOnce
<1>9. e.name \notin {"task.paid", "task.closed"}
    BY <1>1, <1>2 DEF HandlersHold
<1>10. ~SameMilestone(e, billing) /\ ~SameMilestone(e, sweep.event)
    <2>1. Once(e.name) \notin {"task.paid", "task.closed"}
        BY <1>9 DEF Once
    <2>2. /\ billing # NoEvent => Once(billing.name) = "task.paid"
          /\ sweep.event # NoEvent => Once(sweep.event.name) = "task.closed"
        BY DEF OthersHold, Once
    <2>3. /\ billing # NoEvent => ~SameMilestone(e, billing)
          /\ sweep.event # NoEvent => ~SameMilestone(e, sweep.event)
        BY <2>1, <2>2 DEF SameMilestone
    <2> QED
        BY <2>3, Milestones
<1>11. \A x \in InFlight' : ~SameMilestone(e, x)
    BY <1>3, <1>4, <1>5, <1>8, <1>10, Milestones DEF InFlight
<1>12. \A s \in Requests : \/ req'[s] = req[s]
                           \/ req'[s].at # "publish" /\ req'[s].event = NoEvent
    BY <1>3, <1>4
<1>13. billing' \in {billing, NoEvent} /\ sweep'.event \in {sweep.event, NoEvent}
    BY <1>5
<1>14. InFlight' \subseteq InFlight \cup {NoEvent}
    BY <1>12, <1>13, InFlightShrinks
<1> QED
    BY <1>2, <1>5, <1>6, <1>7, <1>11, <1>12, <1>13, <1>14, PublishedStep

\* So do the consumer and the sweep: no other is about to send the same milestone.
LEMMA OthersPublish ==
    ASSUME MilestoneInv, TypeInv', [Next]_vars, PublishPaid \/ PublishClosed
    PROVE  MilestoneInv'
<1> USE DEF MilestoneInv
<1>1. PICK e : e = IF PublishPaid THEN billing ELSE sweep.event
    OBVIOUS
<1>2. /\ topic' = Append(topic, e) /\ tasks' = tasks /\ req' = req /\ e # NoEvent
      /\ billing' \in {billing, NoEvent} /\ sweep'.event \in {sweep.event, NoEvent}
    BY <1>1 DEF PublishPaid, PublishClosed, TypeInv, TypeOK, Sweep
<1>3. \/ e = billing /\ e.name = "task.paid" /\ billing' = NoEvent /\ sweep' = sweep
      \/ e = sweep.event /\ e.name = "task.closed" /\ sweep'.event = NoEvent /\ billing' = billing
    BY <1>1 DEF PublishPaid, PublishClosed, TypeInv, TypeOK, Sweep, OthersHold
<1>4. e \in Event /\ e \in InFlight
    BY <1>2, <1>3 DEF TypeInv, TypeOK, Sweep, InFlight
<1>5. Reached(e, tasks)
    BY <1>2, <1>3 DEF OthersHold
<1>6. \A s \in Requests : ~SameMilestone(e, req[s].event)
    <2>1. Once(e.name) \in {"task.paid", "task.closed"}
        BY <1>3 DEF Once
    <2>2. \A s \in Requests : req[s].at = "publish" =>
              Once(req[s].event.name) \notin {"task.paid", "task.closed"}
        BY DEF HandlersHold, Once
    <2>3. \A s \in Requests : req[s].at = "publish" => ~SameMilestone(e, req[s].event)
        BY <2>1, <2>2 DEF SameMilestone
    <2> QED
        BY <2>3, Milestones DEF HandlersHold
<1>7. /\ billing' # NoEvent => Once(e.name) = "task.closed" /\ Once(billing'.name) = "task.paid"
      /\ sweep'.event # NoEvent =>
            Once(e.name) = "task.paid" /\ Once(sweep'.event.name) = "task.closed"
    BY <1>2, <1>3 DEF OthersHold, Once
<1>8. ~SameMilestone(e, billing') /\ ~SameMilestone(e, sweep'.event)
    <2>1. /\ billing' # NoEvent => ~SameMilestone(e, billing')
          /\ sweep'.event # NoEvent => ~SameMilestone(e, sweep'.event)
        BY <1>7 DEF SameMilestone
    <2> QED
        BY <2>1, Milestones
<1>9. \A x \in InFlight' : ~SameMilestone(e, x)
    BY <1>2, <1>6, <1>8 DEF InFlight
<1>10. InFlight' \subseteq InFlight \cup {NoEvent}
    BY <1>2, InFlightShrinks
<1> QED
    BY <1>2, <1>4, <1>5, <1>9, <1>10, PublishedStep

\* A payment is recorded for a done order alone, a closing for a paid one.
LEMMA PaymentSends ==
    ASSUME MilestoneInv, TypeInv', [Next]_vars, NEW t \in Tasks, MarkPaid(t) \/ CloseTask(t)
    PROVE  MilestoneInv'
<1> USE DEF MilestoneInv
<1>1. CASE MarkPaid(t)
    <2>1. PICK row : row = PaidRow(tasks[t])
        OBVIOUS
    <2>2. PICK e : e = [name |-> "task.paid", task |-> t, row |-> row]
        OBVIOUS
    <2>3. row.status = "paid" /\ tasks[t].status = "done"
        BY <1>1, <2>1 DEF MarkPaid, PaidRow, TypeInv, TypeOK, Row
    <2>4. billing' = e /\ UNCHANGED <<req, sweep>> /\ topic' = topic
        BY <1>1, <2>1, <2>2 DEF MarkPaid
    <2>5. tasks'[t] = row
        BY <1>1, <2>1 DEF MarkPaid, TypeInv, TypeOK
    <2>6. e.name = "task.paid" /\ e.task = t
        BY <2>2
    <2>7. NotYet(e, tasks) /\ Reached(e, tasks')
        BY <2>3, <2>5, <2>6 DEF NotYet, Reached, Once
    <2> QED
        BY <2>4, <2>6, <2>7, ReturnedStep
<1>2. CASE CloseTask(t)
    <2>1. PICK row : row = [tasks[t] EXCEPT !.status = "closed"]
        OBVIOUS
    <2>2. PICK e : e = [name |-> "task.closed", task |-> t, row |-> row]
        OBVIOUS
    <2>3. row.status = "closed" /\ tasks[t].status = "paid"
        BY <1>2, <2>1 DEF CloseTask, TypeInv, TypeOK, Row
    <2>4. sweep'.event = e /\ UNCHANGED <<req, billing>> /\ topic' = topic
        BY <1>2, <2>1, <2>2 DEF CloseTask
    <2>5. tasks'[t] = row
        BY <1>2, <2>1 DEF CloseTask, TypeInv, TypeOK
    <2>6. e.name = "task.closed" /\ e.task = t
        BY <2>2
    <2>7. NotYet(e, tasks) /\ Reached(e, tasks')
        BY <2>3, <2>5, <2>6 DEF NotYet, Reached, Once
    <2> QED
        BY <2>4, <2>6, <2>7, ReturnedStep
<1> QED
    BY <1>1, <1>2

\* Every other step sends nothing, and takes nothing up to send.
LEMMA OthersAreQuiet ==
    ASSUME MilestoneInv, TypeInv', [Next]_vars,
           \/ \E u \in Users : \E claims \in TokenRoles[u] : SyncUser(u, claims)
           \/ \E u \in Users, active \in BOOLEAN : SetActive(u, active)
           \/ \E r \in Requests, op \in Ops, u \in Users, t \in Tasks :
                \E claims \in TokenRoles[u] : Arrive(r, op, u, claims, t)
           \/ \E r \in Requests :
                \/ ReadTask(r) \/ Resolve(r) \/ UpdateOrderDetails(r) \/ LinkPmToAccount(r)
                \/ FailRequest(r)
           \/ \E t \in Tasks : GracePeriodElapses(t) \/ SkipTask(t)
           \/ FailBilling \/ ListStalePaid \/ FailSweep
           \/ UNCHANGED vars
    PROVE  MilestoneInv'
<1> USE DEF MilestoneInv
<1>1. topic' = topic
    BY ZenonT(60) DEF SyncUser, SetActive, Arrive, ReadTask, Resolve, UpdateOrderDetails, LinkPmToAccount,
           FailRequest, GracePeriodElapses, SkipTask, FailBilling, ListStalePaid, FailSweep, vars
<1>2. billing' \in {billing, NoEvent} /\ sweep'.event \in {sweep.event, NoEvent}
    <2>1. CASE UNCHANGED <<billing, sweep>>
        BY <2>1
    <2>2. CASE (\E t \in Tasks : SkipTask(t)) \/ ListStalePaid \/ FailSweep
        BY <2>2 DEF SkipTask, ListStalePaid, FailSweep, NoSweep, TypeInv, TypeOK, Sweep
    <2>3. CASE FailBilling
        BY <2>3 DEF FailBilling
    <2> QED
        BY <2>1, <2>2, <2>3
           DEF SyncUser, SetActive, Arrive, ReadTask, Resolve, UpdateOrderDetails,
               LinkPmToAccount, FailRequest, GracePeriodElapses, vars
<1>3. Idle.at # "publish" /\ Idle.event = NoEvent
    BY DEF Idle
<1>4. ASSUME NEW r \in Requests, NEW h \in Handler, req' = [req EXCEPT ![r] = h],
             h.at # "publish", h.event = NoEvent
      PROVE  MilestoneInv'
    BY <1>1, <1>2, <1>4, QuietStep DEF TypeInv, TypeOK
<1>5. CASE req' = req
    BY <1>1, <1>2, <1>5, QuietStep
<1>6. ASSUME NEW r \in Requests, NEW op, NEW u \in Users, NEW claims, NEW t \in Tasks,
             Arrive(r, op, u, claims, t)
      PROVE  MilestoneInv'
    <2>1. PICK h : h = [Idle EXCEPT !.at = IF op \in {"create", "linkPm"} THEN "resolve" ELSE "read",
                                    !.op = op, !.caller = u, !.claims = claims, !.task = t]
        OBVIOUS
    <2>2. req' = [req EXCEPT ![r] = h]
        BY <1>6, <2>1 DEF Arrive
    <2>3. h \in Handler
        BY <2>2 DEF TypeInv, TypeOK
    <2>4. h.at # "publish" /\ h.event = NoEvent
        BY <2>1 DEF Idle
    <2> QED
        BY <1>4, <2>2, <2>3, <2>4
<1>7. ASSUME NEW r \in Requests,
             ReadTask(r) \/ Resolve(r) \/ UpdateOrderDetails(r) \/ LinkPmToAccount(r) \/ FailRequest(r)
      PROVE  MilestoneInv'
    <2>1. req[r] \in Handler /\ (req[r].at # "publish" => req[r].event = NoEvent)
        BY DEF TypeInv, TypeOK, HandlersHold
    <2>2. CASE req' = [req EXCEPT ![r] = Idle]
        <3>1. Idle \in Handler
            BY <2>2 DEF TypeInv, TypeOK
        <3> QED
            BY <1>3, <1>4, <2>2, <3>1
    <2>3. ASSUME NEW h, req' = [req EXCEPT ![r] = h], h.at # "publish", h.event = NoEvent
          PROVE  MilestoneInv'
        <3>1. h \in Handler
            BY <2>3 DEF TypeInv, TypeOK
        <3> QED
            BY <1>4, <2>3, <3>1
    <2>4. CASE ReadTask(r)
        <3>1. PICK at \in {"write", "resolve"} :
                  \/ req' = [req EXCEPT ![r] = Idle]
                  \/ req' = [req EXCEPT ![r] = [req[r] EXCEPT !.at = at]]
            BY <2>4 DEF ReadTask
        <3>2. PICK h : h = [req[r] EXCEPT !.at = at]
            OBVIOUS
        <3>3. h.at # "publish" /\ h.event = NoEvent
            BY <2>1, <2>4, <3>2 DEF Handler, ReadTask
        <3>4. req' = [req EXCEPT ![r] = Idle] \/ req' = [req EXCEPT ![r] = h]
            BY <3>1, <3>2
        <3> QED
            BY <2>2, <2>3, <3>3, <3>4
    <2>5. CASE Resolve(r)
        <3>1. PICK w : \/ req' = [req EXCEPT ![r] = Idle]
                       \/ req' = [req EXCEPT ![r] = [req[r] EXCEPT !.at = "write", !.who = w]]
            BY <2>5 DEF Resolve
        <3>2. PICK h : h = [req[r] EXCEPT !.at = "write", !.who = w]
            BY SMTT(60)
        <3>3. h.at # "publish" /\ h.event = NoEvent
            BY <2>1, <2>5, <3>2 DEF Handler, Resolve
        <3>4. req' = [req EXCEPT ![r] = Idle] \/ req' = [req EXCEPT ![r] = h]
            BY <3>1, <3>2
        <3> QED
            BY SMTT(60), <2>2, <2>3, <3>3, <3>4
    <2>6. CASE UpdateOrderDetails(r) \/ LinkPmToAccount(r) \/ FailRequest(r)
        BY <2>2, <2>6 DEF UpdateOrderDetails, LinkPmToAccount, FailRequest
    <2> QED
        BY <1>7, <2>4, <2>5, <2>6
<1> QED
    BY <1>5, <1>6, <1>7 DEF SyncUser, SetActive, GracePeriodElapses, SkipTask, FailBilling,
                            ListStalePaid, FailSweep, vars

\* The invariant of the milestones is inductive.
LEMMA MilestoneStep == MilestoneInv /\ TypeInv' /\ [Next]_vars => MilestoneInv'
BY UpdatesSend, HandlerPublishes, OthersPublish, PaymentSends, OthersAreQuiet DEF Next, Handle

\* ... and so holds in every state.
LEMMA MilestoneAlways == Spec => []MilestoneInv
<1>1. MilestoneInv /\ [Next]_vars => MilestoneInv'
    BY TypeStep, MilestoneStep DEF MilestoneInv
<1> QED
    BY <1>1, MilestoneInit, PTL DEF Spec

\* Of all handlers racing to submit, staff, approve, pay or close an order, one
\* succeeds, and tells so at most once.
THEOREM MilestonesOnce == Spec => []AnnouncedOnce
<1>1. MilestoneInv => AnnouncedOnce
    BY DEF MilestoneInv
<1> QED
    BY <1>1, MilestoneAlways, PTL

-----------------------------------------------------------------------------
(* Who is given an order: between the await that finds the receiver eligible   *)
(* and the UPDATE, a request forgets nobody it has seen eligible, so the row   *)
(* it writes names one of them, whatever became of that person since.          *)

Receiver(h) == IF h.op = "claim" THEN h.caller ELSE h.who

\* A request past its read has an order (if it needs one), and past its resolve a
\* receiver who was eligible (`seen`) if it gives anything away.
Entitled(h, rows, seen) ==
    InProgress(h) =>
        /\ h.claims \cap CallerRoles[h.op] # {}
        /\ h.at # "read" /\ h.op \notin {"create", "linkPm"} => rows[h.task].status # "none"
        /\ h.at = "resolve" => h.op \notin {"edit", "noIndex", "claim"}
        /\ h.at = "write" /\ h.op \in Gives \cup {"linkPm"} => Receiver(h) \in seen

HandlersEntitled == \A r \in Requests : Entitled(req[r], tasks, fitted[r])

EligibleSeen == \A r \in Requests : InProgress(req[r]) => Eligible(req[r]) \subseteq fitted[r]

GrantsInv == TypeInv /\ GrantsTypeOK /\ EligibleSeen /\ HandlersEntitled

LEMMA GrantsStart == GrantsInit => GrantsInv
<1> SUFFICES ASSUME GrantsInit PROVE GrantsInv
    OBVIOUS
<1>1. TypeInv
    BY TypeInit DEF GrantsInit
<1>2. \A r \in Requests : ~InProgress(req[r])
    BY DEF GrantsInit, Init, Idle, InProgress
<1>3. GrantsTypeOK
    BY DEF GrantsInit, GrantsTypeOK
<1> QED
    BY <1>1, <1>2, <1>3 DEF GrantsInv, EligibleSeen, HandlersEntitled, Entitled

\* An order once submitted stays.
LEMMA SubmittedStays ==
    ASSUME TypeInv, TypeInv', [Next]_vars, NEW t \in Tasks, tasks[t].status # "none"
    PROVE  tasks'[t].status # "none"
<1>1. CASE Touches(t) /\ RowStep(t)
    BY <1>1 DEF RowStep, Submits, Amends, Staffs, HandsOver, Approves, Pays, Ages, Closes, Moves
<1>2. CASE tasks'[t] = tasks[t]
    BY <1>2
<1> QED
    BY <1>1, <1>2, ChangesOneRow, OthersKeep

\* What is remembered: users, who stay while the request lasts, and among them
\* everybody eligible now.
LEMMA RemembersStep ==
    ASSUME GrantsInv, TypeInv', Observe
    PROVE  /\ GrantsTypeOK' /\ EligibleSeen'
           /\ \A r \in Requests : InProgress(req'[r]) => fitted[r] \subseteq fitted'[r]
<1>1. \A r \in Requests : Eligible(req[r])' \subseteq Users
    BY DEF Eligible
<1>2. \A r \in Requests :
        fitted'[r] = IF InProgress(req'[r]) THEN fitted[r] \cup Eligible(req[r])' ELSE {}
    BY DEF Observe
<1>3. GrantsTypeOK'
    BY <1>1, <1>2 DEF Observe, GrantsInv, GrantsTypeOK
<1>4. EligibleSeen'
    BY <1>2 DEF EligibleSeen, InProgress
<1> QED
    BY <1>2, <1>3, <1>4

\* Whoever the handler resolves to is eligible as it does.
LEMMA PickedEligible ==
    ASSUME GrantsInv, NEW r \in Requests, req[r].at = "resolve",
           req[r].op \in Gives \cup {"linkPm"},
           NEW w \in Candidates(req[r], tasks[req[r].task])
    PROVE  w \in fitted[r]
<1> DEFINE q == req[r]
           row == tasks[q.task]
<1> SUFFICES w \in Eligible(q)
    BY DEF GrantsInv, EligibleSeen, InProgress
<1>1. /\ q.op \in Ops /\ q.caller \in Users /\ q.op \notin {"edit", "noIndex", "claim"}
      /\ q.op # "linkPm" => row.status # "none"
    BY DEF GrantsInv, TypeInv, HandlersKnow, HandlersEntitled, Entitled, InProgress, Gives
<1> DEFINE linked == w \in managers[AccountOfOrder(row)] /\ row.service \in users[w].roles
           serves(role) == {role, row.service} \subseteq users[w].roles
<1>2. CASE q.op \in {"assign", "reject"}
    <2>1. w \in Users /\ users[w].active /\ serves("analyst")
        BY <1>2 DEF Candidates, ActiveHolders
    <2> QED
        BY <1>2, <2>1 DEF Eligible
<1>3. CASE q.op = "moveToReview"
    <2>1. w \in Users /\ row.status # "none" /\ linked
        BY <1>1, <1>3 DEF Candidates, ProjectManagersFor
    <2> QED
        BY <1>3, <2>1 DEF Eligible
<1>4. CASE q.op = "reviewer"
    <2>1. w \in Users /\ row.status # "none" /\ users[w].active /\ (serves("reviewer") \/ linked)
        BY <1>1, <1>4 DEF Candidates, ProjectManagersFor, ActiveHolders
    <2> QED
        BY <1>4, <2>1 DEF Eligible
<1>5. CASE q.op = "approve"
    <2>1. /\ w \in Users
          /\ \/ "project-manager" \in q.claims /\ w = q.caller
             \/ "project-manager" \notin q.claims /\ row.status # "none" /\ linked
        BY <1>1, <1>5 DEF Candidates, ProjectManagersFor
    <2> QED
        BY <1>5, <2>1 DEF Eligible
<1>6. CASE q.op = "linkPm"
    <2>1. w \in Users /\ users[w].active /\ "project-manager" \in users[w].roles
        BY <1>6 DEF Candidates, ActiveHolders
    <2> QED
        BY <1>6, <2>1 DEF Eligible
<1> QED
    BY <1>1, <1>2, <1>3, <1>4, <1>5, <1>6 DEF Gives

\* So a handler that only waits stays entitled to what it is about to write.
LEMMA WaitingStaysEntitled ==
    ASSUME GrantsInv, TypeInv', [Next]_vars, NEW r \in Requests,
           NEW seen, fitted[r] \subseteq seen
    PROVE  Entitled(req[r], tasks', seen)
<1>1. CASE InProgress(req[r])
    <2>1. req[r].task \in Tasks /\ Entitled(req[r], tasks, fitted[r])
        BY <1>1 DEF GrantsInv, TypeInv, HandlersKnow, HandlersEntitled, InProgress
    <2>2. tasks[req[r].task].status # "none" => tasks'[req[r].task].status # "none"
        BY <2>1, SubmittedStays DEF GrantsInv
    <2> QED
        BY <1>1, <2>1, <2>2 DEF Entitled
<1>2. CASE ~InProgress(req[r])
    BY <1>2 DEF Entitled
<1> QED
    BY <1>1, <1>2

\* The handler that takes the step is entitled to what it will write; the others wait.
LEMMA EntitledStep ==
    ASSUME GrantsInv, TypeInv', [Next]_vars,
           \A r \in Requests : InProgress(req'[r]) => fitted[r] \subseteq fitted'[r]
    PROVE  HandlersEntitled'
<1> USE DEF GrantsInv
<1>1. ASSUME NEW r \in Requests, req'[r] = req[r] \/ Entitled(req'[r], tasks', fitted[r])
      PROVE  Entitled(req'[r], tasks', fitted'[r])
    <2>1. CASE InProgress(req'[r])
        BY <1>1, <2>1, WaitingStaysEntitled DEF Entitled
    <2>2. CASE ~InProgress(req'[r])
        BY <2>2 DEF Entitled
    <2> QED
        BY <2>1, <2>2
<1>2. ASSUME NEW r \in Requests, \A s \in Requests : s # r => req'[s] = req[s],
             Entitled(req'[r], tasks', fitted[r])
      PROVE  HandlersEntitled'
    BY <1>1, <1>2 DEF HandlersEntitled
<1>3. CASE req' = req
    BY <1>1, <1>3 DEF HandlersEntitled
<1>4. ASSUME NEW r \in Requests, \A s \in Requests : s # r => req'[s] = req[s],
             ~InProgress(req'[r])
      PROVE  HandlersEntitled'
    BY <1>2, <1>4 DEF Entitled
<1>5. ASSUME NEW r \in Requests, req' = [req EXCEPT ![r] = Idle]
      PROVE  HandlersEntitled'
    BY <1>4, <1>5 DEF TypeInv, TypeOK, Idle, InProgress
<1>6. ASSUME NEW r \in Requests, NEW op \in Ops, NEW u \in Users, NEW claims \in TokenRoles[u],
             NEW t \in Tasks, Arrive(r, op, u, claims, t)
      PROVE  HandlersEntitled'
    <2>1. PICK h : h = [Idle EXCEPT !.at = IF op \in {"create", "linkPm"} THEN "resolve" ELSE "read",
                                    !.op = op, !.caller = u, !.claims = claims, !.task = t]
        OBVIOUS
    <2>2. req' = [req EXCEPT ![r] = h] /\ claims \cap CallerRoles[op] # {}
        BY <1>6, <2>1 DEF Arrive
    <2>3. req'[r] = h /\ \A s \in Requests : s # r => req'[s] = req[s]
        BY <2>2 DEF TypeInv, TypeOK
    <2>4. /\ h.op = op /\ h.claims = claims
          /\ h.at = IF op \in {"create", "linkPm"} THEN "resolve" ELSE "read"
        BY <2>1 DEF Idle
    <2>5. Entitled(h, tasks', fitted[r])
        BY <2>2, <2>4 DEF Entitled
    <2> QED
        BY <1>2, <2>3, <2>5
<1>7. ASSUME NEW r \in Requests, ReadTask(r)
      PROVE  HandlersEntitled'
    <2>1. req[r] \in Handler /\ req[r].at = "read" /\ tasks' = tasks
        BY <1>7 DEF ReadTask, TypeInv, TypeOK
    <2>2. CASE req' = [req EXCEPT ![r] = Idle]
        BY <1>5, <2>2
    <2>3. CASE ReadPasses(req[r], tasks[req[r].task])
        <3>1. PICK h : h = [req[r] EXCEPT !.at = IF req[r].op \in {"edit", "noIndex", "claim"}
                                                 THEN "write" ELSE "resolve"]
            OBVIOUS
        <3>2. req' = [req EXCEPT ![r] = h]
            BY <1>7, <2>3, <3>1 DEF ReadTask
        <3>3. req'[r] = h /\ \A s \in Requests : s # r => req'[s] = req[s]
            BY <3>2 DEF TypeInv, TypeOK
        <3>4. /\ h.op = req[r].op /\ h.caller = req[r].caller /\ h.claims = req[r].claims
              /\ h.task = req[r].task
              /\ h.at = IF req[r].op \in {"edit", "noIndex", "claim"} THEN "write" ELSE "resolve"
            BY <2>1, <3>1 DEF Handler
        <3>5. Entitled(req[r], tasks, fitted[r]) /\ InProgress(req[r])
            BY <2>1 DEF HandlersEntitled, InProgress
        <3>6. h.op = "claim" => h.caller \in fitted[r]
            <4>1. ASSUME h.op = "claim"
                  PROVE  h.caller \in Eligible(req[r])
                <5>1. {"analyst", tasks[req[r].task].service} \subseteq req[r].claims
                    BY <2>3, <3>4, <3>5, <4>1 DEF ReadPasses, Entitled, CallerRoles
                <5>2. req[r].caller \in Users
                    BY <2>1 DEF TypeInv, HandlersKnow
                <5> QED
                    BY <3>4, <4>1, <5>1, <5>2 DEF Eligible
            <4> QED
                BY <3>5, <4>1 DEF EligibleSeen
        <3>7. tasks[h.task].status # "none"
            BY <2>3, <3>4 DEF ReadPasses
        <3>8. h.at = "write" /\ h.op \in Gives \cup {"linkPm"} => Receiver(h) \in fitted[r]
            BY <3>4, <3>6 DEF Gives, Receiver
        <3>9. Entitled(h, tasks, fitted[r])
            BY <3>4, <3>5, <3>7, <3>8 DEF Entitled
        <3> QED
            BY <1>2, <2>1, <3>3, <3>9
    <2> QED
        BY <1>7, <2>2, <2>3 DEF ReadTask
<1>8. ASSUME NEW r \in Requests, Resolve(r)
      PROVE  HandlersEntitled'
    <2>1. req[r] \in Handler /\ req[r].at = "resolve" /\ tasks' = tasks
        BY <1>8 DEF Resolve, TypeInv, TypeOK
    <2>2. CASE req' = [req EXCEPT ![r] = Idle]
        BY <1>5, <2>2
    <2>3. ASSUME NEW w \in Candidates(req[r], tasks[req[r].task]),
                 req' = [req EXCEPT ![r] = [req[r] EXCEPT !.at = "write", !.who = w]]
          PROVE  HandlersEntitled'
        <3>1. PICK h : h = [req[r] EXCEPT !.at = "write", !.who = w]
            OBVIOUS
        <3>2. req'[r] = h /\ \A s \in Requests : s # r => req'[s] = req[s]
            BY <2>3, <3>1 DEF TypeInv, TypeOK
        <3>3. /\ h.op = req[r].op /\ h.claims = req[r].claims /\ h.task = req[r].task
              /\ h.who = w /\ h.at = "write"
            BY <2>1, <3>1 DEF Handler
        <3>4. Entitled(req[r], tasks, fitted[r]) /\ InProgress(req[r])
            BY <2>1 DEF HandlersEntitled, InProgress
        <3>5. h.op # "claim"
            BY <2>1, <3>3, <3>4 DEF Entitled
        <3>6. h.op \in Gives \cup {"linkPm"} => w \in fitted[r]
            BY <2>1, <2>3, <3>3, PickedEligible
        <3>7. Entitled(h, tasks, fitted[r])
            BY <2>1, <3>3, <3>4, <3>5, <3>6 DEF Entitled, Receiver
        <3> QED
            BY <1>2, <2>1, <3>2, <3>7
    <2> QED
        BY <1>8, <2>2, <2>3 DEF Resolve
<1>9. ASSUME NEW r \in Requests, NEW name, NEW row, RowReturned(r, name, row)
      PROVE  HandlersEntitled'
    <2>1. \A s \in Requests : s # r => req'[s] = req[s]
        BY <1>9 DEF RowReturned, TypeInv, TypeOK
    <2>2. ~InProgress(req'[r])
        BY <1>9 DEF RowReturned, TypeInv, TypeOK, Handler, InProgress
    <2> QED
        BY <1>4, <2>1, <2>2
<1>10. ASSUME NEW r \in Requests,
              \/ Create(r) \/ SetNoIndex(r) \/ AssignAnalyst(r) \/ ClaimTask(r) \/ MoveToReview(r)
              \/ ReassignReviewer(r) \/ ApproveTask(r) \/ RejectTask(r)
       PROVE  HandlersEntitled'
    <2>1. CASE NoRowReturned(r)
        BY <1>5, <2>1 DEF NoRowReturned
    <2>2. ASSUME ~NoRowReturned(r)
          PROVE  HandlersEntitled'
        <3>1. CASE Create(r)
            BY <1>9, <2>2, <3>1 DEF Create, Update
        <3>2. CASE SetNoIndex(r) \/ ApproveTask(r)
            BY <1>9, <2>2, <3>2 DEF SetNoIndex, ApproveTask, Update
        <3>3. CASE AssignAnalyst(r) \/ ClaimTask(r)
            BY <1>9, <2>2, <3>3 DEF AssignAnalyst, ClaimTask, Update
        <3>4. CASE MoveToReview(r) \/ ReassignReviewer(r) \/ RejectTask(r)
            BY <1>9, <2>2, <3>4 DEF MoveToReview, ReassignReviewer, RejectTask, Update
        <3> QED
            BY <1>10, <3>1, <3>2, <3>3, <3>4
    <2> QED
        BY <2>1, <2>2
<1>11. ASSUME NEW r \in Requests,
              \/ UpdateOrderDetails(r) \/ LinkPmToAccount(r) \/ PublishTaskEvent(r) \/ FailRequest(r)
       PROVE  HandlersEntitled'
    BY SMTT(60), <1>5, <1>11 DEF UpdateOrderDetails, LinkPmToAccount, PublishTaskEvent, FailRequest
<1> QED
    BY <1>3, <1>6, <1>7, <1>8, <1>10, <1>11
       DEF Next, Handle, vars, SyncUser, SetActive, MarkPaid, PublishPaid, FailBilling,
           GracePeriodElapses, ListStalePaid, CloseTask, SkipTask, PublishClosed, FailSweep

\* The invariant is inductive, and so holds in every state.
LEMMA GrantsAlways == GrantsSpec => []GrantsInv
<1>1. GrantsInv /\ [GrantsNext]_grantsVars => GrantsInv'
    <2> SUFFICES ASSUME GrantsInv, [GrantsNext]_grantsVars PROVE GrantsInv'
        OBVIOUS
    <2>1. TypeInv'
        BY TypeStep DEF GrantsInv, GrantsNext, grantsVars
    <2>2. CASE GrantsNext
        BY <2>1, <2>2, RemembersStep, EntitledStep DEF GrantsNext, GrantsInv
    <2>3. CASE UNCHANGED grantsVars
        BY <2>1, <2>3 DEF grantsVars, vars, GrantsInv, GrantsTypeOK, EligibleSeen, Eligible,
           HandlersEntitled, ProjectManagersFor, AccountOfOrder
    <2> QED
        BY <2>2, <2>3
<1> QED
    BY <1>1, GrantsStart, PTL DEF GrantsSpec

\* An order changes hands, or is approved, in the write of its own request alone.
LEMMA GivingStep ==
    ASSUME TypeInv, Next, NEW r \in Requests,
           req[r].at = "write", req'[r].at = "publish", req[r].op \in Gives
    PROVE  \/ AssignAnalyst(r) \/ ClaimTask(r) \/ MoveToReview(r)
           \/ ReassignReviewer(r) \/ ApproveTask(r) \/ RejectTask(r)
<1>1. CASE req' = req
    BY <1>1
<1>2. ASSUME NEW s \in Requests, req' = [req EXCEPT ![s] = Idle]
      PROVE  FALSE
    BY <1>2 DEF TypeInv, TypeOK, Idle
<1>3. ASSUME NEW s \in Requests, NEW h, h.at # "publish", req' = [req EXCEPT ![s] = h]
      PROVE  FALSE
    BY <1>3 DEF TypeInv, TypeOK
<1>4. ASSUME NEW s \in Requests, NEW op \in Ops, NEW u \in Users, NEW claims \in TokenRoles[u],
             NEW t \in Tasks, Arrive(s, op, u, claims, t)
      PROVE  FALSE
    <2>1. s # r
        BY <1>4 DEF Arrive, Idle
    <2> QED
        BY <1>4, <2>1 DEF Arrive, TypeInv, TypeOK
<1>5. ASSUME NEW s \in Requests, ReadTask(s) \/ Resolve(s)
      PROVE  FALSE
    <2>1. s # r
        BY <1>5 DEF ReadTask, Resolve
    <2> QED
        BY <1>5, <2>1 DEF ReadTask, Resolve, TypeInv, TypeOK
<1>6. ASSUME NEW s \in Requests, NEW op, NEW guard, NEW name, NEW row,
             Update(s, op, guard, name, row)
      PROVE  s = r /\ op \in Gives
    BY <1>6 DEF Update, RowReturned, NoRowReturned, TypeInv, TypeOK, Idle
<1>7. ASSUME NEW s \in Requests, Handle(s)
      PROVE  \/ AssignAnalyst(r) \/ ClaimTask(r) \/ MoveToReview(r)
             \/ ReassignReviewer(r) \/ ApproveTask(r) \/ RejectTask(r)
    <2>1. CASE Create(s) \/ SetNoIndex(s)
        <3>1. "create" \notin Gives /\ "noIndex" \notin Gives
            BY DEF Gives
        <3> QED
            BY <1>6, <2>1, <3>1 DEF Create, SetNoIndex
    <2>2. CASE AssignAnalyst(s) \/ ClaimTask(s) \/ MoveToReview(s)
        BY <1>6, <2>2 DEF AssignAnalyst, ClaimTask, MoveToReview
    <2>3. CASE ReassignReviewer(s) \/ ApproveTask(s) \/ RejectTask(s)
        BY <1>6, <2>3 DEF ReassignReviewer, ApproveTask, RejectTask
    <2>4. CASE UpdateOrderDetails(s) \/ LinkPmToAccount(s) \/ PublishTaskEvent(s)
        BY <1>2, <2>4 DEF UpdateOrderDetails, LinkPmToAccount, PublishTaskEvent
    <2> QED
        BY <1>5, <1>7, <2>1, <2>2, <2>3, <2>4 DEF Handle
<1>8. ASSUME NEW s \in Requests, FailRequest(s)
      PROVE  FALSE
    BY <1>2, <1>8 DEF FailRequest
<1> QED
    BY <1>1, <1>4, <1>7, <1>8
       DEF Next, SyncUser, SetActive, MarkPaid, PublishPaid, FailBilling,
           GracePeriodElapses, ListStalePaid, CloseTask, SkipTask, PublishClosed, FailSweep

\* The row written names the receiver.
LEMMA GivenToReceiver ==
    ASSUME TypeInv, Next, NEW r \in Requests,
           req[r].at = "write", req'[r].at = "publish", req[r].op \in Gives
    PROVE  LET row == tasks'[req[r].task] IN
           (IF req[r].op = "approve" THEN row.owner ELSE row.assignee) = Receiver(req[r])
<1>1. req[r].task \in Tasks /\ tasks[req[r].task] \in Row
    BY WriterKnows
<1>2. ASSUME NEW row, NEW name, NoRowReturned(r) \/ RowReturned(r, name, row)
      PROVE  tasks'[req[r].task] = row
    <2>1. ~NoRowReturned(r)
        BY DEF NoRowReturned, TypeInv, TypeOK, Idle
    <2> QED
        BY <1>2, <2>1, RowReturnedTouches
<1>3. ASSUME NEW name, NEW status, NEW who,
             \/ NoRowReturned(r)
             \/ RowReturned(r, name, HeldBy(tasks[req[r].task], status, who))
      PROVE  tasks'[req[r].task].assignee = who
    <2>1. tasks'[req[r].task] = HeldBy(tasks[req[r].task], status, who)
        BY <1>2, <1>3
    <2> QED
        BY <1>1, <2>1 DEF HeldBy, Row
<1>4. CASE AssignAnalyst(r)
    BY <1>3, <1>4 DEF AssignAnalyst, Update, Receiver
<1>5. CASE ClaimTask(r)
    BY <1>3, <1>5 DEF ClaimTask, Update, Receiver
<1>6. CASE MoveToReview(r)
    BY <1>3, <1>6 DEF MoveToReview, Update, Receiver
<1>7. CASE ReassignReviewer(r)
    BY <1>3, <1>7 DEF ReassignReviewer, Update, Receiver
<1>8. CASE RejectTask(r)
    BY <1>3, <1>8 DEF RejectTask, Update, Receiver
<1>9. CASE ApproveTask(r)
    <2>1. tasks'[req[r].task] = [tasks[req[r].task] EXCEPT !.status = "done", !.assignee = Null,
                                                           !.owner = req[r].who]
        BY <1>2, <1>9 DEF ApproveTask, Update
    <2>2. tasks'[req[r].task].owner = req[r].who
        BY <1>1, <2>1 DEF Row
    <2> QED
        BY <1>9, <2>2 DEF ApproveTask, Update, Receiver
<1> QED
    BY <1>4, <1>5, <1>6, <1>7, <1>8, <1>9, GivingStep

\* A PM is linked by a request that resolved to that PM.
LEMMA LinkedByRequest ==
    ASSUME TypeInv, Next, NEW a \in Accounts, NEW u \in managers'[a] \ managers[a]
    PROVE  \E r \in Requests : req[r].at = "write" /\ req[r].op = "linkPm" /\ u = req[r].who
<1>1. ASSUME NEW r \in Requests, LinkPmToAccount(r)
      PROVE  req[r].at = "write" /\ req[r].op = "linkPm" /\ u = req[r].who
    BY <1>1 DEF LinkPmToAccount, TypeInv, TypeOK
<1>2. managers' # managers
    OBVIOUS
<1>3. \E r \in Requests : LinkPmToAccount(r)
    BY ZenonT(60), <1>2
       DEF Next, Handle, SyncUser, SetActive, Arrive, ReadTask, Resolve, Create,
           UpdateOrderDetails, SetNoIndex, AssignAnalyst, ClaimTask, MoveToReview,
           ReassignReviewer, ApproveTask, RejectTask, Update, PublishTaskEvent, FailRequest,
           MarkPaid, PublishPaid, FailBilling, GracePeriodElapses, ListStalePaid, CloseTask,
           SkipTask, PublishClosed, FailSweep
<1> QED
    BY <1>1, <1>3

\* An order goes only to somebody who was eligible for its new stage at some moment
\* of the request that gives it, and an account gets only such PMs, however many
\* requests, token syncs, deactivations and links fall between check and UPDATE.
THEOREM GivenToTheEligible == GrantsSpec => GivenToEligible
<1>1. ASSUME GrantsInv, GrantsNext, NEW r \in Requests, req[r].op \in Gives,
             req[r].at = "write", req'[r].at = "publish"
      PROVE  LET row == tasks'[req[r].task] IN
             (IF req[r].op = "approve" THEN row.owner ELSE row.assignee) \in fitted[r]
    <2>1. Receiver(req[r]) \in fitted[r]
        BY <1>1 DEF GrantsInv, HandlersEntitled, Entitled, InProgress
    <2> QED
        BY <1>1, <2>1, GivenToReceiver DEF GrantsInv, GrantsNext
<1>2. ASSUME GrantsInv, GrantsNext, NEW a \in Accounts, NEW u \in managers'[a] \ managers[a]
      PROVE  \E r \in Requests : req[r].op = "linkPm" /\ u \in fitted[r]
    <2>1. PICK r \in Requests : req[r].at = "write" /\ req[r].op = "linkPm" /\ u = req[r].who
        BY <1>2, LinkedByRequest DEF GrantsInv, GrantsNext
    <2>2. Receiver(req[r]) = u /\ Receiver(req[r]) \in fitted[r]
        BY <1>2, <2>1 DEF GrantsInv, HandlersEntitled, Entitled, InProgress, Receiver
    <2> QED
        BY <2>1, <2>2
<1>3. GrantsInv /\ [GrantsNext]_grantsVars =>
        [/\ \A r \in Requests :
              req[r].op \in Gives /\ req[r].at = "write" /\ req'[r].at = "publish" =>
                  LET row == tasks'[req[r].task] IN
                  (IF req[r].op = "approve" THEN row.owner ELSE row.assignee) \in fitted[r]
         /\ \A a \in Accounts : \A u \in managers'[a] \ managers[a] :
              \E r \in Requests : req[r].op = "linkPm" /\ u \in fitted[r]]_grantsVars
    BY <1>1, <1>2
<1> QED
    BY <1>3, GrantsAlways, PTL DEF GrantsSpec, GivenToEligible
=============================================================================
