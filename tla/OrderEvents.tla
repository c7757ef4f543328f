----------------------------- MODULE OrderEvents -----------------------------
(***************************************************************************)
(* What the other services make of the events of task-service: the search  *)
(* index, the audit log and the notifications.  Each is a consumer group   *)
(* of the topic task-service.tasks, at its own pace, with its own errors   *)
(* and restarts.                                                           *)
(*                                                                         *)
(* An event carries the whole row as its handler's UPDATE returned it.     *)
(* Between the UPDATE and the event lies an await: two handlers of one     *)
(* order may publish in the other order, and an event may be lost.  The    *)
(* partition of an order keeps what is published in order.                 *)
(*                                                                         *)
(* kafka-python (search) and kafkajs (audit, notifier) are libraries; a    *)
(* position runs ahead of the committed offset, and a restart goes back to *)
(* it, so several messages may be delivered again.  An orderly stop of      *)
(* search-service does the opposite: it passes over one message.            *)
(***************************************************************************)
EXTENDS Naturals, Sequences, FiniteSets

CONSTANTS
    Tasks,          \* orders
    Users,          \* staff, by e-mail
    Handlers,       \* handlers of task-service between UPDATE and event
    Names,          \* the events looked at, some of EventNames
    Null,
    MaxVersion,     \* bound: writes to one order
    MaxRestarts     \* bound: restarts of consumers, all groups together

EventNames ==
    {"task.created", "task.assigned", "task.claimed", "task.moved-to-review",
     "task.reviewer-reassigned", "task.approved", "task.rejected",
     "task.no-index-changed", "task.paid", "task.closed"}

ASSUME EventsAssumption ==
    /\ Null \notin Users
    /\ Names \subseteq EventNames
    /\ MaxVersion \in Nat /\ MaxRestarts \in Nat

VARIABLES
    rows,           \* tasks: what an event tells of an order, and its writes so far
    up,             \* the groups whose service runs; each is deployed by itself
    sending,        \* per handler: the event it is about to publish, or Null
    topic,
    position,       \* per group: messages handled
    committed,      \* per group: messages never delivered again
    failed,         \* per group: offsets whose handling was logged as an error
    dropped,        \* offsets search-service took while it was stopping
    restarts,
    index,          \* the search document of an order: a version of it, or 0
    auditLog,       \* offsets that have a row; two rows of one are not told apart
    fanout,         \* the notifier between its awaits
    told            \* notifications [offset, to]: stored, and pushed to open tabs

writers == <<rows, sending>>
consumers == <<up, position, committed, failed, dropped, restarts>>
vars == <<rows, sending, topic, consumers, index, auditLog, fanout, told>>

Groups == {"search", "audit", "notifier"}

Row == [version: 0..MaxVersion, no_index: BOOLEAN, assignee: Users \cup {Null}]
Event == [name: EventNames, task: Tasks, row: Row]

Fanout == [at: {"idle", "loop", "mail"}, to: SUBSET Users]
Waiting == [at |-> "idle", to |-> {}]

TypeOK ==
    /\ rows \in [Tasks -> Row]
    /\ up \subseteq Groups
    /\ sending \in [Handlers -> Event \cup {Null}]
    /\ topic \in Seq(Event)
    /\ position \in [Groups -> 0..Len(topic)]
    /\ \A g \in Groups : committed[g] \in 0..position[g]
    /\ DOMAIN committed = Groups
    /\ failed \in [Groups -> SUBSET (1..Len(topic))]
    /\ dropped \subseteq 1..Len(topic)
    /\ restarts \in 0..MaxRestarts
    /\ index \in [Tasks -> 0..MaxVersion]
    /\ auditLog \subseteq 1..Len(topic)
    /\ fanout \in Fanout
    /\ told \subseteq [offset: 1..Len(topic), to: Users]

Init ==
    /\ rows = [t \in Tasks |-> [version |-> 0, no_index |-> FALSE, assignee |-> Null]]
    /\ up \in SUBSET Groups
    /\ sending = [h \in Handlers |-> Null]
    /\ topic = <<>>
    /\ position = [g \in Groups |-> 0]
    /\ committed = [g \in Groups |-> 0]
    /\ failed = [g \in Groups |-> {}]
    /\ dropped = {}
    /\ restarts = 0
    /\ index = [t \in Tasks |-> 0]
    /\ auditLog = {}
    /\ fanout = Waiting
    /\ told = {}

-----------------------------------------------------------------------------
(* task-service *)

\* An event carries the flag on every transition, not on its own toggle alone.
TaskToEvent(name, t, row) == [name |-> name, task |-> t, row |-> row]

\* The row an UPDATE returns: an order is created with its project's default,
\* the toggle is its own transition, an order is taken from the pool once.
Written(row, name) ==
    {new \in Row :
        /\ new.version = row.version + 1
        /\ (name = "task.created") <=> (row.version = 0)
        /\ name \notin {"task.created", "task.no-index-changed"} => new.no_index = row.no_index
        /\ name = "task.no-index-changed" => new.no_index # row.no_index
        /\ IF name \in {"task.assigned", "task.claimed"}
             THEN row.assignee = Null /\ new.assignee # Null
             ELSE new.assignee = row.assignee}

\* A handler's UPDATE is committed.
UpdateTask(h, t) ==
    /\ sending[h] = Null
    /\ rows[t].version < MaxVersion
    /\ \E name \in Names : \E new \in Written(rows[t], name) :
        /\ rows' = [rows EXCEPT ![t] = new]
        /\ sending' = [sending EXCEPT ![h] = TaskToEvent(name, t, new)]
    /\ UNCHANGED <<topic, consumers, index, auditLog, fanout, told>>

PublishTaskEvent(h) ==
    /\ sending[h] # Null
    /\ topic' = Append(topic, sending[h])
    /\ sending' = [sending EXCEPT ![h] = Null]
    /\ UNCHANGED <<rows, consumers, index, auditLog, fanout, told>>

\* The broker refuses, or the process stops.
LoseTaskEvent(h) ==
    /\ sending[h] # Null
    /\ sending' = [sending EXCEPT ![h] = Null]
    /\ UNCHANGED <<rows, topic, consumers, index, auditLog, fanout, told>>

-----------------------------------------------------------------------------
(* Consumer groups *)

HasMessage(g) == g \in up /\ position[g] < Len(topic)
Offset(g) == position[g] + 1
Message(g) == topic[Offset(g)]

Advance(g) == position' = [position EXCEPT ![g] = @ + 1]

\* Deviation: the message fetched is committed before it is handled.
CommitAhead(g) ==
    /\ HasMessage(g)
    /\ committed' = [committed EXCEPT ![g] = Offset(g)]
    /\ UNCHANGED <<writers, topic, up, position, failed, dropped, restarts, index, auditLog, fanout, told>>

\* The client commits what was handled so far, between two messages.
Commit(g) ==
    /\ g \in up
    /\ committed[g] < position[g]
    /\ g = "notifier" => fanout.at = "idle"
    /\ committed' = [committed EXCEPT ![g] = position[g]]
    /\ UNCHANGED <<writers, topic, up, position, failed, dropped, restarts, index, auditLog,
                   fanout, told>>

\* A consumer crashes or is stopped and starts again where it had committed.
Restart(g) ==
    /\ g \in up
    /\ restarts < MaxRestarts
    /\ restarts' = restarts + 1
    /\ position' = [position EXCEPT ![g] = committed[g]]
    /\ fanout' = IF g = "notifier" THEN Waiting ELSE fanout
    /\ UNCHANGED <<writers, topic, up, committed, failed, dropped, index, auditLog, told>>

-----------------------------------------------------------------------------
(* search-service *)

\* Deviation: an event is always upserted.
DocOfAny(row) == row.version

\* Excluded orders have no document.
DocOf(row) == IF row.no_index THEN 0 ELSE row.version

\* Replace with what the event carries, whatever the document holds.
IndexTaskEvent ==
    /\ HasMessage("search")
    /\ index' = [index EXCEPT ![Message("search").task] = DocOf(Message("search").row)]
    /\ Advance("search")
    /\ UNCHANGED <<writers, topic, up, committed, failed, dropped, restarts, auditLog, fanout,
                   told>>

\* Deviation: the consumer goes back to what it had committed.
RetryTaskEvent ==
    /\ HasMessage("search")
    /\ position' = [position EXCEPT !["search"] = committed["search"]]
    /\ failed' = [failed EXCEPT !["search"] = @ \cup {Offset("search")}]
    /\ UNCHANGED <<writers, topic, up, committed, dropped, restarts, index, auditLog, fanout, told>>

\* Elasticsearch refuses: the loop is left and the consumer closed, which commits
\* its position, already past the message; the next consumer starts after it.
SkipTaskEvent ==
    /\ HasMessage("search")
    /\ Advance("search")
    /\ committed' = [committed EXCEPT !["search"] = Offset("search")]
    /\ failed' = [failed EXCEPT !["search"] = @ \cup {Offset("search")}]
    /\ UNCHANGED <<writers, topic, up, dropped, restarts, index, auditLog, fanout, told>>

\* The service is stopping: the loop takes one more message, leaves without looking
\* at it, and closing the consumer commits past it.  Nothing is logged.
DropTaskEvent ==
    /\ HasMessage("search")
    /\ restarts < MaxRestarts
    /\ restarts' = restarts + 1
    /\ Advance("search")
    /\ committed' = [committed EXCEPT !["search"] = Offset("search")]
    /\ dropped' = dropped \cup {Offset("search")}
    /\ UNCHANGED <<writers, topic, up, failed, index, auditLog, fanout, told>>

-----------------------------------------------------------------------------
(* audit-service *)

InsertEvent ==
    /\ HasMessage("audit")
    /\ auditLog' = auditLog \cup {Offset("audit")}
    /\ Advance("audit")
    /\ UNCHANGED <<writers, topic, up, committed, failed, dropped, restarts, index, fanout, told>>

\* A failed INSERT is logged and swallowed: the message counts as handled.
FailAudit ==
    /\ HasMessage("audit")
    /\ failed' = [failed EXCEPT !["audit"] = @ \cup {Offset("audit")}]
    /\ Advance("audit")
    /\ UNCHANGED <<writers, topic, up, committed, dropped, restarts, index, auditLog, fanout, told>>

-----------------------------------------------------------------------------
(* notification-service *)

\* The account's project managers are whoever the tables name at that moment.
RecipientsFor(event, managers) ==
    IF event.name \in {"task.created", "task.claimed"} THEN managers
    ELSE IF event.name = "task.assigned" THEN {event.row.assignee} \ {Null}
    ELSE {}

\* Recipients are looked up when the event is handled, not when it was sent.
ResolveRecipients ==
    /\ HasMessage("notifier")
    /\ fanout.at = "idle"
    /\ \E managers \in SUBSET Users :
        fanout' = [at |-> "loop", to |-> RecipientsFor(Message("notifier"), managers)]
    /\ UNCHANGED <<writers, topic, consumers, index, auditLog, told>>

\* Store and push.  The code goes through the recipients by name.
NotifyRecipient(u) ==
    /\ fanout.at = "loop"
    /\ u \in fanout.to
    /\ told' = told \cup {[offset |-> Offset("notifier"), to |-> u]}
    /\ fanout' = [at |-> "mail", to |-> fanout.to \ {u}]
    /\ UNCHANGED <<writers, topic, consumers, index, auditLog>>

\* The e-mail is best effort: sent or not, the loop goes on.
SendNotificationEmail ==
    /\ fanout.at = "mail"
    /\ fanout' = [fanout EXCEPT !.at = "loop"]
    /\ UNCHANGED <<writers, topic, consumers, index, auditLog, told>>

\* Deviation: the fan-out is not awaited.
EventNotifiedEarly ==
    /\ fanout.at = "loop"
    /\ fanout' = Waiting
    /\ Advance("notifier")
    /\ UNCHANGED <<writers, topic, up, committed, failed, dropped, restarts, index, auditLog, told>>

EventNotified ==
    /\ fanout.at = "loop"
    /\ fanout.to = {}
    /\ fanout' = Waiting
    /\ Advance("notifier")
    /\ UNCHANGED <<writers, topic, up, committed, failed, dropped, restarts, index, auditLog, told>>

\* A query throws before or after any recipient: the rest is not notified.
FailNotify ==
    /\ HasMessage("notifier")
    /\ failed' = [failed EXCEPT !["notifier"] = @ \cup {Offset("notifier")}]
    /\ fanout' = Waiting
    /\ Advance("notifier")
    /\ UNCHANGED <<writers, topic, up, committed, dropped, restarts, index, auditLog, told>>

-----------------------------------------------------------------------------

Next ==
    \/ \E h \in Handlers, t \in Tasks : UpdateTask(h, t)
    \/ \E h \in Handlers : PublishTaskEvent(h) \/ LoseTaskEvent(h)
    \/ \E g \in Groups : Commit(g) \/ Restart(g)
    \/ IndexTaskEvent
    \/ SkipTaskEvent
    \/ DropTaskEvent
    \/ InsertEvent
    \/ FailAudit
    \/ ResolveRecipients
    \/ \E u \in Users : NotifyRecipient(u)
    \/ SendNotificationEmail
    \/ EventNotified
    \/ FailNotify

Spec == Init /\ [][Next]_vars

Search == IndexTaskEvent \/ SkipTaskEvent
Audit == InsertEvent \/ FailAudit
Notify ==
    \/ ResolveRecipients
    \/ \E u \in Users : NotifyRecipient(u)
    \/ SendNotificationEmail
    \/ EventNotified
    \/ FailNotify

\* A group that runs polls and handles what it polled, one way or the other; the
\* retry loops bring every group back.  No fairness for publications.
Fairness ==
    /\ WF_vars(Search) /\ WF_vars(Audit) /\ WF_vars(Notify)
    /\ \A g \in Groups : WF_vars(Commit(g))

FairSpec == Spec /\ Fairness

-----------------------------------------------------------------------------
(* Properties *)

LastOfItsTask(i) == \A j \in i + 1 .. Len(topic) : topic[j].task # topic[i].task

\* The search index holds what the last event on the topic says of an order, and
\* nothing when that event excludes it, whatever was delivered again before it and
\* whatever was lost, late or out of order before it got there: unless that very event
\* failed, or came while the service was stopping.
IndexFollowsTopic ==
    \A i \in 1..position["search"] :
        LET event == topic[i] IN
        LastOfItsTask(i) /\ i \notin failed["search"] \cup dropped =>
            index[event.task] = IF event.row.no_index THEN 0 ELSE event.row.version

\* No event is gone from the audit log except those whose insertion was logged as
\* an error, crashes between two messages and before a commit included.
AuditComplete ==
    \A i \in 1..position["audit"] :
        i \in failed["audit"] \cup auditLog

\* Whoever was assigned an order is told, unless an error was logged: no crash in
\* the middle of a fan-out loses a recipient.
AssigneeTold ==
    \A i \in 1..position["notifier"] :
        topic[i].name = "task.assigned" =>
            \/ i \in failed["notifier"]
            \/ [offset |-> i, to |-> topic[i].row.assignee] \in told

\* Every event published reaches every group in the end, for good.
EventsConsumed ==
    \A i \in 1..MaxVersion * Cardinality(Tasks) : \A g \in Groups :
        (g \in up /\ i <= Len(topic)) ~> (committed[g] >= i)

\* The comment on no_index: a later event cannot bring an excluded order back into
\* the index by upserting it without the flag.
ExcludedStaysOut ==
    \A i \in 1..position["search"] :
        LET t == topic[i].task IN
        /\ rows[t].no_index
        /\ topic[i].row = rows[t]
        /\ i \notin failed["search"] \cup dropped
        => index[t] = 0
=============================================================================
