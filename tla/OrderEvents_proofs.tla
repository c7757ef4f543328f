-------------------------- MODULE OrderEvents_proofs --------------------------
(***************************************************************************)
(* What the consumers of OrderEvents.tla keep, for any number of orders,   *)
(* users, handlers, events and restarts.                                   *)
(***************************************************************************)
EXTENDS OrderEvents, TLAPS

-----------------------------------------------------------------------------
(* Types *)

\* A fan-out under way is that of the next message.
FanoutHasMessage == fanout.at # "idle" => HasMessage("notifier")

Typed == TypeOK /\ FanoutHasMessage

LEMMA TypedInit == Init => Typed
BY EventsAssumption
   DEF Init, Typed, TypeOK, FanoutHasMessage, Row, Fanout, Waiting, Groups

\* An event put on the topic leaves what was there in place.
LEMMA Published ==
    ASSUME topic \in Seq(Event), NEW event \in Event, topic' = Append(topic, event)
    PROVE  /\ topic' \in Seq(Event) /\ Len(topic') = Len(topic) + 1
           /\ \A i \in 1..Len(topic) : topic'[i] = topic[i]
           /\ topic'[Len(topic) + 1] = event
    OBVIOUS

LEMMA EventsTyped ==
    ASSUME TypeOK, NEW i \in 1..Len(topic)
    PROVE  topic[i] \in Event
    BY DEF TypeOK

LEMMA MessageTyped ==
    ASSUME TypeOK, NEW g \in Groups, HasMessage(g)
    PROVE  /\ Offset(g) \in 1..Len(topic) /\ Offset(g) = position[g] + 1
           /\ position[g] \in Nat /\ Message(g) \in Event
<1>1. position[g] \in 0..Len(topic) /\ position[g] < Len(topic) /\ Len(topic) \in Nat
    BY DEF HasMessage, TypeOK
<1>2. Offset(g) \in 1..Len(topic)
    BY <1>1 DEF Offset
<1> QED
    BY <1>1, <1>2, EventsTyped DEF Offset, Message

LEMMA TypedService ==
    ASSUME Typed, NEW h \in Handlers,
           \/ \E t \in Tasks : UpdateTask(h, t)
           \/ PublishTaskEvent(h) \/ LoseTaskEvent(h)
    PROVE  Typed'
<1> USE DEF Typed, FanoutHasMessage, HasMessage, consumers
<1>1. ASSUME NEW t \in Tasks, UpdateTask(h, t) PROVE Typed'
    <2>1. PICK name \in Names, new \in Row :
            /\ rows' = [rows EXCEPT ![t] = new]
            /\ sending' = [sending EXCEPT ![h] = [name |-> name, task |-> t, row |-> new]]
        BY <1>1 DEF UpdateTask, TaskToEvent, Written
    <2>2. [name |-> name, task |-> t, row |-> new] \in Event
        BY EventsAssumption DEF Event
    <2>3. rows' \in [Tasks -> Row] /\ sending' \in [Handlers -> Event \cup {Null}]
        BY <2>1, <2>2 DEF TypeOK
    <2> QED
        BY <1>1, <2>3 DEF UpdateTask, TypeOK
<1>2. CASE PublishTaskEvent(h)
    <2>1. sending[h] \in Event
        BY <1>2 DEF PublishTaskEvent, TypeOK
    <2>2. topic' \in Seq(Event) /\ Len(topic') = Len(topic) + 1 /\ Len(topic) \in Nat
        BY <1>2, <2>1, Published DEF PublishTaskEvent, TypeOK
    <2>3. 1..Len(topic) \subseteq 1..Len(topic') /\ 0..Len(topic) \subseteq 0..Len(topic')
        BY <2>2
    <2>4. failed \in [Groups -> SUBSET (1..Len(topic'))] /\ position \in [Groups -> 0..Len(topic')]
        BY <2>3 DEF TypeOK
    <2>5. /\ auditLog \subseteq 1..Len(topic') /\ dropped \subseteq 1..Len(topic')
          /\ told \subseteq [offset: 1..Len(topic'), to: Users]
        BY <2>3 DEF TypeOK
    <2>6. position["notifier"] < Len(topic) => position["notifier"] < Len(topic')
        BY <2>2 DEF TypeOK, Groups
    <2>7. sending' \in [Handlers -> Event \cup {Null}]
        BY <1>2 DEF PublishTaskEvent, TypeOK
    <2>8. TypeOK'
        BY <1>2, <2>2, <2>4, <2>5, <2>7 DEF PublishTaskEvent, TypeOK
    <2> QED
        BY <1>2, <2>6, <2>8 DEF PublishTaskEvent
<1>3. CASE LoseTaskEvent(h)
    BY <1>3 DEF LoseTaskEvent, TypeOK
<1> QED
    BY <1>1, <1>2, <1>3

LEMMA TypedOffsets ==
    ASSUME Typed, NEW g \in Groups, Commit(g) \/ Restart(g)
    PROVE  Typed'
<1> USE DEF Typed, FanoutHasMessage, HasMessage, writers, consumers
<1>1. CASE Commit(g)
    BY <1>1 DEF Commit, TypeOK
<1>2. CASE Restart(g)
    <2>1. committed[g] \in 0..Len(topic)
        BY DEF TypeOK
    <2>2. position' \in [Groups -> 0..Len(topic)]
        BY <1>2, <2>1 DEF Restart, TypeOK
    <2>3. \A k \in Groups : committed[k] \in 0..position'[k]
        BY <1>2 DEF Restart, TypeOK
    <2>4. fanout' \in Fanout /\ restarts' \in 0..MaxRestarts
        BY <1>2, EventsAssumption DEF Restart, TypeOK, Fanout, Waiting
    <2>5. FanoutHasMessage'
        BY <1>2 DEF Restart, Waiting, TypeOK, Groups
    <2> QED
        BY <1>2, <2>2, <2>3, <2>4, <2>5 DEF Restart, TypeOK
<1> QED
    BY <1>1, <1>2

\* A group goes on to the next message: offsets stay in order, of failures it may log one.
LEMMA TypedAdvance ==
    ASSUME TypeOK, NEW g \in Groups, HasMessage(g), Advance(g),
           \/ UNCHANGED committed
           \/ committed' = [committed EXCEPT ![g] = Offset(g)],
           \/ UNCHANGED failed
           \/ failed' = [failed EXCEPT ![g] = @ \cup {Offset(g)}]
    PROVE  /\ position' \in [Groups -> 0..Len(topic)]
           /\ \A k \in Groups : committed'[k] \in 0..position'[k]
           /\ DOMAIN committed' = Groups
           /\ failed' \in [Groups -> SUBSET (1..Len(topic))]
<1>1. Offset(g) \in 1..Len(topic) /\ Offset(g) = position[g] + 1 /\ position[g] \in Nat
    BY MessageTyped
<1>2. position' = [position EXCEPT ![g] = Offset(g)]
    BY <1>1 DEF Advance
<1>3. position' \in [Groups -> 0..Len(topic)]
    BY <1>1, <1>2 DEF TypeOK
<1>4. \A k \in Groups : committed'[k] \in 0..position'[k]
    BY <1>1, <1>2 DEF TypeOK
<1>5. DOMAIN committed' = Groups
    BY DEF TypeOK
<1>6. failed' \in [Groups -> SUBSET (1..Len(topic))]
    <2>1. failed \in [Groups -> SUBSET (1..Len(topic))]
        BY DEF TypeOK
    <2>2. CASE failed' = [failed EXCEPT ![g] = @ \cup {Offset(g)}]
        <3>1. failed[g] \cup {Offset(g)} \in SUBSET (1..Len(topic))
            BY <1>1, <2>1
        <3> QED
            BY <2>1, <2>2, <3>1
    <2> QED
        BY <2>1, <2>2
<1> QED
    BY <1>3, <1>4, <1>5, <1>6

\* Commits and restarts never take a group forward.
LEMMA OffsetsStepBack ==
    ASSUME TypeOK, NEW g \in Groups, Commit(g) \/ Restart(g), NEW k \in Groups
    PROVE  position'[k] <= position[k]
<1>1. position[k] \in Nat /\ committed[k] <= position[k]
    BY DEF TypeOK
<1>2. CASE Commit(g)
    BY <1>1, <1>2 DEF Commit
<1>3. CASE Restart(g)
    BY <1>1, <1>3 DEF Restart, TypeOK
<1> QED
    BY <1>2, <1>3

\* What search-service does with the message it took.
Indexer == Search \/ DropTaskEvent

LEMMA TypedSearch == ASSUME Typed, Indexer PROVE Typed'
<1> USE DEF Typed, FanoutHasMessage, HasMessage, writers, consumers
<1>1. HasMessage("search") /\ Advance("search") /\ "search" \in Groups
    BY DEF Indexer, Search, IndexTaskEvent, SkipTaskEvent, DropTaskEvent, Groups
<1>2. /\ position' \in [Groups -> 0..Len(topic)]
      /\ \A k \in Groups : committed'[k] \in 0..position'[k]
      /\ DOMAIN committed' = Groups
      /\ failed' \in [Groups -> SUBSET (1..Len(topic))]
    BY <1>1, TypedAdvance DEF Indexer, Search, IndexTaskEvent, SkipTaskEvent, DropTaskEvent
<1>3. index' \in [Tasks -> 0..MaxVersion]
    <2>1. Message("search").row.version \in 0..MaxVersion
        BY <1>1, MessageTyped DEF Event, Row
    <2>2. DocOf(Message("search").row) \in 0..MaxVersion
        BY <2>1, EventsAssumption DEF DocOf
    <2> QED
        BY <2>2 DEF Indexer, Search, IndexTaskEvent, SkipTaskEvent, DropTaskEvent, TypeOK
<1>4. position'["notifier"] = position["notifier"]
    BY <1>1 DEF Advance, TypeOK, Groups
<1>5. dropped' \subseteq 1..Len(topic) /\ restarts' \in 0..MaxRestarts
    <2>1. Offset("search") \in 1..Len(topic)
        BY <1>1, MessageTyped
    <2>2. CASE Search
        BY <2>2 DEF Search, IndexTaskEvent, SkipTaskEvent, TypeOK
    <2>3. CASE DropTaskEvent
        <3>1. dropped' = dropped \cup {Offset("search")} /\ restarts' = restarts + 1
            BY <2>3 DEF DropTaskEvent
        <3>2. restarts \in 0..MaxRestarts /\ restarts < MaxRestarts /\ dropped \subseteq 1..Len(topic)
            BY <2>3 DEF DropTaskEvent, TypeOK
        <3>3. restarts' \in 0..MaxRestarts
            BY <3>1, <3>2, EventsAssumption
        <3>4. dropped' \subseteq 1..Len(topic)
            BY <2>1, <3>1, <3>2
        <3> QED
            BY <3>3, <3>4
    <2> QED
        BY <2>2, <2>3 DEF Indexer
<1> QED
    BY <1>2, <1>3, <1>4, <1>5
       DEF Indexer, Search, IndexTaskEvent, SkipTaskEvent, DropTaskEvent, TypeOK

LEMMA TypedAudit == ASSUME Typed, Audit PROVE Typed'
<1> USE DEF Typed, FanoutHasMessage, HasMessage, writers, consumers
<1>1. HasMessage("audit") /\ Advance("audit") /\ "audit" \in Groups
    BY DEF Audit, InsertEvent, FailAudit, Groups
<1>2. /\ position' \in [Groups -> 0..Len(topic)]
      /\ \A k \in Groups : committed'[k] \in 0..position'[k]
      /\ DOMAIN committed' = Groups
      /\ failed' \in [Groups -> SUBSET (1..Len(topic))]
    BY <1>1, TypedAdvance DEF Audit, InsertEvent, FailAudit
<1>3. Offset("audit") \in 1..Len(topic)
    BY <1>1, MessageTyped
<1>4. auditLog' \subseteq 1..Len(topic)
    BY <1>3 DEF Audit, InsertEvent, FailAudit, TypeOK
<1>5. position'["notifier"] = position["notifier"]
    BY <1>1 DEF Advance, TypeOK, Groups
<1> QED
    BY <1>2, <1>4, <1>5 DEF Audit, InsertEvent, FailAudit, TypeOK

LEMMA RecipientsAreUsers ==
    ASSUME NEW event \in Event, NEW managers \in SUBSET Users
    PROVE  RecipientsFor(event, managers) \subseteq Users
    BY EventsAssumption DEF RecipientsFor, Event, Row

LEMMA TypedNotify == ASSUME Typed, Notify PROVE Typed'
<1> USE DEF Typed, FanoutHasMessage, HasMessage, writers, consumers
<1>0. "notifier" \in Groups
    BY DEF Groups
<1>1. CASE ResolveRecipients
    <2>1. Message("notifier") \in Event
        BY <1>0, <1>1, MessageTyped DEF ResolveRecipients
    <2>2. fanout' \in Fanout
        BY <1>1, <2>1, RecipientsAreUsers DEF ResolveRecipients, Fanout
    <2> QED
        BY <1>1, <2>2 DEF ResolveRecipients, TypeOK
<1>2. ASSUME NEW u \in Users, NotifyRecipient(u) PROVE Typed'
    <2>1. Offset("notifier") \in 1..Len(topic)
        BY <1>0, <1>2, MessageTyped DEF NotifyRecipient
    <2>2. told' \subseteq [offset: 1..Len(topic), to: Users] /\ fanout' \in Fanout
        BY <1>2, <2>1 DEF NotifyRecipient, TypeOK, Fanout
    <2> QED
        BY <1>2, <2>2 DEF NotifyRecipient, TypeOK
<1>3. CASE SendNotificationEmail
    BY <1>3 DEF SendNotificationEmail, TypeOK, Fanout
<1>4. CASE EventNotified \/ FailNotify
    <2>1. HasMessage("notifier") /\ Advance("notifier")
        BY <1>4 DEF EventNotified, FailNotify
    <2>2. /\ position' \in [Groups -> 0..Len(topic)]
          /\ \A k \in Groups : committed'[k] \in 0..position'[k]
          /\ DOMAIN committed' = Groups
          /\ failed' \in [Groups -> SUBSET (1..Len(topic))]
        BY <1>0, <1>4, <2>1, TypedAdvance DEF EventNotified, FailNotify
    <2>3. fanout' = Waiting /\ Waiting \in Fanout /\ Waiting.at = "idle"
        BY <1>4 DEF EventNotified, FailNotify, Waiting, Fanout
    <2> QED
        BY <1>4, <2>2, <2>3 DEF EventNotified, FailNotify, TypeOK
<1> QED
    BY <1>1, <1>2, <1>3, <1>4 DEF Notify

\* Every step is one of task-service, of the offsets or of one consumer.
LEMMA StepCases ==
    ASSUME Next
    PROVE  \/ \E h \in Handlers :
                \/ \E t \in Tasks : UpdateTask(h, t)
                \/ PublishTaskEvent(h) \/ LoseTaskEvent(h)
           \/ \E g \in Groups : Commit(g) \/ Restart(g)
           \/ Indexer \/ Audit \/ Notify
    BY DEF Next, Indexer, Search, Audit, Notify

LEMMA TypedNext == Typed /\ [Next]_vars => Typed'
<1>1. ASSUME Typed, UNCHANGED vars PROVE Typed'
    BY <1>1 DEF vars, consumers, Typed, TypeOK, FanoutHasMessage, HasMessage
<1> QED
    BY <1>1, StepCases, TypedService, TypedOffsets, TypedSearch, TypedAudit, TypedNotify

LEMMA TypedAlways == Spec => []Typed
BY TypedInit, TypedNext, PTL DEF Spec

\* Rows, events, offsets, index, audit log and notifications have their types.
THEOREM EventTypes == Spec => []TypeOK
<1>1. Typed => TypeOK
    BY DEF Typed
<1> QED
    BY <1>1, TypedAlways, PTL

-----------------------------------------------------------------------------
(* The audit log *)

AuditInv == Typed /\ AuditComplete

LEMMA AuditInit == Init => AuditInv
<1> SUFFICES ASSUME Init PROVE AuditInv
    OBVIOUS
<1>1. position["audit"] = 0 /\ auditLog = {}
    BY DEF Init, Groups
<1> QED
    BY <1>1, TypedInit DEF AuditInv, AuditComplete

\* What the others do leaves the audit log and what it has handled alone.
LEMMA AuditStep ==
    ASSUME Typed, Typed', AuditComplete, [Next]_vars
    PROVE  AuditComplete'
<1> USE DEF Typed, TypeOK, AuditComplete
<1>0. "audit" \in Groups
    BY DEF Groups
<1>1. ASSUME position'["audit"] <= position["audit"], auditLog' = auditLog,
             failed["audit"] \subseteq failed'["audit"]
      PROVE  AuditComplete'
    <2>1. position["audit"] \in Nat /\ position'["audit"] \in Nat
        BY <1>0
    <2>2. 1..position'["audit"] \subseteq 1..position["audit"]
        BY <1>1, <2>1
    <2> QED
        BY <1>1, <2>2
<1>2. CASE \E h \in Handlers : (\E t \in Tasks : UpdateTask(h, t)) \/ PublishTaskEvent(h) \/ LoseTaskEvent(h)
    BY <1>0, <1>1, <1>2 DEF UpdateTask, PublishTaskEvent, LoseTaskEvent, consumers
<1>3. CASE \E g \in Groups : Commit(g) \/ Restart(g)
    <2>1. auditLog' = auditLog /\ failed' = failed
        BY <1>3 DEF Commit, Restart
    <2>2. position'["audit"] <= position["audit"]
        BY <1>0, <1>3, OffsetsStepBack
    <2> QED
        BY <1>1, <2>1, <2>2
<1>4. CASE Indexer \/ Notify
    <2>1. failed["audit"] = failed'["audit"] /\ position'["audit"] = position["audit"]
        BY <1>0, <1>4
           DEF Indexer, Search, IndexTaskEvent, SkipTaskEvent, DropTaskEvent, Notify,
               ResolveRecipients, NotifyRecipient, SendNotificationEmail, EventNotified,
               FailNotify, Advance, consumers
    <2>2. auditLog' = auditLog
        BY <1>4 DEF Indexer, Search, IndexTaskEvent, SkipTaskEvent, DropTaskEvent, Notify,
                    ResolveRecipients, NotifyRecipient, SendNotificationEmail, EventNotified,
                    FailNotify
    <2> QED
        BY <1>0, <1>1, <2>1, <2>2
<1>5. CASE Audit
    <2> DEFINE i == position["audit"] + 1
    <2>1. /\ Offset("audit") = i /\ position["audit"] \in Nat /\ position'["audit"] = i
        BY <1>0, <1>5, MessageTyped DEF Audit, InsertEvent, FailAudit, Advance
    <2>2. CASE InsertEvent
        <3>1. auditLog' = auditLog \cup {i} /\ failed' = failed
            BY <2>1, <2>2 DEF InsertEvent
        <3>2. \A k \in 1..position'["audit"] : k = i \/ k \in 1..position["audit"]
            BY <2>1
        <3> QED
            BY <3>1, <3>2
    <2>3. CASE FailAudit
        <3>1. auditLog' = auditLog /\ failed'["audit"] = failed["audit"] \cup {i}
            BY <1>0, <2>1, <2>3 DEF FailAudit
        <3>2. \A k \in 1..position'["audit"] : k = i \/ k \in 1..position["audit"]
            BY <2>1
        <3> QED
            BY <3>1, <3>2
    <2> QED
        BY <1>5, <2>2, <2>3 DEF Audit
<1>6. CASE UNCHANGED vars
    BY <1>0, <1>1, <1>6 DEF vars, consumers
<1> QED
    BY <1>2, <1>3, <1>4, <1>5, <1>6, StepCases

LEMMA AuditAlways == Spec => []AuditInv
<1>1. AuditInv /\ [Next]_vars => AuditInv'
    BY TypedNext, AuditStep DEF AuditInv
<1> QED
    BY <1>1, AuditInit, PTL DEF Spec

\* No event handled is missing in the audit log without an error logged, for any
\* number of events, crashes and deliveries.
THEOREM AuditKeepsAll == Spec => []AuditComplete
<1>1. AuditInv => AuditComplete
    BY DEF AuditInv
<1> QED
    BY <1>1, AuditAlways, PTL

-----------------------------------------------------------------------------
(* The search index *)

\* The last event of an order that the indexer took decides its document, and goes
\* on doing so when older ones were delivered again before it.
IndexHoldsLast ==
    \A i \in 1..position["search"] :
        LastOfItsTask(i) /\ i \notin failed["search"] \cup dropped
            => index[topic[i].task] = DocOf(topic[i].row)

LEMMA IndexStep ==
    ASSUME Typed, Typed', IndexHoldsLast, [Next]_vars
    PROVE  IndexHoldsLast'
<1> USE DEF Typed
<1>0. "search" \in Groups /\ position["search"] \in Nat
    BY DEF Groups, TypeOK
<1>1. ASSUME position'["search"] <= position["search"], index' = index, topic' = topic,
             failed["search"] \subseteq failed'["search"], dropped \subseteq dropped'
      PROVE  IndexHoldsLast'
    <2>1. position'["search"] \in Nat
        BY <1>0 DEF TypeOK
    <2>2. 1..position'["search"] \subseteq 1..position["search"]
        BY <1>0, <1>1, <2>1
    <2> QED
        BY <1>1, <2>2 DEF IndexHoldsLast, LastOfItsTask
<1>2. ASSUME NEW h \in Handlers, PublishTaskEvent(h) PROVE IndexHoldsLast'
    <2>1. sending[h] \in Event
        BY <1>2 DEF PublishTaskEvent, TypeOK
    <2>2. /\ Len(topic') = Len(topic) + 1 /\ \A i \in 1..Len(topic) : topic'[i] = topic[i]
          /\ Len(topic) \in Nat
        BY <1>2, <2>1, Published DEF PublishTaskEvent, TypeOK
    <2>3. position["search"] <= Len(topic)
        BY <1>0 DEF TypeOK
    <2>4. \A i \in 1..position["search"] : i \in 1..Len(topic) /\ topic'[i] = topic[i]
        BY <1>0, <2>2, <2>3
    <2>5. \A i \in 1..position["search"] : LastOfItsTask(i)' => LastOfItsTask(i)
        BY <1>0, <2>2, <2>4 DEF LastOfItsTask
    <2>6. position' = position /\ failed' = failed /\ dropped' = dropped /\ index' = index
        BY <1>2 DEF PublishTaskEvent, consumers
    <2> QED
        BY <2>4, <2>5, <2>6 DEF IndexHoldsLast
<1>3. CASE \E h \in Handlers : (\E t \in Tasks : UpdateTask(h, t)) \/ LoseTaskEvent(h)
    BY <1>0, <1>1, <1>3 DEF UpdateTask, LoseTaskEvent, consumers
<1>4. CASE \E g \in Groups : Commit(g) \/ Restart(g)
    <2>1. index' = index /\ topic' = topic /\ failed' = failed /\ dropped' = dropped
        BY <1>4 DEF Commit, Restart
    <2>2. position'["search"] <= position["search"]
        BY <1>0, <1>4, OffsetsStepBack
    <2> QED
        BY <1>1, <2>1, <2>2
<1>5. CASE Audit \/ Notify
    <2>1. failed["search"] = failed'["search"] /\ position'["search"] = position["search"]
        BY <1>0, <1>5
           DEF Audit, InsertEvent, FailAudit, Notify, ResolveRecipients, NotifyRecipient,
               SendNotificationEmail, EventNotified, FailNotify, Advance, consumers, TypeOK
    <2>2. index' = index /\ topic' = topic /\ dropped' = dropped
        BY <1>5 DEF consumers, Audit, InsertEvent, FailAudit, Notify, ResolveRecipients, NotifyRecipient,
                    SendNotificationEmail, EventNotified, FailNotify
    <2> QED
        BY <1>0, <1>1, <2>1, <2>2
<1>6. CASE Indexer
    <2> DEFINE k == position["search"] + 1
    <2>1. /\ Offset("search") = k /\ k \in 1..Len(topic) /\ Message("search") = topic[k]
          /\ position'["search"] = k /\ topic' = topic
        BY SMTT(60), <1>0, <1>6, MessageTyped
           DEF Indexer, Search, IndexTaskEvent, SkipTaskEvent, DropTaskEvent, Advance, Message,
               TypeOK
    <2>2. topic[k].task \in Tasks
        BY <2>1, EventsTyped DEF Event
    <2>3. \A i \in 1..k : i = k \/ i \in 1..position["search"]
        BY <1>0
    <2>4. \A i \in 1..position["search"] : LastOfItsTask(i) => topic[i].task # topic[k].task
        BY <1>0, <2>1 DEF LastOfItsTask
    <2>5. CASE IndexTaskEvent
        <3>1. /\ index' = [index EXCEPT ![topic[k].task] = DocOf(topic[k].row)]
              /\ failed' = failed /\ dropped' = dropped
            BY <2>1, <2>5 DEF IndexTaskEvent
        <3>2. index'[topic[k].task] = DocOf(topic[k].row)
            BY <2>2, <3>1 DEF TypeOK
        <3>3. \A i \in 1..position["search"] :
                LastOfItsTask(i) => index'[topic[i].task] = index[topic[i].task]
            <4> SUFFICES ASSUME NEW i \in 1..position["search"], LastOfItsTask(i)
                         PROVE  index'[topic[i].task] = index[topic[i].task]
                OBVIOUS
            <4>1. topic[i].task # topic[k].task
                BY <2>4
            <4>2. i \in 1..Len(topic)
                BY <1>0, <2>1
            <4>3. topic[i].task \in Tasks
                BY <4>2, EventsTyped DEF Event
            <4> QED
                BY <3>1, <4>1, <4>3 DEF TypeOK
        <3>4. \A i \in 1..k : LastOfItsTask(i)' <=> LastOfItsTask(i)
            BY <2>1 DEF LastOfItsTask
        <3> HIDE DEF k
        <3> QED
            BY <2>1, <2>3, <3>1, <3>2, <3>3, <3>4 DEF IndexHoldsLast
    <2>6. CASE SkipTaskEvent
        <3>1. /\ index' = index /\ failed'["search"] = failed["search"] \cup {k}
              /\ dropped' = dropped
            BY <1>0, <2>1, <2>6 DEF SkipTaskEvent, TypeOK
        <3>2. \A i \in 1..k : LastOfItsTask(i)' <=> LastOfItsTask(i)
            BY <2>1 DEF LastOfItsTask
        <3> HIDE DEF k
        <3> QED
            BY <2>1, <2>3, <3>1, <3>2 DEF IndexHoldsLast
    <2>7. CASE DropTaskEvent
        <3>1. index' = index /\ failed' = failed /\ dropped' = dropped \cup {k}
            BY <2>1, <2>7 DEF DropTaskEvent
        <3>2. \A i \in 1..k : LastOfItsTask(i)' <=> LastOfItsTask(i)
            BY <2>1 DEF LastOfItsTask
        <3> HIDE DEF k
        <3> QED
            BY <2>1, <2>3, <3>1, <3>2 DEF IndexHoldsLast
    <2> QED
        BY <1>6, <2>5, <2>6, <2>7 DEF Indexer, Search
<1>7. CASE UNCHANGED vars
    BY <1>0, <1>1, <1>7 DEF vars, consumers
<1> QED
    BY <1>2, <1>3, <1>4, <1>5, <1>6, <1>7, StepCases

SearchInv == Typed /\ IndexHoldsLast

LEMMA SearchAlways == Spec => []SearchInv
<1>1. Init => SearchInv
    <2> SUFFICES ASSUME Init PROVE SearchInv
        OBVIOUS
    <2>1. position["search"] = 0 /\ Len(topic) = 0
        BY DEF Init, Groups
    <2> QED
        BY <2>1, TypedInit DEF Init, SearchInv, IndexHoldsLast
<1>2. SearchInv /\ [Next]_vars => SearchInv'
    BY TypedNext, IndexStep DEF SearchInv
<1> QED
    BY <1>1, <1>2, PTL DEF Spec

\* Whatever was delivered again, came late or was lost before it, the last event of an
\* order decides its document, unless that very event failed or met a stopping service.
THEOREM IndexFollows == Spec => []IndexFollowsTopic
<1>1. SearchInv => IndexFollowsTopic
    BY DEF SearchInv, IndexHoldsLast, IndexFollowsTopic, DocOf
<1> QED
    BY <1>1, SearchAlways, PTL

-----------------------------------------------------------------------------
(* Notifications *)

\* An event of an assignment names who was assigned.
NamesAssignee(event) == event.name = "task.assigned" => event.row.assignee # Null

EventsName ==
    /\ \A h \in Handlers : sending[h] # Null => NamesAssignee(sending[h])
    /\ \A i \in 1..Len(topic) : NamesAssignee(topic[i])

LEMMA NameStep ==
    ASSUME Typed, EventsName, [Next]_vars
    PROVE  EventsName'
<1> USE DEF Typed
<1>1. CASE UNCHANGED <<sending, topic>>
    BY <1>1 DEF EventsName
<1>2. ASSUME NEW h \in Handlers, NEW t \in Tasks, UpdateTask(h, t) PROVE EventsName'
    <2>1. PICK name \in Names, new \in Row :
            /\ new \in Written(rows[t], name)
            /\ sending' = [sending EXCEPT ![h] = [name |-> name, task |-> t, row |-> new]]
        BY <1>2 DEF UpdateTask, TaskToEvent, Written
    <2>2. NamesAssignee([name |-> name, task |-> t, row |-> new])
        BY <2>1 DEF NamesAssignee, Written
    <2>3. \A g \in Handlers : sending'[g] # Null => NamesAssignee(sending'[g])
        BY <2>1, <2>2 DEF EventsName, TypeOK
    <2>4. topic' = topic
        BY <1>2 DEF UpdateTask
    <2> QED
        BY <2>3, <2>4 DEF EventsName
<1>3. ASSUME NEW h \in Handlers, PublishTaskEvent(h) PROVE EventsName'
    <2>1. sending[h] # Null /\ sending[h] \in Event
        BY <1>3 DEF PublishTaskEvent, TypeOK
    <2>2. /\ Len(topic') = Len(topic) + 1 /\ \A i \in 1..Len(topic) : topic'[i] = topic[i]
          /\ topic'[Len(topic) + 1] = sending[h] /\ Len(topic) \in Nat
        BY <1>3, <2>1, Published DEF PublishTaskEvent, TypeOK
    <2>3. \A i \in 1..Len(topic') : NamesAssignee(topic'[i])
        BY <2>1, <2>2 DEF EventsName
    <2>4. \A g \in Handlers : sending'[g] # Null => NamesAssignee(sending'[g])
        BY <1>3 DEF PublishTaskEvent, EventsName, TypeOK
    <2> QED
        BY <2>3, <2>4 DEF EventsName
<1>4. ASSUME NEW h \in Handlers, LoseTaskEvent(h) PROVE EventsName'
    BY <1>4 DEF LoseTaskEvent, EventsName, TypeOK
<1>5. CASE \E g \in Groups : Commit(g) \/ Restart(g)
    BY <1>1, <1>5 DEF Commit, Restart, writers
<1>6. CASE Indexer \/ Audit \/ Notify
    BY <1>1, <1>6
       DEF Indexer, Search, IndexTaskEvent, SkipTaskEvent, DropTaskEvent, Audit, InsertEvent,
           FailAudit, Notify, ResolveRecipients, NotifyRecipient, SendNotificationEmail,
           EventNotified, FailNotify, writers
<1>7. CASE UNCHANGED vars
    BY <1>1, <1>7 DEF vars, writers
<1> QED
    BY <1>2, <1>3, <1>4, <1>5, <1>6, <1>7, StepCases

\* Half way through a fan-out, who was assigned the order is told or still to be told.
FanoutKnows ==
    fanout.at # "idle" /\ Message("notifier").name = "task.assigned" =>
        LET to == Message("notifier").row.assignee IN
        \/ to \in fanout.to
        \/ [offset |-> Offset("notifier"), to |-> to] \in told

NotifyInv == Typed /\ EventsName /\ FanoutKnows /\ AssigneeTold

LEMMA NotifyStep ==
    ASSUME Typed, Typed', EventsName, FanoutKnows, AssigneeTold, [Next]_vars
    PROVE  FanoutKnows' /\ AssigneeTold'
<1> USE DEF Typed
<1>0. "notifier" \in Groups /\ position["notifier"] \in Nat /\ position["notifier"] <= Len(topic)
    BY DEF Groups, TypeOK
<1>1. ASSUME position'["notifier"] <= position["notifier"],
             \A i \in 1..position["notifier"] : topic'[i] = topic[i],
             told \subseteq told', failed["notifier"] \subseteq failed'["notifier"]
      PROVE  AssigneeTold'
    <2>1. position'["notifier"] \in Nat
        BY <1>0 DEF TypeOK
    <2>2. 1..position'["notifier"] \subseteq 1..position["notifier"]
        BY <1>0, <1>1, <2>1
    <2> QED
        BY <1>1, <2>2 DEF AssigneeTold
<1>2. ASSUME NEW h \in Handlers, PublishTaskEvent(h) PROVE FanoutKnows' /\ AssigneeTold'
    <2>1. sending[h] \in Event
        BY <1>2 DEF PublishTaskEvent, TypeOK
    <2>2. /\ \A i \in 1..Len(topic) : topic'[i] = topic[i] /\ Len(topic) \in Nat
        BY <1>2, <2>1, Published DEF PublishTaskEvent, TypeOK
    <2>3. position' = position /\ failed' = failed /\ fanout' = fanout /\ told' = told /\ up' = up
        BY <1>2 DEF PublishTaskEvent, consumers
    <2>4. AssigneeTold'
        BY <1>0, <1>1, <2>2, <2>3
    <2>5. fanout.at # "idle" => Message("notifier")' = Message("notifier")
        BY <1>0, <2>2, <2>3, MessageTyped DEF FanoutHasMessage, Message, Offset
    <2> QED
        BY <2>3, <2>4, <2>5 DEF FanoutKnows, Offset
<1>3. ASSUME UNCHANGED <<topic, told, fanout>>, position'["notifier"] = position["notifier"],
             failed'["notifier"] = failed["notifier"]
      PROVE  FanoutKnows' /\ AssigneeTold'
    BY <1>0, <1>1, <1>3 DEF FanoutKnows, Message, Offset
<1>4. CASE \E h \in Handlers : (\E t \in Tasks : UpdateTask(h, t)) \/ LoseTaskEvent(h)
    BY <1>3, <1>4 DEF UpdateTask, LoseTaskEvent, consumers
<1>5. ASSUME NEW g \in Groups, Commit(g) PROVE FanoutKnows' /\ AssigneeTold'
    BY <1>3, <1>5 DEF Commit, writers
<1>6. ASSUME NEW g \in Groups, Restart(g) PROVE FanoutKnows' /\ AssigneeTold'
    <2>1. CASE g # "notifier"
        BY <1>0, <1>3, <1>6, <2>1 DEF Restart, TypeOK, writers
    <2>2. CASE g = "notifier"
        <3>1. fanout'.at = "idle" /\ committed["notifier"] <= position["notifier"]
            BY <1>0, <1>6, <2>2 DEF Restart, Waiting, TypeOK
        <3>2. AssigneeTold'
            BY <1>0, <1>1, <1>6, <2>2, <3>1 DEF Restart, TypeOK, writers
        <3> QED
            BY <3>1, <3>2 DEF FanoutKnows
    <2> QED
        BY <2>1, <2>2
<1>7. CASE Indexer \/ Audit
    <2>1. failed["notifier"] = failed'["notifier"] /\ position'["notifier"] = position["notifier"]
        BY <1>0, <1>7
           DEF Audit, InsertEvent, FailAudit, Indexer, Search, IndexTaskEvent, SkipTaskEvent,
               DropTaskEvent, Advance, consumers, TypeOK
    <2>2. UNCHANGED <<topic, told, fanout>>
        BY <1>7 DEF Audit, InsertEvent, FailAudit, Indexer, Search, IndexTaskEvent,
                    SkipTaskEvent, DropTaskEvent
    <2> QED
        BY <1>3, <2>1, <2>2
<1>8. CASE ResolveRecipients
    <2>1. AssigneeTold'
        BY <1>0, <1>1, <1>8 DEF ResolveRecipients, consumers
    <2>2. Message("notifier") = topic[Offset("notifier")] /\ Offset("notifier") \in 1..Len(topic)
        BY <1>0, <1>8, MessageTyped DEF ResolveRecipients, Message
    <2>3. Message("notifier").name = "task.assigned" => Message("notifier").row.assignee # Null
        BY <2>2 DEF EventsName, NamesAssignee
    <2>4. Message("notifier").name = "task.assigned" =>
            Message("notifier").row.assignee \in fanout'.to
        BY <1>8, <2>3 DEF ResolveRecipients, RecipientsFor
    <2>5. Message("notifier")' = Message("notifier")
        BY <1>8 DEF ResolveRecipients, Message, Offset, consumers
    <2> QED
        BY <2>1, <2>4, <2>5 DEF FanoutKnows
<1>9. ASSUME NEW u \in Users, NotifyRecipient(u) PROVE FanoutKnows' /\ AssigneeTold'
    <2>1. AssigneeTold'
        BY <1>0, <1>1, <1>9 DEF NotifyRecipient, consumers
    <2>2. Message("notifier")' = Message("notifier") /\ Offset("notifier")' = Offset("notifier")
        BY <1>9 DEF NotifyRecipient, Message, Offset, consumers
    <2>3. /\ fanout'.to = fanout.to \ {u} /\ fanout.at # "idle"
          /\ told' = told \cup {[offset |-> Offset("notifier"), to |-> u]}
        BY <1>9 DEF NotifyRecipient
    <2> QED
        BY <2>1, <2>2, <2>3 DEF FanoutKnows
<1>10. CASE SendNotificationEmail
    <2>1. AssigneeTold'
        BY <1>0, <1>1, <1>10 DEF SendNotificationEmail, consumers
    <2>2. Message("notifier")' = Message("notifier") /\ Offset("notifier")' = Offset("notifier")
        BY <1>10 DEF SendNotificationEmail, Message, Offset, consumers
    <2>3. fanout'.to = fanout.to /\ fanout.at # "idle" /\ told' = told
        BY <1>10 DEF SendNotificationEmail, TypeOK, Fanout
    <2> QED
        BY <2>1, <2>2, <2>3 DEF FanoutKnows
<1>11. CASE EventNotified \/ FailNotify
    <2> DEFINE k == position["notifier"] + 1
    <2>1. HasMessage("notifier") /\ fanout'.at = "idle" /\ told' = told /\ topic' = topic
        BY <1>11 DEF EventNotified, FailNotify, FanoutHasMessage, Waiting
    <2>2. Offset("notifier") = k /\ Message("notifier") = topic[k] /\ position'["notifier"] = k
        BY <1>0, <1>11, <2>1, MessageTyped
           DEF EventNotified, FailNotify, Advance, TypeOK, Message
    <2>3. \A i \in 1..k : i = k \/ i \in 1..position["notifier"]
        BY <1>0
    <2>4. failed["notifier"] \subseteq failed'["notifier"]
        BY <1>0, <1>11 DEF EventNotified, FailNotify, TypeOK
    <2>5. topic[k].name = "task.assigned" =>
            k \in failed'["notifier"] \/ [offset |-> k, to |-> topic[k].row.assignee] \in told
        <3>1. CASE EventNotified
            BY <2>2, <3>1 DEF EventNotified, FanoutKnows
        <3>2. CASE FailNotify
            BY <1>0, <2>2, <3>2 DEF FailNotify, TypeOK
        <3> QED
            BY <1>11, <3>1, <3>2
    <2> HIDE DEF k
    <2>6. AssigneeTold'
        BY <2>1, <2>2, <2>3, <2>4, <2>5 DEF AssigneeTold
    <2> QED
        BY <2>1, <2>6 DEF FanoutKnows
<1>12. CASE UNCHANGED vars
    BY <1>3, <1>12 DEF vars, consumers
<1> QED
    BY <1>2, <1>4, <1>5, <1>6, <1>7, <1>8, <1>9, <1>10, <1>11, <1>12, StepCases DEF Notify

LEMMA NotifyAlways == Spec => []NotifyInv
<1>1. Init => NotifyInv
    <2> SUFFICES ASSUME Init PROVE NotifyInv
        OBVIOUS
    <2>1. position["notifier"] = 0 /\ Len(topic) = 0 /\ fanout.at = "idle"
        BY DEF Init, Groups, Waiting
    <2> QED
        BY <2>1, TypedInit DEF Init, NotifyInv, EventsName, FanoutKnows, AssigneeTold
<1>2. NotifyInv /\ [Next]_vars => NotifyInv'
    BY TypedNext, NameStep, NotifyStep DEF NotifyInv
<1> QED
    BY <1>1, <1>2, PTL DEF Spec

\* No crash in the middle of a fan-out loses the one who was assigned an order.
THEOREM AssigneesTold == Spec => []AssigneeTold
<1>1. NotifyInv => AssigneeTold
    BY DEF NotifyInv
<1> QED
    BY <1>1, NotifyAlways, PTL
=============================================================================
