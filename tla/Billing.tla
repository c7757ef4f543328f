------------------------------ MODULE Billing ------------------------------
(***************************************************************************)
(* How an order gets paid, across four parties that share no transaction:  *)
(*   - rustledger (domain-services/rustledger): the bills table, its REST  *)
(*     handlers, and the producer of the rustledger.bills topic;           *)
(*   - Stripe: checkout sessions, and the webhook it posts (external);     *)
(*   - the rustledger.bills topic;                                         *)
(*   - task-service's consumer of it, which moves the order done -> paid.  *)
(* A call in flight awaits between its steps: create_bill asks             *)
(* task-service and then inserts, create_checkout_session reads the bill   *)
(* and then asks Stripe, publish_bill and stripe_webhook update the bill   *)
(* and then publish, best effort.                                          *)
(***************************************************************************)
EXTENDS Naturals, Sequences

CONSTANTS
    Orders,     \* orders under review or beyond
    Sessions,   \* Stripe checkout session ids not used yet
    Calls,      \* slots of rustledger handlers in flight
    Null

ASSUME NullAssumption == Null \notin Orders \cup Sessions

VARIABLES
    orders,     \* tasks.status of each order, as task-service keeps it
    bills,      \* rustledger.bills, NoBill for an order without one
    sessions,   \* Stripe's checkout sessions
    calls,      \* the handlers in flight
    connected,  \* the producer's OnceCell is set
    topic,      \* the rustledger.bills topic, oldest first
    offset,     \* the offset task-service's consumer group has committed
    handled     \* the message after it has been handled, not yet committed

ledger == <<bills, calls, connected>>
consumer == <<offset, handled>>
vars == <<orders, bills, sessions, calls, connected, topic, offset, handled>>

-----------------------------------------------------------------------------

\* `session` is stripe_checkout_session_id; `published` is published_at set.
Bill == [status : {"none", "unpaid", "paid"}, published : BOOLEAN,
         session : Sessions \cup {Null}]

NoBill == [status |-> "none", published |-> FALSE, session |-> Null]

\* `order` is client_reference_id; `staff`: opened by a customer who is staff too.
Session == [status : {"unused", "open", "charged", "expired"},
            order : Orders \cup {Null}, staff : BOOLEAN]

Unused == [status |-> "unused", order |-> Null, staff |-> FALSE]

Event == [name : {"bill.published", "bill.paid"}, order : Orders]

\* `name` is the event a call at "publish" is about to publish.
Call == [at : {"idle", "insert", "mint", "publish"}, order : Orders \cup {Null},
         staff : BOOLEAN, name : {"none", "bill.published", "bill.paid"}]

Idle == [at |-> "idle", order |-> Null, staff |-> FALSE, name |-> "none"]

TypeOK ==
    /\ orders \in [Orders -> {"reviewer", "done", "paid"}]
    /\ bills \in [Orders -> Bill]
    /\ sessions \in [Sessions -> Session]
    /\ calls \in [Calls -> Call]
    /\ connected \in BOOLEAN
    /\ topic \in Seq(Event)
    /\ offset \in 0..Len(topic)
    /\ handled \in BOOLEAN
    /\ handled => offset < Len(topic)

Init ==
    /\ orders = [o \in Orders |-> "reviewer"]
    /\ bills = [o \in Orders |-> NoBill]
    /\ sessions = [s \in Sessions |-> Unused]
    /\ calls = [c \in Calls |-> Idle]
    /\ connected = FALSE
    /\ topic = <<>>
    /\ offset = 0
    /\ handled = FALSE

Begin(c, at, o, staff, name) ==
    /\ calls[c] = Idle
    /\ calls' = [calls EXCEPT ![c] = [at |-> at, order |-> o, staff |-> staff, name |-> name]]

End(c) == calls' = [calls EXCEPT ![c] = Idle]

-----------------------------------------------------------------------------
(* create_bill, by the order's owner or an administrator *)

\* The order's review ends in task-service (TaskService.tla, ApproveTask).
ApproveOrder(o) ==
    /\ orders[o] = "reviewer"
    /\ orders' = [orders EXCEPT ![o] = "done"]
    /\ UNCHANGED <<ledger, sessions, topic, consumer>>

\* fetch_task, then a 409 unless the order is done.
FetchTask(c, o) ==
    /\ orders[o] = "done"
    /\ Begin(c, "insert", o, FALSE, "none")
    /\ UNCHANGED <<orders, bills, sessions, connected, topic, consumer>>

\* INSERT; the unique index on task_id refuses a second bill.
InsertBill(c) ==
    LET o == calls[c].order IN
    /\ calls[c].at = "insert"
    /\ bills' = IF bills[o] = NoBill THEN [bills EXCEPT ![o].status = "unpaid"] ELSE bills
    /\ End(c)
    /\ UNCHANGED <<orders, sessions, connected, topic, consumer>>

-----------------------------------------------------------------------------
(* publish_bill, by an account manager *)

PublishBill(c, o) ==
    /\ bills[o].status # "none" /\ ~bills[o].published
    /\ bills' = [bills EXCEPT ![o].published = TRUE]
    /\ Begin(c, "publish", o, FALSE, "bill.published")
    /\ UNCHANGED <<orders, sessions, connected, topic, consumer>>

-----------------------------------------------------------------------------
(* create_checkout_session, by the customer *)

\* Deviation: a draft is payable.
FetchAnyBill(c, o, staff) ==
    /\ bills[o].status = "unpaid"
    /\ Begin(c, "mint", o, staff, "none")
    /\ UNCHANGED <<orders, bills, sessions, connected, topic, consumer>>

\* fetch_authorized_bill: a draft does not exist for a customer who is not staff.
FetchBill(c, o, staff) ==
    /\ bills[o].status = "unpaid"
    /\ staff \/ bills[o].published
    /\ Begin(c, "mint", o, staff, "none")
    /\ UNCHANGED <<orders, bills, sessions, connected, topic, consumer>>

\* Always a new session: an open one of the same bill is not looked up.
MintSession(c, s) ==
    /\ calls[c].at = "mint"
    /\ sessions[s] = Unused
    /\ sessions' = [sessions EXCEPT ![s] =
                        [status |-> "open", order |-> calls[c].order, staff |-> calls[c].staff]]
    /\ End(c)
    /\ UNCHANGED <<orders, bills, connected, topic, consumer>>

-----------------------------------------------------------------------------
(* Stripe *)

Charge(s) ==
    /\ sessions[s].status = "open"
    /\ sessions' = [sessions EXCEPT ![s].status = "charged"]
    /\ UNCHANGED <<orders, ledger, topic, consumer>>

Expire(s) ==
    /\ sessions[s].status = "open"
    /\ sessions' = [sessions EXCEPT ![s].status = "expired"]
    /\ UNCHANGED <<orders, ledger, topic, consumer>>

-----------------------------------------------------------------------------
(* stripe_webhook: checkout.session.completed, posted until answered and     *)
(* possibly again after that                                                 *)

\* Deviation: UPDATE ... WHERE task_id = $1 alone.
MarkAnyBillPaid(c, s) ==
    LET o == sessions[s].order IN
    /\ sessions[s].status = "charged"
    /\ bills' = [bills EXCEPT ![o].status = "paid", ![o].session = s]
    /\ Begin(c, "publish", o, FALSE, "bill.paid")
    /\ UNCHANGED <<orders, sessions, connected, topic, consumer>>

\* Deviation: UPDATE ... AND published_at IS NOT NULL.
MarkPublishedBillPaid(c, s) ==
    LET o == sessions[s].order IN
    /\ sessions[s].status = "charged"
    /\ bills[o].status = "unpaid" /\ bills[o].published
    /\ bills' = [bills EXCEPT ![o].status = "paid", ![o].session = s]
    /\ Begin(c, "publish", o, FALSE, "bill.paid")
    /\ UNCHANGED <<orders, sessions, connected, topic, consumer>>

\* A delivery that finds the bill paid is answered and changes nothing.
MarkBillPaid(c, s) ==
    LET o == sessions[s].order IN
    /\ sessions[s].status = "charged"
    /\ bills[o].status = "unpaid"
    /\ bills' = [bills EXCEPT ![o].status = "paid", ![o].session = s]
    /\ Begin(c, "publish", o, FALSE, "bill.paid")
    /\ UNCHANGED <<orders, sessions, connected, topic, consumer>>

-----------------------------------------------------------------------------
(* The producer, and what can go wrong in rustledger *)

\* Without a connection the event is dropped.
PublishBillEvent(c) ==
    LET event == [name |-> calls[c].name, order |-> calls[c].order] IN
    /\ calls[c].at = "publish"
    /\ topic' = IF connected THEN Append(topic, event) ELSE topic
    /\ End(c)
    /\ UNCHANGED <<orders, bills, sessions, connected, consumer>>

\* A query, task-service, Stripe or the broker fails; nothing is retried.
FailCall(c) ==
    /\ calls[c] # Idle
    /\ End(c)
    /\ UNCHANGED <<orders, bills, sessions, connected, topic, consumer>>

Connect ==
    /\ ~connected
    /\ connected' = TRUE
    /\ UNCHANGED <<orders, bills, sessions, calls, topic, consumer>>

\* rustledger restarts: the calls are gone, the producer connects anew.
Restart ==
    /\ connected
    /\ connected' = FALSE
    /\ calls' = [c \in Calls |-> Idle]
    /\ UNCHANGED <<orders, bills, sessions, topic, consumer>>

-----------------------------------------------------------------------------
(* task-service's consumer of rustledger.bills *)

Current == topic[offset + 1]

\* Deviation: the name of the event is not looked at.
PaysWhatever(event) == orders[event.order] = "done"

Pays(event) == event.name = "bill.paid" /\ orders[event.order] = "done"

HandleMessage ==
    /\ ~handled /\ offset < Len(topic)
    /\ orders' = IF Pays(Current) THEN [orders EXCEPT ![Current.order] = "paid"] ELSE orders
    /\ handled' = TRUE
    /\ UNCHANGED <<ledger, sessions, topic, offset>>

\* markPaid throws; the error is caught and logged, and the message is done with.
FailMessage ==
    /\ ~handled /\ offset < Len(topic)
    /\ handled' = TRUE
    /\ UNCHANGED <<orders, ledger, sessions, topic, offset>>

CommitOffset ==
    /\ handled
    /\ offset' = offset + 1
    /\ handled' = FALSE
    /\ UNCHANGED <<orders, ledger, sessions, topic>>

\* The consumer stops before the commit: the message will be delivered again.
CrashConsumer ==
    /\ handled
    /\ handled' = FALSE
    /\ UNCHANGED <<orders, ledger, sessions, topic, offset>>

-----------------------------------------------------------------------------

Work(c) ==
    \/ InsertBill(c)
    \/ \E s \in Sessions : MintSession(c, s)
    \/ PublishBillEvent(c)

Next ==
    \/ \E o \in Orders : ApproveOrder(o)
    \/ \E c \in Calls, o \in Orders : FetchTask(c, o) \/ PublishBill(c, o)
    \/ \E c \in Calls, o \in Orders, staff \in BOOLEAN : FetchBill(c, o, staff)
    \/ \E c \in Calls, s \in Sessions : MarkBillPaid(c, s)
    \/ \E c \in Calls : Work(c) \/ FailCall(c)
    \/ \E s \in Sessions : Charge(s) \/ Expire(s)
    \/ Connect
    \/ Restart
    \/ HandleMessage
    \/ FailMessage
    \/ CommitOffset
    \/ CrashConsumer

Spec == Init /\ [][Next]_vars

(* Calls end one way or the other, the producer connects when it can, Stripe  *)
(* posts a completed session until a post succeeds, and a consumer that is    *)
(* restarted again and again does get to commit a message it handled.         *)
Fairness ==
    /\ \A c \in Calls : WF_vars(Work(c) \/ FailCall(c))
    /\ \A s \in Sessions : SF_vars(\E c \in Calls : MarkBillPaid(c, s))
    /\ WF_vars(Connect)
    /\ WF_vars(HandleMessage)
    /\ SF_vars(CommitOffset)

FairSpec == Spec /\ Fairness

-----------------------------------------------------------------------------
(* Properties *)

\* The three stores agree on a payment although no transaction spans them: an
\* order is paid only if rustledger has recorded its bill paid, by a session of
\* that very order which Stripe has charged.
PaidIsCharged ==
    \A o \in Orders :
        /\ orders[o] = "paid" => bills[o].status = "paid"
        /\ bills[o].status = "paid" =>
            /\ bills[o].session # Null
            /\ sessions[bills[o].session].status = "charged"
            /\ sessions[bills[o].session].order = o

\* Whoever waits between its check and its write, only an approved order is
\* billed, and only a published bill is offered to a customer.
OfferedInOrder ==
    /\ \A o \in Orders : bills[o].status # "none" => orders[o] \in {"done", "paid"}
    /\ \A s \in Sessions :
        sessions[s].status # "unused" /\ ~sessions[s].staff =>
            bills[sessions[s].order].published

\* Double clicks, redelivered and duplicate webhooks publish each fact once:
\* downstream, the customer is notified once and the order is paid once.
PublishedOnce ==
    LET Pending(c) == [name |-> calls[c].name, order |-> calls[c].order]
        Sending == {c \in Calls : calls[c].at = "publish"}
    IN
    /\ \A i, j \in DOMAIN topic : topic[i] = topic[j] => i = j
    /\ \A i \in DOMAIN topic : \A c \in Sending : topic[i] # Pending(c)
    /\ \A c, d \in Sending : Pending(c) = Pending(d) => c = d

\* The first payment recorded stands, also when a second session of the same
\* bill is charged.
FirstPaymentStands ==
    [][\A o \in Orders : bills[o].status = "paid" =>
            bills'[o].status = "paid" /\ bills'[o].session = bills[o].session]_vars

\* Money taken is recorded in the end, through failed posts and restarts.
ChargeRecorded ==
    \A o \in Orders :
        (\E s \in Sessions : sessions[s].status = "charged" /\ sessions[s].order = o)
            ~> bills[o].status = "paid"

\* What the payment diagram of the docs shows: rustledger marks the bill paid,
\* publishes bill.paid, and task-service flips the order to paid.
PaidBillReachesOrder ==
    \A o \in Orders : bills[o].status = "paid" ~> orders[o] = "paid"
=============================================================================
