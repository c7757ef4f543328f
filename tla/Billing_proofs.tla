--------------------------- MODULE Billing_proofs ---------------------------
(***************************************************************************)
(* Proofs about Billing, for any number of orders, checkout sessions and   *)
(* calls in flight.  No transaction spans order, bill and session, so the  *)
(* inductive invariant says what each party may rely on while it waits:    *)
(* a call, that what it saw before its await still holds; the consumer,    *)
(* that what the topic tells is true of the bill.                          *)
(***************************************************************************)
EXTENDS Billing, SequenceTheorems, TLAPS

\* What a call saw still holds when it goes on.
CallsKnow ==
    \A c \in Calls :
        LET o == calls[c].order IN
        /\ calls[c].at # "idle" => o \in Orders
        /\ calls[c].at = "insert" => orders[o] \in {"done", "paid"}
        /\ calls[c].at = "mint" =>
            bills[o].status # "none" /\ (calls[c].staff \/ bills[o].published)
        /\ calls[c].at = "publish" => calls[c].name # "none"

Tells(event) ==
    /\ event.name = "bill.paid" => bills[event.order].status = "paid"
    /\ event.name = "bill.published" => bills[event.order].published

Pending(c) == [name |-> calls[c].name, order |-> calls[c].order]

\* No event, sent or about to be, tells what has not happened.
EventsTrue ==
    /\ \A i \in DOMAIN topic : Tells(topic[i])
    /\ \A c \in Calls : calls[c].at = "publish" => Tells(Pending(c))

\* A session is minted for a bill that exists.
SessionsKnow ==
    \A s \in Sessions : sessions[s].status # "unused" =>
        sessions[s].order \in Orders /\ bills[sessions[s].order].status # "none"

BillingInv ==
    /\ TypeOK
    /\ CallsKnow
    /\ EventsTrue
    /\ SessionsKnow
    /\ PaidIsCharged
    /\ OfferedInOrder

\* What every step does to the three stores: bills and orders only move forward,
\* a session keeps its order and a charge stands.
Onward ==
    /\ \A o \in Orders :
        /\ orders[o] \in {"done", "paid"} => orders'[o] \in {"done", "paid"}
        /\ bills[o].status # "none" => bills'[o].status # "none"
        /\ bills[o].status = "paid" => bills'[o].status = "paid" /\ bills'[o].session = bills[o].session
        /\ bills[o].published => bills'[o].published
    /\ \A s \in Sessions :
        /\ sessions[s].status # "unused" =>
            /\ sessions'[s].status # "unused"
            /\ sessions'[s].order = sessions[s].order
            /\ sessions'[s].staff = sessions[s].staff
        /\ sessions[s].status = "charged" => sessions'[s].status = "charged"

-----------------------------------------------------------------------------

\* Nothing is billed, offered, sent or paid at the start.
LEMMA BillingInit == Init => BillingInv
<1> SUFFICES ASSUME Init PROVE BillingInv
    OBVIOUS
<1>1. TypeOK
    <2>1. topic \in Seq(Event) /\ Len(topic) = 0
        BY DEF Init
    <2>2. orders \in [Orders -> {"reviewer", "done", "paid"}] /\ bills \in [Orders -> Bill]
        BY DEF Init, Bill, NoBill
    <2>3. sessions \in [Sessions -> Session] /\ calls \in [Calls -> Call]
        BY DEF Init, Session, Unused, Call, Idle
    <2>4. connected \in BOOLEAN /\ ~handled /\ handled \in BOOLEAN /\ offset = 0
        BY DEF Init
    <2> QED
        BY <2>1, <2>2, <2>3, <2>4 DEF TypeOK
<1>2. CallsKnow /\ EventsTrue /\ SessionsKnow
    BY DEF Init, CallsKnow, EventsTrue, SessionsKnow, Idle, Unused
<1>3. PaidIsCharged /\ OfferedInOrder
    BY DEF Init, PaidIsCharged, OfferedInOrder, NoBill, Unused
<1> QED
    BY <1>1, <1>2, <1>3 DEF BillingInv

\* A call that begins at one of its steps is a call.
LEMMA BeginType ==
    ASSUME TypeOK, NEW c \in Calls, NEW o \in Orders, NEW staff \in BOOLEAN,
           NEW at \in {"insert", "mint", "publish"},
           NEW name \in {"none", "bill.published", "bill.paid"},
           Begin(c, at, o, staff, name)
    PROVE  /\ calls' \in [Calls -> Call]
           /\ calls[c].at = "idle"
           /\ calls'[c].at = at /\ calls'[c].order = o
           /\ calls'[c].staff = staff /\ calls'[c].name = name
           /\ \A d \in Calls : d # c => calls'[d] = calls[d]
BY DEF Begin, TypeOK, Call, Idle

\* A call that ends leaves the others alone.
LEMMA EndType ==
    ASSUME TypeOK, NEW c \in Calls, End(c)
    PROVE  /\ calls' \in [Calls -> Call]
           /\ calls'[c].at = "idle"
           /\ \A d \in Calls : d # c => calls'[d] = calls[d]
BY DEF End, TypeOK, Call, Idle

\* No step of rustledger, Stripe, the topic or the consumer leaves the types.
LEMMA BillingTypeStep == TypeOK /\ CallsKnow /\ SessionsKnow /\ [Next]_vars => TypeOK'
<1> SUFFICES ASSUME TypeOK, CallsKnow, SessionsKnow, [Next]_vars PROVE TypeOK'
    OBVIOUS
<1> USE DEF TypeOK, ledger, consumer
<1>1. ASSUME NEW o \in Orders, ApproveOrder(o) PROVE TypeOK'
    BY <1>1 DEF ApproveOrder
<1>2. ASSUME NEW c \in Calls, NEW o \in Orders, FetchTask(c, o) PROVE TypeOK'
    BY <1>2, BeginType DEF FetchTask
<1>3. ASSUME NEW c \in Calls, NEW o \in Orders, PublishBill(c, o) PROVE TypeOK'
    <2>1. bills' \in [Orders -> Bill]
        BY <1>3 DEF PublishBill, Bill
    <2> QED
        BY <1>3, <2>1, BeginType DEF PublishBill
<1>4. ASSUME NEW c \in Calls, NEW o \in Orders, NEW staff \in BOOLEAN, FetchBill(c, o, staff)
      PROVE  TypeOK'
    BY <1>4, BeginType DEF FetchBill
<1>5. ASSUME NEW c \in Calls, NEW s \in Sessions, MarkBillPaid(c, s) PROVE TypeOK'
    <2>1. sessions[s].order \in Orders
        BY <1>5 DEF MarkBillPaid, SessionsKnow
    <2>2. bills' \in [Orders -> Bill]
        BY <1>5, <2>1 DEF MarkBillPaid, Bill
    <2> QED
        BY <1>5, <2>1, <2>2, BeginType DEF MarkBillPaid
<1>6. ASSUME NEW c \in Calls, InsertBill(c) PROVE TypeOK'
    <2>1. bills' \in [Orders -> Bill]
        BY ZenonT(60), <1>6 DEF InsertBill, Bill
    <2> QED
        BY <1>6, <2>1, EndType DEF InsertBill
<1>7. ASSUME NEW c \in Calls, NEW s \in Sessions, MintSession(c, s) PROVE TypeOK'
    <2>1. calls[c].order \in Orders /\ calls[c].staff \in BOOLEAN
        BY <1>7 DEF MintSession, CallsKnow, Call
    <2>2. sessions' \in [Sessions -> Session]
        BY <1>7, <2>1 DEF MintSession, Session
    <2> QED
        BY <1>7, <2>2, EndType DEF MintSession
<1>8. ASSUME NEW c \in Calls, PublishBillEvent(c) PROVE TypeOK'
    <2> DEFINE event == [name |-> calls[c].name, order |-> calls[c].order]
    <2>1. event \in Event
        BY <1>8 DEF PublishBillEvent, CallsKnow, Call, Event
    <2>2. topic' \in Seq(Event) /\ Len(topic) <= Len(topic')
        BY <1>8, <2>1 DEF PublishBillEvent
    <2> QED
        BY <1>8, <2>2, EndType DEF PublishBillEvent
<1>9. ASSUME NEW c \in Calls, FailCall(c) PROVE TypeOK'
    BY <1>9, EndType DEF FailCall
<1>10. ASSUME NEW s \in Sessions, Charge(s) \/ Expire(s) PROVE TypeOK'
    BY SMTT(60), <1>10 DEF Charge, Expire, Session
<1>11. ASSUME Connect \/ Restart PROVE TypeOK'
    <2>1. Idle \in Call
        BY DEF Idle, Call
    <2>2. calls' \in [Calls -> Call] /\ connected' \in BOOLEAN
        BY <1>11, <2>1 DEF Connect, Restart
    <2> QED
        BY <1>11, <2>2 DEF Connect, Restart
<1>12. ASSUME HandleMessage PROVE TypeOK'
    BY <1>12 DEF HandleMessage, Current, Event
<1>13. ASSUME FailMessage \/ CommitOffset \/ CrashConsumer PROVE TypeOK'
    <2>1. Len(topic) \in Nat /\ UNCHANGED <<orders, bills, sessions, calls, connected, topic>>
        BY <1>13 DEF FailMessage, CommitOffset, CrashConsumer
    <2>2. handled' \in BOOLEAN
        BY <1>13 DEF FailMessage, CommitOffset, CrashConsumer
    <2>3. CASE FailMessage
        BY <2>1, <2>2, <2>3 DEF FailMessage
    <2>4. CASE CommitOffset
        <3>1. handled /\ offset' = offset + 1 /\ handled' = FALSE
            BY <2>4 DEF CommitOffset
        <3>2. offset < Len(topic)
            BY <3>1
        <3>3. offset' \in 0..Len(topic)
            BY <2>1, <3>1, <3>2
        <3> QED
            BY <2>1, <2>2, <3>1, <3>3
    <2>5. CASE CrashConsumer
        BY <2>1, <2>2, <2>5 DEF CrashConsumer
    <2> QED
        BY <1>13, <2>3, <2>4, <2>5
<1>14. ASSUME UNCHANGED vars PROVE TypeOK'
    BY <1>14 DEF vars
<1> QED
    BY <1>1, <1>2, <1>3, <1>4, <1>5, <1>6, <1>7, <1>8, <1>9, <1>10, <1>11, <1>12, <1>13,
       <1>14 DEF Next, Work

\* Every step moves bills, orders and sessions onward only.
LEMMA OnwardStep == TypeOK /\ CallsKnow /\ SessionsKnow /\ [Next]_vars => Onward
<1> SUFFICES ASSUME TypeOK, CallsKnow, SessionsKnow, [Next]_vars PROVE Onward
    OBVIOUS
<1> USE DEF TypeOK, Onward, ledger, consumer
<1>1. ASSUME NEW o \in Orders, ApproveOrder(o) PROVE Onward
    BY <1>1 DEF ApproveOrder
<1>2. ASSUME NEW c \in Calls, NEW o \in Orders,
             FetchTask(c, o) \/ \E staff \in BOOLEAN : FetchBill(c, o, staff)
      PROVE  Onward
    BY <1>2 DEF FetchTask, FetchBill
<1>3. ASSUME NEW c \in Calls, NEW o \in Orders, PublishBill(c, o) PROVE Onward
    BY <1>3 DEF PublishBill, Bill
<1>4. ASSUME NEW c \in Calls, NEW s \in Sessions, MarkBillPaid(c, s) PROVE Onward
    <2>1. sessions[s].order \in Orders
        BY <1>4 DEF MarkBillPaid, SessionsKnow
    <2> QED
        BY <1>4, <2>1 DEF MarkBillPaid, Bill
<1>5. ASSUME NEW c \in Calls, InsertBill(c) PROVE Onward
    <2>1. NoBill.status = "none"
        BY DEF NoBill
    <2> QED
        BY <1>5, <2>1 DEF InsertBill, Bill, CallsKnow
<1>6. ASSUME NEW c \in Calls, NEW s \in Sessions, MintSession(c, s) PROVE Onward
    <2>1. sessions[s].status = "unused"
        BY <1>6 DEF MintSession, Unused
    <2> QED
        BY <1>6, <2>1 DEF MintSession, Session
<1>7. ASSUME NEW c \in Calls, PublishBillEvent(c) \/ FailCall(c) PROVE Onward
    BY <1>7 DEF PublishBillEvent, FailCall
<1>8. ASSUME NEW s \in Sessions, Charge(s) \/ Expire(s) PROVE Onward
    <2>1. sessions[s].status = "open" /\ UNCHANGED <<orders, bills>>
        BY <1>8 DEF Charge, Expire
    <2>2. PICK status \in {"charged", "expired"} :
            sessions' = [sessions EXCEPT ![s].status = status]
        BY <1>8 DEF Charge, Expire
    <2>3. \A t \in Sessions : t # s => sessions'[t] = sessions[t]
        BY <2>2
    <2>4. /\ sessions'[s].status = status
          /\ sessions'[s].order = sessions[s].order
          /\ sessions'[s].staff = sessions[s].staff
        BY <2>2 DEF Session
    <2> QED
        BY <2>1, <2>2, <2>3, <2>4
<1>9. ASSUME Connect \/ Restart \/ FailMessage \/ CommitOffset \/ CrashConsumer PROVE Onward
    BY <1>9 DEF Connect, Restart, FailMessage, CommitOffset, CrashConsumer
<1>10. ASSUME HandleMessage PROVE Onward
    BY <1>10 DEF HandleMessage
<1>11. ASSUME UNCHANGED vars PROVE Onward
    BY <1>11 DEF vars
<1> QED
    BY <1>1, <1>2, <1>3, <1>4, <1>5, <1>6, <1>7, <1>8, <1>9, <1>10, <1>11 DEF Next, Work

\* A call that the step leaves alone still knows what it knew, one that ends
\* knows nothing.
LEMMA StillKnows ==
    ASSUME BillingInv, Onward, NEW c \in Calls,
           calls'[c] = calls[c] \/ calls'[c].at = "idle"
    PROVE  LET o == calls'[c].order IN
           /\ calls'[c].at # "idle" => o \in Orders
           /\ calls'[c].at = "insert" => orders'[o] \in {"done", "paid"}
           /\ calls'[c].at = "mint" =>
                bills'[o].status # "none" /\ (calls'[c].staff \/ bills'[o].published)
           /\ calls'[c].at = "publish" => calls'[c].name # "none"
           /\ calls'[c].at = "publish" => Tells(Pending(c))'
<1>1. CASE calls'[c].at = "idle"
    BY <1>1
<1>2. CASE calls'[c] = calls[c] /\ calls[c].at # "idle"
    <2>1. calls[c].order \in Orders
        BY <1>2 DEF BillingInv, CallsKnow
    <2>2. calls[c].at = "publish" => Tells(Pending(c))'
        BY <1>2, <2>1 DEF BillingInv, EventsTrue, Tells, Pending, Onward
    <2> QED
        BY <1>2, <2>1, <2>2 DEF BillingInv, CallsKnow, Onward
<1> QED
    BY <1>1, <1>2

\* A step that begins or ends no call but c leaves the others what they were.
OnlyCall(c) == \A d \in Calls : d # c => calls'[d] = calls[d]

\* Whatever a call waits for, what it saw stands and what it will tell is true.
LEMMA CallsStep == BillingInv /\ [Next]_vars =>
    CallsKnow' /\ \A c \in Calls : calls'[c].at = "publish" => Tells(Pending(c))'
<1> DEFINE Goal ==
        CallsKnow' /\ \A c \in Calls : calls'[c].at = "publish" => Tells(Pending(c))'
<1> SUFFICES ASSUME BillingInv, [Next]_vars PROVE Goal
    OBVIOUS
<1>a. Onward
    BY OnwardStep DEF BillingInv
<1>b. ASSUME \A c \in Calls : calls'[c] = calls[c] \/ calls'[c].at = "idle" PROVE Goal
    BY <1>a, <1>b, StillKnows DEF CallsKnow
<1>c. ASSUME NEW c \in Calls, OnlyCall(c),
             LET o == calls'[c].order IN
             /\ o \in Orders
             /\ calls'[c].at = "insert" => orders'[o] \in {"done", "paid"}
             /\ calls'[c].at = "mint" =>
                    bills'[o].status # "none" /\ (calls'[c].staff \/ bills'[o].published)
             /\ calls'[c].at = "publish" => calls'[c].name # "none"
             /\ calls'[c].at = "publish" => Tells(Pending(c))'
      PROVE  Goal
    BY <1>a, <1>c, StillKnows DEF CallsKnow, OnlyCall
<1>1. ASSUME NEW c \in Calls, NEW o \in Orders, FetchTask(c, o) PROVE Goal
    <2>1. OnlyCall(c) /\ calls'[c].at = "insert" /\ calls'[c].order = o
        BY <1>1, BeginType DEF FetchTask, OnlyCall, BillingInv
    <2>2. orders'[o] = "done"
        BY <1>1 DEF FetchTask
    <2> QED
        BY <1>c, <2>1, <2>2
<1>2. ASSUME NEW c \in Calls, NEW o \in Orders, PublishBill(c, o) PROVE Goal
    <2>1. OnlyCall(c) /\ calls'[c].at = "publish" /\ calls'[c].order = o
            /\ calls'[c].name = "bill.published"
        BY <1>2, BeginType DEF PublishBill, OnlyCall, BillingInv
    <2>2. bills'[o].published
        BY <1>2 DEF PublishBill, BillingInv, TypeOK, Bill
    <2>3. Tells(Pending(c))'
        BY <2>1, <2>2 DEF Tells, Pending
    <2> QED
        BY <1>c, <2>1, <2>3
<1>3. ASSUME NEW c \in Calls, NEW o \in Orders, NEW staff \in BOOLEAN, FetchBill(c, o, staff)
      PROVE  Goal
    <2>1. OnlyCall(c) /\ calls'[c].at = "mint" /\ calls'[c].order = o /\ calls'[c].staff = staff
        BY <1>3, BeginType DEF FetchBill, OnlyCall, BillingInv
    <2>2. bills'[o].status # "none" /\ (staff \/ bills'[o].published)
        BY <1>3 DEF FetchBill
    <2> QED
        BY <1>c, <2>1, <2>2
<1>4. ASSUME NEW c \in Calls, NEW s \in Sessions, MarkBillPaid(c, s) PROVE Goal
    <2> DEFINE o == sessions[s].order
    <2>1. o \in Orders
        BY <1>4 DEF MarkBillPaid, BillingInv, SessionsKnow
    <2>2. OnlyCall(c) /\ calls'[c].at = "publish" /\ calls'[c].order = o
            /\ calls'[c].name = "bill.paid"
        BY <1>4, <2>1, BeginType DEF MarkBillPaid, OnlyCall, BillingInv
    <2>3. bills'[o].status = "paid"
        BY <1>4, <2>1 DEF MarkBillPaid, BillingInv, TypeOK, Bill
    <2>4. Tells(Pending(c))'
        BY <2>2, <2>3 DEF Tells, Pending
    <2> QED
        BY <1>c, <2>1, <2>2, <2>4
<1>5. ASSUME NEW c \in Calls,
             InsertBill(c) \/ PublishBillEvent(c) \/ FailCall(c)
                \/ \E s \in Sessions : MintSession(c, s)
      PROVE  Goal
    <2>1. End(c)
        BY <1>5 DEF InsertBill, PublishBillEvent, FailCall, MintSession
    <2> QED
        BY <1>b, <2>1, EndType DEF BillingInv
<1>6. ASSUME Restart PROVE Goal
    <2>1. \A c \in Calls : calls'[c].at = "idle"
        BY <1>6 DEF Restart, Idle
    <2> QED
        BY <1>b, <2>1
<1>7. ASSUME UNCHANGED calls PROVE Goal
    BY <1>b, <1>7
<1>8. ASSUME \/ \E o \in Orders : ApproveOrder(o)
             \/ \E s \in Sessions : Charge(s) \/ Expire(s)
             \/ Connect \/ HandleMessage \/ FailMessage \/ CommitOffset \/ CrashConsumer
             \/ UNCHANGED vars
      PROVE  UNCHANGED calls
    BY <1>8 DEF ApproveOrder, Charge, Expire, Connect, HandleMessage, FailMessage,
                CommitOffset, CrashConsumer, vars, ledger
<1> QED
    BY <1>1, <1>2, <1>3, <1>4, <1>5, <1>6, <1>7, <1>8 DEF Next, Work

\* The topic only grows, by what a call was about to tell.
LEMMA TopicGrows == TypeOK /\ CallsKnow /\ [Next]_vars =>
    \/ UNCHANGED topic
    \/ \E c \in Calls :
        /\ calls[c].at = "publish" /\ calls'[c].at = "idle"
        /\ topic' = Append(topic, Pending(c)) /\ Pending(c) \in Event
        /\ OnlyCall(c)
<1> SUFFICES ASSUME TypeOK, CallsKnow, [Next]_vars, topic' # topic
             PROVE  \E c \in Calls :
                        /\ calls[c].at = "publish" /\ calls'[c].at = "idle"
                        /\ topic' = Append(topic, Pending(c)) /\ Pending(c) \in Event
                        /\ OnlyCall(c)
    OBVIOUS
<1>1. PICK c \in Calls : PublishBillEvent(c)
    BY DEF Next, Work, vars, ledger, consumer, ApproveOrder, FetchTask, PublishBill, FetchBill,
           MarkBillPaid, InsertBill, MintSession, FailCall, Charge, Expire, Connect, Restart,
           HandleMessage, FailMessage, CommitOffset, CrashConsumer
<1>2. Pending(c) \in Event
    BY <1>1 DEF PublishBillEvent, Pending, CallsKnow, TypeOK, Call, Event
<1>3. calls[c].at = "publish" /\ topic' = Append(topic, Pending(c))
    BY <1>1 DEF PublishBillEvent, Pending
<1>4. calls'[c].at = "idle" /\ OnlyCall(c)
    BY <1>1, EndType DEF PublishBillEvent, OnlyCall
<1> QED
    BY <1>2, <1>3, <1>4

\* What an event tells stays true.
LEMMA StaysTrue ==
    ASSUME Onward, NEW event \in Event, Tells(event)
    PROVE  Tells(event)'
BY DEF Onward, Tells, Event

\* Every event on the topic is true when it is appended, and stays so.
LEMMA TopicStep == BillingInv /\ [Next]_vars => \A i \in DOMAIN topic' : Tells(topic[i])'
<1> SUFFICES ASSUME BillingInv, [Next]_vars, NEW i \in DOMAIN topic'
             PROVE  Tells(topic[i])'
    OBVIOUS
<1>1. Onward
    BY OnwardStep DEF BillingInv
<1>2. topic \in Seq(Event) /\ \A k \in DOMAIN topic : Tells(topic[k]) /\ topic[k] \in Event
    BY DEF BillingInv, TypeOK, EventsTrue
<1>3. CASE UNCHANGED topic
    BY <1>1, <1>2, <1>3, StaysTrue DEF Tells
<1>4. ASSUME NEW c \in Calls, calls[c].at = "publish",
             topic' = Append(topic, Pending(c)), Pending(c) \in Event
      PROVE  Tells(topic[i])'
    <2>1. \E event \in Event : topic'[i] = event /\ Tells(event)
        <3>1. CASE i \in DOMAIN topic
            BY <1>2, <1>4, <3>1
        <3>2. CASE i \notin DOMAIN topic
            BY <1>2, <1>4, <3>2 DEF BillingInv, EventsTrue
        <3> QED
            BY <3>1, <3>2
    <2>2. PICK event \in Event : topic'[i] = event /\ Tells(event)
        BY <2>1
    <2>3. Tells(event)'
        BY <1>1, <2>2, StaysTrue
    <2> QED
        BY <2>2, <2>3 DEF Tells
<1> QED
    BY <1>3, <1>4, TopicGrows DEF BillingInv

\* What a minted session stands for: its bill, which a customer may see.
Stands(s) ==
    /\ sessions[s].order \in Orders
    /\ bills[sessions[s].order].status # "none"
    /\ sessions[s].staff \/ bills[sessions[s].order].published

\* A session is minted for a bill that the call saw, and keeps it.
LEMMA SessionsStep == BillingInv /\ [Next]_vars =>
    \A s \in Sessions : sessions'[s].status # "unused" => Stands(s)'
<1> SUFFICES ASSUME BillingInv, [Next]_vars, NEW s \in Sessions, sessions'[s].status # "unused"
             PROVE  Stands(s)'
    OBVIOUS
<1>1. Onward
    BY OnwardStep DEF BillingInv
<1>2. CASE sessions[s].status # "unused"
    BY <1>1, <1>2 DEF BillingInv, SessionsKnow, OfferedInOrder, Stands, Onward
<1>3. CASE sessions[s].status = "unused"
    <2>1. PICK c \in Calls, t \in Sessions : MintSession(c, t)
        BY <1>3 DEF Next, Work, vars, ledger, consumer, ApproveOrder, FetchTask, PublishBill,
                FetchBill, MarkBillPaid, InsertBill, PublishBillEvent, FailCall, Charge, Expire,
                Connect, Restart, HandleMessage, FailMessage, CommitOffset, CrashConsumer,
                BillingInv, TypeOK
    <2>2. t = s
        BY <1>3, <2>1 DEF MintSession, BillingInv, TypeOK
    <2>3. /\ sessions'[s].order = calls[c].order /\ sessions'[s].staff = calls[c].staff
          /\ UNCHANGED bills /\ calls[c].at = "mint"
        BY <2>1, <2>2 DEF MintSession, BillingInv, TypeOK
    <2> QED
        BY <2>3 DEF Stands, BillingInv, CallsKnow
<1> QED
    BY <1>2, <1>3

\* Order, bill and session move so that a payment is backed at every step.
LEMMA PaidStep == BillingInv /\ [Next]_vars => PaidIsCharged'
<1> SUFFICES ASSUME BillingInv, [Next]_vars, NEW o \in Orders
             PROVE  /\ orders'[o] = "paid" => bills'[o].status = "paid"
                    /\ bills'[o].status = "paid" =>
                        /\ bills'[o].session # Null
                        /\ sessions'[bills'[o].session].status = "charged"
                        /\ sessions'[bills'[o].session].order = o
    BY DEF PaidIsCharged
<1>1. Onward
    BY OnwardStep DEF BillingInv
<1>2. orders'[o] = "paid" => bills'[o].status = "paid"
    <2>1. CASE orders[o] = "paid"
        BY <1>1, <2>1 DEF BillingInv, PaidIsCharged, Onward
    <2>2. CASE orders[o] # "paid" /\ orders'[o] = "paid"
        <3>1. HandleMessage
            BY <2>2 DEF Next, Work, vars, ledger, consumer, ApproveOrder, FetchTask, PublishBill,
                FetchBill, MarkBillPaid, InsertBill, MintSession, PublishBillEvent, FailCall,
                Charge, Expire, Connect, Restart, FailMessage, CommitOffset, CrashConsumer,
                BillingInv, TypeOK
        <3>2. Pays(Current) /\ Current.order = o
            BY <2>2, <3>1 DEF HandleMessage, BillingInv, TypeOK
        <3>3. offset + 1 \in DOMAIN topic
            BY <3>1 DEF HandleMessage, BillingInv, TypeOK
        <3>4. bills[o].status = "paid"
            BY <3>2, <3>3 DEF BillingInv, EventsTrue, Tells, Pays, Current
        <3> QED
            BY <1>1, <3>4 DEF Onward
    <2> QED
        BY <2>1, <2>2
<1>3. ASSUME bills'[o].status = "paid"
      PROVE  /\ bills'[o].session # Null
             /\ sessions'[bills'[o].session].status = "charged"
             /\ sessions'[bills'[o].session].order = o
    <2>1. CASE bills[o].status = "paid"
        <3>1. bills'[o].session = bills[o].session /\ bills[o].session \in Sessions
            BY <1>1, <2>1 DEF Onward, BillingInv, PaidIsCharged, TypeOK, Bill
        <3> QED
            BY <1>1, <2>1, <3>1 DEF Onward, BillingInv, PaidIsCharged
    <2>2. CASE bills[o].status # "paid"
        <3>a. ASSUME NEW c \in Calls, InsertBill(c) PROVE bills'[o].status # "paid"
            BY <2>2, <3>a DEF InsertBill, BillingInv, TypeOK, Bill
        <3>b. ASSUME NEW c \in Calls, NEW p \in Orders, PublishBill(c, p)
              PROVE  bills'[o].status # "paid"
            BY <2>2, <3>b DEF PublishBill, BillingInv, TypeOK, Bill
        <3>c. bills' # bills
            BY <1>3, <2>2
        <3>1. PICK c \in Calls, s \in Sessions : MarkBillPaid(c, s)
            BY <1>3, <3>a, <3>b, <3>c DEF Next, Work, vars, ledger, consumer, ApproveOrder,
                FetchTask, FetchBill, MintSession, PublishBillEvent, FailCall, Charge, Expire,
                Connect, Restart, HandleMessage, FailMessage, CommitOffset, CrashConsumer
        <3>2. sessions[s].order = o /\ bills'[o].session = s
            BY <1>3, <2>2, <3>1 DEF MarkBillPaid, BillingInv, TypeOK, Bill, SessionsKnow
        <3>3. sessions[s].status = "charged" /\ UNCHANGED sessions
            BY <3>1 DEF MarkBillPaid
        <3> QED
            BY <3>2, <3>3, NullAssumption
    <2> QED
        BY <2>1, <2>2
<1> QED
    BY <1>2, <1>3

\* An order is billed by a call that saw it done, and done it stays.
LEMMA OfferedStep == BillingInv /\ [Next]_vars => OfferedInOrder'
<1> SUFFICES ASSUME BillingInv, [Next]_vars PROVE OfferedInOrder'
    OBVIOUS
<1>1. Onward
    BY OnwardStep DEF BillingInv
<1>2. ASSUME NEW o \in Orders, bills'[o].status # "none" PROVE orders'[o] \in {"done", "paid"}
    <2>1. CASE bills[o].status # "none"
        BY <1>1, <2>1 DEF Onward, BillingInv, OfferedInOrder
    <2>2. CASE bills[o].status = "none"
        <3>1. PICK c \in Calls : InsertBill(c)
            BY <1>2, <2>2 DEF Next, Work, vars, ledger, consumer, ApproveOrder, FetchTask,
                PublishBill, FetchBill, MarkBillPaid, MintSession, PublishBillEvent, FailCall,
                Charge, Expire, Connect, Restart, HandleMessage, FailMessage, CommitOffset,
                CrashConsumer, BillingInv, TypeOK, Bill, SessionsKnow
        <3>2. calls[c].order = o /\ calls[c].at = "insert"
            BY <1>2, <2>2, <3>1 DEF InsertBill, BillingInv, TypeOK, CallsKnow
        <3> QED
            BY <1>1, <3>2 DEF BillingInv, CallsKnow, Onward
    <2> QED
        BY <2>1, <2>2
<1>3. \A s \in Sessions : sessions'[s].status # "unused" /\ ~sessions'[s].staff =>
            bills'[sessions'[s].order].published
    BY SessionsStep DEF Stands
<1> QED
    BY <1>2, <1>3 DEF OfferedInOrder

\* The invariant is inductive.
LEMMA BillingStep == BillingInv /\ [Next]_vars => BillingInv'
<1> SUFFICES ASSUME BillingInv, [Next]_vars PROVE BillingInv'
    OBVIOUS
<1>1. TypeOK' /\ CallsKnow'
    BY BillingTypeStep, CallsStep DEF BillingInv
<1>2. EventsTrue'
    BY CallsStep, TopicStep DEF EventsTrue
<1>3. SessionsKnow'
    BY SessionsStep DEF SessionsKnow, Stands
<1> QED
    BY <1>1, <1>2, <1>3, PaidStep, OfferedStep DEF BillingInv

\* ... and so holds in every state.
LEMMA BillingAlways == Spec => []BillingInv
BY BillingInit, BillingStep, PTL DEF Spec

-----------------------------------------------------------------------------

\* Every table, session, call and event has its type in every state, for any
\* number of orders, sessions and calls in flight.
THEOREM BillingTypes == Spec => []TypeOK
<1>1. BillingInv => TypeOK
    BY DEF BillingInv
<1> QED
    BY <1>1, BillingAlways, PTL

\* An order is paid only if its bill is, and the bill only by a charged session
\* of that order, with no transaction across the three stores.
THEOREM PaymentsAreCharged == Spec => []PaidIsCharged
<1>1. BillingInv => PaidIsCharged
    BY DEF BillingInv
<1> QED
    BY <1>1, BillingAlways, PTL

\* Only approved orders are billed and only published bills offered to customers,
\* though check and write are separate steps of each handler.
THEOREM BillsOfferedInOrder == Spec => []OfferedInOrder
<1>1. BillingInv => OfferedInOrder
    BY DEF BillingInv
<1> QED
    BY <1>1, BillingAlways, PTL

\* The payment recorded first is never overwritten by a second charged session or
\* a repeated webhook.
THEOREM FirstPaymentKept == Spec => FirstPaymentStands
<1> DEFINE Stand == \A o \in Orders : bills[o].status = "paid" =>
                bills'[o].status = "paid" /\ bills'[o].session = bills[o].session
<1>1. BillingInv /\ [Next]_vars => [Stand]_vars
    BY OnwardStep DEF BillingInv, Onward
<1> QED
    BY <1>1, BillingAlways, PTL DEF Spec, FirstPaymentStands

-----------------------------------------------------------------------------
(* Each fact is published once: an event that is new to the topic is one its    *)
(* call alone may send, since another would already have told what it tells.    *)

Sending(c) == calls[c].at = "publish"

\* PublishedOnce in terms of Pending and Sending.
Single ==
    /\ \A i, j \in DOMAIN topic : topic[i] = topic[j] => i = j
    /\ \A i \in DOMAIN topic : \A c \in Calls : Sending(c) => topic[i] # Pending(c)
    /\ \A c, d \in Calls : Sending(c) /\ Sending(d) /\ Pending(c) = Pending(d) => c = d

\* The two say the same.
LEMMA SingleIsPublishedOnce == Single <=> PublishedOnce
BY DEF Single, Sending, Pending, PublishedOnce

\* A call that sends after the step did so before it, and the same, or it has just
\* begun and tells what was not so.
LEMMA NewSender == BillingInv /\ [Next]_vars =>
    \/ \A c \in Calls : Sending(c)' => Sending(c) /\ Pending(c)' = Pending(c)
    \/ /\ UNCHANGED topic
       /\ \E c \in Calls : Sending(c)' /\ ~Tells(Pending(c)') /\ OnlyCall(c)
<1> DEFINE Same == \A c \in Calls : Sending(c)' => Sending(c) /\ Pending(c)' = Pending(c)
           Fresh == /\ UNCHANGED topic
                    /\ \E c \in Calls : Sending(c)' /\ ~Tells(Pending(c)') /\ OnlyCall(c)
<1> SUFFICES ASSUME BillingInv, [Next]_vars PROVE Same \/ Fresh
    OBVIOUS
<1>a. TypeOK
    BY DEF BillingInv
<1>1. ASSUME NEW c \in Calls, calls'[c].at # "publish", OnlyCall(c) PROVE Same
    BY <1>1 DEF Sending, Pending, OnlyCall
<1>2. ASSUME NEW c \in Calls, NEW o \in Orders,
             FetchTask(c, o) \/ \E staff \in BOOLEAN : FetchBill(c, o, staff)
      PROVE  Same
    <2>1. calls'[c].at # "publish" /\ OnlyCall(c)
        BY ZenonT(60), <1>a, <1>2, BeginType DEF FetchTask, FetchBill, OnlyCall
    <2> QED
        BY <1>1, <2>1
<1>3. ASSUME NEW c \in Calls, NEW o \in Orders, PublishBill(c, o) PROVE Fresh
    <2>1. /\ OnlyCall(c) /\ calls'[c].at = "publish"
          /\ calls'[c].order = o /\ calls'[c].name = "bill.published"
        BY <1>a, <1>3, BeginType DEF PublishBill, OnlyCall
    <2>2. ~bills[o].published /\ UNCHANGED topic
        BY <1>3 DEF PublishBill
    <2>3. Pending(c)' = [name |-> "bill.published", order |-> o]
        BY <2>1 DEF Pending
    <2>4. ~Tells(Pending(c)')
        BY <2>2, <2>3 DEF Tells
    <2> QED
        BY <2>1, <2>2, <2>4 DEF Sending
<1>4. ASSUME NEW c \in Calls, NEW s \in Sessions, MarkBillPaid(c, s) PROVE Fresh
    <2> DEFINE o == sessions[s].order
    <2>1. o \in Orders
        BY <1>4 DEF MarkBillPaid, BillingInv, SessionsKnow
    <2>2. /\ OnlyCall(c) /\ calls'[c].at = "publish"
          /\ calls'[c].order = o /\ calls'[c].name = "bill.paid"
        BY <1>a, <1>4, <2>1, BeginType DEF MarkBillPaid, OnlyCall
    <2>3. bills[o].status = "unpaid" /\ UNCHANGED topic
        BY <1>4 DEF MarkBillPaid
    <2>4. Pending(c)' = [name |-> "bill.paid", order |-> o]
        BY <2>2 DEF Pending
    <2>5. ~Tells(Pending(c)')
        BY <2>3, <2>4 DEF Tells
    <2> QED
        BY <2>2, <2>3, <2>5 DEF Sending
<1>5. ASSUME NEW c \in Calls,
             InsertBill(c) \/ PublishBillEvent(c) \/ FailCall(c)
                \/ \E s \in Sessions : MintSession(c, s)
      PROVE  Same
    <2>1. End(c)
        BY <1>5 DEF InsertBill, PublishBillEvent, FailCall, MintSession
    <2>2. calls'[c].at # "publish" /\ OnlyCall(c)
        BY <1>a, <2>1, EndType DEF OnlyCall
    <2> QED
        BY <1>1, <2>2
<1>6. ASSUME Restart PROVE Same
    BY <1>6 DEF Restart, Idle, Sending
<1>7. ASSUME \/ \E o \in Orders : ApproveOrder(o)
             \/ \E s \in Sessions : Charge(s) \/ Expire(s)
             \/ Connect \/ HandleMessage \/ FailMessage \/ CommitOffset \/ CrashConsumer
             \/ UNCHANGED vars
      PROVE  Same
    <2>1. UNCHANGED calls
        BY <1>7 DEF ApproveOrder, Charge, Expire, Connect, HandleMessage, FailMessage,
                    CommitOffset, CrashConsumer, vars, ledger
    <2> QED
        BY <2>1 DEF Sending, Pending
<1> QED
    BY <1>2, <1>3, <1>4, <1>5, <1>6, <1>7 DEF Next, Work

\* The topic and the calls about to send stay free of duplicates.
LEMMA SingleStep == BillingInv /\ Single /\ [Next]_vars => Single'
<1> SUFFICES ASSUME BillingInv, Single, [Next]_vars PROVE Single'
    OBVIOUS
<1>a. topic \in Seq(Event)
    BY DEF BillingInv, TypeOK
<1>b. /\ \A i \in DOMAIN topic : Tells(topic[i])
      /\ \A c \in Calls : Sending(c) => Tells(Pending(c))
    BY DEF BillingInv, EventsTrue, Sending
<1>1. CASE /\ UNCHANGED topic
           /\ \A c \in Calls : Sending(c)' => Sending(c) /\ Pending(c)' = Pending(c)
    BY <1>1 DEF Single
<1>2. ASSUME NEW c \in Calls, Sending(c), ~Sending(c)', topic' = Append(topic, Pending(c)),
             Pending(c) \in Event,
             \A d \in Calls : Sending(d)' => Sending(d) /\ Pending(d)' = Pending(d)
      PROVE  Single'
    <2>1. /\ DOMAIN topic' = 1..(Len(topic) + 1) /\ DOMAIN topic = 1..Len(topic)
          /\ \A i \in 1..Len(topic) : topic'[i] = topic[i]
          /\ topic'[Len(topic) + 1] = Pending(c)
          /\ Len(topic) \in Nat
        BY <1>a, <1>2
    <2>2. \A i, j \in DOMAIN topic' : topic'[i] = topic'[j] => i = j
        BY <1>2, <2>1 DEF Single
    <2>3. \A i \in DOMAIN topic' : \A d \in Calls : Sending(d)' => topic'[i] # Pending(d)'
        BY <1>2, <2>1 DEF Single
    <2>4. \A d, e \in Calls : Sending(d)' /\ Sending(e)' /\ Pending(d)' = Pending(e)' => d = e
        BY <1>2 DEF Single
    <2> QED
        BY <2>2, <2>3, <2>4 DEF Single
<1>3. ASSUME NEW c \in Calls, UNCHANGED topic, Sending(c)', ~Tells(Pending(c)'), OnlyCall(c)
      PROVE  Single'
    <2>1. \A d \in Calls : d # c => (Sending(d)' => Sending(d) /\ Pending(d)' = Pending(d))
        BY <1>3 DEF OnlyCall, Sending, Pending
    <2>2. \A i \in DOMAIN topic : topic[i] # Pending(c)'
        BY <1>b, <1>3
    <2>3. \A d \in Calls : d # c /\ Sending(d)' => Pending(d)' # Pending(c)'
        BY <1>b, <1>3, <2>1
    <2> QED
        BY <1>3, <2>1, <2>2, <2>3 DEF Single
<1>4. \/ UNCHANGED topic
      \/ \E c \in Calls : /\ Sending(c) /\ ~Sending(c)' /\ Pending(c) \in Event
                          /\ topic' = Append(topic, Pending(c))
    BY TopicGrows DEF BillingInv, Sending
<1>5. \A e \in Event : Append(topic, e) # topic
    BY <1>a
<1> QED
    BY <1>1, <1>2, <1>3, <1>4, <1>5, NewSender

\* Double clicks, repeated webhooks and second sessions notwithstanding, no event
\* is on the topic twice or about to be.
THEOREM EventsPublishedOnce == Spec => []PublishedOnce
<1>1. Init => Single
    BY DEF Init, Single, Sending, Idle
<1>2. BillingInv /\ Single /\ [Next]_vars => Single'
    BY SingleStep
<1>3. Single => PublishedOnce
    BY SingleIsPublishedOnce
<1> QED
    BY <1>1, <1>2, <1>3, BillingAlways, PTL DEF Spec
=============================================================================
