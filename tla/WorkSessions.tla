---------------------------- MODULE WorkSessions ----------------------------
(***************************************************************************)
(* The work sessions of one analyst on one order: the timer in their       *)
(* browser tabs, elixtempo with a process per session and a table to come  *)
(* back from, and rustledger, which pays for what was stopped.             *)
(*                                                                         *)
(* A transition happens in the process of the session, then its caller     *)
(* stores the new state, then publishes it.  Callers do so each on their   *)
(* own: two tabs may store and publish in another order than their         *)
(* transitions took place.                                                 *)
(*                                                                         *)
(* Time is a count of ticks of SecondsPerTick seconds each.  What a        *)
(* session counted is computed from time stamps, not by ticking.           *)
(***************************************************************************)
EXTENDS Integers, Sequences, FiniteSets, FiniteSetsExt

CONSTANTS
    Sessions,       \* session ids
    Tabs,           \* tabs of the analyst's browser with the order open
    Null,
    SecondsPerTick,
    CentsPerHour,   \* the flat rate
    MaxTime,        \* bound: ticks
    MaxRequests,    \* bound: buttons pressed, all tabs together
    MaxRestarts     \* bound: restarts of elixtempo and rustledger together

ASSUME WorkAssumption ==
    /\ Null \notin Sessions
    /\ SecondsPerTick \in Nat /\ CentsPerHour \in Nat
    /\ MaxTime \in Nat /\ MaxRequests \in Nat /\ MaxRestarts \in Nat

VARIABLES
    clock,
    process,        \* per session: its GenServer's state; a dead one's last state
    began,          \* per session: when it was started, 0 before
    table,          \* elixtempo.sessions: a state per id, or None
    timer,          \* per tab: what WorkTimerPanel shows [session, status]
    remembered,     \* localStorage: a session id or Null
    call,           \* per tab: its request in elixtempo between two awaits
    requests,       \* buttons pressed so far
    topic,          \* session.stopped events; nobody acts on the others
    offset,         \* records rustledger has read since it started
    skipped,        \* records it could not bill since it started
    items,          \* line_items: one per session id, or NoItem
    restarts        \* per service

elixtempo == <<process, began, table>>
browser == <<timer, remembered, call, requests>>
rustledger == <<offset, skipped, items>>
vars == <<clock, elixtempo, browser, topic, rustledger, restarts>>

Services == {"elixtempo", "rustledger"}

Time == 0..MaxTime
Live == {"running", "paused"}
State == [status: Live \cup {"none", "stopped"}, acc: Time, since: Time]
None == [status |-> "none", acc |-> 0, since |-> 0]

Ops == {"start", "pause", "resume", "stop"}
Request == [op: Ops \cup {Null}, at: {"idle", "ask", "store", "publish"},
            session: Sessions \cup {Null}, view: State]
NoRequest == [op |-> Null, at |-> "idle", session |-> Null, view |-> None]

\* Deviation: whole cents, the rest is dropped.
AmountDown(ticks) == (ticks * SecondsPerTick * CentsPerHour) \div 3600

\* compute_amount_cents: to the nearest cent, halves up.
Amount(ticks) == (2 * ticks * SecondsPerTick * CentsPerHour + 3600) \div 7200

NoItem == [elapsed |-> 0, cents |-> -1]
Item == [elapsed: Time, cents: {Amount(t) : t \in Time}]

TypeOK ==
    /\ clock \in Time
    /\ process \in [Sessions -> State]
    /\ began \in [Sessions -> Time]
    /\ table \in [Sessions -> State]
    /\ timer \in [Tabs -> [session: Sessions \cup {Null}, status: {"none", "stopped"} \cup Live]]
    /\ remembered \in Sessions \cup {Null}
    /\ call \in [Tabs -> Request]
    /\ requests \in 0..MaxRequests
    /\ topic \in Seq([session: Sessions, elapsed: Time])
    /\ offset \in 0..Len(topic)
    /\ skipped \subseteq 1..offset
    /\ items \in [Sessions -> Item \cup {NoItem}]
    /\ restarts \in [Services -> 0..MaxRestarts]

Init ==
    /\ clock = 0
    /\ process = [s \in Sessions |-> None]
    /\ began = [s \in Sessions |-> 0]
    /\ table = [s \in Sessions |-> None]
    /\ timer = [b \in Tabs |-> [session |-> Null, status |-> "none"]]
    /\ remembered = Null
    /\ call = [b \in Tabs |-> NoRequest]
    /\ requests = 0
    /\ topic = <<>>
    /\ offset = 0
    /\ skipped = {}
    /\ items = [s \in Sessions |-> NoItem]
    /\ restarts = [v \in Services |-> 0]

-----------------------------------------------------------------------------
(* The session process *)

Alive(s) == process[s].status \in Live

Elapsed(state) == IF state.status = "running" THEN state.acc + (clock - state.since)
                  ELSE state.acc

\* Deviation: the time since the last resumption alone.
HaltedForgetful(state, status) ==
    [status |-> status, since |-> 0,
     acc |-> IF state.status = "running" THEN clock - state.since ELSE state.acc]

\* What pause and stop leave.
Halted(state, status) == [status |-> status, acc |-> Elapsed(state), since |-> 0]

\* handle_call; no successor where the process answers with an error.
After(op, state) ==
    CASE op = "pause" /\ state.status = "running" -> Halted(state, "paused")
      [] op = "resume" /\ state.status = "paused" ->
            [state EXCEPT !.status = "running", !.since = clock]
      [] op = "stop" /\ state.status \in Live -> Halted(state, "stopped")
      [] OTHER -> None

-----------------------------------------------------------------------------
(* WorkTimerPanel *)

\* The buttons a tab offers by what it shows; none while its request is under way.
Offered(b) ==
    CASE timer[b].status = "running" -> {"pause", "stop"}
      [] timer[b].status = "paused" -> {"resume", "stop"}
      [] OTHER -> {"start"}

Press(b, op) ==
    /\ call[b].at = "idle"
    /\ op \in Offered(b)
    /\ requests < MaxRequests
    /\ requests' = requests + 1
    /\ call' = [call EXCEPT ![b] = [NoRequest EXCEPT !.op = op, !.at = "ask",
                    !.session = IF op = "start" THEN Null ELSE timer[b].session]]
    /\ UNCHANGED <<clock, elixtempo, timer, remembered, topic, rustledger, restarts>>

\* A page load asks for the session it remembers, and forgets one that is over.  A
\* page reloaded while its request is under way is a tab of its own.
Mount(b) ==
    /\ call[b].at = "idle"
    /\ IF remembered = Null \/ ~Alive(remembered)
         THEN /\ timer' = [timer EXCEPT ![b] = [session |-> Null, status |-> "none"]]
              /\ remembered' = Null
         ELSE /\ timer' = [timer EXCEPT ![b] = [session |-> remembered,
                                                status |-> process[remembered].status]]
              /\ UNCHANGED remembered
    /\ UNCHANGED <<clock, elixtempo, call, requests, topic, rustledger, restarts>>

\* The request was refused or failed at any point: the panel shows the error only.
FailCall(b) ==
    /\ call[b].at # "idle"
    /\ call' = [call EXCEPT ![b] = NoRequest]
    /\ UNCHANGED <<clock, elixtempo, timer, remembered, requests, topic, rustledger, restarts>>

-----------------------------------------------------------------------------
(* elixtempo *)

\* task-service has answered that the caller holds the order; it is asked once, when
\* a session starts, and may answer no at any time (FailCall).
StartSession(b) ==
    /\ call[b].at = "ask" /\ call[b].op = "start"
    /\ \E s \in Sessions :
        /\ process[s] = None /\ table[s] = None
        /\ LET state == [status |-> "running", acc |-> 0, since |-> clock] IN
            /\ process' = [process EXCEPT ![s] = state]
            /\ began' = [began EXCEPT ![s] = clock]
            /\ call' = [call EXCEPT ![b] = [op |-> "start", at |-> "store", session |-> s,
                                            view |-> state]]
    /\ UNCHANGED <<clock, table, timer, remembered, requests, topic, rustledger, restarts>>

\* Pause, resume or stop; a dead process is a 404, a wrong status a 409 (FailCall).
Transition(b) ==
    LET s == call[b].session
        next == After(call[b].op, process[s]) IN
    /\ call[b].at = "ask" /\ call[b].op # "start"
    /\ next # None
    /\ process' = [process EXCEPT ![s] = next]
    /\ call' = [call EXCEPT ![b].at = "store", ![b].view = next]
    /\ UNCHANGED <<clock, began, table, timer, remembered, requests, topic, rustledger, restarts>>

\* Store.upsert overwrites whatever the row holds.
Upsert(b) ==
    /\ call[b].at = "store"
    /\ table' = [table EXCEPT ![call[b].session] = call[b].view]
    /\ call' = [call EXCEPT ![b].at = "publish"]
    /\ UNCHANGED <<clock, process, began, timer, remembered, requests, topic, rustledger, restarts>>

\* Best effort, then the answer reaches the tab.
Publish(b) ==
    LET r == call[b] IN
    /\ r.at = "publish"
    /\ IF r.op = "stop"
         THEN topic' \in {topic, Append(topic, [session |-> r.session, elapsed |-> r.view.acc])}
         ELSE UNCHANGED topic
    /\ timer' = [timer EXCEPT ![b] = [session |-> r.session, status |-> r.view.status]]
    /\ remembered' = CASE r.op = "start" -> r.session
                       [] r.op = "stop" -> Null
                       [] OTHER -> remembered
    /\ call' = [call EXCEPT ![b] = NoRequest]
    /\ UNCHANGED <<clock, elixtempo, requests, rustledger, restarts>>

CountRestart(v) ==
    /\ restarts["elixtempo"] + restarts["rustledger"] < MaxRestarts
    /\ restarts' = [restarts EXCEPT ![v] = @ + 1]

\* elixtempo goes down with all processes and requests, and comes back with the
\* sessions its table holds open.
Restart ==
    /\ CountRestart("elixtempo")
    /\ process' = [s \in Sessions |->
                    IF table[s].status \in Live THEN table[s]
                    ELSE [process[s] EXCEPT !.since = 0,
                            !.acc = table[s].acc,
                            !.status = IF @ = "none" THEN "none" ELSE "stopped"]]
    /\ call' = [b \in Tabs |-> NoRequest]
    /\ UNCHANGED <<clock, began, table, timer, remembered, requests, topic, rustledger>>

-----------------------------------------------------------------------------
(* rustledger *)

\* Deviation: the last event counts.
BilledLast(s, elapsed) == [elapsed |-> elapsed, cents |-> Amount(elapsed)]

\* ON CONFLICT (session_id) DO NOTHING.
Billed(s, elapsed) ==
    IF items[s] = NoItem THEN [elapsed |-> elapsed, cents |-> Amount(elapsed)] ELSE items[s]

BillStoppedSession ==
    /\ offset < Len(topic)
    /\ offset' = offset + 1
    /\ LET event == topic[offset + 1] IN
        items' = [items EXCEPT ![event.session] = Billed(event.session, event.elapsed)]
    /\ UNCHANGED <<clock, elixtempo, browser, topic, skipped, restarts>>

\* The database fails: the error is logged and the stream goes on.
SkipRecord ==
    /\ offset < Len(topic)
    /\ offset' = offset + 1
    /\ skipped' = skipped \cup {offset + 1}
    /\ UNCHANGED <<clock, elixtempo, browser, topic, items, restarts>>

\* Deviation: the consumer starts with what comes next.
RestartLedgerLatest ==
    /\ CountRestart("rustledger")
    /\ offset' = Len(topic)
    /\ skipped' = {}
    /\ UNCHANGED <<clock, elixtempo, browser, topic, items>>

\* rustledger commits no offsets: it reads the topic from the start.
RestartLedger ==
    /\ CountRestart("rustledger")
    /\ offset' = 0
    /\ skipped' = {}
    /\ UNCHANGED <<clock, elixtempo, browser, topic, items>>

-----------------------------------------------------------------------------

Tick ==
    /\ clock < MaxTime
    /\ clock' = clock + 1
    /\ UNCHANGED <<elixtempo, browser, topic, rustledger, restarts>>

Next ==
    \/ \E b \in Tabs :
        \/ \E op \in Ops : Press(b, op)
        \/ Mount(b)
        \/ FailCall(b)
        \/ StartSession(b)
        \/ Transition(b)
        \/ Upsert(b)
        \/ Publish(b)
    \/ Restart
    \/ BillStoppedSession
    \/ SkipRecord
    \/ RestartLedger
    \/ Tick

Spec == Init /\ [][Next]_vars

-----------------------------------------------------------------------------
(* Properties *)

\* Time stamps and accumulated seconds amount to a watch per session: nothing is
\* counted while paused or twice, nothing is lost by pausing and resuming, and a
\* restart brings back at most the time since the start, whichever of two tabs
\* stored its state last.
Watch == INSTANCE Stopwatch WITH
    status <- [s \in Sessions |-> process[s].status],
    elapsed <- [s \in Sessions |-> Elapsed(process[s])],
    age <- [s \in Sessions |-> IF process[s] = None THEN 0 ELSE clock - began[s]],
    recoveries <- restarts["elixtempo"]

ImplementsStopwatch == Watch!Spec

\* A session stopped twice, the second time after a stale row brought it back, is
\* paid as the ledger paid it first, however often it reads the topic again.
PaidAmountStands ==
    [][\A s \in Sessions : items[s] # NoItem => items'[s] = items[s]]_vars

\* A reader at the end of the topic has paid for every stop on it, except those it
\* failed on since it started; whatever it had read or failed on before.
NothingMissed ==
    \A i \in 1..offset : i \in skipped \/ items[topic[i].session] # NoItem

\* However the work on an order is cut into sessions, its pay is within half a cent
\* per session of the rate for the time in all.
PayAddsUp ==
    LET paid == {s \in Sessions : items[s] # NoItem}
        time == MapThenSumSet(LAMBDA s : items[s].elapsed, paid)
        cents == MapThenSumSet(LAMBDA s : items[s].cents, paid)
        due == time * SecondsPerTick * CentsPerHour
        got == cents * 3600 IN
    got - due \in -1800 * Cardinality(paid) .. 1800 * Cardinality(paid)
=============================================================================
