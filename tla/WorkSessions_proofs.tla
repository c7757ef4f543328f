-------------------------- MODULE WorkSessions_proofs --------------------------
(***************************************************************************)
(* What WorkSessions.tla keeps, for any number of sessions and tabs, any   *)
(* rate, and any number of requests, restarts and ticks.                   *)
(***************************************************************************)
EXTENDS WorkSessions, FiniteSetTheorems, TLAPS

-----------------------------------------------------------------------------
(* Amounts *)

\* Rounding to the nearest: the quotient is off by half the divisor at most.
LEMMA Rounds ==
    ASSUME NEW x \in Nat, NEW a, a = (2 * x + 3600) \div 7200
    PROVE  a \in Nat /\ 3600 * a - x \in -1800..1800
    BY SMTT(60)

\* An amount is a natural number of cents, and off by half a cent at most.
LEMMA AmountRounds ==
    ASSUME NEW t \in Time
    PROVE  /\ Amount(t) \in Nat
           /\ 3600 * Amount(t) - t * SecondsPerTick * CentsPerHour \in -1800..1800
<1>1. t \in Nat
    BY WorkAssumption DEF Time
<1>2. t * SecondsPerTick \in Nat
    BY <1>1, WorkAssumption
<1>3. t * SecondsPerTick * CentsPerHour \in Nat
    BY <1>2, WorkAssumption
<1>4. PICK x \in Nat : x = t * SecondsPerTick * CentsPerHour
    BY <1>3
<1>5. 2 * t * SecondsPerTick * CentsPerHour = 2 * x
    BY <1>1, <1>2, <1>4, WorkAssumption
<1>6. Amount(t) = (2 * x + 3600) \div 7200
    BY SMTT(60), <1>5 DEF Amount
<1>7. Amount(t) \in Nat /\ 3600 * Amount(t) - x \in -1800..1800
    BY SMTT(60), <1>6, Rounds
<1> QED
    BY SMTT(60), <1>4, <1>7

LEMMA BilledItem ==
    ASSUME NEW t \in Time
    PROVE  /\ [elapsed |-> t, cents |-> Amount(t)] \in Item
           /\ [elapsed |-> t, cents |-> Amount(t)] # NoItem
<1>1. Amount(t) \in Nat
    BY SMTT(60), AmountRounds
<1>2. Amount(t) # -1
    BY <1>1
<1> QED
    BY <1>2 DEF Item, NoItem

-----------------------------------------------------------------------------
(* The states of a session *)

\* A state a session had at some time: it never counts more than the time between
\* its start and what it was counted up to.
Sound(v, start, now) ==
    /\ start <= now
    /\ IF v.status = "running" THEN start <= v.since /\ v.since <= now /\ v.acc <= v.since - start
       ELSE v.acc <= now - start

LEMMA SoundElapsed ==
    ASSUME clock \in Time, NEW v \in State, NEW start \in Time, Sound(v, start, clock)
    PROVE  Elapsed(v) \in 0..(clock - start)
    BY WorkAssumption DEF Elapsed, Sound, State, Time

LEMMA SoundHalted ==
    ASSUME clock \in Time, NEW v \in State, NEW start \in Time, Sound(v, start, clock),
           NEW status \in {"paused", "stopped"}
    PROVE  Halted(v, status) \in State /\ Sound(Halted(v, status), start, clock)
<1>1. Elapsed(v) \in 0..(clock - start)
    BY SoundElapsed
<1>2. start <= clock /\ clock \in Nat /\ start \in Nat /\ clock <= MaxTime
    BY WorkAssumption DEF Sound, Time
<1>3. Elapsed(v) \in Time
    BY <1>1, <1>2, WorkAssumption DEF Time
<1>4. /\ Halted(v, status).status = status /\ Halted(v, status).acc = Elapsed(v)
      /\ Halted(v, status) \in State
    BY <1>3, WorkAssumption DEF Halted, State, Time, Live
<1> QED
    BY <1>1, <1>2, <1>4 DEF Sound

LEMMA SoundAfter ==
    ASSUME clock \in Time, NEW v \in State, NEW start \in Time, Sound(v, start, clock),
           NEW op \in Ops, After(op, v) # None
    PROVE  /\ After(op, v) \in State
           /\ After(op, v).status # "none" /\ v.status # "none"
           /\ Sound(After(op, v), start, clock)
<1>1. CASE op = "pause" /\ v.status = "running"
    BY <1>1, SoundHalted DEF After, Halted
<1>2. CASE op = "resume" /\ v.status = "paused"
    <2>1. After(op, v) = [v EXCEPT !.status = "running", !.since = clock]
        BY <1>2 DEF After
    <2>2. /\ After(op, v).status = "running" /\ After(op, v).since = clock
          /\ After(op, v).acc = v.acc /\ After(op, v) \in State
        BY <2>1 DEF State, Live
    <2>3. v.acc <= clock - start /\ start <= clock
        BY <1>2 DEF Sound
    <2>4. clock <= clock
        BY WorkAssumption DEF Time
    <2> QED
        BY <1>2, <2>2, <2>3, <2>4 DEF Sound
<1>3. CASE op = "stop" /\ v.status \in Live
    BY <1>3, SoundHalted DEF After, Halted, Live
<1> QED
    BY <1>1, <1>2, <1>3 DEF After

\* Time goes on.
LEMMA SoundLater ==
    ASSUME NEW now \in Time, NEW v \in State, NEW start \in Time, Sound(v, start, now)
    PROVE  Sound(v, start, now + 1)
    BY WorkAssumption DEF Sound, State, Time

-----------------------------------------------------------------------------
(* What is known of processes, rows, requests and tabs *)

\* Who was never started has no row; everyone's states are sound, also those a
\* request is about to store.
SessionsKnow ==
    \A s \in Sessions :
        /\ process[s].status = "none" => process[s] = None /\ table[s] = None
        /\ table[s].status = "none" => table[s] = None
        /\ Sound(process[s], began[s], clock) /\ Sound(table[s], began[s], clock)

CallsKnow ==
    \A b \in Tabs :
        /\ call[b].at \in {"store", "publish"} =>
            /\ call[b].session \in Sessions
            /\ process[call[b].session].status # "none"
            /\ call[b].view.status # "none"
            /\ Sound(call[b].view, began[call[b].session], clock)
        /\ call[b].at = "ask" /\ call[b].op # "start" => call[b].session \in Sessions
        /\ call[b].at # "idle" => call[b].op \in Ops
        /\ timer[b].status # "none" => timer[b].session \in Sessions

WorkInv == TypeOK /\ SessionsKnow /\ CallsKnow

LEMMA WorkInit == Init => WorkInv
<1> SUFFICES ASSUME Init PROVE WorkInv
    OBVIOUS
<1>1. None \in State /\ 0 \in Time /\ NoRequest \in Request
    BY WorkAssumption DEF None, State, Time, NoRequest, Request, Live
<1>2. TypeOK
    BY <1>1, WorkAssumption DEF Init, TypeOK, Services, Time
<1>3. SessionsKnow
    BY <1>1, WorkAssumption DEF Init, SessionsKnow, Sound, None, Time
<1>4. CallsKnow
    BY DEF Init, CallsKnow, NoRequest
<1> QED
    BY <1>2, <1>3, <1>4 DEF WorkInv

\* Buttons, page loads, failures and a restarting ledger change no session.
LEMMA BrowserStep ==
    ASSUME WorkInv, NEW b \in Tabs,
           (\E op \in Ops : Press(b, op)) \/ Mount(b) \/ FailCall(b)
    PROVE  WorkInv'
<1> USE DEF WorkInv, elixtempo, rustledger
<1>1. ASSUME NEW op \in Ops, Press(b, op) PROVE WorkInv'
    <2>1. op = "start" \/ timer[b].status \in Live
        BY <1>1 DEF Press, Offered, Live
    <2>2. op # "start" => timer[b].session \in Sessions
        BY <2>1 DEF CallsKnow, Live
    <2> DEFINE r == [NoRequest EXCEPT !.op = op, !.at = "ask",
                        !.session = IF op = "start" THEN Null ELSE timer[b].session]
    <2>3. /\ r \in Request /\ r.at = "ask" /\ r.op = op
          /\ op # "start" => r.session \in Sessions
        <3>1. None \in State
            BY WorkAssumption DEF None, State, Time, Live
        <3>2. r.session \in Sessions \cup {Null}
            BY <2>2
        <3> QED
            BY <2>2, <3>1, <3>2 DEF NoRequest, Request
    <2>4. call' = [call EXCEPT ![b] = r]
        BY <1>1 DEF Press
    <2> HIDE DEF r
    <2>5. requests' \in 0..MaxRequests
        <3>1. requests \in 0..MaxRequests /\ requests < MaxRequests /\ requests' = requests + 1
            BY <1>1 DEF Press, TypeOK
        <3> QED
            BY <3>1, WorkAssumption
    <2>6. TypeOK'
        BY <1>1, <2>3, <2>4, <2>5 DEF Press, TypeOK
    <2>7. SessionsKnow'
        BY <1>1 DEF Press, SessionsKnow
    <2>8. CallsKnow'
        BY <1>1, <2>3, <2>4 DEF Press, CallsKnow, TypeOK
    <2> QED
        BY <2>6, <2>7, <2>8
<1>2. CASE Mount(b)
    <2>1. /\ remembered' \in Sessions \cup {Null}
          /\ \E t \in [session: Sessions \cup {Null}, status: {"none", "stopped"} \cup Live] :
                /\ timer' = [timer EXCEPT ![b] = t]
                /\ t.status # "none" => t.session \in Sessions
        BY <1>2 DEF Mount, TypeOK, State, Alive
    <2>2. TypeOK'
        BY <1>2, <2>1 DEF Mount, TypeOK
    <2>3. SessionsKnow'
        BY <1>2 DEF Mount, SessionsKnow
    <2>4. CallsKnow'
        BY <1>2, <2>1 DEF Mount, CallsKnow, TypeOK
    <2> QED
        BY <2>2, <2>3, <2>4
<1>3. CASE FailCall(b)
    <2>1. NoRequest \in Request /\ NoRequest.at = "idle"
        BY WorkAssumption DEF NoRequest, Request, None, State, Live, Time
    <2>2. TypeOK'
        BY <1>3, <2>1 DEF FailCall, TypeOK
    <2>3. SessionsKnow' /\ CallsKnow'
        BY <1>3, <2>1 DEF FailCall, SessionsKnow, CallsKnow, TypeOK
    <2> QED
        BY <2>2, <2>3
<1> QED
    BY <1>1, <1>2, <1>3

\* A session gets a new state, which its caller is about to store; the others and
\* their callers keep theirs.
LEMMA SessionMoves ==
    ASSUME WorkInv, NEW b \in Tabs, NEW s \in Sessions, NEW v \in State,
           NEW start \in Time, NEW r \in Request,
           v.status # "none", Sound(v, start, clock),
           process' = [process EXCEPT ![s] = v],
           began' = [began EXCEPT ![s] = start],
           call' = [call EXCEPT ![b] = r],
           r.at = "store", r.op \in Ops, r.session = s, r.view = v,
           start = began[s] \/ process[s] = None,
           UNCHANGED <<clock, table, timer, remembered, requests, topic, rustledger, restarts>>
    PROVE  WorkInv'
<1> USE DEF WorkInv, rustledger
<1>1. TypeOK'
    BY DEF TypeOK
<1>2. process[s] = None => table[s] = None
    BY DEF SessionsKnow, None
<1>3. Sound(table[s], start, clock)
    <2>1. CASE start = began[s]
        BY <2>1 DEF SessionsKnow
    <2>2. CASE process[s] = None
        <3>1. start <= clock /\ start \in Nat /\ clock \in Nat
            BY WorkAssumption DEF Sound, TypeOK, Time
        <3> QED
            BY <1>2, <2>2, <3>1 DEF Sound, None
    <2> QED
        BY <2>1, <2>2
<1>4. SessionsKnow'
    BY <1>3 DEF SessionsKnow, TypeOK
<1>5. CallsKnow'
    <2> SUFFICES ASSUME NEW c \in Tabs
                 PROVE  (/\ call[c].at \in {"store", "publish"} =>
                            /\ call[c].session \in Sessions
                            /\ process[call[c].session].status # "none"
                            /\ call[c].view.status # "none"
                            /\ Sound(call[c].view, began[call[c].session], clock)
                         /\ call[c].at = "ask" /\ call[c].op # "start" => call[c].session \in Sessions
                         /\ call[c].at # "idle" => call[c].op \in Ops
                         /\ timer[c].status # "none" => timer[c].session \in Sessions)'
        BY DEF CallsKnow
    <2>1. CASE c = b
        BY <2>1 DEF CallsKnow, TypeOK
    <2>2. CASE c # b
        <3>1. call'[c] = call[c]
            BY <2>2 DEF TypeOK
        <3>2. call[c].at \in {"store", "publish"} /\ call[c].session = s => process[s] # None
            BY DEF CallsKnow, None
        <3> QED
            BY <3>1, <3>2 DEF CallsKnow, TypeOK
    <2> QED
        BY <2>1, <2>2
<1> QED
    BY <1>1, <1>4, <1>5

LEMMA TempoStep ==
    ASSUME WorkInv, NEW b \in Tabs, StartSession(b) \/ Transition(b) \/ Upsert(b)
    PROVE  WorkInv'
<1> USE DEF WorkInv
<1>1. CASE StartSession(b)
    <2> DEFINE v == [status |-> "running", acc |-> 0, since |-> clock]
    <2>1. PICK s \in Sessions :
            /\ process[s] = None /\ table[s] = None
            /\ process' = [process EXCEPT ![s] = v]
            /\ began' = [began EXCEPT ![s] = clock]
            /\ call' = [call EXCEPT ![b] = [op |-> "start", at |-> "store", session |-> s,
                                            view |-> v]]
        BY <1>1 DEF StartSession
    <2>2. clock \in Time /\ v \in State /\ v.status # "none"
        BY WorkAssumption DEF TypeOK, State, Time, Live
    <2>3. Sound(v, clock, clock)
        BY WorkAssumption DEF Sound, TypeOK, Time
    <2> DEFINE r == [op |-> "start", at |-> "store", session |-> s, view |-> v]
    <2>4. r \in Request /\ r.at = "store" /\ r.op \in Ops /\ r.session = s /\ r.view = v
        BY <2>2 DEF Request, Ops
    <2>5. UNCHANGED <<clock, table, timer, remembered, requests, topic, rustledger, restarts>>
        BY <1>1 DEF StartSession
    <2> HIDE DEF v, r
    <2> QED
        BY <2>1, <2>2, <2>3, <2>4, <2>5, SessionMoves DEF r
<1>2. CASE Transition(b)
    <2> DEFINE s == call[b].session
               v == After(call[b].op, process[s])
               r == [call[b] EXCEPT !.at = "store", !.view = v]
    <2>1. s \in Sessions /\ call[b].op \in Ops /\ v # None
        BY <1>2 DEF Transition, CallsKnow
    <2>2. v \in State /\ v.status # "none" /\ Sound(v, began[s], clock)
        BY <2>1, SoundAfter DEF SessionsKnow, TypeOK
    <2>3. process' = [process EXCEPT ![s] = v] /\ call' = [call EXCEPT ![b] = r]
        BY <1>2 DEF Transition
    <2>4. UNCHANGED <<clock, began, table, timer, remembered, requests, topic, rustledger, restarts>>
        BY <1>2 DEF Transition
    <2>5. began' = [began EXCEPT ![s] = began[s]] /\ began[s] \in Time
        BY <2>1, <2>4 DEF TypeOK
    <2> HIDE DEF v
    <2>6. r \in Request /\ r.at = "store" /\ r.op \in Ops /\ r.session = s /\ r.view = v
        BY <2>1, <2>2 DEF Request, TypeOK
    <2> HIDE DEF r, s
    <2> QED
        BY <2>1, <2>2, <2>3, <2>4, <2>5, <2>6, SessionMoves
<1>3. CASE Upsert(b)
    <2>1. call[b] \in Request /\ call[b].at = "store" /\ call[b].session \in Sessions
        BY <1>3 DEF Upsert, CallsKnow, TypeOK
    <2>2. call[b].view \in State /\ call[b].view.status # "none"
        BY <2>1 DEF Request, CallsKnow
    <2>3. [call[b] EXCEPT !.at = "publish"] \in Request
        BY <2>1 DEF Request
    <2>4. TypeOK'
        BY <1>3, <2>1, <2>2, <2>3 DEF Upsert, TypeOK, rustledger
    <2>5. SessionsKnow'
        BY <1>3, <2>1, <2>2 DEF Upsert, SessionsKnow, CallsKnow, TypeOK
    <2>6. CallsKnow'
        BY <1>3, <2>1 DEF Upsert, CallsKnow, TypeOK, Request
    <2> QED
        BY <2>4, <2>5, <2>6
<1> QED
    BY <1>1, <1>2, <1>3

\* A topic keeps what is on it.
LEMMA Appended ==
    ASSUME NEW S, NEW q \in Seq(S), NEW e \in S, NEW n \in 0..Len(q)
    PROVE  /\ Append(q, e) \in Seq(S) /\ n \in 0..Len(Append(q, e))
           /\ \A i \in 1..n : Append(q, e)[i] = q[i]
    OBVIOUS

LEMMA ElementOf ==
    ASSUME NEW S, NEW q \in Seq(S), NEW i \in 1..Len(q)
    PROVE  q[i] \in S
    OBVIOUS

LEMMA RecordTyped ==
    ASSUME TypeOK, NEW i \in 1..Len(topic)
    PROVE  /\ topic[i] \in [session: Sessions, elapsed: Time]
           /\ topic[i].session \in Sessions
<1>1. topic[i] \in [session: Sessions, elapsed: Time]
    BY ElementOf DEF TypeOK
<1> QED
    BY <1>1

\* The answer reaches the tab, and a stop may reach the topic.
LEMMA PublishStep ==
    ASSUME WorkInv, NEW b \in Tabs, Publish(b)
    PROVE  WorkInv'
<1> USE DEF WorkInv, elixtempo, rustledger
<1> DEFINE r == call[b]
           record == [session |-> r.session, elapsed |-> r.view.acc]
<1>1. /\ r \in Request /\ r.at = "publish" /\ r.session \in Sessions /\ r.view \in State
      /\ r.view.status # "none"
    BY DEF Publish, CallsKnow, TypeOK, Request
<1>2. record \in [session: Sessions, elapsed: Time] /\ r.view.status \in {"stopped"} \cup Live
    BY <1>1 DEF State
<1>3. /\ topic' \in Seq([session: Sessions, elapsed: Time])
      /\ offset \in 0..Len(topic')
    <2>1. topic' = topic \/ topic' = Append(topic, record)
        BY DEF Publish
    <2> HIDE DEF record
    <2>2. CASE topic' = topic
        BY <2>2 DEF TypeOK
    <2>3. CASE topic' = Append(topic, record)
        BY <1>2, <2>3, Appended DEF TypeOK
    <2> QED
        BY <2>1, <2>2, <2>3
<1>4. timer' = [timer EXCEPT ![b] = [session |-> r.session, status |-> r.view.status]]
    BY DEF Publish
<1>5. timer' \in [Tabs -> [session: Sessions \cup {Null}, status: {"none", "stopped"} \cup Live]]
    BY <1>1, <1>2, <1>4 DEF TypeOK
<1>6. remembered' \in Sessions \cup {Null}
    BY <1>1 DEF Publish, TypeOK
<1>7. /\ call' = [call EXCEPT ![b] = NoRequest] /\ NoRequest.at = "idle"
      /\ NoRequest \in Request
    <2>1. None \in State
        BY WorkAssumption DEF None, State, Time, Live
    <2> QED
        BY <2>1 DEF Publish, NoRequest, Request
<1>8. TypeOK'
    BY <1>3, <1>5, <1>6, <1>7 DEF Publish, TypeOK
<1>9. SessionsKnow'
    BY DEF Publish, SessionsKnow
<1>10. CallsKnow'
    BY <1>1, <1>4, <1>7 DEF Publish, CallsKnow, TypeOK
<1> QED
    BY <1>8, <1>9, <1>10

\* What a session has after elixtempo came back.
LEMMA Recovered ==
    ASSUME WorkInv, Restart, NEW s \in Sessions
    PROVE  /\ process'[s] \in State /\ Sound(process'[s], began[s], clock)
           /\ (process'[s].status = "none") <=> (process[s].status = "none")
           /\ process'[s].status = "none" => process'[s] = None
<1> USE DEF WorkInv
<1>1. process'[s] = IF table[s].status \in Live THEN table[s]
                    ELSE [process[s] EXCEPT !.since = 0, !.acc = table[s].acc,
                            !.status = IF @ = "none" THEN "none" ELSE "stopped"]
    BY DEF Restart
<1>2. process[s] \in State /\ table[s] \in State /\ began[s] \in Time /\ clock \in Time
    BY DEF TypeOK
<1>3. CASE table[s].status \in Live
    <2>1. process'[s] = table[s]
        BY <1>1, <1>3
    <2>2. table[s].status # "none" /\ process[s].status # "none"
        BY <1>3 DEF SessionsKnow, Live, None
    <2> QED
        BY <1>2, <2>1, <2>2 DEF SessionsKnow
<1>4. CASE table[s].status \notin Live
    <2> DEFINE status == IF process[s].status = "none" THEN "none" ELSE "stopped"
    <2>1. process'[s] = [process[s] EXCEPT !.since = 0, !.acc = table[s].acc, !.status = status]
        BY <1>1, <1>4
    <2>2. process'[s] = [status |-> status, acc |-> table[s].acc, since |-> 0]
        BY <1>2, <2>1 DEF State
    <2>3. 0 \in Time
        BY WorkAssumption DEF Time
    <2>4. process'[s] \in State
        BY <1>2, <2>2, <2>3 DEF State
    <2>5. Sound(process'[s], began[s], clock)
        BY <1>4, <2>2 DEF SessionsKnow, Sound, Live
    <2>6. process[s].status = "none" => process'[s] = None
        BY <2>2 DEF SessionsKnow, None
    <2> QED
        BY <2>2, <2>4, <2>5, <2>6
<1> QED
    BY <1>3, <1>4

LEMMA RestartStep == ASSUME WorkInv, Restart PROVE WorkInv'
<1> USE DEF WorkInv
<1>1. restarts' \in [Services -> 0..MaxRestarts]
    <2>1. /\ restarts["elixtempo"] \in 0..MaxRestarts /\ restarts["rustledger"] \in 0..MaxRestarts
          /\ restarts["elixtempo"] + restarts["rustledger"] < MaxRestarts
        BY DEF TypeOK, Services, Restart, CountRestart
    <2>2. restarts["elixtempo"] + 1 \in 0..MaxRestarts
        BY <2>1, WorkAssumption
    <2> QED
        BY <2>2 DEF Restart, CountRestart, TypeOK
<1>2. process' \in [Sessions -> State]
    <2>1. DOMAIN process' = Sessions /\ process' = [s \in Sessions |-> process'[s]]
        BY DEF Restart
    <2> QED
        BY <2>1, Recovered
<1>3. call' = [b \in Tabs |-> NoRequest] /\ NoRequest \in Request /\ NoRequest.at = "idle"
    <2>1. None \in State
        BY WorkAssumption DEF None, State, Time, Live
    <2> QED
        BY <2>1 DEF Restart, NoRequest, Request
<1>4. TypeOK'
    BY <1>1, <1>2, <1>3 DEF Restart, TypeOK, rustledger
<1>5. SessionsKnow'
    <2>1. table' = table /\ began' = began /\ clock' = clock
        BY DEF Restart
    <2> QED
        BY <2>1, Recovered DEF SessionsKnow
<1>6. CallsKnow'
    BY <1>3 DEF Restart, CallsKnow
<1> QED
    BY <1>4, <1>5, <1>6

\* An item is written once, with an amount of money.
LEMMA ItemsKept ==
    ASSUME TypeOK, BillStoppedSession \/ SkipRecord \/ RestartLedger
    PROVE  /\ items' \in [Sessions -> Item \cup {NoItem}]
           /\ \A s \in Sessions : items[s] # NoItem => items'[s] = items[s]
<1>1. CASE BillStoppedSession
    <2> DEFINE event == topic[offset + 1]
    <2>1. event \in [session: Sessions, elapsed: Time]
        <3>1. offset + 1 \in 1..Len(topic)
            BY <1>1 DEF BillStoppedSession, TypeOK
        <3> QED
            BY <3>1, RecordTyped
    <2>2. /\ items' = [items EXCEPT ![event.session] = Billed(event.session, event.elapsed)]
          /\ event.session \in Sessions /\ event.elapsed \in Time
        BY <1>1, <2>1 DEF BillStoppedSession
    <2> HIDE DEF event
    <2>3. Billed(event.session, event.elapsed) \in Item \cup {NoItem}
        BY <2>2, BilledItem DEF Billed, TypeOK
    <2> QED
        BY <2>2, <2>3 DEF TypeOK, Billed
<1>2. CASE SkipRecord \/ RestartLedger
    BY <1>2 DEF SkipRecord, RestartLedger, TypeOK
<1> QED
    BY <1>1, <1>2

LEMMA LedgerStep ==
    ASSUME WorkInv, BillStoppedSession \/ SkipRecord \/ RestartLedger
    PROVE  WorkInv'
<1> USE DEF WorkInv, elixtempo, browser
<1>1. items' \in [Sessions -> Item \cup {NoItem}]
    BY ItemsKept
<1>2. offset' \in 0..Len(topic) /\ skipped' \subseteq 1..offset'
    <2>1. offset \in 0..Len(topic) /\ Len(topic) \in Nat /\ skipped \subseteq 1..offset
        BY DEF TypeOK
    <2>2. CASE BillStoppedSession
        BY <2>1, <2>2 DEF BillStoppedSession
    <2>3. CASE SkipRecord
        <3>1. offset' = offset + 1 /\ offset < Len(topic) /\ skipped' = skipped \cup {offset + 1}
            BY <2>3 DEF SkipRecord
        <3> QED
            BY <2>1, <3>1
    <2>4. CASE RestartLedger
        BY <2>1, <2>4 DEF RestartLedger
    <2> QED
        BY <2>2, <2>3, <2>4
<1>3. restarts' \in [Services -> 0..MaxRestarts]
    <2>1. CASE RestartLedger
        <3>1. /\ restarts["elixtempo"] \in 0..MaxRestarts /\ restarts["rustledger"] \in 0..MaxRestarts
              /\ restarts["elixtempo"] + restarts["rustledger"] < MaxRestarts
            BY <2>1 DEF TypeOK, Services, RestartLedger, CountRestart
        <3>2. restarts["rustledger"] + 1 \in 0..MaxRestarts
            BY <3>1, WorkAssumption
        <3> QED
            BY <2>1, <3>2 DEF RestartLedger, CountRestart, TypeOK
    <2> QED
        BY <2>1 DEF BillStoppedSession, SkipRecord, TypeOK
<1>4. UNCHANGED <<clock, elixtempo, browser, topic>>
    BY DEF BillStoppedSession, SkipRecord, RestartLedger
<1>5. TypeOK'
    BY <1>1, <1>2, <1>3, <1>4 DEF TypeOK
<1> QED
    BY <1>4, <1>5 DEF SessionsKnow, CallsKnow

LEMMA TickStep == ASSUME WorkInv, Tick PROVE WorkInv'
<1> USE DEF WorkInv, elixtempo, browser, rustledger
<1>1. clock' \in Time /\ clock' = clock + 1 /\ clock \in Time
    BY WorkAssumption DEF Tick, TypeOK, Time
<1>2. TypeOK'
    BY <1>1 DEF Tick, TypeOK
<1>3. SessionsKnow'
    BY ZenonT(60), <1>1, SoundLater DEF Tick, SessionsKnow, TypeOK
<1>4. CallsKnow'
    <2>1. \A b \in Tabs : call[b].at \in {"store", "publish"} =>
            Sound(call[b].view, began[call[b].session], clock')
        BY <1>1, SoundLater DEF CallsKnow, TypeOK, Request
    <2> QED
        BY <2>1 DEF Tick, CallsKnow
<1> QED
    BY <1>2, <1>3, <1>4

LEMMA WorkStep == WorkInv /\ [Next]_vars => WorkInv'
<1>1. ASSUME WorkInv, UNCHANGED vars PROVE WorkInv'
    BY <1>1 DEF vars, elixtempo, browser, rustledger, WorkInv, TypeOK, SessionsKnow, CallsKnow
<1> QED
    BY <1>1, BrowserStep, TempoStep, PublishStep, RestartStep, LedgerStep, TickStep DEF Next

LEMMA WorkAlways == Spec => []WorkInv
BY WorkInit, WorkStep, PTL DEF Spec

\* Processes, rows, tabs, requests, events and items have their types.
THEOREM WorkTypes == Spec => []TypeOK
<1>1. WorkInv => TypeOK
    BY DEF WorkInv
<1> QED
    BY <1>1, WorkAlways, PTL

-----------------------------------------------------------------------------
(* Pay *)

\* What the ledger paid for a session it never changes, however often a session is
\* stopped and its events are read.
THEOREM PaidStands == Spec => PaidAmountStands
<1>1. WorkInv /\ [Next]_vars => [\A s \in Sessions : items[s] # NoItem => items'[s] = items[s]]_vars
    <2> SUFFICES ASSUME WorkInv, Next
                 PROVE  \A s \in Sessions : items[s] # NoItem => items'[s] = items[s]
        OBVIOUS
    <2>1. CASE BillStoppedSession \/ SkipRecord \/ RestartLedger
        BY <2>1, ItemsKept DEF WorkInv
    <2>2. ASSUME NEW b \in Tabs,
                 \/ \E op \in Ops : Press(b, op)
                 \/ Mount(b) \/ FailCall(b) \/ StartSession(b) \/ Transition(b) \/ Upsert(b)
                 \/ Publish(b)
          PROVE  items' = items
        BY <2>2 DEF Press, Mount, FailCall, StartSession, Transition, Upsert, Publish, rustledger
    <2>3. CASE Restart \/ Tick
        BY <2>3 DEF Restart, Tick, rustledger
    <2> QED
        BY <2>1, <2>2, <2>3 DEF Next
<1> QED
    BY <1>1, WorkAlways, PTL DEF Spec, PaidAmountStands

MissedInv == WorkInv /\ NothingMissed

LEMMA MissedStep == MissedInv /\ [Next]_vars => MissedInv'
<1> SUFFICES ASSUME MissedInv, [Next]_vars PROVE NothingMissed'
    BY WorkStep DEF MissedInv
<1> USE DEF MissedInv
<1>0. TypeOK
    BY DEF WorkInv
<1>1. CASE UNCHANGED <<topic, rustledger>>
    BY <1>1 DEF rustledger, NothingMissed
<1>2. ASSUME NEW b \in Tabs, Publish(b) PROVE NothingMissed'
    <2> DEFINE record == [session |-> call[b].session, elapsed |-> call[b].view.acc]
    <2>1. topic' = topic \/ topic' = Append(topic, record)
        BY <1>2 DEF Publish
    <2>2. record \in [session: Sessions, elapsed: Time]
        BY <1>2 DEF Publish, WorkInv, CallsKnow, TypeOK, Request, State
    <2> HIDE DEF record
    <2>3. \A i \in 1..offset : topic'[i] = topic[i]
        BY <1>0, <2>1, <2>2, Appended DEF TypeOK
    <2> QED
        BY <1>2, <2>3 DEF Publish, rustledger, NothingMissed
<1>3. CASE BillStoppedSession
    <2> DEFINE k == offset + 1
    <2>1. k \in 1..Len(topic) /\ offset' = k /\ offset \in Nat /\ topic' = topic /\ skipped' = skipped
        BY <1>0, <1>3 DEF BillStoppedSession, TypeOK
    <2>2. topic[k] \in [session: Sessions, elapsed: Time]
        BY <1>0, <2>1, RecordTyped
    <2>3. items' = [items EXCEPT ![topic[k].session] = Billed(topic[k].session, topic[k].elapsed)]
        BY <1>3 DEF BillStoppedSession
    <2>4. Billed(topic[k].session, topic[k].elapsed) # NoItem
        BY <2>2, BilledItem DEF Billed
    <2>5. items'[topic[k].session] # NoItem
        BY <1>0, <2>2, <2>3, <2>4 DEF TypeOK
    <2>6. \A i \in 1..k : i = k \/ i \in 1..offset
        BY <2>1
    <2>7. \A i \in 1..offset : topic[i].session \in Sessions
        <3>1. \A i \in 1..offset : i \in 1..Len(topic)
            BY <1>0, <2>1 DEF TypeOK
        <3> QED
            BY <1>0, <3>1, RecordTyped
    <2>8. \A i \in 1..offset : items[topic[i].session] # NoItem => items'[topic[i].session] # NoItem
        BY <1>0, <1>3, <2>7, ItemsKept
    <2> HIDE DEF k
    <2> QED
        BY <2>1, <2>5, <2>6, <2>8 DEF NothingMissed
<1>4. CASE SkipRecord
    <2> DEFINE k == offset + 1
    <2>1. /\ offset' = k /\ offset \in Nat /\ topic' = topic /\ items' = items
          /\ skipped' = skipped \cup {k}
        BY <1>0, <1>4 DEF SkipRecord, TypeOK
    <2>2. \A i \in 1..k : i = k \/ i \in 1..offset
        BY <2>1
    <2> HIDE DEF k
    <2> QED
        BY <2>1, <2>2 DEF NothingMissed
<1>5. CASE RestartLedger
    BY <1>5 DEF RestartLedger, NothingMissed
<1>6. ASSUME NEW b \in Tabs,
             \/ \E op \in Ops : Press(b, op)
             \/ Mount(b) \/ FailCall(b) \/ StartSession(b) \/ Transition(b) \/ Upsert(b)
      PROVE  NothingMissed'
    BY <1>1, <1>6 DEF Press, Mount, FailCall, StartSession, Transition, Upsert
<1>7. CASE Restart \/ Tick
    BY <1>1, <1>7 DEF Restart, Tick
<1>8. CASE UNCHANGED vars
    BY <1>1, <1>8 DEF vars
<1> QED
    BY <1>2, <1>3, <1>4, <1>5, <1>6, <1>7, <1>8 DEF Next

\* What the ledger read since it started it paid for, or failed on since then.
THEOREM NothingIsMissed == Spec => []NothingMissed
<1>1. Init => MissedInv
    BY WorkInit DEF Init, MissedInv, NothingMissed
<1>2. MissedInv => NothingMissed
    BY DEF MissedInv
<1> QED
    BY <1>1, <1>2, MissedStep, PTL DEF Spec

\* An item pays its own time at the rate, to within half a cent: what PayAddsUp
\* sums up, for each session by itself.
EachItemRounded ==
    \A s \in Sessions : items[s] # NoItem =>
        3600 * items[s].cents - items[s].elapsed * SecondsPerTick * CentsPerHour \in -1800..1800

ItemsByAmount ==
    \A s \in Sessions : items[s] # NoItem =>
        items[s].elapsed \in Time /\ items[s].cents = Amount(items[s].elapsed)

LEMMA AmountStep ==
    ASSUME WorkInv, ItemsByAmount, [Next]_vars
    PROVE  ItemsByAmount'
<1>1. CASE items' = items
    BY <1>1 DEF ItemsByAmount
<1>2. CASE BillStoppedSession
    <2> DEFINE event == topic[offset + 1]
    <2>1. offset + 1 \in 1..Len(topic)
        BY <1>2 DEF BillStoppedSession, WorkInv, TypeOK
    <2>2. event \in [session: Sessions, elapsed: Time]
        BY <2>1, RecordTyped DEF WorkInv
    <2>3. items' = [items EXCEPT ![event.session] = Billed(event.session, event.elapsed)]
        BY <1>2 DEF BillStoppedSession
    <2> HIDE DEF event
    <2>4. items \in [Sessions -> Item \cup {NoItem}]
        BY DEF WorkInv, TypeOK
    <2>5. \/ Billed(event.session, event.elapsed) = items[event.session]
          \/ Billed(event.session, event.elapsed) =
                [elapsed |-> event.elapsed, cents |-> Amount(event.elapsed)]
        BY DEF Billed
    <2> QED
        BY <2>2, <2>3, <2>4, <2>5 DEF ItemsByAmount
<1>3. ASSUME NEW b \in Tabs,
             \/ \E op \in Ops : Press(b, op)
             \/ Mount(b) \/ FailCall(b) \/ StartSession(b) \/ Transition(b) \/ Upsert(b)
             \/ Publish(b)
      PROVE  items' = items
    BY <1>3 DEF Press, Mount, FailCall, StartSession, Transition, Upsert, Publish, rustledger
<1>4. CASE Restart \/ Tick \/ SkipRecord \/ RestartLedger \/ UNCHANGED vars
    BY <1>1, <1>4 DEF Restart, Tick, SkipRecord, RestartLedger, vars, rustledger
<1> QED
    BY <1>1, <1>2, <1>3, <1>4 DEF Next

\* No session is paid a cent too much or too little, at any rate.
THEOREM PaidToTheCent == Spec => []EachItemRounded
<1>1. Init => ItemsByAmount
    BY DEF Init, ItemsByAmount
<1>2. WorkInv /\ ItemsByAmount /\ [Next]_vars => ItemsByAmount'
    BY AmountStep
<1>3. ItemsByAmount => EachItemRounded
    <2> SUFFICES ASSUME ItemsByAmount, NEW s \in Sessions, items[s] # NoItem
                 PROVE  3600 * items[s].cents - items[s].elapsed * SecondsPerTick * CentsPerHour
                            \in -1800..1800
        BY ZenonT(60) DEF EachItemRounded
    <2>1. PICK t \in Time : items[s].elapsed = t /\ items[s].cents = Amount(t)
        BY DEF ItemsByAmount
    <2>2. /\ Amount(t) \in Nat
          /\ 3600 * Amount(t) - t * SecondsPerTick * CentsPerHour \in -1800..1800
        BY AmountRounds
    <2> QED
        BY SMTT(60), <2>1, <2>2
<1> QED
    BY <1>1, <1>2, <1>3, WorkAlways, PTL DEF Spec

-----------------------------------------------------------------------------
(* Sums over finite sets *)

\* The element a fold takes next.
Picked(T) == CHOOSE x \in T : TRUE

\* f adds up W over each subset of S, the way the folds of the community modules do.
Sums(W, S, f) ==
    f = [T \in SUBSET S |-> IF T = {} THEN 0 ELSE W[Picked(T)] + f[T \ {Picked(T)}]]

LEMMA PickedIn == ASSUME NEW T, T # {} PROVE Picked(T) \in T
    BY DEF Picked

\* Induction over finite sets: if some fail, a smallest one does.
LEMMA SmallestBad ==
    ASSUME NEW S, IsFiniteSet(S), NEW Bad, Bad \subseteq SUBSET S, Bad # {}
    PROVE  \E T \in Bad : \A U \in SUBSET T : U # T => U \notin Bad
<1>1. FiniteSubsetsOf(S) = SUBSET S
    BY FS_FiniteSubsetsOfFinite
<1>2. IsWellFoundedOn(StrictSubsetOrdering(S), SUBSET S)
    BY <1>1, FS_StrictSubsetOrderingWellFounded
<1>3. PICK T \in Bad : \A U \in Bad : ~(<<U, T>> \in StrictSubsetOrdering(S))
    BY <1>2, WFMin, Zenon
<1>4. ASSUME NEW U \in SUBSET T, U # T, U \in Bad PROVE FALSE
    <2>1. <<U, T>> \in (SUBSET S) \X (SUBSET S)
        BY <1>4
    <2> QED
        BY <1>3, <1>4, <2>1 DEF StrictSubsetOrdering
<1> QED
    BY <1>4

\* Two such functions agree wherever both are defined.
LEMMA SumsAgree ==
    ASSUME NEW W, NEW S, NEW Q, NEW f, NEW g, IsFiniteSet(S), Sums(W, S, f), Sums(W, Q, g)
    PROVE  \A T \in SUBSET (S \cap Q) : f[T] = g[T]
<1> DEFINE Bad == {T \in SUBSET (S \cap Q) : f[T] # g[T]}
<1>1. SUFFICES ASSUME Bad # {} PROVE FALSE
    OBVIOUS
<1>2. IsFiniteSet(S \cap Q)
    BY FS_Intersection
<1>3. PICK T \in Bad : \A U \in SUBSET T : U # T => U \notin Bad
    <2>1. Bad \subseteq SUBSET (S \cap Q)
        OBVIOUS
    <2> HIDE DEF Bad
    <2> QED
        BY <1>1, <1>2, <2>1, SmallestBad
<1>4. /\ f[T] = IF T = {} THEN 0 ELSE W[Picked(T)] + f[T \ {Picked(T)}]
      /\ g[T] = IF T = {} THEN 0 ELSE W[Picked(T)] + g[T \ {Picked(T)}]
    <2>1. T \in SUBSET S /\ T \in SUBSET Q
        BY <1>3
    <2> QED
        BY <2>1 DEF Sums
<1>5. T # {}
    BY <1>3, <1>4
<1>6. T \ {Picked(T)} \in SUBSET T /\ T \ {Picked(T)} # T
    BY <1>5, PickedIn
<1>7. f[T \ {Picked(T)}] = g[T \ {Picked(T)}]
    BY <1>3, <1>6
<1> QED
    BY <1>3, <1>4, <1>7

\* The recursion defines a function: put together from those of the smaller sets.
LEMMA SumsExist ==
    ASSUME NEW W, NEW S, IsFiniteSet(S)
    PROVE  \E f : Sums(W, S, f)
<1> DEFINE Bad == {T \in SUBSET S : ~ \E f : Sums(W, T, f)}
<1>1. SUFFICES ASSUME Bad # {} PROVE FALSE
    OBVIOUS
<1>2. PICK T \in Bad : \A U \in SUBSET T : U # T => U \notin Bad
    <2>1. Bad \subseteq SUBSET S
        OBVIOUS
    <2> HIDE DEF Bad
    <2> QED
        BY <1>1, <2>1, SmallestBad
<1> DEFINE part[U \in SUBSET T] == CHOOSE f : Sums(W, U, f)
<1>3. ASSUME NEW U \in SUBSET T, U # T PROVE IsFiniteSet(U) /\ Sums(W, U, part[U])
    <2>1. \E f : Sums(W, U, f)
        BY <1>2, <1>3
    <2>2. U \in SUBSET S
        BY <1>2, <1>3
    <2> QED
        BY <2>1, <2>2, FS_Subset
<1> DEFINE f == [U \in SUBSET T |-> IF U = {} THEN 0
                    ELSE W[Picked(U)] + part[U \ {Picked(U)}][U \ {Picked(U)}]]
<1> HIDE DEF part
<1>4. ASSUME NEW U \in SUBSET T, U # T PROVE f[U] = part[U][U]
    <2>1. part[U][U] = IF U = {} THEN 0 ELSE W[Picked(U)] + part[U][U \ {Picked(U)}]
        BY <1>3, <1>4 DEF Sums
    <2>2. CASE U = {}
        BY <2>1, <2>2
    <2>3. CASE U # {}
        <3> DEFINE V == U \ {Picked(U)}
        <3>1. V \in SUBSET T /\ V # T /\ V \in SUBSET (U \cap V)
            BY <1>4
        <3>2. Sums(W, U, part[U]) /\ Sums(W, V, part[V]) /\ IsFiniteSet(U)
            BY <1>3, <1>4, <3>1
        <3>3. part[U][V] = part[V][V]
            BY <3>1, <3>2, SumsAgree
        <3> QED
            BY <1>4, <2>1, <2>3, <3>3
    <2> QED
        BY <2>2, <2>3
<1>5. ASSUME NEW U \in SUBSET T
      PROVE  f[U] = IF U = {} THEN 0 ELSE W[Picked(U)] + f[U \ {Picked(U)}]
    <2>1. CASE U = {}
        BY <2>1
    <2>2. CASE U # {}
        <3>1. U \ {Picked(U)} \in SUBSET T /\ U \ {Picked(U)} # T
            BY <1>5, <2>2, PickedIn
        <3>2. f[U \ {Picked(U)}] = part[U \ {Picked(U)}][U \ {Picked(U)}]
            BY <1>4, <3>1
        <3> QED
            BY <2>2, <3>2
    <2> QED
        BY <2>1, <2>2
<1>6. f = [U \in SUBSET T |-> f[U]]
    OBVIOUS
<1> HIDE DEF f
<1>7. Sums(W, T, f)
    BY <1>5, <1>6 DEF Sums
<1> QED
    BY <1>2, <1>7

-----------------------------------------------------------------------------
(* The pay of all sessions *)

\* What was billed so far, and the two sums of PayAddsUp over it.
Paid == {s \in Sessions : items[s] # NoItem}
Times == [s \in Sessions |-> items[s].elapsed]
Cents == [s \in Sessions |-> items[s].cents]

PayInv == WorkInv /\ ItemsByAmount /\ IsFiniteSet(Paid)

\* A record more pays one session more, or none.
LEMMA PaidGrows ==
    ASSUME WorkInv, IsFiniteSet(Paid), [Next]_vars
    PROVE  IsFiniteSet(Paid')
<1>1. CASE items' = items
    BY <1>1 DEF Paid
<1>2. CASE BillStoppedSession
    <2> DEFINE event == topic[offset + 1]
    <2>1. items' = [items EXCEPT ![event.session] = Billed(event.session, event.elapsed)]
        BY <1>2 DEF BillStoppedSession
    <2> HIDE DEF event
    <2>2. Paid' \in SUBSET (Paid \cup {event.session})
        BY <2>1 DEF Paid, WorkInv, TypeOK
    <2> QED
        BY <2>2, FS_AddElement, FS_Subset
<1>3. ASSUME NEW b \in Tabs,
             \/ \E op \in Ops : Press(b, op)
             \/ Mount(b) \/ FailCall(b) \/ StartSession(b) \/ Transition(b) \/ Upsert(b)
             \/ Publish(b)
      PROVE  items' = items
    BY <1>3 DEF Press, Mount, FailCall, StartSession, Transition, Upsert, Publish, rustledger
<1>4. CASE Restart \/ Tick \/ SkipRecord \/ RestartLedger \/ UNCHANGED vars
    BY <1>1, <1>4 DEF Restart, Tick, SkipRecord, RestartLedger, vars, rustledger
<1> QED
    BY <1>1, <1>2, <1>3, <1>4 DEF Next

\* Time t at a rate per hour is c cents, give or take half a cent per session of n.
Within(c, t, rate, n) ==
    /\ c \in Nat /\ t \in Nat
    /\ c * 3600 - t * rate \in -1800 * n .. 1800 * n

\* No session, no pay.
LEMMA NoneWithin ==
    ASSUME NEW rate \in Nat
    PROVE  Within(0, 0, rate, 0)
<1>1. 0 * rate = 0
    OBVIOUS
<1> QED
    BY SMTT(30), <1>1 DEF Within

\* One session more: its half cent is added to the others'.
LEMMA HalfACentMore ==
    ASSUME NEW rate \in Nat, NEW n \in Nat, NEW time, NEW cents, NEW t, NEW c,
           Within(cents, time, rate, n), Within(c, t, rate, 1)
    PROVE  Within(c + cents, t + time, rate, n + 1)
<1>1. time \in Nat /\ cents \in Nat /\ t \in Nat /\ c \in Nat
    BY DEF Within
<1>2. PICK a \in Nat : a = time * rate
    BY <1>1
<1>3. PICK b \in Nat : b = t * rate
    BY <1>1
<1>4. (t + time) * rate = b + a
    BY SMTT(60), <1>1, <1>2, <1>3
<1>5. cents * 3600 - a \in -1800 * n .. 1800 * n
    BY <1>2 DEF Within
<1>6. c * 3600 - b \in -1800 .. 1800
    BY <1>3 DEF Within
<1>7. (c + cents) * 3600 - (b + a) \in -1800 * (n + 1) .. 1800 * (n + 1)
    BY SMTT(60), <1>1, <1>2, <1>3, <1>5, <1>6
<1> QED
    BY <1>1, <1>4, <1>7 DEF Within

LEMMA SumsAt ==
    ASSUME NEW W, NEW P, NEW f, Sums(W, P, f), NEW Q \in SUBSET P
    PROVE  f[Q] = IF Q = {} THEN 0 ELSE W[Picked(Q)] + f[Q \ {Picked(Q)}]
    BY DEF Sums

\* Session by session, from none to all.
LEMMA SumsWithin ==
    ASSUME NEW P, IsFiniteSet(P), NEW rate \in Nat,
           NEW T, NEW C, NEW time, NEW cents, Sums(T, P, time), Sums(C, P, cents),
           \A s \in P : Within(C[s], T[s], rate, 1)
    PROVE  Within(cents[P], time[P], rate, Cardinality(P))
<1> DEFINE Bad == {Q \in SUBSET P : ~Within(cents[Q], time[Q], rate, Cardinality(Q))}
<1>1. SUFFICES ASSUME Bad # {} PROVE FALSE
    OBVIOUS
<1>2. PICK Q \in Bad : \A U \in SUBSET Q : U # Q => U \notin Bad
    <2>1. Bad \subseteq SUBSET P
        OBVIOUS
    <2> HIDE DEF Bad
    <2> QED
        BY <1>1, <2>1, SmallestBad
<1>3. Q \in SUBSET P /\ ~Within(cents[Q], time[Q], rate, Cardinality(Q))
    BY <1>2
<1>4. \A U \in SUBSET Q : U # Q => Within(cents[U], time[U], rate, Cardinality(U))
    BY <1>2, <1>3
<1> HIDE DEF Bad
<1>5. IsFiniteSet(Q)
    BY <1>3, FS_Subset
<1>6. /\ time[Q] = IF Q = {} THEN 0 ELSE T[Picked(Q)] + time[Q \ {Picked(Q)}]
      /\ cents[Q] = IF Q = {} THEN 0 ELSE C[Picked(Q)] + cents[Q \ {Picked(Q)}]
    BY <1>3, SumsAt
<1>7. CASE Q = {}
    <2>1. Cardinality(Q) = 0
        BY <1>7, FS_EmptySet
    <2>2. Within(0, 0, rate, 0)
        BY NoneWithin
    <2> QED
        BY <1>3, <1>6, <1>7, <2>1, <2>2
<1>8. CASE Q # {}
    <2>1. PICK s \in Q : s = Picked(Q)
        BY <1>8, PickedIn
    <2>2. PICK U : U \in SUBSET Q /\ U = Q \ {s} /\ U # Q
        <3>1. Q \ {s} \in SUBSET Q /\ Q \ {s} # Q
            OBVIOUS
        <3> QED
            BY <3>1
    <2>3. Within(cents[U], time[U], rate, Cardinality(U))
        BY <1>4, <2>2
    <2>4. Cardinality(U) \in Nat /\ Cardinality(Q) = Cardinality(U) + 1
        <3>1. IsFiniteSet(U) /\ Cardinality(U) = Cardinality(Q) - 1
            BY <1>5, <2>2, FS_RemoveElement
        <3> QED
            BY <1>5, <3>1, FS_CardinalityType
    <2>5. Within(C[s], T[s], rate, 1)
        BY <1>3
    <2>6. time[Q] = T[s] + time[U] /\ cents[Q] = C[s] + cents[U]
        BY <1>6, <1>8, <2>1, <2>2
    <2>7. Within(C[s] + cents[U], T[s] + time[U], rate, Cardinality(U) + 1)
        BY <2>3, <2>4, <2>5, HalfACentMore
    <2> QED
        BY <1>3, <2>4, <2>6, <2>7
<1> QED
    BY <1>7, <1>8

\* The folds of the property compute such sums.
LEMMA TimesFold ==
    ASSUME NEW P, P \subseteq Sessions, IsFiniteSet(P)
    PROVE  \E f : Sums(Times, P, f) /\ MapThenSumSet(LAMBDA s : items[s].elapsed, P) = f[P]
<1> DEFINE body(f) == [T \in SUBSET P |-> IF T = {} THEN 0
                         ELSE items[Picked(T)].elapsed + f[T \ {Picked(T)}]]
           g == CHOOSE f : f = body(f)
<1>1. ASSUME NEW f PROVE Sums(Times, P, f) <=> f = body(f)
    <2>1. \A T \in SUBSET P : T # {} => Times[Picked(T)] = items[Picked(T)].elapsed
        BY PickedIn DEF Times
    <2> QED
        BY <2>1 DEF Sums
<1>2. MapThenSumSet(LAMBDA s : items[s].elapsed, P) = g[P]
    BY DEF MapThenSumSet, MapThenFoldSet, Picked
<1>3. PICK f : f = body(f)
    BY <1>1, SumsExist
<1>4. g = body(g)
    BY <1>3
<1> HIDE DEF g, body
<1> QED
    BY <1>1, <1>2, <1>4

LEMMA CentsFold ==
    ASSUME NEW P, P \subseteq Sessions, IsFiniteSet(P)
    PROVE  \E f : Sums(Cents, P, f) /\ MapThenSumSet(LAMBDA s : items[s].cents, P) = f[P]
<1> DEFINE body(f) == [T \in SUBSET P |-> IF T = {} THEN 0
                         ELSE items[Picked(T)].cents + f[T \ {Picked(T)}]]
           g == CHOOSE f : f = body(f)
<1>1. ASSUME NEW f PROVE Sums(Cents, P, f) <=> f = body(f)
    <2>1. \A T \in SUBSET P : T # {} => Cents[Picked(T)] = items[Picked(T)].cents
        BY PickedIn DEF Cents
    <2> QED
        BY <2>1 DEF Sums
<1>2. MapThenSumSet(LAMBDA s : items[s].cents, P) = g[P]
    BY DEF MapThenSumSet, MapThenFoldSet, Picked
<1>3. PICK f : f = body(f)
    BY <1>1, SumsExist
<1>4. g = body(g)
    BY <1>3
<1> HIDE DEF g, body
<1> QED
    BY <1>1, <1>2, <1>4

LEMMA PayInvPays ==
    ASSUME PayInv
    PROVE  PayAddsUp
<1> DEFINE rate == SecondsPerTick * CentsPerHour
           time == MapThenSumSet(LAMBDA s : items[s].elapsed, Paid)
           cents == MapThenSumSet(LAMBDA s : items[s].cents, Paid)
<1>1. rate \in Nat /\ IsFiniteSet(Paid) /\ Paid \subseteq Sessions
    BY WorkAssumption DEF PayInv, Paid
<1>2. \A s \in Paid : Within(Cents[s], Times[s], rate, 1)
    <2> SUFFICES ASSUME NEW s \in Paid PROVE Within(Cents[s], Times[s], rate, 1)
        OBVIOUS
    <2>1. PICK t \in Time : Times[s] = t /\ Cents[s] = Amount(t)
        BY DEF Times, Cents, PayInv, ItemsByAmount, Paid
    <2>2. Amount(t) \in Nat /\ 3600 * Amount(t) - t * SecondsPerTick * CentsPerHour \in -1800..1800
        BY AmountRounds
    <2>3. t \in Nat /\ t * SecondsPerTick * CentsPerHour = t * rate
        BY SMTT(60), WorkAssumption DEF Time
    <2>4. t * rate \in Int
        BY <1>1, <2>3
    <2>5. Amount(t) * 3600 - t * rate \in -1800 * 1 .. 1800 * 1
        BY <2>2, <2>3, <2>4
    <2>6. t \in Nat /\ Amount(t) \in Nat
        BY <2>2, <2>3
    <2> HIDE DEF rate
    <2>7. Within(Amount(t), t, rate, 1)
        BY <2>5, <2>6 DEF Within
    <2> QED
        BY <2>1, <2>7
<1> HIDE DEF rate, time, cents
<1>3. Within(cents, time, rate, Cardinality(Paid))
    <2>1. PICK f : Sums(Times, Paid, f) /\ time = f[Paid]
        BY <1>1, TimesFold DEF time
    <2>2. PICK g : Sums(Cents, Paid, g) /\ cents = g[Paid]
        BY <1>1, CentsFold DEF cents
    <2> QED
        BY <1>1, <1>2, <2>1, <2>2, SumsWithin
<1>4. time \in Nat /\ cents \in Nat /\ time * SecondsPerTick * CentsPerHour = time * rate
    <2>1. time \in Nat /\ cents \in Nat
        BY <1>3 DEF Within
    <2> QED
        BY SMTT(60), <2>1, WorkAssumption DEF rate
<1>5. cents * 3600 - time * SecondsPerTick * CentsPerHour
            \in -1800 * Cardinality(Paid) .. 1800 * Cardinality(Paid)
    <2>1. cents * 3600 - time * rate \in -1800 * Cardinality(Paid) .. 1800 * Cardinality(Paid)
        BY <1>3 DEF Within
    <2>2. PICK due : due = time * rate
        OBVIOUS
    <2>3. time * SecondsPerTick * CentsPerHour = due
        BY <1>4, <2>2
    <2> QED
        BY <2>1, <2>2, <2>3
<1> QED
    BY <1>5 DEF PayAddsUp, Paid, time, cents

\* However the work is cut into sessions, the pay for all of them is within half a cent
\* per session of the rate for the time in all.
THEOREM PaySums == Spec => []PayAddsUp
<1>1. Init => PayInv
    <2>1. Init => Paid = {}
        BY DEF Init, Paid
    <2> QED
        BY <2>1, WorkInit, FS_EmptySet DEF PayInv, Init, ItemsByAmount
<1>2. PayInv /\ [Next]_vars => PayInv'
    BY WorkStep, AmountStep, PaidGrows DEF PayInv
<1>3. PayInv => PayAddsUp
    BY PayInvPays
<1> QED
    BY <1>1, <1>2, <1>3, PTL DEF Spec

-----------------------------------------------------------------------------
(* Watches *)

\* What a watch shows of a process.
LEMMA WatchShows ==
    ASSUME WorkInv, NEW s \in Sessions
    PROVE  /\ Elapsed(process[s]) \in 0..(clock - began[s])
           /\ process[s].status \in {"none", "running", "paused", "stopped"}
           /\ process[s] = None <=> process[s].status = "none"
           /\ process[s] = None => Elapsed(process[s]) = 0
<1>1. Elapsed(process[s]) \in 0..(clock - began[s])
    BY SoundElapsed DEF WorkInv, TypeOK, SessionsKnow
<1> QED
    BY <1>1 DEF WorkInv, TypeOK, SessionsKnow, State, Live, None, Elapsed

WatchStatus == [s \in Sessions |-> process[s].status]
WatchElapsed == [s \in Sessions |-> Elapsed(process[s])]
WatchAge == [s \in Sessions |-> IF process[s] = None THEN 0 ELSE clock - began[s]]

LEMMA WatchInit == Init => Watch!Init
<1> SUFFICES ASSUME Init PROVE Watch!Init
    OBVIOUS
<1>1. \A s \in Sessions : process[s] = None
    BY DEF Init
<1>2. WatchStatus = [s \in Sessions |-> "none"]
    BY <1>1 DEF WatchStatus, None
<1>3. WatchElapsed = [s \in Sessions |-> 0]
    BY <1>1 DEF WatchElapsed, None, Elapsed
<1>4. WatchAge = [s \in Sessions |-> 0]
    BY <1>1 DEF WatchAge
<1>5. restarts["elixtempo"] = 0
    BY DEF Init, Services
<1> QED
    BY <1>2, <1>3, <1>4, <1>5 DEF Watch!Init, WatchStatus, WatchElapsed, WatchAge

\* A step that touches neither processes nor time nor the count of recoveries.
LEMMA WatchStutters ==
    ASSUME process' = process, began' = began, clock' = clock,
           restarts'["elixtempo"] = restarts["elixtempo"]
    PROVE  UNCHANGED Watch!vars
    BY DEF Watch!vars, Elapsed

\* One session turns; what all watches count stays.
LEMMA WatchTurns ==
    ASSUME WorkInv, NEW s \in Sessions, NEW v, NEW start,
           process' = [process EXCEPT ![s] = v],
           began' = [began EXCEPT ![s] = start], clock' = clock, restarts' = restarts,
           (IF v.status = "running" THEN v.acc + (clock - v.since) ELSE v.acc) = Elapsed(process[s]),
           (IF v = None THEN 0 ELSE clock - start) = WatchAge[s]
    PROVE  /\ WatchStatus' = [WatchStatus EXCEPT ![s] = v.status]
           /\ WatchElapsed' = WatchElapsed /\ WatchAge' = WatchAge
<1> USE DEF WorkInv, TypeOK
<1>1. process'[s] = v /\ began'[s] = start
    OBVIOUS
<1>2. \A u \in Sessions \ {s} : process'[u] = process[u] /\ began'[u] = began[u]
    OBVIOUS
<1>3. \A u \in Sessions : Elapsed(process[u])' = Elapsed(process[u])
    BY <1>1, <1>2 DEF Elapsed
<1>4. WatchStatus' = [WatchStatus EXCEPT ![s] = v.status]
    BY <1>1, <1>2 DEF WatchStatus
<1>5. WatchElapsed' = WatchElapsed
    BY <1>3 DEF WatchElapsed
<1>6. WatchAge' = WatchAge
    BY <1>1, <1>2 DEF WatchAge
<1> QED
    BY <1>4, <1>5, <1>6

\* A turn of one session, as its process makes it.
LEMMA TransitionTurns ==
    ASSUME WorkInv, NEW b \in Tabs, Transition(b)
    PROVE  Watch!Next
<1>0. PICK s \in Sessions : s = call[b].session
    BY DEF Transition, WorkInv, CallsKnow
<1> DEFINE v == After(call[b].op, process[s])
<1>1. s \in Sessions /\ call[b].op \in Ops /\ v # None
    BY <1>0 DEF Transition, WorkInv, CallsKnow
<1>2. /\ process' = [process EXCEPT ![s] = v] /\ began' = began /\ clock' = clock
      /\ restarts' = restarts
    BY <1>0 DEF Transition
<1>3. began' = [began EXCEPT ![s] = began[s]]
    BY <1>1, <1>2 DEF WorkInv, TypeOK
<1>4. process[s] \in State /\ clock \in Nat /\ process[s] # None
    <2>1. v.status # "none" /\ process[s].status # "none"
        BY <1>1, SoundAfter DEF WorkInv, TypeOK, SessionsKnow
    <2> QED
        BY <1>1, <2>1, WorkAssumption DEF WorkInv, TypeOK, None, Time
<1>5. /\ Elapsed(process[s]) = IF v.status = "running" THEN v.acc + (clock - v.since) ELSE v.acc
      /\ \/ process[s].status = "running" /\ v.status = "paused"
         \/ process[s].status = "paused" /\ v.status = "running"
         \/ process[s].status \in Live /\ v.status = "stopped"
    <2>1. CASE call[b].op = "pause" /\ process[s].status = "running"
        BY <2>1 DEF After, Halted
    <2>2. CASE call[b].op = "resume" /\ process[s].status = "paused"
        <3>1. v = [process[s] EXCEPT !.status = "running", !.since = clock]
            BY <2>2 DEF After
        <3>2. v.status = "running" /\ v.since = clock /\ v.acc = process[s].acc
            BY <1>4, <3>1 DEF State
        <3>3. process[s].acc \in Nat
            BY <1>4, WorkAssumption DEF State, Time
        <3> QED
            BY <1>4, <2>2, <3>2, <3>3 DEF Elapsed
    <2>3. CASE call[b].op = "stop" /\ process[s].status \in Live
        BY <2>3 DEF After, Halted
    <2> QED
        BY <1>1, <2>1, <2>2, <2>3 DEF After
<1>6. WatchAge[s] = clock - began[s]
    BY <1>1, <1>4 DEF WatchAge
<1> HIDE DEF v
<1>7. /\ WatchStatus' = [WatchStatus EXCEPT ![s] = v.status]
      /\ WatchElapsed' = WatchElapsed /\ WatchAge' = WatchAge
    BY <1>1, <1>2, <1>3, <1>5, <1>6, WatchTurns
<1>8. WatchStatus[s] = process[s].status
    BY <1>1 DEF WatchStatus
<1>9. Watch!Pause(s) \/ Watch!Resume(s) \/ Watch!Stop(s)
    BY <1>2, <1>5, <1>7, <1>8
       DEF Watch!Pause, Watch!Resume, Watch!Stop, Watch!Turn, WatchStatus, WatchElapsed, WatchAge,
           Live
<1> QED
    BY <1>1, <1>9 DEF Watch!Next

LEMMA StartTurns ==
    ASSUME WorkInv, NEW b \in Tabs, StartSession(b)
    PROVE  Watch!Next
<1> DEFINE v == [status |-> "running", acc |-> 0, since |-> clock]
<1>1. PICK s \in Sessions :
        /\ process[s] = None
        /\ process' = [process EXCEPT ![s] = v]
        /\ began' = [began EXCEPT ![s] = clock]
    BY DEF StartSession
<1>2. clock \in Nat /\ clock' = clock /\ restarts' = restarts
    BY WorkAssumption DEF StartSession, WorkInv, TypeOK, Time
<1>3. Elapsed(process[s]) = 0 /\ WatchAge[s] = 0
    BY <1>1 DEF Elapsed, None, WatchAge
<1>4. /\ (IF v.status = "running" THEN v.acc + (clock - v.since) ELSE v.acc) = 0
      /\ (IF v = None THEN 0 ELSE clock - clock) = 0
      /\ v.status = "running"
    BY <1>2
<1> HIDE DEF v
<1>5. /\ WatchStatus' = [WatchStatus EXCEPT ![s] = v.status]
      /\ WatchElapsed' = WatchElapsed /\ WatchAge' = WatchAge
    BY <1>1, <1>2, <1>3, <1>4, WatchTurns
<1>6. WatchStatus[s] = "none"
    BY <1>1 DEF WatchStatus, None
<1>7. Watch!Start(s)
    BY <1>2, <1>4, <1>5, <1>6
       DEF Watch!Start, Watch!Turn, WatchStatus, WatchElapsed, WatchAge
<1> QED
    BY <1>7 DEF Watch!Next

LEMMA TickTicks ==
    ASSUME WorkInv, Tick
    PROVE  Watch!Next
<1>1. /\ clock' = clock + 1 /\ clock \in Nat /\ process' = process /\ began' = began
      /\ restarts' = restarts
    BY WorkAssumption DEF Tick, elixtempo, WorkInv, TypeOK, Time
<1>2. \A s \in Sessions : process[s] \in State /\ began[s] \in Nat
    BY WorkAssumption DEF WorkInv, TypeOK, Time
<1>3. \A s \in Sessions : Elapsed(process[s])' = IF process[s].status = "running"
                            THEN Elapsed(process[s]) + 1 ELSE Elapsed(process[s])
    <2> SUFFICES ASSUME NEW s \in Sessions
                 PROVE  Elapsed(process[s])' = IF process[s].status = "running"
                            THEN Elapsed(process[s]) + 1 ELSE Elapsed(process[s])
        OBVIOUS
    <2>1. process[s].acc \in Nat /\ process[s].since \in Nat
        BY <1>2, WorkAssumption DEF State, Time
    <2> QED
        BY <1>1, <2>1 DEF Elapsed
<1>4. \A s \in Sessions : process[s] = None <=> process[s].status = "none"
    BY WatchShows
<1>5. WatchElapsed' = [s \in Sessions |-> IF WatchStatus[s] = "running" THEN WatchElapsed[s] + 1
                                          ELSE WatchElapsed[s]]
    BY <1>3 DEF WatchElapsed, WatchStatus
<1>6. WatchAge' = [s \in Sessions |-> IF WatchStatus[s] = "none" THEN 0 ELSE WatchAge[s] + 1]
    BY <1>1, <1>2, <1>4 DEF WatchAge, WatchStatus
<1>7. WatchStatus' = WatchStatus
    BY <1>1 DEF WatchStatus
<1>8. Watch!Tick
    BY <1>1, <1>5, <1>6, <1>7 DEF Watch!Tick, WatchStatus, WatchElapsed, WatchAge
<1> QED
    BY <1>8 DEF Watch!Next

LEMMA RestartRecovers ==
    ASSUME WorkInv, WorkInv', Restart
    PROVE  Watch!Next
<1>1. clock' = clock /\ began' = began /\ clock \in Nat
    <2>1. clock' = clock /\ began' = began
        BY DEF Restart
    <2>2. clock \in Time
        BY DEF WorkInv, TypeOK
    <2> QED
        BY <2>1, <2>2, WorkAssumption DEF Time
<1>2. restarts'["elixtempo"] = restarts["elixtempo"] + 1
    BY DEF Restart, CountRestart, WorkInv, TypeOK, Services
<1>3. \A s \in Sessions :
        /\ Elapsed(process[s])' \in 0..(clock - began[s])
        /\ process'[s].status \in {"none", "running", "paused", "stopped"}
        /\ process'[s] = None <=> process'[s].status = "none"
        /\ process'[s] = None => Elapsed(process[s])' = 0
    <2> SUFFICES ASSUME NEW s \in Sessions
                 PROVE  /\ Elapsed(process[s])' \in 0..(clock - began[s])
                        /\ process'[s].status \in {"none", "running", "paused", "stopped"}
                        /\ process'[s] = None <=> process'[s].status = "none"
                        /\ process'[s] = None => Elapsed(process[s])' = 0
        OBVIOUS
    <2>1. /\ process'[s] \in State /\ Sound(process'[s], began[s], clock)
          /\ process'[s].status = "none" => process'[s] = None
        BY Recovered
    <2>2. Elapsed(process'[s]) \in 0..(clock - began[s])
        BY <2>1, SoundElapsed DEF WorkInv, TypeOK
    <2>3. Elapsed(process[s])' = Elapsed(process'[s])
        BY <1>1 DEF Elapsed
    <2> QED
        BY <2>1, <2>2, <2>3 DEF State, Live, None, Elapsed
<1>4. \A s \in Sessions : (process'[s].status = "none") <=> (process[s].status = "none")
    BY Recovered
<1>5. \A s \in Sessions : began[s] \in Nat
    BY WorkAssumption DEF WorkInv, TypeOK, Time
<1>6. WatchElapsed' \in [Sessions -> Nat]
    BY <1>1, <1>3, <1>5 DEF WatchElapsed
<1>7. WatchStatus' \in [Sessions -> {"none", "running", "paused", "stopped"}]
    BY <1>3 DEF WatchStatus
<1>8. WatchAge' = WatchAge
    BY <1>1, <1>3, <1>4, WatchShows DEF WatchAge
<1>9. \A s \in Sessions :
        /\ (WatchStatus'[s] = "none") <=> (WatchStatus[s] = "none")
        /\ WatchElapsed'[s] <= WatchAge[s]
    <2> SUFFICES ASSUME NEW s \in Sessions
                 PROVE  /\ (WatchStatus'[s] = "none") <=> (WatchStatus[s] = "none")
                        /\ WatchElapsed'[s] <= WatchAge[s]
        OBVIOUS
    <2>1. WatchElapsed'[s] = Elapsed(process[s])' /\ WatchStatus'[s] = process'[s].status
        BY DEF WatchElapsed, WatchStatus
    <2>2. WatchAge[s] = (IF process[s] = None THEN 0 ELSE clock - began[s])
        BY DEF WatchAge
    <2>3. process[s] = None <=> process[s].status = "none"
        BY WatchShows
    <2>4. WatchStatus[s] = process[s].status
        BY DEF WatchStatus
    <2> QED
        BY <1>1, <1>3, <1>4, <1>5, <2>1, <2>2, <2>3, <2>4
<1>10. Watch!Recover
    BY <1>2, <1>6, <1>7, <1>8, <1>9 DEF Watch!Recover, WatchStatus, WatchElapsed, WatchAge
<1> QED
    BY <1>10 DEF Watch!Next

LEMMA WatchStep ==
    ASSUME WorkInv, WorkInv', [Next]_vars
    PROVE  [Watch!Next]_(Watch!vars)
<1>1. ASSUME NEW b \in Tabs, (\E op \in Ops : Press(b, op)) \/ Mount(b) \/ FailCall(b)
                             \/ Upsert(b) \/ Publish(b)
      PROVE  UNCHANGED Watch!vars
    BY <1>1, WatchStutters DEF Press, Mount, FailCall, Upsert, Publish, elixtempo
<1>2. CASE BillStoppedSession \/ SkipRecord \/ RestartLedger
    <2>1. restarts'["elixtempo"] = restarts["elixtempo"]
        BY <1>2 DEF BillStoppedSession, SkipRecord, RestartLedger, CountRestart, WorkInv, TypeOK, Services
    <2> QED
        BY <1>2, <2>1, WatchStutters DEF BillStoppedSession, SkipRecord, RestartLedger, elixtempo
<1>3. CASE UNCHANGED vars
    BY <1>3, WatchStutters DEF vars, elixtempo
<1> QED
    BY <1>1, <1>2, <1>3, TransitionTurns, StartTurns, TickTicks, RestartRecovers DEF Next

\* Processes, rows and requests, with two tabs storing in any order, implement a watch
\* per session.
THEOREM RefinesStopwatch == Spec => ImplementsStopwatch
BY WorkAlways, WatchInit, WatchStep, PTL DEF Spec, ImplementsStopwatch, Watch!Spec
=============================================================================
