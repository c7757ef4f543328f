------------------------------ MODULE Stopwatch ------------------------------
(***************************************************************************)
(* What a work session promises: a watch that an analyst starts, pauses,   *)
(* resumes and stops, that counts while it runs and at no other time.  The *)
(* watches of a service that restarts may fall back to an older state, or  *)
(* count the time they were away; never more than their age.               *)
(***************************************************************************)
EXTENDS Naturals

CONSTANT Sessions

VARIABLES
    status,     \* per session: none, running, paused, stopped
    elapsed,    \* time counted
    age,        \* time since the start
    recoveries  \* restarts of the service

vars == <<status, elapsed, age, recoveries>>

Init ==
    /\ status = [s \in Sessions |-> "none"]
    /\ elapsed = [s \in Sessions |-> 0]
    /\ age = [s \in Sessions |-> 0]
    /\ recoveries = 0

Turn(s, from, to) ==
    /\ status[s] \in from
    /\ status' = [status EXCEPT ![s] = to]
    /\ UNCHANGED <<elapsed, age, recoveries>>

Start(s) == Turn(s, {"none"}, "running")
Pause(s) == Turn(s, {"running"}, "paused")
Resume(s) == Turn(s, {"paused"}, "running")
Stop(s) == Turn(s, {"running", "paused"}, "stopped")

\* All running watches count the same tick.
Tick ==
    /\ elapsed' = [s \in Sessions |-> IF status[s] = "running" THEN elapsed[s] + 1
                                      ELSE elapsed[s]]
    /\ age' = [s \in Sessions |-> IF status[s] = "none" THEN 0 ELSE age[s] + 1]
    /\ UNCHANGED <<status, recoveries>>

\* The service restarts.  A watch that was started stays started.
Recover ==
    /\ recoveries' = recoveries + 1
    /\ elapsed' \in [Sessions -> Nat]
    /\ status' \in [Sessions -> {"none", "running", "paused", "stopped"}]
    /\ \A s \in Sessions :
        /\ (status'[s] = "none") <=> (status[s] = "none")
        /\ elapsed'[s] <= age[s]
    /\ UNCHANGED age

Next ==
    \/ \E s \in Sessions : Start(s) \/ Pause(s) \/ Resume(s) \/ Stop(s)
    \/ Tick
    \/ Recover

Spec == Init /\ [][Next]_vars
=============================================================================
