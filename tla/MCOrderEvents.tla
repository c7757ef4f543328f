---------------------------- MODULE MCOrderEvents ----------------------------
(* OrderEvents on one order, two handlers and two people.                   *)
EXTENDS OrderEvents, TLC

MCNames == {"task.created", "task.assigned", "task.no-index-changed"}

\* The groups share nothing but the topic: each is looked at with the others down.
OneGroup == Init /\ Cardinality(up) = 1

MCSpec == OneGroup /\ [][Next]_vars /\ Fairness

Symmetry == Permutations(Handlers)
=============================================================================
