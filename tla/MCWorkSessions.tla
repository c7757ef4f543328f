--------------------------- MODULE MCWorkSessions ---------------------------
(* WorkSessions with two sessions in two tabs.                              *)
EXTENDS WorkSessions, TLC

Symmetry == Permutations(Sessions) \cup Permutations(Tabs)
=============================================================================
