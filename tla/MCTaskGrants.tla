---------------------------- MODULE MCTaskGrants ----------------------------
(* MCTaskService's instance, with TaskGrants watching who is eligible. *)
EXTENDS MCTaskService, TaskGrants
=============================================================================
