--------------------------- MODULE MCTaskService ---------------------------
(* An instance of TaskService for TLC: one company account, one service, and *)
(* the people it takes to move an order, with two analysts to race for it.   *)
EXTENDS TaskService, TLC

CONSTANTS customer, analyst1, analyst2, boss, reviewer, service, account,
          order, text1, text2, slot1, slot2

MCUsers == {customer, analyst1, analyst2, boss, reviewer}
MCAccountOf == [u \in MCUsers |-> account]
MCAccountManagerOf == (account :> boss)

\* Steady: everybody keeps the roles of the first token.  boss manages the
\* account and its projects.
SteadyRoles ==
    (customer :> {{"customer", service}}) @@
    (analyst1 :> {{"analyst", service}}) @@
    (analyst2 :> {{"analyst", service}}) @@
    (boss :> {{"project-manager", "account-manager", service}}) @@
    (reviewer :> {{"reviewer", service}})

\* Changing: Keycloak grants and revokes while orders are under way.
ChangingRoles ==
    [u \in MCUsers |->
        IF u \in {analyst1, boss, reviewer} THEN SteadyRoles[u] \cup {{}} ELSE SteadyRoles[u]]

MCOnboarded == [u \in MCUsers |-> CHOOSE roles \in SteadyRoles[u] : TRUE]

Symmetry ==
    Permutations({slot1, slot2}) \cup Permutations({analyst1, analyst2})
        \cup Permutations({text1, text2})
=============================================================================
