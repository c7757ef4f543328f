------------------------------ MODULE MCAccounts ------------------------------
(* Accounts with one manager and one project manager.                       *)
EXTENDS Accounts, TLC

\* A company account with its member is there.
OneCompany ==
    /\ Init
    /\ active = Pms
    /\ Cardinality({a \in AccountIds : accounts[a] # NoRow}) = 1
    /\ \A a \in AccountIds : accounts[a] # NoRow => accounts[a].manager # Null
    /\ Cardinality(members) = 1

MCSpec == OneCompany /\ [][Next]_vars

Symmetry == Permutations(Customers) \cup Permutations(AccountIds) \cup Permutations(Projects)
            \cup Permutations(Orders) \cup Permutations(Handlers)
=============================================================================
