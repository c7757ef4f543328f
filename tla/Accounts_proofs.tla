---------------------------- MODULE Accounts_proofs ----------------------------
(***************************************************************************)
(* What Accounts.tla keeps, for any number of customers, managers,         *)
(* accounts, projects, orders and requests at the same time.               *)
(***************************************************************************)
EXTENDS Accounts, TLAPS

-----------------------------------------------------------------------------
(* What a request knows *)

\* Who sent a request, what it is about, and how far one of its kind gets.
Shape(r) ==
    /\ r.op = "none" => r.at = "idle"
    /\ r.op = "order" => /\ r.by \in Customers
                         /\ r.at \in {"begin", "insert", "commit", "project", "write"}
    /\ r.op = "propose" => /\ r.by \in Customers /\ r.account \in AccountIds
                           /\ r.at \in {"read", "write"}
    /\ r.op \in ManagerOps => /\ r.by \in Managers /\ r.project \in Projects
                              /\ r.at \in {"read", "find", "link", "write", "answer"}
    /\ r.op = "pm" => r.pm \in Pms
    /\ r.at \in {"find", "link"} => r.op = "pm"

Making(r) == r.op = "order" /\ r.at \in {"insert", "commit"}

\* The order's customer has no account while one is made, and has the order's account
\* once it is.
Placed(r) ==
    /\ Making(r) => users[r.by] = Null
    /\ Making(r) /\ r.at = "commit" => r.account \in AccountIds /\ accounts[r.account] = NoRow
    /\ r.op = "order" /\ r.at \in {"project", "write"} =>
        r.account \in AccountIds /\ r.account = users[r.by]

\* A project once read stays; whoever is to be responsible is linked first.
Managed(r) ==
    /\ r.op \in ManagerOps /\ r.at # "read" => projects[r.project] # NoRow
    /\ r.op = "pm" /\ r.at \in {"write", "answer"} => <<r.pm, projects[r.project].account>> \in links

\* Of two requests that make an account, neither is the other's customer's, nor do
\* they make the same one.
Apart(r, q) ==
    Making(r) /\ Making(q) =>
        /\ r.by # q.by
        /\ r.at = "commit" /\ q.at = "commit" => r.account # q.account

RequestsKnow == \A h \in Handlers : Shape(req[h]) /\ Placed(req[h]) /\ Managed(req[h])
RequestsApart == \A h, k \in Handlers : h # k => Apart(req[h], req[k])

\* A page waits for projects that are there.
PagesKnow ==
    \A m \in Managers : \A selection \in page[m].fetching :
        selection.kind = "project" => projects[selection.id] # NoRow

AccountsInv ==
    /\ TypeOK /\ RequestsKnow /\ RequestsApart /\ PagesKnow
    /\ OneAccountEach /\ ResponsibleLinked /\ FetchedIsSelected

LEMMA NoRequestKnows ==
    /\ NoRequest \in Request /\ Shape(NoRequest) /\ Placed(NoRequest) /\ Managed(NoRequest)
    /\ NoRequest.op = "none" /\ NoRequest.at = "idle"
    /\ \A q : Apart(NoRequest, q) /\ Apart(q, NoRequest)
BY DEF NoRequest, Request, ManagerOps, Steps, Shape, Placed, Managed, Apart, Making

LEMMA AccountsInit == Init => AccountsInv
<1> SUFFICES ASSUME Init PROVE AccountsInv
    OBVIOUS
<1>1. NewPage \in Page
    BY DEF NewPage, Page, NoDetail, Detail, Nothing
<1>2. accounts \in [AccountIds -> Account \cup {NoRow}]
    BY DEF Init
<1>3. TypeOK
    BY <1>1, <1>2, NoRequestKnows, AccountsAssumption DEF Init, TypeOK
<1>4. RequestsKnow /\ RequestsApart
    BY NoRequestKnows DEF Init, RequestsKnow, RequestsApart
<1>5. PagesKnow /\ FetchedIsSelected
    BY DEF Init, PagesKnow, FetchedIsSelected, NewPage, NoDetail
<1>6. \A a \in AccountIds : accounts[a] # NoRow => accounts[a].name = Null
    BY DEF Init
<1>7. OneAccountEach /\ ResponsibleLinked
    BY <1>6 DEF Init, OneAccountEach, ResponsibleLinked
<1> QED
    BY <1>3, <1>4, <1>5, <1>7 DEF AccountsInv

-----------------------------------------------------------------------------
(* Steps *)

\* A request goes on and writes nothing yet.
LEMMA RequestMoves ==
    ASSUME AccountsInv, NEW h \in Handlers, NEW r \in Request,
           req' = [req EXCEPT ![h] = r],
           Shape(r), Placed(r), Managed(r),
           \A k \in Handlers : k # h => Apart(r, req[k]) /\ Apart(req[k], r),
           UNCHANGED <<tables, page, restarts>>, requests' \in 0..MaxRequests
    PROVE  AccountsInv'
<1> USE DEF AccountsInv, tables, people
<1>1. TypeOK'
    BY DEF TypeOK
<1>2. \A k \in Handlers : req'[k] = IF k = h THEN r ELSE req[k]
    BY DEF TypeOK
<1>3. RequestsKnow'
    BY <1>2 DEF RequestsKnow, Placed, Managed
<1>4. RequestsApart'
    BY <1>2 DEF RequestsApart
<1>5. PagesKnow' /\ FetchedIsSelected'
    BY DEF PagesKnow, FetchedIsSelected
<1>6. OneAccountEach' /\ ResponsibleLinked'
    BY DEF OneAccountEach, ResponsibleLinked
<1> QED
    BY <1>1, <1>3, <1>4, <1>5, <1>6

\* A request that is new, or makes no account.
LEMMA NotMaking ==
    ASSUME NEW r, ~Making(r), NEW q
    PROVE  Apart(r, q) /\ Apart(q, r)
    BY DEF Apart

LEMMA Selected ==
    ASSUME AccountsInv, NEW m \in Managers, page[m].selection.kind = "project"
    PROVE  page[m].selection.id \in Projects
<1>1. page[m].selection \in Selection \cup {Nothing}
    BY DEF AccountsInv, TypeOK, Page
<1> QED
    BY <1>1 DEF Selection, Nothing

\* What a manager's button sends.
LEMMA ManagerAsks ==
    ASSUME NEW m \in Managers, NEW op \in ManagerOps \ {"no-index"}, NEW p \in Projects,
           NEW pm \in Pms, NEW h \in Handlers,
           Start(h, [NoRequest EXCEPT !.op = op, !.at = "read", !.by = m, !.project = p,
                                      !.pm = IF op = "pm" THEN pm ELSE Null])
    PROVE  \E r \in Request : /\ Start(h, r) /\ Shape(r) /\ ~Making(r)
                              /\ r.op # "order" /\ r.at = "read"
<1> DEFINE r == [NoRequest EXCEPT !.op = op, !.at = "read", !.by = m, !.project = p,
                                  !.pm = IF op = "pm" THEN pm ELSE Null]
<1>1. r \in Request
    BY DEF NoRequest, Request, Steps
<1>2. /\ r.op = op /\ r.at = "read" /\ r.by = m /\ r.project = p
      /\ op = "pm" => r.pm = pm
    BY DEF NoRequest
<1>3. op \notin {"none", "order", "propose"}
    BY DEF ManagerOps
<1>4. Start(h, r)
    OBVIOUS
<1> HIDE DEF r
<1>5. Shape(r) /\ ~Making(r)
    BY <1>2, <1>3 DEF Shape, Making
<1>6. r.op # "order" /\ r.at = "read"
    BY <1>2, <1>3
<1> QED
    BY <1>1, <1>4, <1>5, <1>6

LEMMA RequestStarts ==
    ASSUME AccountsInv, NEW h \in Handlers,
           \/ StartOrder(h) \/ StartProject(h)
           \/ \E m \in Managers : Click(h, m) \/ StartNoIndex(h, m)
    PROVE  AccountsInv'
<1>1. PICK r \in Request : /\ Start(h, r) /\ Shape(r) /\ ~Making(r)
                           /\ r.op = "order" => r.at = "begin"
                           /\ r.op # "order" => r.at = "read"
    <2>1. ASSUME NEW c \in Customers, NEW p \in Projects \cup {Null},
                 Start(h, [NoRequest EXCEPT !.op = "order", !.at = "begin", !.by = c, !.project = p])
          PROVE  \E r \in Request : /\ Start(h, r) /\ Shape(r) /\ ~Making(r)
                                    /\ r.op = "order" => r.at = "begin"
                                    /\ r.op # "order" => r.at = "read"
        <3> DEFINE r == [NoRequest EXCEPT !.op = "order", !.at = "begin", !.by = c, !.project = p]
        <3>1. r \in Request /\ r.op = "order" /\ r.at = "begin" /\ r.by = c
            BY DEF NoRequest, Request, Steps
        <3> HIDE DEF r
        <3>2. Shape(r) /\ ~Making(r)
            BY <3>1 DEF Shape, Making, ManagerOps
        <3> QED
            BY <2>1, <3>1, <3>2 DEF r
    <2>2. ASSUME NEW c \in Customers, NEW a \in AccountIds,
                 Start(h, [NoRequest EXCEPT !.op = "propose", !.at = "read", !.by = c, !.account = a])
          PROVE  \E r \in Request : /\ Start(h, r) /\ Shape(r) /\ ~Making(r)
                                    /\ r.op = "order" => r.at = "begin"
                                    /\ r.op # "order" => r.at = "read"
        <3> DEFINE r == [NoRequest EXCEPT !.op = "propose", !.at = "read", !.by = c, !.account = a]
        <3>1. r \in Request /\ r.op = "propose" /\ r.at = "read" /\ r.by = c /\ r.account = a
            BY DEF NoRequest, Request, Steps
        <3> HIDE DEF r
        <3>2. Shape(r) /\ ~Making(r)
            BY <3>1 DEF Shape, Making, ManagerOps
        <3> QED
            BY <2>2, <3>1, <3>2 DEF r
    <2>3. ASSUME NEW m \in Managers, Click(h, m)
          PROVE  \E r \in Request : /\ Start(h, r) /\ Shape(r) /\ ~Making(r)
                                    /\ r.op # "order" /\ r.at = "read"
        <3>1. PICK op \in ManagerOps \ {"no-index"}, pm \in Pms :
                Start(h, [NoRequest EXCEPT !.op = op, !.at = "read", !.by = m,
                                           !.project = page[m].selection.id,
                                           !.pm = IF op = "pm" THEN pm ELSE Null])
            BY <2>3 DEF Click
        <3>2. page[m].selection.kind = "project"
            BY <2>3 DEF Click
        <3>3. PICK p \in Projects : p = page[m].selection.id
            BY <3>2, Selected
        <3>4. Start(h, [NoRequest EXCEPT !.op = op, !.at = "read", !.by = m, !.project = p,
                                         !.pm = IF op = "pm" THEN pm ELSE Null])
            BY <3>1, <3>3
        <3> QED
            BY ZenonT(60), <3>4, ManagerAsks
    <2>4. ASSUME NEW m \in Managers, StartNoIndex(h, m)
          PROVE  \E r \in Request : /\ Start(h, r) /\ Shape(r) /\ ~Making(r)
                                    /\ r.op # "order" /\ r.at = "read"
        <3>1. PICK p \in Projects, flag \in BOOLEAN :
                Start(h, [NoRequest EXCEPT !.op = "no-index", !.at = "read", !.by = m,
                                           !.project = p, !.flag = flag])
            BY <2>4 DEF StartNoIndex
        <3> DEFINE r == [NoRequest EXCEPT !.op = "no-index", !.at = "read", !.by = m,
                                          !.project = p, !.flag = flag]
        <3>2. r \in Request
            BY DEF NoRequest, Request, Steps, ManagerOps
        <3>3. r.op = "no-index" /\ r.at = "read" /\ r.by = m /\ r.project = p
            BY DEF NoRequest
        <3> HIDE DEF r
        <3>4. Shape(r) /\ ~Making(r)
            BY <3>3 DEF Shape, Making, ManagerOps
        <3> QED
            BY <3>1, <3>2, <3>3, <3>4 DEF r
    <2> QED
        BY <2>1, <2>2, <2>3, <2>4 DEF StartOrder, StartProject
<1>2. Placed(r) /\ Managed(r)
    BY <1>1 DEF Placed, Managed, Making, ManagerOps
<1>3. requests' \in 0..MaxRequests
    <2>1. requests \in 0..MaxRequests /\ requests < MaxRequests /\ requests' = requests + 1
        BY <1>1 DEF Start, AccountsInv, TypeOK
    <2> QED
        BY <2>1, AccountsAssumption
<1>4. \A k \in Handlers : Apart(r, req[k]) /\ Apart(req[k], r)
    BY <1>1, NotMaking
<1>5. req' = [req EXCEPT ![h] = r] /\ UNCHANGED <<tables, page, restarts>>
    BY <1>1 DEF Start
<1> QED
    BY <1>1, <1>2, <1>3, <1>4, <1>5, RequestMoves

LEMMA NotMakingAny ==
    ASSUME NEW r, ~Making(r)
    PROVE  \A q : Apart(r, q) /\ Apart(q, r)
    BY DEF Apart

\* Who holds the lock is alone with the customer.
LEMMA LockUserStep ==
    ASSUME AccountsInv, NEW h \in Handlers, LockUser(h)
    PROVE  AccountsInv'
<1> DEFINE c == req[h].by
<1>1. /\ req[h] \in Request /\ req[h].op = "order" /\ req[h].at = "begin" /\ c \in Customers
      /\ \A k \in Handlers : Making(req[k]) => req[k].by # c
    BY DEF LockUser, Locked, Making, AccountsInv, TypeOK, RequestsKnow, Shape
<1>2. UNCHANGED <<tables, page, restarts>> /\ requests' \in 0..MaxRequests
    BY DEF LockUser, bounds, AccountsInv, TypeOK
<1>3. CASE users[c] = Null
    <2> DEFINE r == [req[h] EXCEPT !.at = "insert"]
    <2>1. req' = [req EXCEPT ![h] = r]
        BY <1>3 DEF LockUser
    <2>2. r \in Request /\ r.op = "order" /\ r.at = "insert" /\ r.by = c
        BY <1>1 DEF Request, Steps
    <2> HIDE DEF r
    <2>3. Shape(r) /\ Placed(r) /\ Managed(r)
        BY <1>1, <1>3, <2>2 DEF Shape, Placed, Managed, Making, ManagerOps
    <2>4. \A k \in Handlers : k # h => Apart(r, req[k]) /\ Apart(req[k], r)
        BY <1>1, <2>2 DEF Apart
    <2> QED
        BY <1>2, <2>1, <2>2, <2>3, <2>4, RequestMoves
<1>4. CASE users[c] # Null
    <2> DEFINE r == [req[h] EXCEPT !.at = "project", !.account = users[c]]
    <2>1. req' = [req EXCEPT ![h] = r]
        BY <1>4 DEF LockUser
    <2>2. users[c] \in AccountIds
        BY <1>1, <1>4 DEF AccountsInv, TypeOK
    <2>3. r \in Request /\ r.op = "order" /\ r.at = "project" /\ r.by = c /\ r.account = users[c]
        BY <1>1, <2>2 DEF Request, Steps
    <2> HIDE DEF r
    <2>4. Shape(r) /\ Placed(r) /\ Managed(r) /\ ~Making(r)
        BY <1>1, <2>2, <2>3 DEF Shape, Placed, Managed, Making, ManagerOps
    <2>5. \A k \in Handlers : Apart(r, req[k]) /\ Apart(req[k], r)
        BY <2>4, NotMakingAny
    <2> QED
        BY <1>2, <2>1, <2>3, <2>4, <2>5, RequestMoves
<1> QED
    BY <1>3, <1>4

LEMMA InsertAccountStep ==
    ASSUME AccountsInv, NEW h \in Handlers, InsertAccount(h)
    PROVE  AccountsInv'
<1>1. PICK a \in AccountIds : Fresh(a) /\ req' = [req EXCEPT ![h].at = "commit", ![h].account = a]
    BY DEF InsertAccount
<1> DEFINE r == [req[h] EXCEPT !.at = "commit", !.account = a]
<1>2. /\ req[h] \in Request /\ req[h].op = "order" /\ req[h].at = "insert"
      /\ req[h].by \in Customers /\ users[req[h].by] = Null
    BY DEF InsertAccount, AccountsInv, TypeOK, RequestsKnow, Shape, Placed, Making
<1>3. /\ r \in Request /\ r.op = "order" /\ r.at = "commit" /\ r.by = req[h].by /\ r.account = a
      /\ req' = [req EXCEPT ![h] = r]
    BY ZenonT(60), <1>1, <1>2 DEF Request, Steps, AccountsInv, TypeOK
<1> HIDE DEF r
<1>4. Shape(r) /\ Placed(r) /\ Managed(r)
    BY <1>1, <1>2, <1>3 DEF Fresh, Shape, Placed, Managed, Making, ManagerOps
<1>5. \A k \in Handlers : req[k].at = "commit" => req[k].account # a
    BY <1>1 DEF Fresh
<1>6. \A k \in Handlers : k # h /\ Making(req[k]) => req[k].by # req[h].by
    BY <1>2 DEF AccountsInv, RequestsApart, Apart, Making
<1>7. \A k \in Handlers : k # h => Apart(r, req[k]) /\ Apart(req[k], r)
    BY <1>3, <1>5, <1>6 DEF Apart
<1>8. UNCHANGED <<tables, page, restarts>> /\ requests' \in 0..MaxRequests
    BY DEF InsertAccount, bounds, AccountsInv, TypeOK
<1> QED
    BY <1>3, <1>4, <1>7, <1>8, RequestMoves

\* A request goes on to another step and makes no account.
LEMMA RequestGoes ==
    ASSUME AccountsInv, NEW h \in Handlers, NEW r \in Request,
           req' = [req EXCEPT ![h] = r], Shape(r), Placed(r), Managed(r), ~Making(r),
           UNCHANGED <<tables, page, bounds>>
    PROVE  AccountsInv'
<1>1. \A k \in Handlers : Apart(r, req[k]) /\ Apart(req[k], r)
    BY NotMakingAny
<1>2. requests' \in 0..MaxRequests /\ restarts' = restarts
    BY DEF bounds, AccountsInv, TypeOK
<1> QED
    BY <1>1, <1>2, RequestMoves

LEMMA CheckSteps ==
    ASSUME AccountsInv, NEW h \in Handlers,
           ReadProject(h) \/ CheckMembership(h) \/ ManagedRead(h) \/ FindPm(h)
    PROVE  AccountsInv'
<1>0. /\ req \in [Handlers -> Request] /\ req[h] \in Request
      /\ Shape(req[h]) /\ Placed(req[h]) /\ Managed(req[h])
    BY DEF AccountsInv, TypeOK, RequestsKnow
<1>1. CASE ReadProject(h)
    <2>1. PICK flag \in BOOLEAN : req' = [req EXCEPT ![h].at = "write", ![h].flag = flag]
        <3>1. (req[h].project # Null /\ projects[req[h].project].no_index) \in BOOLEAN
            <4>1. ASSUME req[h].project # Null
                  PROVE  projects[req[h].project].no_index \in BOOLEAN
                BY <1>0, <1>1, <4>1 DEF ReadProject, Request, AccountsInv, TypeOK, Project
            <4> QED
                BY <4>1
        <3> QED
            BY <1>1, <3>1 DEF ReadProject
    <2> DEFINE r == [req[h] EXCEPT !.at = "write", !.flag = flag]
    <2>2. /\ r \in Request /\ r.op = "order" /\ r.at = "write" /\ r.by = req[h].by
          /\ r.account = req[h].account /\ req' = [req EXCEPT ![h] = r]
        BY <1>0, <1>1, <2>1 DEF ReadProject, Request, Steps
    <2> HIDE DEF r
    <2>3. Shape(r) /\ Placed(r) /\ Managed(r) /\ ~Making(r)
        BY <1>0, <1>1, <2>2 DEF ReadProject, Shape, Placed, Managed, Making, ManagerOps
    <2> QED
        BY <1>1, <2>2, <2>3, RequestGoes DEF ReadProject
<1>2. CASE CheckMembership(h)
    <2> DEFINE r == [req[h] EXCEPT !.at = "write"]
    <2>1. /\ r \in Request /\ r.op = "propose" /\ r.at = "write" /\ r.by = req[h].by
          /\ r.account = req[h].account /\ req' = [req EXCEPT ![h] = r]
        BY <1>0, <1>2 DEF CheckMembership, Go, Request, Steps
    <2> HIDE DEF r
    <2>2. Shape(r) /\ Placed(r) /\ Managed(r) /\ ~Making(r)
        BY <1>0, <1>2, <2>1 DEF CheckMembership, Shape, Placed, Managed, Making, ManagerOps
    <2> QED
        BY <1>2, <2>1, <2>2, RequestGoes DEF CheckMembership
<1>3. CASE ManagedRead(h)
    <2> DEFINE to == IF req[h].op = "pm" THEN "find" ELSE "write"
               r == [req[h] EXCEPT !.at = to]
    <2>1. /\ r \in Request /\ r.op = req[h].op /\ r.at = to /\ r.by = req[h].by
          /\ r.project = req[h].project /\ r.pm = req[h].pm /\ req' = [req EXCEPT ![h] = r]
        BY <1>0, <1>3 DEF ManagedRead, Go, Request, Steps
    <2>2. req[h].op \in ManagerOps /\ projects[req[h].project] # NoRow
        BY <1>3 DEF ManagedRead
    <2> HIDE DEF r
    <2>3. Shape(r) /\ Placed(r) /\ Managed(r) /\ ~Making(r)
        BY <1>0, <2>1, <2>2 DEF Shape, Placed, Managed, Making, ManagerOps
    <2> QED
        BY <1>3, <2>1, <2>3, RequestGoes DEF ManagedRead
<1>4. CASE FindPm(h)
    <2> DEFINE r == [req[h] EXCEPT !.at = "link"]
    <2>1. /\ r \in Request /\ r.op = req[h].op /\ r.at = "link" /\ r.by = req[h].by
          /\ r.project = req[h].project /\ r.pm = req[h].pm /\ req' = [req EXCEPT ![h] = r]
        BY <1>0, <1>4 DEF FindPm, Go, Request, Steps
    <2>2. req[h].op = "pm" /\ req[h].at = "find"
        BY <1>0, <1>4 DEF FindPm, Shape
    <2> HIDE DEF r
    <2>3. Shape(r) /\ Placed(r) /\ Managed(r) /\ ~Making(r)
        BY <1>0, <2>1, <2>2 DEF Shape, Placed, Managed, Making, ManagerOps
    <2> QED
        BY <1>4, <2>1, <2>3, RequestGoes DEF FindPm
<1> QED
    BY <1>1, <1>2, <1>3, <1>4

LEMMA CommitAccountStep ==
    ASSUME AccountsInv, NEW h \in Handlers, CommitAccount(h)
    PROVE  AccountsInv'
<1> USE DEF AccountsInv
<1>0. PICK c \in Customers, a \in AccountIds : c = req[h].by /\ a = req[h].account
    BY DEF CommitAccount, RequestsKnow, Shape, Placed, Making
<1> DEFINE new == [name |-> c, manager |-> Null]
           r == [req[h] EXCEPT !.at = "project"]
<1>1. /\ req[h] \in Request /\ req[h].op = "order" /\ req[h].at = "commit" /\ Making(req[h])
      /\ users[c] = Null /\ accounts[a] = NoRow
    BY <1>0 DEF CommitAccount, TypeOK, RequestsKnow, Placed, Making
<1>2. /\ accounts' = [accounts EXCEPT ![a] = new] /\ new \in Account /\ new.name = c
      /\ users' = [users EXCEPT ![c] = a]
      /\ UNCHANGED <<members, active, links, projects, orders, page, bounds>>
    BY <1>0 DEF CommitAccount, Account
<1>3. /\ r \in Request /\ r.op = "order" /\ r.at = "project" /\ r.by = c /\ r.account = a
      /\ req' = [req EXCEPT ![h] = r]
    BY <1>0, <1>1 DEF CommitAccount, Go, Request, Steps
<1>4. a # Null /\ c # Null
    BY AccountsAssumption
<1> HIDE DEF new, r
<1>5. TypeOK'
    BY <1>2, <1>3 DEF TypeOK, bounds
<1>6. RequestsKnow'
    <2> SUFFICES ASSUME NEW k \in Handlers
                 PROVE  (Shape(req[k]) /\ Placed(req[k]) /\ Managed(req[k]))'
        BY DEF RequestsKnow
    <2>1. CASE k = h
        <3>1. req'[k] = r /\ users'[c] = a
            BY <1>2, <1>3, <2>1 DEF TypeOK
        <3> QED
            BY <1>3, <3>1 DEF Shape, Placed, Managed, Making, ManagerOps
    <2>2. CASE k # h
        <3>1. req'[k] = req[k] /\ Shape(req[k]) /\ Placed(req[k]) /\ Managed(req[k])
            BY <1>3, <2>2 DEF TypeOK, RequestsKnow
        <3>2. Apart(req[k], req[h])
            BY <2>2 DEF RequestsApart
        <3>3. /\ Making(req[k]) => req[k].by # c
              /\ Making(req[k]) /\ req[k].at = "commit" => req[k].account # a
            BY <1>0, <1>1, <3>2 DEF Apart
        <3>4. req[k].op = "order" /\ req[k].at \in {"project", "write"} =>
                req[k].by \in Customers /\ users[req[k].by] # Null
            BY <3>1, AccountsAssumption DEF Placed, Shape
        <3>5. Placed(req[k])'
            BY <1>1, <1>2, <3>1, <3>3, <3>4 DEF Placed, Making, Shape, TypeOK
        <3> QED
            BY <1>2, <3>1, <3>5 DEF Managed, Shape
    <2> QED
        BY <2>1, <2>2
<1>7. RequestsApart'
    <2>1. ~Making(r)
        BY <1>3 DEF Making
    <2>2. \A k \in Handlers : req'[k] = IF k = h THEN r ELSE req[k]
        BY <1>3 DEF TypeOK
    <2> QED
        BY <2>1, <2>2, NotMakingAny DEF RequestsApart
<1>8. OneAccountEach'
    <2>1. \A b \in AccountIds : accounts[b] # NoRow /\ accounts[b].name # Null
            => accounts[b].name # c
        BY <1>1, AccountsAssumption DEF OneAccountEach
    <2>2. \A b \in AccountIds : accounts'[b] = IF b = a THEN new ELSE accounts[b]
        BY <1>2 DEF TypeOK
    <2>3. \A d \in Customers : users'[d] = IF d = c THEN a ELSE users[d]
        BY <1>2 DEF TypeOK
    <2>4. \A b \in AccountIds : accounts[b] # NoRow /\ accounts[b].name # Null
            => accounts[b].name \in Customers
        BY DEF TypeOK, Account
    <2>5. \A o \in Orders : orders[o] # NoRow =>
            orders[o].customer \in Customers /\ orders[o].account \in AccountIds
        BY DEF TypeOK, Order
    <2>6. \A o \in Orders : orders[o] # NoRow => orders[o].customer # c
        BY <1>1, <2>5, AccountsAssumption DEF OneAccountEach
    <2>7. \A b \in AccountIds : accounts'[b] # NoRow /\ accounts'[b].name # Null
            => users'[accounts'[b].name] = b
        BY <1>2, <2>1, <2>2, <2>3, <2>4 DEF OneAccountEach
    <2>8. \A o \in Orders : orders[o] # NoRow => orders[o].account = users'[orders[o].customer]
        BY <2>3, <2>5, <2>6 DEF OneAccountEach
    <2> QED
        BY <1>2, <2>7, <2>8 DEF OneAccountEach
<1>9. PagesKnow' /\ ResponsibleLinked' /\ FetchedIsSelected'
    BY <1>2 DEF PagesKnow, ResponsibleLinked, FetchedIsSelected
<1> QED
    BY <1>5, <1>6, <1>7, <1>8, <1>9

\* A request is over; nothing else of what requests know is touched.
LEMMA RequestsEnd ==
    ASSUME AccountsInv, NEW h \in Handlers, req' = [req EXCEPT ![h] = NoRequest],
           UNCHANGED <<accounts, users, links>>,
           \A p \in Projects : projects[p] # NoRow => projects'[p] = projects[p]
    PROVE  req' \in [Handlers -> Request] /\ RequestsKnow' /\ RequestsApart'
<1> USE DEF AccountsInv
<1>1. \A k \in Handlers : req'[k] = IF k = h THEN NoRequest ELSE req[k]
    BY DEF TypeOK
<1>2. req' \in [Handlers -> Request]
    BY NoRequestKnows DEF TypeOK
<1>3. Placed(NoRequest)' /\ Managed(NoRequest)' /\ Shape(NoRequest)
    BY NoRequestKnows DEF Placed, Managed, Making, ManagerOps
<1>4. \A k \in Handlers : Placed(req[k])' /\ Managed(req[k])' /\ Shape(req'[k])
    <2> SUFFICES ASSUME NEW k \in Handlers
                 PROVE  Placed(req[k])' /\ Managed(req[k])' /\ Shape(req'[k])
        OBVIOUS
    <2>1. CASE k = h
        BY <1>1, <1>3, <2>1 DEF Placed, Managed
    <2>2. CASE k # h
        <3>1. req'[k] = req[k] /\ Placed(req[k]) /\ Managed(req[k]) /\ Shape(req[k])
            BY <1>1, <2>2 DEF RequestsKnow
        <3>2. Placed(req[k])'
            BY <3>1 DEF Placed, Making
        <3>3. /\ req[k].op \in ManagerOps => req[k].project \in Projects
              /\ req[k].op = "pm" => req[k].op \in ManagerOps
            BY <3>1 DEF Shape, ManagerOps
        <3>4. Managed(req[k])'
            BY <3>1, <3>3 DEF Managed
        <3> QED
            BY <3>1, <3>2, <3>4
    <2> QED
        BY <2>1, <2>2
<1>5. RequestsApart'
    BY <1>1, NoRequestKnows DEF RequestsApart
<1> QED
    BY <1>2, <1>4, <1>5 DEF RequestsKnow

LEMMA CreateSteps ==
    ASSUME AccountsInv, NEW h \in Handlers, CreateOrder(h) \/ CreateProject(h)
    PROVE  AccountsInv'
<1> USE DEF AccountsInv
<1>0. req[h] \in Request /\ Shape(req[h]) /\ Placed(req[h])
    BY DEF TypeOK, RequestsKnow
<1>1. CASE CreateOrder(h)
    <2> DEFINE new == [customer |-> req[h].by, account |-> req[h].account,
                       project |-> req[h].project, no_index |-> req[h].flag]
    <2>1. PICK o \in Orders : orders' = [orders EXCEPT ![o] = new]
        BY <1>1 DEF CreateOrder
    <2>2. /\ new \in Order /\ new.customer \in Customers
          /\ new.account = users[new.customer]
        BY <1>0, <1>1 DEF CreateOrder, Shape, Placed, Request, Order
    <2>3. UNCHANGED <<accounts, people, links, projects, page, bounds>>
        BY <1>1 DEF CreateOrder
    <2> HIDE DEF new
    <2>4. req' \in [Handlers -> Request] /\ RequestsKnow' /\ RequestsApart'
        BY <1>1, <2>3, RequestsEnd DEF CreateOrder, people
    <2>5. TypeOK'
        BY <2>1, <2>2, <2>3, <2>4 DEF TypeOK, people, bounds
    <2>6. OneAccountEach'
        <3>1. \A q \in Orders : orders'[q] = IF q = o THEN new ELSE orders[q]
            BY <2>1 DEF TypeOK
        <3> QED
            BY <2>2, <2>3, <3>1 DEF OneAccountEach, people
    <2>7. PagesKnow' /\ ResponsibleLinked' /\ FetchedIsSelected'
        BY <2>3 DEF PagesKnow, ResponsibleLinked, FetchedIsSelected
    <2> QED
        BY <2>4, <2>5, <2>6, <2>7
<1>2. CASE CreateProject(h)
    <2> DEFINE new == [account |-> req[h].account, status |-> "dormant", pm |-> Null,
                       no_index |-> FALSE]
    <2>1. PICK p \in Projects : projects[p] = NoRow /\ projects' = [projects EXCEPT ![p] = new]
        BY <1>2 DEF CreateProject
    <2>2. new \in Project /\ new.pm = Null
        BY <1>0, <1>2 DEF CreateProject, Shape, Project
    <2>3. UNCHANGED <<accounts, people, links, orders, page, bounds>>
        BY <1>2 DEF CreateProject
    <2>4. new # NoRow
        BY DEF NoRow
    <2> HIDE DEF new
    <2>5. \A q \in Projects : projects'[q] = IF q = p THEN new ELSE projects[q]
        BY <2>1 DEF TypeOK
    <2>6. req' \in [Handlers -> Request] /\ RequestsKnow' /\ RequestsApart'
        BY <1>2, <2>1, <2>3, <2>5, RequestsEnd DEF CreateProject, people
    <2>7. TypeOK'
        BY <2>1, <2>2, <2>3, <2>6 DEF TypeOK, people, bounds
    <2>8. ResponsibleLinked'
        BY <2>2, <2>3, <2>5 DEF ResponsibleLinked
    <2>9. PagesKnow'
        <3>1. \A m \in Managers : \A selection \in page[m].fetching :
                selection.kind = "project" => selection.id \in Projects
            BY DEF TypeOK, Page, Selection
        <3> QED
            BY <2>3, <2>4, <2>5, <3>1 DEF PagesKnow
    <2>10. OneAccountEach' /\ FetchedIsSelected'
        BY <2>3 DEF OneAccountEach, FetchedIsSelected, people
    <2> QED
        BY <2>6, <2>7, <2>8, <2>9, <2>10
<1> QED
    BY <1>1, <1>2

\* A step leaves what a request is about.
LEMMA RequestAt ==
    ASSUME AccountsInv, NEW h \in Handlers, NEW at \in Steps, Go(h, at)
    PROVE  \E r \in Request :
            /\ r.op = req[h].op /\ r.at = at /\ r.by = req[h].by /\ r.account = req[h].account
            /\ r.project = req[h].project /\ r.pm = req[h].pm /\ req' = [req EXCEPT ![h] = r]
<1> DEFINE r == [req[h] EXCEPT !.at = at]
<1>1. req[h] \in Request
    BY DEF AccountsInv, TypeOK
<1>2. /\ r \in Request /\ r.op = req[h].op /\ r.at = at /\ r.by = req[h].by
      /\ r.account = req[h].account /\ r.project = req[h].project /\ r.pm = req[h].pm
    BY <1>1 DEF Request
<1>3. req' = [req EXCEPT ![h] = r]
    BY DEF Go
<1> HIDE DEF r
<1> QED
    BY <1>2, <1>3

LEMMA LinkPmStep ==
    ASSUME AccountsInv, NEW h \in Handlers, LinkPm(h)
    PROVE  AccountsInv'
<1> USE DEF AccountsInv
<1>1. /\ req[h] \in Request /\ req[h].op = "pm" /\ req[h].at = "link" /\ req[h].pm \in Pms
      /\ req[h].project \in Projects /\ projects[req[h].project] # NoRow /\ req[h].by \in Managers
    BY DEF LinkPm, TypeOK, RequestsKnow, Shape, Managed, ManagerOps
<1>2. projects[req[h].project].account \in AccountIds
    BY <1>1 DEF TypeOK, Project
<1>3. PICK r \in Request :
        /\ r.op = "pm" /\ r.at = "write" /\ r.by = req[h].by
        /\ r.project = req[h].project /\ r.pm = req[h].pm /\ req' = [req EXCEPT ![h] = r]
    BY <1>1, RequestAt DEF LinkPm, Steps
<1>4. /\ links' = links \cup {<<req[h].pm, projects[req[h].project].account>>}
      /\ UNCHANGED <<accounts, people, projects, orders, page, bounds>>
    BY DEF LinkPm
<1>5. TypeOK'
    BY <1>1, <1>2, <1>3, <1>4 DEF TypeOK, people, bounds
<1>6. \A k \in Handlers : req'[k] = IF k = h THEN r ELSE req[k]
    BY <1>3 DEF TypeOK
<1>7. Shape(r) /\ ~Making(r) /\ Placed(r)' /\ Managed(r)'
    BY <1>1, <1>3, <1>4 DEF Shape, Making, Placed, Managed, ManagerOps
<1>8. RequestsKnow'
    <2> SUFFICES ASSUME NEW k \in Handlers
                 PROVE  (Shape(req[k]) /\ Placed(req[k]) /\ Managed(req[k]))'
        BY DEF RequestsKnow
    <2>1. CASE k = h
        BY <1>6, <1>7, <2>1 DEF Placed, Managed, Shape
    <2>2. CASE k # h
        <3>1. req'[k] = req[k] /\ Shape(req[k]) /\ Placed(req[k]) /\ Managed(req[k])
            BY <1>6, <2>2 DEF RequestsKnow
        <3> QED
            BY <1>4, <3>1 DEF Placed, Managed, Shape, Making, people
    <2> QED
        BY <2>1, <2>2
<1>9. RequestsApart'
    BY <1>6, <1>7, NotMakingAny DEF RequestsApart
<1>10. ResponsibleLinked' /\ OneAccountEach' /\ PagesKnow' /\ FetchedIsSelected'
    BY <1>4 DEF ResponsibleLinked, OneAccountEach, PagesKnow, FetchedIsSelected, people
<1> QED
    BY <1>5, <1>8, <1>9, <1>10

\* What a manager's change makes of a project that is there.
LEMMA ChangedRow ==
    ASSUME NEW r \in Request, r.op \in ManagerOps, Shape(r), NEW row \in Project,
           Changed(r, row) # NoRow
    PROVE  /\ Changed(r, row) \in Project
           /\ Changed(r, row).account = row.account
           /\ row.status = "inactive" => Changed(r, row).status = "inactive"
           /\ Changed(r, row).pm = row.pm \/ (r.op = "pm" /\ Changed(r, row).pm = r.pm)
<1>1. PICK new : new = Changed(r, row)
    OBVIOUS
<1>2. CASE r.op = "approve"
    <2>1. row.status = "dormant" /\ new = [row EXCEPT !.status = "active"]
        BY <1>1, <1>2 DEF Changed, Approved
    <2>2. new \in Project
        BY <2>1 DEF Project
    <2>3. new.account = row.account /\ new.pm = row.pm
        BY <2>1 DEF Project
    <2> QED
        BY <1>1, <2>1, <2>2, <2>3
<1>3. CASE r.op = "pm"
    BY <1>3 DEF Changed, Project, Shape
<1>4. CASE r.op = "deactivate"
    <2>1. new = [row EXCEPT !.status = "inactive"]
        BY <1>1, <1>4 DEF Changed
    <2>2. new \in Project
        BY <2>1 DEF Project
    <2>3. new.account = row.account /\ new.pm = row.pm /\ new.status = "inactive"
        BY <2>1 DEF Project
    <2> QED
        BY <1>1, <2>2, <2>3
<1>5. CASE r.op = "no-index"
    <2>1. new = [row EXCEPT !.no_index = r.flag] /\ r.flag \in BOOLEAN
        BY <1>1, <1>5 DEF Changed, Request
    <2>2. new \in Project
        BY <2>1 DEF Project
    <2>3. new.account = row.account /\ new.pm = row.pm /\ new.status = row.status
        BY <2>1 DEF Project
    <2> QED
        BY <1>1, <2>2, <2>3
<1> QED
    BY <1>2, <1>3, <1>4, <1>5 DEF ManagerOps

\* The project a request is about to write, and what it makes of it.
LEMMA WritesProject ==
    ASSUME AccountsInv, NEW h \in Handlers, WriteProject(h)
    PROVE  \E p \in Projects, row \in Project :
            /\ p = req[h].project /\ projects[p] \in Project
            /\ projects' = [projects EXCEPT ![p] = row] /\ row # NoRow
            /\ row.account = projects[p].account
            /\ projects[p].status = "inactive" => row.status = "inactive"
            /\ row.pm = projects[p].pm \/ (req[h].op = "pm" /\ row.pm = req[h].pm)
<1>1. /\ req[h] \in Request /\ req[h].op \in ManagerOps /\ req[h].at = "write"
      /\ Shape(req[h]) /\ Managed(req[h])
    BY DEF WriteProject, AccountsInv, TypeOK, RequestsKnow
<1>2. PICK p \in Projects : p = req[h].project
    BY <1>1 DEF Shape
<1>3. projects[p] \in Project
    BY <1>1, <1>2 DEF Managed, AccountsInv, TypeOK
<1>4. PICK row : row = Changed(req[h], projects[p])
    OBVIOUS
<1>5. row # NoRow /\ projects' = [projects EXCEPT ![p] = row]
    BY <1>2, <1>4 DEF WriteProject
<1>6. /\ row \in Project /\ row.account = projects[p].account
      /\ projects[p].status = "inactive" => row.status = "inactive"
      /\ row.pm = projects[p].pm \/ (req[h].op = "pm" /\ row.pm = req[h].pm)
    BY <1>1, <1>3, <1>4, <1>5, ChangedRow
<1> QED
    BY <1>2, <1>3, <1>5, <1>6

LEMMA WriteProjectStep ==
    ASSUME AccountsInv, NEW h \in Handlers, WriteProject(h)
    PROVE  AccountsInv'
<1> USE DEF AccountsInv
<1>1. /\ req[h] \in Request /\ req[h].op \in ManagerOps /\ req[h].at = "write"
      /\ Shape(req[h]) /\ Managed(req[h])
    BY DEF WriteProject, TypeOK, RequestsKnow
<1>2. PICK p \in Projects, row \in Project :
        /\ p = req[h].project /\ projects[p] \in Project
        /\ projects' = [projects EXCEPT ![p] = row] /\ row # NoRow
        /\ row.account = projects[p].account
        /\ row.pm = projects[p].pm \/ (req[h].op = "pm" /\ row.pm = req[h].pm)
    BY WritesProject
<1>3. PICK r \in Request :
        /\ r.op = req[h].op /\ r.at = "answer" /\ r.by = req[h].by
        /\ r.project = p /\ r.pm = req[h].pm /\ req' = [req EXCEPT ![h] = r]
    BY <1>2, RequestAt DEF WriteProject, Steps
<1>4. UNCHANGED <<accounts, people, links, orders, page, bounds>>
    BY DEF WriteProject
<1>5. TypeOK'
    BY <1>2, <1>3, <1>4 DEF TypeOK, people, bounds
<1>6. /\ \A k \in Handlers : req'[k] = IF k = h THEN r ELSE req[k]
      /\ \A q \in Projects : projects'[q] = IF q = p THEN row ELSE projects[q]
    BY <1>2, <1>3 DEF TypeOK
<1>7. projects[p] # NoRow
    BY <1>1, <1>2 DEF Managed
<1>8. \A q \in Projects : projects[q] # NoRow =>
        projects'[q] # NoRow /\ projects'[q].account = projects[q].account
    BY <1>2, <1>6
<1>9. Shape(r) /\ ~Making(r) /\ Placed(r)' /\ Managed(r)'
    <2>1. Shape(r) /\ ~Making(r) /\ Placed(r)'
        BY <1>1, <1>3 DEF Shape, Making, Placed, ManagerOps
    <2>2. Managed(r)'
        BY <1>1, <1>2, <1>3, <1>4, <1>6 DEF Managed
    <2> QED
        BY <2>1, <2>2
<1>10. RequestsKnow'
    <2> SUFFICES ASSUME NEW k \in Handlers
                 PROVE  (Shape(req[k]) /\ Placed(req[k]) /\ Managed(req[k]))'
        BY DEF RequestsKnow
    <2>1. CASE k = h
        BY <1>6, <1>9, <2>1 DEF Placed, Managed, Shape
    <2>2. CASE k # h
        <3>1. req'[k] = req[k] /\ Shape(req[k]) /\ Placed(req[k]) /\ Managed(req[k])
            BY <1>6, <2>2 DEF RequestsKnow
        <3>2. /\ req[k].op \in ManagerOps => req[k].project \in Projects
              /\ req[k].op = "pm" => req[k].op \in ManagerOps
            BY <3>1 DEF Shape, ManagerOps
        <3>3. Managed(req[k])'
            BY <1>4, <1>8, <3>1, <3>2 DEF Managed
        <3>4. Placed(req[k])'
            BY <1>4, <3>1 DEF Placed, Making, people
        <3> QED
            BY <3>1, <3>3, <3>4
    <2> QED
        BY <2>1, <2>2
<1>11. RequestsApart'
    BY <1>6, <1>9, NotMakingAny DEF RequestsApart
<1>12. ResponsibleLinked'
    <2>1. row.pm # Null => <<row.pm, row.account>> \in links
        <3>1. CASE row.pm = projects[p].pm
            BY <1>2, <1>7, <3>1 DEF ResponsibleLinked
        <3>2. CASE req[h].op = "pm" /\ row.pm = req[h].pm
            BY <1>1, <1>2, <3>2 DEF Managed
        <3> QED
            BY <1>2, <3>1, <3>2
    <2> QED
        BY <1>4, <1>6, <2>1 DEF ResponsibleLinked
<1>13. PagesKnow'
    <2>1. \A m \in Managers : \A selection \in page[m].fetching :
            selection.kind = "project" => selection.id \in Projects
        BY DEF TypeOK, Page, Selection
    <2> QED
        BY <1>4, <1>8, <2>1 DEF PagesKnow
<1>14. OneAccountEach' /\ FetchedIsSelected'
    BY <1>4 DEF OneAccountEach, FetchedIsSelected, people
<1> QED
    BY <1>5, <1>10, <1>11, <1>12, <1>13, <1>14
-----------------------------------------------------------------------------
(* The page *)

LEMMA PageTurns ==
    ASSUME AccountsInv, NEW m \in Managers, NEW v \in Page, page' = [page EXCEPT ![m] = v],
           \A selection \in v.fetching : selection.kind = "project" => projects[selection.id] # NoRow,
           v.detail.from = "get" => v.detail.of \in {v.selection, Nothing},
           UNCHANGED projects
    PROVE  page' \in [Managers -> Page] /\ PagesKnow' /\ FetchedIsSelected'
<1> USE DEF AccountsInv
<1>1. page' \in [Managers -> Page]
    BY DEF TypeOK
<1>2. \A n \in Managers : page'[n] = IF n = m THEN v ELSE page[n]
    BY DEF TypeOK
<1> QED
    BY <1>1, <1>2 DEF PagesKnow, FetchedIsSelected

\* What is read of a project that is there is a detail.
LEMMA DetailRead ==
    ASSUME AccountsInv, NEW selection \in Selection, NEW from \in {"get", "patch"},
           selection.kind = "project" => projects[selection.id] # NoRow
    PROVE  \E d \in Detail : d = ReadDetail(selection, from) /\ d.of = selection /\ d.from = from
<1>1. PICK status : status = IF selection.kind = "project" THEN projects[selection.id].status ELSE ""
    OBVIOUS
<1>2. status \in {"", "dormant", "active", "inactive"}
    <2>1. CASE selection.kind = "project"
        <3>1. selection.id \in Projects
            BY <2>1 DEF Selection
        <3>2. projects[selection.id] \in Project
            BY <2>1, <3>1 DEF AccountsInv, TypeOK
        <3> QED
            BY <1>1, <2>1, <3>2 DEF Project
    <2>2. CASE selection.kind # "project"
        BY <1>1, <2>2
    <2> QED
        BY <2>1, <2>2
<1> DEFINE d == [of |-> selection, from |-> from, status |-> status]
<1>3. d \in Detail
    BY <1>2 DEF Detail
<1>4. d = ReadDetail(selection, from)
    BY <1>1 DEF ReadDetail
<1>5. d.of = selection /\ d.from = from
    OBVIOUS
<1> HIDE DEF d
<1> QED
    BY <1>3, <1>4, <1>5

LEMMA AnswerStep ==
    ASSUME AccountsInv, NEW h \in Handlers, Answer(h)
    PROVE  AccountsInv'
<1> USE DEF AccountsInv
<1>1. /\ req[h] \in Request /\ Shape(req[h]) /\ Managed(req[h]) /\ req[h].at = "answer"
      /\ req' = [req EXCEPT ![h] = NoRequest] /\ UNCHANGED <<tables, bounds>>
    BY DEF Answer, TypeOK, RequestsKnow
<1>2. req[h].op \in ManagerOps /\ req[h].by \in Managers /\ req[h].project \in Projects
    BY <1>1 DEF Shape, Request
<1>3. projects[req[h].project] # NoRow
    BY <1>1, <1>2 DEF Managed
<1>4. page' \in [Managers -> Page] /\ PagesKnow' /\ FetchedIsSelected'
    <2>1. CASE req[h].op = "no-index"
        BY <1>1, <2>1 DEF Answer, PagesKnow, FetchedIsSelected, TypeOK, tables
    <2>2. CASE req[h].op # "no-index"
        <3>1. PICK selection \in Selection :
                selection = [kind |-> "project", id |-> req[h].project]
            BY <1>2 DEF Selection
        <3>2. PICK d \in Detail : d = ReadDetail(selection, "patch") /\ d.from = "patch"
            BY <1>3, <3>1, DetailRead
        <3>3. PICK m \in Managers : m = req[h].by
            BY <1>2
        <3>4. page' = [page EXCEPT ![m].detail = d]
            BY <2>2, <3>1, <3>2, <3>3 DEF Answer
        <3>5. page[m] \in Page
            BY DEF TypeOK
        <3>6. PICK v : v = [page[m] EXCEPT !.detail = d]
            OBVIOUS
        <3>7. v \in Page
            BY <3>5, <3>6 DEF Page
        <3>8. v.fetching = page[m].fetching /\ v.detail = d
            BY <3>5, <3>6 DEF Page
        <3>9. page' = [page EXCEPT ![m] = v]
            BY <3>4, <3>6
        <3>10. v.detail.from # "get"
            BY <3>2, <3>8
        <3>11. \A s \in v.fetching : s.kind = "project" => projects[s.id] # NoRow
            BY <3>8 DEF PagesKnow
        <3> QED
            BY <1>1, <3>7, <3>9, <3>10, <3>11, PageTurns DEF tables
    <2> QED
        BY <2>1, <2>2
<1>5. req' \in [Handlers -> Request] /\ RequestsKnow' /\ RequestsApart'
    BY <1>1, RequestsEnd DEF tables, people
<1>6. TypeOK'
    BY <1>1, <1>4, <1>5 DEF TypeOK, tables, people, bounds
<1>7. OneAccountEach' /\ ResponsibleLinked'
    BY <1>1 DEF OneAccountEach, ResponsibleLinked, tables, people
<1> QED
    BY <1>4, <1>5, <1>6, <1>7

\* An error of the page changes neither what is shown nor what is fetched.
LEMMA PageFails ==
    ASSUME AccountsInv, UNCHANGED projects,
           \E failed \in [Managers -> BOOLEAN] :
                page' = [m \in Managers |-> [page[m] EXCEPT !.error = failed[m]]]
    PROVE  page' \in [Managers -> Page] /\ PagesKnow' /\ FetchedIsSelected'
<1> USE DEF AccountsInv
<1>1. PICK failed \in [Managers -> BOOLEAN] :
        page' = [m \in Managers |-> [page[m] EXCEPT !.error = failed[m]]]
    OBVIOUS
<1>2. ASSUME NEW m \in Managers
      PROVE  /\ page'[m] \in Page
             /\ page'[m].selection = page[m].selection /\ page'[m].detail = page[m].detail
             /\ page'[m].fetching = page[m].fetching
    <2>1. page[m] \in Page /\ failed[m] \in BOOLEAN
        BY DEF TypeOK
    <2>2. page'[m] = [page[m] EXCEPT !.error = failed[m]]
        BY <1>1
    <2>3. page'[m] \in Page
        BY <2>1, <2>2 DEF Page
    <2>4. /\ page'[m].selection = page[m].selection /\ page'[m].detail = page[m].detail
          /\ page'[m].fetching = page[m].fetching
        BY <2>1, <2>2 DEF Page
    <2> QED
        BY <2>3, <2>4
<1>3. page' \in [Managers -> Page]
    <2>1. page' = [m \in Managers |-> page'[m]]
        BY <1>1
    <2> QED
        BY <1>2, <2>1
<1> QED
    BY <1>2, <1>3 DEF PagesKnow, FetchedIsSelected

LEMMA FailRequestStep ==
    ASSUME AccountsInv, NEW h \in Handlers, FailRequest(h)
    PROVE  AccountsInv'
<1> USE DEF AccountsInv
<1>1. /\ req[h] \in Request /\ Shape(req[h])
      /\ req' = [req EXCEPT ![h] = NoRequest] /\ UNCHANGED <<tables, bounds>>
    BY DEF FailRequest, TypeOK, RequestsKnow
<1>2. page' \in [Managers -> Page] /\ PagesKnow' /\ FetchedIsSelected'
    <2>1. CASE req[h].op = "approve"
        <3>1. PICK m \in Managers : m = req[h].by
            BY <1>1, <2>1 DEF Shape, ManagerOps
        <3>2. page' = [page EXCEPT ![m].error = TRUE]
            BY <2>1, <3>1 DEF FailRequest
        <3>3. page[m] \in Page
            BY DEF TypeOK
        <3>4. PICK v : v = [page[m] EXCEPT !.error = TRUE]
            OBVIOUS
        <3>5. v \in Page
            BY <3>3, <3>4 DEF Page
        <3>6. /\ v.fetching = page[m].fetching /\ v.detail = page[m].detail
              /\ v.selection = page[m].selection
            BY <3>3, <3>4 DEF Page
        <3>7. page' = [page EXCEPT ![m] = v]
            BY <3>2, <3>4
        <3>8. \A s \in v.fetching : s.kind = "project" => projects[s.id] # NoRow
            BY <3>6 DEF PagesKnow
        <3>9. v.detail.from = "get" => v.detail.of \in {v.selection, Nothing}
            BY <3>6 DEF FetchedIsSelected
        <3> QED
            BY <1>1, <3>5, <3>7, <3>8, <3>9, PageTurns DEF tables
    <2>2. CASE req[h].op # "approve"
        BY <1>1, <2>2 DEF FailRequest, PagesKnow, FetchedIsSelected, TypeOK, tables
    <2> QED
        BY <2>1, <2>2
<1>3. req' \in [Handlers -> Request] /\ RequestsKnow' /\ RequestsApart'
    BY <1>1, RequestsEnd DEF tables, people
<1>4. TypeOK'
    BY <1>1, <1>2, <1>3 DEF TypeOK, tables, people, bounds
<1>5. OneAccountEach' /\ ResponsibleLinked'
    BY <1>1 DEF OneAccountEach, ResponsibleLinked, tables, people
<1> QED
    BY <1>2, <1>3, <1>4, <1>5

\* Nothing that requests know of is touched, but for an account no request is making.
LEMMA RequestsStay ==
    ASSUME AccountsInv, UNCHANGED <<req, users, links, projects>>,
           \/ accounts' = accounts
           \/ \E row : \E a \in AccountIds : Fresh(a) /\ accounts' = [accounts EXCEPT ![a] = row]
    PROVE  RequestsKnow' /\ RequestsApart'
<1> USE DEF AccountsInv
<1>1. \A h \in Handlers : Making(req[h]) /\ req[h].at = "commit"
        => accounts'[req[h].account] = NoRow
    <2> SUFFICES ASSUME NEW h \in Handlers, Making(req[h]), req[h].at = "commit"
                 PROVE  accounts'[req[h].account] = NoRow
        OBVIOUS
    <2>1. req[h].account \in AccountIds /\ accounts[req[h].account] = NoRow
        BY DEF RequestsKnow, Placed
    <2> QED
        BY <2>1 DEF Fresh, TypeOK
<1>2. RequestsKnow'
    BY <1>1 DEF RequestsKnow, Placed, Managed, Making
<1>3. RequestsApart'
    BY DEF RequestsApart
<1> QED
    BY <1>2, <1>3

LEMMA CreateAccountStep ==
    ASSUME AccountsInv, NEW m \in Managers, CreateAccount(m)
    PROVE  AccountsInv'
<1> USE DEF AccountsInv
<1> DEFINE row == [name |-> Null, manager |-> m]
<1>1. PICK a \in AccountIds : Fresh(a) /\ accounts' = [accounts EXCEPT ![a] = row]
    BY DEF CreateAccount
<1>2. row \in Account /\ row.name = Null
    BY DEF Account
<1> HIDE DEF row
<1>3. UNCHANGED <<people, links, projects, orders, req, restarts>>
    BY DEF CreateAccount
<1>4. page' \in [Managers -> Page] /\ PagesKnow' /\ FetchedIsSelected'
    <2>1. PICK v : v = [page[m] EXCEPT !.selection = Nothing, !.detail = NoDetail]
        OBVIOUS
    <2>2. page' = [page EXCEPT ![m] = v]
        BY <2>1 DEF CreateAccount
    <2>3. page[m] \in Page
        BY DEF TypeOK
    <2>4. NoDetail \in Detail /\ NoDetail.of = Nothing
        BY DEF NoDetail, Detail
    <2>5. v \in Page
        BY <2>1, <2>3, <2>4 DEF Page
    <2>6. v.fetching = page[m].fetching /\ v.detail = NoDetail
        BY <2>1, <2>3 DEF Page
    <2>7. \A s \in v.fetching : s.kind = "project" => projects[s.id] # NoRow
        BY <2>6 DEF PagesKnow
    <2> QED
        BY <1>3, <2>2, <2>4, <2>5, <2>6, <2>7, PageTurns
<1>5. requests' \in 0..MaxRequests
    <2>1. requests \in 0..MaxRequests /\ requests < MaxRequests /\ requests' = requests + 1
        BY DEF CreateAccount, TypeOK
    <2> QED
        BY <2>1, AccountsAssumption
<1>6. TypeOK'
    BY <1>1, <1>2, <1>3, <1>4, <1>5 DEF TypeOK, people
<1>7. RequestsKnow' /\ RequestsApart'
    BY <1>1, <1>3, RequestsStay DEF people
<1>8. OneAccountEach' /\ ResponsibleLinked'
    <2>1. \A b \in AccountIds : accounts'[b] = IF b = a THEN row ELSE accounts[b]
        BY <1>1 DEF TypeOK
    <2> QED
        BY <1>2, <1>3, <2>1 DEF OneAccountEach, ResponsibleLinked, people
<1> QED
    BY <1>4, <1>6, <1>7, <1>8

LEMMA PageSteps ==
    ASSUME AccountsInv, NEW m \in Managers, NEW selection \in Selection,
           Select(m, selection) \/ FetchDetail(m, selection) \/ FailFetch(m, selection)
    PROVE  AccountsInv'
<1> USE DEF AccountsInv
<1>1. UNCHANGED <<tables, req, restarts>>
    BY DEF Select, FetchDetail, FailFetch, bounds
<1>2. page[m] \in Page
    BY DEF TypeOK
<1>3. page' \in [Managers -> Page] /\ PagesKnow' /\ FetchedIsSelected'
    <2>1. CASE Select(m, selection)
        <3>1. PICK v : v = [page[m] EXCEPT !.selection = selection, !.detail = NoDetail,
                                           !.fetching = @ \cup {selection}]
            OBVIOUS
        <3>2. page' = [page EXCEPT ![m] = v]
            BY <2>1, <3>1 DEF Select
        <3>3. NoDetail \in Detail /\ NoDetail.of = Nothing
            BY DEF NoDetail, Detail
        <3>4. v \in Page
            BY <1>2, <3>1, <3>3 DEF Page
        <3>5. v.fetching = page[m].fetching \cup {selection} /\ v.detail = NoDetail
            BY <1>2, <3>1 DEF Page
        <3>6. \A s \in v.fetching : s.kind = "project" => projects[s.id] # NoRow
            BY <2>1, <3>5 DEF PagesKnow, Select, Listed
        <3> QED
            BY <1>1, <3>2, <3>3, <3>4, <3>5, <3>6, PageTurns DEF tables
    <2>2. CASE FetchDetail(m, selection)
        <3>1. selection \in page[m].fetching
            BY <2>2 DEF FetchDetail
        <3>2. PICK d \in Detail : d = ReadDetail(selection, "get") /\ d.of = selection
            BY <3>1, DetailRead DEF PagesKnow
        <3>3. PICK shown \in Detail :
                shown = IF selection = page[m].selection THEN d ELSE page[m].detail
            BY <1>2 DEF Page
        <3>4. PICK v : v = [page[m] EXCEPT !.fetching = page[m].fetching \ {selection}, !.detail = shown]
            OBVIOUS
        <3>5. page' = [page EXCEPT ![m] = v]
            BY <2>2, <3>2, <3>3, <3>4 DEF FetchDetail
        <3>6. v \in Page
            BY <1>2, <3>4 DEF Page
        <3>7. /\ v.fetching = page[m].fetching \ {selection} /\ v.detail = shown
              /\ v.selection = page[m].selection
            BY <1>2, <3>4 DEF Page
        <3>8. \A s \in v.fetching : s.kind = "project" => projects[s.id] # NoRow
            BY <3>7 DEF PagesKnow
        <3>9. v.detail.from = "get" => v.detail.of \in {v.selection, Nothing}
            BY <3>2, <3>3, <3>7 DEF FetchedIsSelected
        <3> QED
            BY <1>1, <3>5, <3>6, <3>8, <3>9, PageTurns DEF tables
    <2>3. CASE FailFetch(m, selection)
        <3>1. PICK failed \in BOOLEAN : failed = (page[m].error \/ selection = page[m].selection)
            OBVIOUS
        <3>2. PICK v : v = [page[m] EXCEPT !.fetching = page[m].fetching \ {selection}, !.error = failed]
            OBVIOUS
        <3>3. page' = [page EXCEPT ![m] = v]
            BY <2>3, <3>1, <3>2 DEF FailFetch
        <3>4. v \in Page
            BY <1>2, <3>2 DEF Page
        <3>5. /\ v.fetching = page[m].fetching \ {selection} /\ v.detail = page[m].detail
              /\ v.selection = page[m].selection
            BY <1>2, <3>2 DEF Page
        <3>6. \A s \in v.fetching : s.kind = "project" => projects[s.id] # NoRow
            BY <3>5 DEF PagesKnow
        <3>7. v.detail.from = "get" => v.detail.of \in {v.selection, Nothing}
            BY <3>5 DEF FetchedIsSelected
        <3> QED
            BY <1>1, <3>3, <3>4, <3>6, <3>7, PageTurns DEF tables
    <2> QED
        BY <2>1, <2>2, <2>3
<1>4. requests' \in 0..MaxRequests
    <2>1. CASE Select(m, selection)
        <3>1. requests \in 0..MaxRequests /\ requests < MaxRequests /\ requests' = requests + 1
            BY <2>1 DEF Select, TypeOK
        <3> QED
            BY <3>1, AccountsAssumption
    <2>2. CASE FetchDetail(m, selection) \/ FailFetch(m, selection)
        BY <2>2 DEF FetchDetail, FailFetch, bounds, TypeOK
    <2> QED
        BY <2>1, <2>2
<1>5. TypeOK'
    BY <1>1, <1>3, <1>4 DEF TypeOK, tables, people
<1>6. RequestsKnow' /\ RequestsApart'
    BY <1>1, RequestsStay DEF tables, people
<1>7. OneAccountEach' /\ ResponsibleLinked'
    BY <1>1 DEF OneAccountEach, ResponsibleLinked, tables, people
<1> QED
    BY <1>3, <1>5, <1>6, <1>7
LEMMA SetActiveStep ==
    ASSUME AccountsInv, NEW pm \in Pms, SetActive(pm)
    PROVE  AccountsInv'
<1> USE DEF AccountsInv
<1>1. UNCHANGED <<accounts, users, members, links, projects, orders, req, page, restarts>>
    BY DEF SetActive
<1>2. requests' \in 0..MaxRequests
    <2>1. requests \in 0..MaxRequests /\ requests < MaxRequests /\ requests' = requests + 1
        BY DEF SetActive, TypeOK
    <2> QED
        BY <2>1, AccountsAssumption
<1>3. active' \subseteq Pms
    BY DEF SetActive, TypeOK
<1>4. TypeOK'
    BY <1>1, <1>2, <1>3 DEF TypeOK
<1>5. RequestsKnow' /\ RequestsApart'
    BY <1>1, RequestsStay
<1>6. PagesKnow' /\ OneAccountEach' /\ ResponsibleLinked' /\ FetchedIsSelected'
    BY <1>1 DEF PagesKnow, OneAccountEach, ResponsibleLinked, FetchedIsSelected
<1> QED
    BY <1>4, <1>5, <1>6

LEMMA RestartStep ==
    ASSUME AccountsInv, Restart
    PROVE  AccountsInv'
<1> USE DEF AccountsInv
<1>1. /\ req' = [h \in Handlers |-> NoRequest] /\ restarts < MaxRestarts
      /\ restarts' = restarts + 1 /\ UNCHANGED <<people, links, projects, orders, requests>>
    BY DEF Restart
<1>2. PICK m \in Managers \cup {Null} :
        accounts' = [a \in AccountIds |->
            IF accounts[a] # NoRow /\ accounts[a].manager = Null
              THEN [accounts[a] EXCEPT !.manager = m] ELSE accounts[a]]
    BY DEF Restart
<1>3. ASSUME NEW a \in AccountIds
      PROVE  /\ accounts'[a] \in Account \cup {NoRow}
             /\ accounts'[a] # NoRow => accounts[a] # NoRow /\ accounts'[a].name = accounts[a].name
    <2>1. CASE accounts[a] # NoRow /\ accounts[a].manager = Null
        <3>1. accounts[a] \in Account /\ accounts'[a] = [accounts[a] EXCEPT !.manager = m]
            BY <1>2, <2>1 DEF TypeOK
        <3>2. accounts'[a] \in Account
            BY <3>1 DEF Account
        <3>3. accounts'[a].name = accounts[a].name
            BY <3>1 DEF Account
        <3> QED
            BY <2>1, <3>2, <3>3
    <2>2. CASE ~(accounts[a] # NoRow /\ accounts[a].manager = Null)
        <3>1. accounts'[a] = accounts[a]
            BY <1>2, <2>2
        <3> QED
            BY <3>1 DEF TypeOK
    <2> QED
        BY <2>1, <2>2
<1>4. page' \in [Managers -> Page] /\ PagesKnow' /\ FetchedIsSelected'
    <2> DEFINE failed == [n \in Managers |->
                page[n].error \/ \E h \in Handlers : req[h].op = "approve" /\ req[h].by = n]
    <2>1. failed \in [Managers -> BOOLEAN]
        <3>1. \A n \in Managers : page[n].error \in BOOLEAN
            BY DEF TypeOK, Page
        <3> QED
            BY <3>1
    <2>2. page' = [n \in Managers |-> [page[n] EXCEPT !.error = failed[n]]]
        BY DEF Restart
    <2> HIDE DEF failed
    <2> QED
        BY <1>1, <2>1, <2>2, PageFails
<1>5. accounts' \in [AccountIds -> Account \cup {NoRow}]
    BY <1>2, <1>3
<1>6. restarts' \in 0..MaxRestarts
    <2>1. restarts \in 0..MaxRestarts
        BY DEF TypeOK
    <2> QED
        BY <1>1, <2>1, AccountsAssumption
<1>7. req' \in [Handlers -> Request]
    BY <1>1, NoRequestKnows
<1>8. TypeOK'
    BY <1>1, <1>4, <1>5, <1>6, <1>7 DEF TypeOK, people
<1>9. RequestsKnow'
    <2>1. Shape(NoRequest) /\ Placed(NoRequest)' /\ Managed(NoRequest)'
        BY NoRequestKnows DEF Placed, Managed, Making, ManagerOps
    <2>2. \A h \in Handlers : req'[h] = NoRequest
        BY <1>1
    <2> QED
        BY <2>1, <2>2 DEF RequestsKnow, Placed, Managed, Shape
<1>10. RequestsApart'
    BY <1>1, NoRequestKnows DEF RequestsApart
<1>11. OneAccountEach' /\ ResponsibleLinked'
    BY <1>1, <1>3 DEF OneAccountEach, ResponsibleLinked, people
<1> QED
    BY <1>4, <1>8, <1>9, <1>10, <1>11

LEMMA AccountsStep == AccountsInv /\ [Next]_vars => AccountsInv'
<1> SUFFICES ASSUME AccountsInv, [Next]_vars PROVE AccountsInv'
    OBVIOUS
<1>1. ASSUME NEW h \in Handlers,
             \/ StartOrder(h) \/ StartProject(h)
             \/ \E m \in Managers : Click(h, m) \/ StartNoIndex(h, m)
      PROVE  AccountsInv'
    BY <1>1, RequestStarts
<1>2. ASSUME NEW h \in Handlers, LockUser(h) PROVE AccountsInv'
    BY <1>2, LockUserStep
<1>3. ASSUME NEW h \in Handlers, InsertAccount(h) PROVE AccountsInv'
    BY <1>3, InsertAccountStep
<1>4. ASSUME NEW h \in Handlers, CommitAccount(h) PROVE AccountsInv'
    BY <1>4, CommitAccountStep
<1>5. ASSUME NEW h \in Handlers,
             ReadProject(h) \/ CheckMembership(h) \/ ManagedRead(h) \/ FindPm(h)
      PROVE  AccountsInv'
    BY <1>5, CheckSteps
<1>6. ASSUME NEW h \in Handlers, CreateOrder(h) \/ CreateProject(h) PROVE AccountsInv'
    BY <1>6, CreateSteps
<1>7. ASSUME NEW h \in Handlers, LinkPm(h) PROVE AccountsInv'
    BY <1>7, LinkPmStep
<1>8. ASSUME NEW h \in Handlers, WriteProject(h) PROVE AccountsInv'
    BY <1>8, WriteProjectStep
<1>9. ASSUME NEW h \in Handlers, Answer(h) PROVE AccountsInv'
    BY <1>9, AnswerStep
<1>10. ASSUME NEW h \in Handlers, FailRequest(h) PROVE AccountsInv'
    BY <1>10, FailRequestStep
<1>11. ASSUME NEW m \in Managers, CreateAccount(m) PROVE AccountsInv'
    BY <1>11, CreateAccountStep
<1>12. ASSUME NEW m \in Managers, NEW selection \in Selection,
              Select(m, selection) \/ FetchDetail(m, selection) \/ FailFetch(m, selection)
       PROVE  AccountsInv'
    BY <1>12, PageSteps
<1>13. ASSUME NEW pm \in Pms, SetActive(pm) PROVE AccountsInv'
    BY <1>13, SetActiveStep
<1>14. CASE Restart
    BY <1>14, RestartStep
<1>15. CASE UNCHANGED vars
    <2>1. UNCHANGED <<accounts, users, members, active, links, projects, orders, req, page,
                      requests, restarts>>
        BY <1>15 DEF vars, tables, people, bounds
    <2>2. TypeOK'
        BY <2>1 DEF AccountsInv, TypeOK
    <2>3. RequestsKnow' /\ RequestsApart'
        BY <2>1, RequestsStay
    <2>4. PagesKnow' /\ OneAccountEach' /\ ResponsibleLinked' /\ FetchedIsSelected'
        BY <2>1 DEF AccountsInv, PagesKnow, OneAccountEach, ResponsibleLinked, FetchedIsSelected
    <2> QED
        BY <2>2, <2>3, <2>4 DEF AccountsInv
<1> QED
    BY <1>1, <1>2, <1>3, <1>4, <1>5, <1>6, <1>7, <1>8, <1>9, <1>10, <1>11, <1>12, <1>13,
       <1>14, <1>15 DEF Next

LEMMA AccountsAlways == Spec => []AccountsInv
<1> QED
    BY AccountsInit, AccountsStep, PTL DEF Spec

-----------------------------------------------------------------------------
(* Theorems *)

\* Every state of accounts, projects, requests and pages is well formed.
THEOREM AccountTypes == Spec => []TypeOK
<1>1. AccountsInv => TypeOK
    BY DEF AccountsInv
<1> QED
    BY <1>1, AccountsAlways, PTL

\* However many first orders of a customer arrive at once, the customer has one account
\* of that name at most, the one the customer is linked to and every order is with.
THEOREM OneAccount == Spec => []OneAccountEach
<1>1. AccountsInv => OneAccountEach
    BY DEF AccountsInv
<1> QED
    BY <1>1, AccountsAlways, PTL

\* Whoever is responsible for a project is linked to its account, wherever the request
\* that made it so has stopped.
THEOREM ManagersLinked == Spec => []ResponsibleLinked
<1>1. AccountsInv => ResponsibleLinked
    BY DEF AccountsInv
<1> QED
    BY <1>1, AccountsAlways, PTL

\* The account manager's page shows what it fetched for its selection only.
THEOREM FetchedShown == Spec => []FetchedIsSelected
<1>1. AccountsInv => FetchedIsSelected
    BY DEF AccountsInv
<1> QED
    BY <1>1, AccountsAlways, PTL

LEMMA InactiveStep ==
    ASSUME AccountsInv, [Next]_vars, NEW p \in Projects, projects[p] # NoRow,
           projects[p].status = "inactive"
    PROVE  projects'[p].status = "inactive"
<1> USE DEF AccountsInv
<1>1. CASE UNCHANGED projects
    BY <1>1
<1>2. ASSUME NEW h \in Handlers, CreateProject(h)
      PROVE  projects'[p].status = "inactive"
    <2>1. PICK q \in Projects :
            projects[q] = NoRow /\ \E new : projects' = [projects EXCEPT ![q] = new]
        BY <1>2 DEF CreateProject
    <2>2. p # q
        BY <2>1
    <2> QED
        BY <2>1, <2>2 DEF TypeOK
<1>3. ASSUME NEW h \in Handlers, WriteProject(h)
      PROVE  projects'[p].status = "inactive"
    <2>1. PICK q \in Projects, row \in Project :
            /\ projects' = [projects EXCEPT ![q] = row]
            /\ projects[q].status = "inactive" => row.status = "inactive"
        BY <1>3, WritesProject
    <2> QED
        BY <2>1 DEF TypeOK
<1>4. \/ UNCHANGED projects
      \/ \E h \in Handlers : CreateProject(h) \/ WriteProject(h)
    BY ZenonT(60) DEF Next, vars, tables, bounds, people, StartOrder, LockUser, InsertAccount, CommitAccount,
        ReadProject, CreateOrder, StartProject, CheckMembership, Click, StartNoIndex, Start,
        ManagedRead, FindPm, LinkPm, Answer, FailRequest, CreateAccount, Select, FetchDetail,
        FailFetch, SetActive, Restart
<1> QED
    BY <1>1, <1>2, <1>3, <1>4

\* A deactivated project stays so, whatever a request that read it before makes of it.
THEOREM InactiveForGood == Spec => InactiveStays
<1>1. AccountsInv /\ [Next]_vars
        => [\A p \in Projects : projects[p] # NoRow /\ projects[p].status = "inactive"
                => projects'[p].status = "inactive"]_vars
    BY InactiveStep
<1> QED
    BY <1>1, AccountsAlways, PTL DEF Spec, InactiveStays
=============================================================================
