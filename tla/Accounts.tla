------------------------------- MODULE Accounts -------------------------------
(***************************************************************************)
(* Accounts and projects of task-service: the account a customer gets with *)
(* the first order, projects proposed by customers, approved, staffed and  *)
(* deactivated by account managers, and the account manager's page.        *)
(*                                                                         *)
(* A handler runs several statements, each by itself, except that the      *)
(* account of a first order is made in a transaction that holds the lock   *)
(* of the customer's row.  What a transaction wrote is seen by nobody      *)
(* before its COMMIT.  The page keeps what is selected and what is shown   *)
(* of it apart: one is set by clicks, the other by answers.                *)
(***************************************************************************)
EXTENDS Naturals, FiniteSets

CONSTANTS
    Customers, Managers, Pms,   \* users by role
    AccountIds, Projects, Orders,
    Handlers,       \* requests served at the same time
    Null,
    MaxRequests,    \* bound: requests, and selections of the pages
    MaxRestarts     \* bound: restarts of task-service

ASSUME AccountsAssumption ==
    /\ Null \notin Customers \cup Managers \cup Pms \cup AccountIds \cup Projects
    /\ MaxRequests \in Nat /\ MaxRestarts \in Nat

VARIABLES
    accounts,       \* accounts: a row per id
    users,          \* users.account_id of a customer
    members,        \* user_accounts
    active,         \* project managers who are active
    links,          \* pm_accounts
    projects,       \* projects: a row per id
    orders,         \* tasks: what is set at creation
    req,            \* per handler: its request and its locals
    page,           \* per account manager: AccountsProjectsView
    requests, restarts

people == <<users, members, active>>
tables == <<accounts, people, links, projects, orders>>
bounds == <<requests, restarts>>
vars == <<tables, req, page, bounds>>

\* An account made for a customer bears that customer's name.
Account == [name: Customers \cup {Null}, manager: Managers \cup {Null}]
Project == [account: AccountIds, status: {"dormant", "active", "inactive"}, pm: Pms \cup {Null},
            no_index: BOOLEAN]
Order == [customer: Customers, account: AccountIds, project: Projects \cup {Null}, no_index: BOOLEAN]
NoRow == [name |-> "no row"]

ManagerOps == {"approve", "pm", "deactivate", "no-index"}
Steps == {"idle", "begin", "insert", "commit", "project", "read", "find", "link", "write", "answer"}

Request == [op: {"order", "propose", "none"} \cup ManagerOps, at: Steps,
            by: Customers \cup Managers \cup {Null}, account: AccountIds \cup {Null},
            project: Projects \cup {Null}, pm: Pms \cup {Null}, flag: BOOLEAN]
NoRequest == [op |-> "none", at |-> "idle", by |-> Null, account |-> Null, project |-> Null,
              pm |-> Null, flag |-> FALSE]

Selection == [kind: {"project"}, id: Projects] \cup [kind: {"account"}, id: AccountIds]
Nothing == [kind |-> "none", id |-> Null]

\* from: a detail was fetched, or is the body of an answer to a change.
Detail == [of: Selection \cup {Nothing}, status: {"", "dormant", "active", "inactive"},
           from: {"get", "patch"}]
NoDetail == [of |-> Nothing, status |-> "", from |-> "get"]
Page == [selection: Selection \cup {Nothing}, detail: Detail, fetching: SUBSET Selection,
         error: BOOLEAN]
NewPage == [selection |-> Nothing, detail |-> NoDetail, fetching |-> {}, error |-> FALSE]

TypeOK ==
    /\ accounts \in [AccountIds -> Account \cup {NoRow}]
    /\ users \in [Customers -> AccountIds \cup {Null}]
    /\ members \subseteq Customers \X AccountIds
    /\ active \subseteq Pms
    /\ links \subseteq Pms \X AccountIds
    /\ projects \in [Projects -> Project \cup {NoRow}]
    /\ orders \in [Orders -> Order \cup {NoRow}]
    /\ req \in [Handlers -> Request]
    /\ page \in [Managers -> Page]
    /\ requests \in 0..MaxRequests /\ restarts \in 0..MaxRestarts

\* Accounts of companies, and who orders for them, may be there already.
Init ==
    /\ accounts \in [AccountIds -> {NoRow} \cup {row \in Account : row.name = Null}]
    /\ users = [c \in Customers |-> Null]
    /\ members \in SUBSET (Customers \X {a \in AccountIds : accounts[a] # NoRow})
    /\ active \in SUBSET Pms
    /\ links = {}
    /\ projects = [p \in Projects |-> NoRow]
    /\ orders = [o \in Orders |-> NoRow]
    /\ req = [h \in Handlers |-> NoRequest]
    /\ page = [m \in Managers |-> NewPage]
    /\ requests = 0 /\ restarts = 0

\* listAccountsForUser: the default account and the further ones.
AccountsOf(c) == {a \in AccountIds : users[c] = a \/ <<c, a>> \in members}

Start(h, request) ==
    /\ req[h] = NoRequest
    /\ requests < MaxRequests
    /\ requests' = requests + 1
    /\ req' = [req EXCEPT ![h] = request]
    /\ UNCHANGED <<tables, page, restarts>>

Go(h, at) == req' = [req EXCEPT ![h].at = at]

\* An error, an early return, or a transaction rolled back: nothing of it was written.
\* The page shows a failed approval for good, any other failure beside its button.
FailRequest(h) ==
    /\ req[h].at # "idle"
    /\ req' = [req EXCEPT ![h] = NoRequest]
    /\ page' = IF req[h].op = "approve" THEN [page EXCEPT ![req[h].by].error = TRUE] ELSE page
    /\ UNCHANGED <<tables, bounds>>

-----------------------------------------------------------------------------
(* Customers: POST /tasks and POST /projects *)

\* A first request, or one of several sent at once; a project is optional.
StartOrder(h) ==
    \E c \in Customers, p \in Projects \cup {Null} :
        Start(h, [NoRequest EXCEPT !.op = "order", !.at = "begin", !.by = c, !.project = p])

Locked(c) == \E h \in Handlers : req[h].op = "order" /\ req[h].by = c /\ req[h].at \in {"insert", "commit"}

\* Deviation: a SELECT without FOR UPDATE.
LockUserNot(h) ==
    LET c == req[h].by IN
    /\ req[h].op = "order" /\ req[h].at = "begin"
    /\ req' = IF users[c] = Null
                THEN [req EXCEPT ![h].at = "insert"]
                ELSE [req EXCEPT ![h].at = "project", ![h].account = users[c]]
    /\ UNCHANGED <<tables, page, bounds>>

\* SELECT ... FOR UPDATE waits for the transaction of the same customer, and reads what
\* it left; a customer with an account commits at once.
LockUser(h) ==
    LET c == req[h].by IN
    /\ req[h].op = "order" /\ req[h].at = "begin"
    /\ ~Locked(c)
    /\ req' = IF users[c] = Null
                THEN [req EXCEPT ![h].at = "insert"]
                ELSE [req EXCEPT ![h].at = "project", ![h].account = users[c]]
    /\ UNCHANGED <<tables, page, bounds>>

Fresh(a) == accounts[a] = NoRow /\ \A h \in Handlers : req[h].at = "commit" => req[h].account # a

InsertAccount(h) ==
    /\ req[h].op = "order" /\ req[h].at = "insert"
    /\ \E a \in AccountIds :
        /\ Fresh(a)
        /\ req' = [req EXCEPT ![h].at = "commit", ![h].account = a]
    /\ UNCHANGED <<tables, page, bounds>>

\* The account and users.account_id become visible together.
CommitAccount(h) ==
    LET r == req[h] IN
    /\ r.op = "order" /\ r.at = "commit"
    /\ accounts' = [accounts EXCEPT ![r.account] = [name |-> r.by, manager |-> Null]]
    /\ users' = [users EXCEPT ![r.by] = r.account]
    /\ Go(h, "project")
    /\ UNCHANGED <<members, active, links, projects, orders, page, bounds>>

\* The order's project has to be of an account of the customer; its flag is what the
\* order starts with.
ReadProject(h) ==
    LET r == req[h] IN
    /\ r.op = "order" /\ r.at = "project"
    /\ r.project # Null => /\ projects[r.project] # NoRow
                           /\ projects[r.project].account \in AccountsOf(r.by)
    /\ req' = [req EXCEPT ![h].at = "write",
                          ![h].flag = r.project # Null /\ projects[r.project].no_index]
    /\ UNCHANGED <<tables, page, bounds>>

CreateOrder(h) ==
    LET r == req[h] IN
    /\ r.op = "order" /\ r.at = "write"
    /\ \E o \in Orders :
        /\ orders[o] = NoRow
        /\ orders' = [orders EXCEPT ![o] = [customer |-> r.by, account |-> r.account,
                                            project |-> r.project, no_index |-> r.flag]]
    /\ req' = [req EXCEPT ![h] = NoRequest]
    /\ UNCHANGED <<accounts, people, links, projects, page, bounds>>

StartProject(h) ==
    \E c \in Customers, a \in AccountIds :
        Start(h, [NoRequest EXCEPT !.op = "propose", !.at = "read", !.by = c, !.account = a])

CheckMembership(h) ==
    LET r == req[h] IN
    /\ r.op = "propose" /\ r.at = "read"
    /\ r.account \in AccountsOf(r.by)
    /\ Go(h, "write")
    /\ UNCHANGED <<tables, page, bounds>>

CreateProject(h) ==
    LET r == req[h] IN
    /\ r.op = "propose" /\ r.at = "write"
    /\ \E p \in Projects :
        /\ projects[p] = NoRow
        /\ projects' = [projects EXCEPT ![p] = [account |-> r.account, status |-> "dormant",
                                                pm |-> Null, no_index |-> FALSE]]
    /\ req' = [req EXCEPT ![h] = NoRequest]
    /\ UNCHANGED <<accounts, people, links, orders, page, bounds>>

-----------------------------------------------------------------------------
(* The account manager's page *)

\* A detail of another kind than what is selected makes the page throw while it renders.
Crashed(m) ==
    LET kind == page[m].selection.kind
        shown == page[m].detail.of.kind IN
    kind # "none" /\ shown # "none" /\ kind # shown

Usable(m) == ~page[m].error /\ ~Crashed(m)

\* POST /accounts.
CreateAccount(m) ==
    /\ Usable(m)
    /\ requests < MaxRequests
    /\ requests' = requests + 1
    /\ \E a \in AccountIds :
        /\ Fresh(a)
        /\ accounts' = [accounts EXCEPT ![a] = [name |-> Null, manager |-> m]]
    /\ page' = [page EXCEPT ![m].selection = Nothing, ![m].detail = NoDetail]
    /\ UNCHANGED <<people, links, projects, orders, req, restarts>>

Listed(m, selection) ==
    LET a == IF selection.kind = "account" THEN selection.id ELSE projects[selection.id].account IN
    /\ selection.kind = "project" => projects[selection.id] # NoRow
    /\ accounts[a] # NoRow /\ accounts[a].manager = m

\* The detail is cleared in the same update, and the effect fetches the new one.
Select(m, selection) ==
    /\ Usable(m)
    /\ requests < MaxRequests
    /\ Listed(m, selection)
    /\ selection # page[m].selection
    /\ requests' = requests + 1
    /\ page' = [page EXCEPT ![m].selection = selection, ![m].detail = NoDetail,
                            ![m].fetching = @ \cup {selection}]
    /\ UNCHANGED <<tables, req, restarts>>

ReadDetail(selection, from) ==
    [of |-> selection, from |-> from,
     status |-> IF selection.kind = "project" THEN projects[selection.id].status ELSE ""]

\* Deviation: no cancelled flag.
FetchDetailLate(m, selection) ==
    /\ selection \in page[m].fetching
    /\ page' = [page EXCEPT ![m].fetching = @ \ {selection},
                            ![m].detail = ReadDetail(selection, "get")]
    /\ UNCHANGED <<tables, req, bounds>>

\* An answer that comes after another selection is dropped.
FetchDetail(m, selection) ==
    /\ selection \in page[m].fetching
    /\ page' = [page EXCEPT ![m].fetching = @ \ {selection},
                            ![m].detail = IF selection = page[m].selection
                                            THEN ReadDetail(selection, "get") ELSE @]
    /\ UNCHANGED <<tables, req, bounds>>

FailFetch(m, selection) ==
    /\ selection \in page[m].fetching
    /\ page' = [page EXCEPT ![m].fetching = @ \ {selection},
                            ![m].error = @ \/ selection = page[m].selection]
    /\ UNCHANGED <<tables, req, bounds>>

\* The buttons of ProjectDetail go by what is shown, the request by what is selected.
Offered(m, op) ==
    CASE op = "approve" -> /\ page[m].detail.status = "dormant"
                           /\ \A h \in Handlers : ~(req[h].op = "approve" /\ req[h].by = m)
      [] op = "deactivate" -> page[m].detail.status # "inactive"
      [] OTHER -> TRUE

Click(h, m) ==
    /\ Usable(m)
    /\ page[m].selection.kind = "project" /\ page[m].detail.of.kind = "project"
    /\ \E op \in ManagerOps \ {"no-index"}, pm \in Pms :
        /\ Offered(m, op)
        /\ Start(h, [NoRequest EXCEPT !.op = op, !.at = "read", !.by = m,
                                      !.project = page[m].selection.id,
                                      !.pm = IF op = "pm" THEN pm ELSE Null])

\* The route has no button yet.
StartNoIndex(h, m) ==
    \E p \in Projects, flag \in BOOLEAN :
        Start(h, [NoRequest EXCEPT !.op = "no-index", !.at = "read", !.by = m, !.project = p,
                                   !.flag = flag])

-----------------------------------------------------------------------------
(* Account managers: PATCH /projects/:id/... *)

ManagedRead(h) ==
    LET r == req[h] IN
    /\ r.op \in ManagerOps /\ r.at = "read"
    /\ projects[r.project] # NoRow
    /\ accounts[projects[r.project].account].manager = r.by
    /\ Go(h, IF r.op = "pm" THEN "find" ELSE "write")
    /\ UNCHANGED <<tables, page, bounds>>

\* listAllPms: the one picked may have been deactivated since the page listed them.
FindPm(h) ==
    /\ req[h].at = "find"
    /\ req[h].pm \in active
    /\ Go(h, "link")
    /\ UNCHANGED <<tables, page, bounds>>

\* Deviation: the candidates are taken to be linked already.
LinkPmNot(h) ==
    /\ req[h].at = "link"
    /\ Go(h, "write")
    /\ UNCHANGED <<tables, page, bounds>>

LinkPm(h) ==
    LET r == req[h] IN
    /\ r.at = "link"
    /\ links' = links \cup {<<r.pm, projects[r.project].account>>}
    /\ Go(h, "write")
    /\ UNCHANGED <<accounts, people, projects, orders, page, bounds>>

\* Deviation: approved whatever became of it since it was read.
ApprovedAny(row) == [row EXCEPT !.status = "active"]

\* WHERE status = 'dormant'; without a row the answer is 409 (FailRequest).
Approved(row) == IF row.status = "dormant" THEN [row EXCEPT !.status = "active"] ELSE NoRow

Changed(r, row) ==
    CASE r.op = "approve" -> Approved(row)
      [] r.op = "pm" -> [row EXCEPT !.pm = r.pm]
      [] r.op = "deactivate" -> [row EXCEPT !.status = "inactive"]
      [] r.op = "no-index" -> [row EXCEPT !.no_index = r.flag]

WriteProject(h) ==
    LET r == req[h]
        row == Changed(r, projects[r.project]) IN
    /\ r.op \in ManagerOps /\ r.at = "write"
    /\ row # NoRow
    /\ projects' = [projects EXCEPT ![r.project] = row]
    /\ Go(h, "answer")
    /\ UNCHANGED <<accounts, people, links, orders, page, bounds>>

\* The project is read again for the answer, which becomes the page's detail whatever
\* is selected by then.
Answer(h) ==
    LET r == req[h] IN
    /\ r.at = "answer"
    /\ page' = IF r.op = "no-index" THEN page
               ELSE [page EXCEPT ![r.by].detail =
                        ReadDetail([kind |-> "project", id |-> r.project], "patch")]
    /\ req' = [req EXCEPT ![h] = NoRequest]
    /\ UNCHANGED <<tables, bounds>>

-----------------------------------------------------------------------------

\* PATCH /users/:id by an admin.
SetActive(pm) ==
    /\ requests < MaxRequests
    /\ requests' = requests + 1
    /\ active' = IF pm \in active THEN active \ {pm} ELSE active \cup {pm}
    /\ UNCHANGED <<accounts, users, members, links, projects, orders, req, page, restarts>>

\* Requests and transactions under way are gone; ensureSchema gives the accounts nobody
\* owns to the longest known account manager, if there is one.
Restart ==
    /\ restarts < MaxRestarts
    /\ restarts' = restarts + 1
    /\ req' = [h \in Handlers |-> NoRequest]
    /\ \E m \in Managers \cup {Null} :
        accounts' = [a \in AccountIds |->
            IF accounts[a] # NoRow /\ accounts[a].manager = Null
              THEN [accounts[a] EXCEPT !.manager = m] ELSE accounts[a]]
    /\ page' = [m \in Managers |->
                  [page[m] EXCEPT !.error = @ \/ \E h \in Handlers : req[h].op = "approve" /\ req[h].by = m]]
    /\ UNCHANGED <<people, links, projects, orders, requests>>

Next ==
    \/ \E h \in Handlers :
        \/ StartOrder(h) \/ LockUser(h) \/ InsertAccount(h) \/ CommitAccount(h)
        \/ ReadProject(h) \/ CreateOrder(h)
        \/ StartProject(h) \/ CheckMembership(h) \/ CreateProject(h)
        \/ \E m \in Managers : Click(h, m) \/ StartNoIndex(h, m)
        \/ ManagedRead(h) \/ FindPm(h) \/ LinkPm(h) \/ WriteProject(h) \/ Answer(h)
        \/ FailRequest(h)
    \/ \E m \in Managers :
        \/ CreateAccount(m)
        \/ \E selection \in Selection :
            Select(m, selection) \/ FetchDetail(m, selection) \/ FailFetch(m, selection)
    \/ \E pm \in Pms : SetActive(pm)
    \/ Restart

Spec == Init /\ [][Next]_vars

-----------------------------------------------------------------------------
(* Properties *)

\* However many first orders of a customer arrive at once, and wherever a transaction
\* stops, a customer has one account of that name at most, it is the one the customer
\* is linked to, and every order placed is with it.
OneAccountEach ==
    /\ \A a \in AccountIds : accounts[a] # NoRow /\ accounts[a].name # Null
                               => users[accounts[a].name] = a
    /\ \A o \in Orders : orders[o] # NoRow => orders[o].account = users[orders[o].customer]

\* A deactivated project stays so: an approval that read it dormant does not revive it.
InactiveStays ==
    [][\A p \in Projects : projects[p] # NoRow /\ projects[p].status = "inactive"
         => projects'[p].status = "inactive"]_vars

\* The project manager responsible for a project is linked to its account, so that the
\* project is in the list of that manager, also when the request stopped half way.
ResponsibleLinked ==
    \A p \in Projects : projects[p] # NoRow /\ projects[p].pm # Null
        => <<projects[p].pm, projects[p].account>> \in links

\* What the page fetched is shown only for the selection it was fetched for, in
\* whatever order the answers arrive.
FetchedIsSelected ==
    \A m \in Managers : page[m].detail.from = "get" => page[m].detail.of \in {page[m].selection, Nothing}
=============================================================================
