------------------------------ MODULE OrderDesk ------------------------------
(***************************************************************************)
(* The desk people work at: GofeelerSplitView with its list of orders, the *)
(* detail pane TaskDetailContent and the panel of actions it offers        *)
(* (PmAssignPanel, ClaimPanel, AnalysisPanel, ReviewerPanel,               *)
(* CreateBillPanel, CustomerProgressPanel, EditOrderForm), against the     *)
(* rows of task-service.                                                   *)
(*                                                                         *)
(* The pane shows a row as some answer gave it, the order of the answers   *)
(* being anybody's guess; the table moves on meanwhile.  What is pressed   *)
(* is pressed on what is on display, and task-service checks it against    *)
(* the row as it is.  A request is one step of task-service here: the      *)
(* handlers' awaits are TaskService's subject, and each of them writes by  *)
(* one UPDATE that asks again for what was checked.  Roles do not change   *)
(* and nobody is deactivated here, as they are there.                      *)
(***************************************************************************)
EXTENDS Naturals

CONSTANTS
    Cases,          \* orders of the service
    People,         \* holders of service:gofeeler: nobody else gets to the page
    RolesOf,        \* the platform functions in the token of each
    NamedByEmail,   \* those whose Keycloak username is their e-mail
    CustomerOf,     \* tasks.customer_id of each order
    PmsOf,          \* projectManagersFor each order
    ManagerOf,      \* account_manager_id of each order's account
    Calls,          \* slots of fetch() calls not yet settled
    MaxClicks,      \* bound: orders opened and buttons pressed
    Nobody

Functions == {"customer", "project-manager", "analyst", "reviewer", "account-manager"}

Holders(role) == {p \in People : role \in RolesOf[p]}

\* An order is submitted by a customer, and a PM linked to an account is a PM.
ASSUME DeskAssumption ==
    /\ Nobody \notin People \cup Cases
    /\ RolesOf \in [People -> SUBSET Functions]
    /\ NamedByEmail \subseteq People
    /\ CustomerOf \in [Cases -> Holders("customer")]
    /\ PmsOf \in [Cases -> SUBSET Holders("project-manager")]
    /\ ManagerOf \in [Cases -> People \cup {Nobody}]
    /\ MaxClicks \in Nat

VARIABLES
    row,            \* tasks: the columns the desk acts on
    billed,         \* orders that have a bill
    pane,           \* per person: the detail pane
    call,           \* the fetch() calls under way
    clicks

deskVars == <<row, billed, pane, call, clicks>>

-----------------------------------------------------------------------------
(* Rows, panes and calls *)

Stages == {"unassigned", "analyst", "reviewer", "done", "paid", "closed"}

CaseRow == [status: Stages, assignee: People \cup {Nobody}, owner: People \cup {Nobody},
            hidden: BOOLEAN]

\* url: the order in the address bar; shown, row: the task on display; of: the
\* orders the mounted panel of actions was given so far; result: the panel has an
\* analysis; busy: the calls whose end the mounted panel, form or switch waits for.
Pane == [url: Cases \cup {Nobody}, shown: Cases \cup {Nobody}, row: CaseRow, failed: BOOLEAN,
         editing: BOOLEAN, of: SUBSET Cases, result: BOOLEAN,
         bill: {"loading", "none", "made"}, busy: SUBSET Calls]

NoRowYet == [status |-> "unassigned", assignee |-> Nobody, owner |-> Nobody, hidden |-> FALSE]

NoPane == [url |-> Nobody, shown |-> Nobody, row |-> NoRowYet, failed |-> FALSE,
           editing |-> FALSE, of |-> {}, result |-> FALSE, bill |-> "loading", busy |-> {}]

Handovers == {"assign", "claim", "review", "reassign", "approve", "reject"}
Presses == Handovers \cup {"bill", "save", "hide"}

\* seen: the row on display when the button was pressed; answer: the row returned.
\* heard: the pane that made the call is still mounted.
DeskCall == [at: {"idle", "sent", "answered", "refused", "failed"}, op: Presses \cup {"open"},
             by: People \cup {Nobody}, order: Cases \cup {Nobody}, to: People \cup {Nobody},
             seen: CaseRow, answer: CaseRow, heard: BOOLEAN]

NoCall == [at |-> "idle", op |-> "open", by |-> Nobody, order |-> Nobody, to |-> Nobody,
           seen |-> NoRowYet, answer |-> NoRowYet, heard |-> FALSE]

Free(c) == call[c].at = "idle"

DeskTypeOK ==
    /\ row \in [Cases -> CaseRow]
    /\ billed \in SUBSET Cases
    /\ pane \in [People -> Pane]
    /\ call \in [Calls -> DeskCall]
    /\ clicks \in 0..MaxClicks

\* The rows an order goes through when everybody does their part.
LegalRows(o) ==
    {r \in CaseRow :
        \/ r.status = "unassigned" /\ r.assignee = Nobody /\ r.owner = CustomerOf[o]
        \/ r.status = "analyst" /\ r.assignee \in Holders("analyst") /\ r.owner = r.assignee
        \/ r.status = "reviewer" /\ r.owner = r.assignee
              /\ r.assignee \in PmsOf[o] \cup Holders("reviewer")
        \/ r.status \in {"done", "paid", "closed"} /\ r.assignee = Nobody
              /\ r.owner \in Holders("project-manager")}

\* isCustomerOnly, and what GET /tasks/:id and GET /tasks ask of such a caller, an
\* analyst or reviewer or not.
CustomerOnly(p) == p \in Holders("customer") \ Holders("project-manager")

MayRead(p, o) == CustomerOnly(p) => CustomerOf[o] = p

\* A pane that was opened, and answered, before the behaviour starts.
Opened(o) == [NoPane EXCEPT !.url = o, !.shown = o, !.row = row[o], !.of = {o}]

DeskInit ==
    /\ row \in {t \in [Cases -> CaseRow] : \A o \in Cases : t[o] \in LegalRows(o)}
    /\ billed = {o \in Cases : row[o].status \in {"paid", "closed"}}
    /\ pane \in [People -> {NoPane} \cup {Opened(o) : o \in Cases}]
    /\ \A p \in People : pane[p] # NoPane => MayRead(p, pane[p].url)
    /\ call = [c \in Calls |-> NoCall]
    /\ clicks = 0

-----------------------------------------------------------------------------
(* Who sees what *)

\* assignee and owner are e-mails, and the page compares them with preferred_username.
Mine(p, holder) == holder = p /\ p \in NamedByEmail

\* The "My tasks / Open pool" switch is there.
IsPoolAnalyst(p) ==
    p \in Holders("analyst") \ (Holders("project-manager") \cup Holders("customer"))

\* visibleTasks
Visible(p, o, poolView) ==
    IF p \in Holders("project-manager") THEN TRUE
    ELSE IF p \in Holders("customer") THEN CustomerOf[o] = p
    ELSE IF IsPoolAnalyst(p) /\ poolView THEN row[o].status = "unassigned"
    ELSE Mine(p, row[o].assignee)

\* GET /tasks?service= serves it, and the list shows it with the switch one way or the
\* other; searching, filtering and paging only narrow what is shown.
Finds(p, o) == MayRead(p, o) /\ \E poolView \in BOOLEAN : Visible(p, o, poolView)

\* Deviation: as before reviews went to the PM: a PM gets no reviewer panel.
PanelForReviewersOnly(p, o, r) ==
    CASE p \in Holders("project-manager") /\ r.status = "unassigned" -> "assign"
      [] p \in Holders("analyst") /\ r.status = "unassigned" -> "claim"
      [] r.status = "done" /\ Mine(p, r.owner) -> "bill"
      [] r.status = "analyst" /\ Mine(p, r.assignee) -> "analysis"
      [] p \in Holders("reviewer") /\ r.status = "reviewer" /\ Mine(p, r.assignee) -> "review"
      [] OTHER -> "none"

\* Deviation: who reviews is not asked for.
PanelForAnyReviewer(p, o, r) ==
    CASE p \in Holders("project-manager") /\ r.status = "unassigned" -> "assign"
      [] p \in Holders("analyst") /\ r.status = "unassigned" -> "claim"
      [] r.status = "done" /\ Mine(p, r.owner) -> "bill"
      [] r.status = "analyst" /\ Mine(p, r.assignee) -> "analysis"
      [] p \in Holders("reviewer") \cup Holders("project-manager") /\ r.status = "reviewer" -> "review"
      [] OTHER -> "none"

\* actionPanelFor, an `if` after the other.
PanelFor(p, o, r) ==
    IF r.status = "unassigned" /\ p \in Holders("project-manager") THEN "assign"
    ELSE IF r.status = "unassigned" /\ p \in Holders("analyst") THEN "claim"
    ELSE IF r.status = "done" /\ p \in Holders("project-manager") /\ Mine(p, r.owner) THEN "bill"
    ELSE IF r.status = "analyst" /\ p \in Holders("analyst") /\ Mine(p, r.assignee) THEN "analysis"
    ELSE IF /\ r.status = "reviewer" /\ Mine(p, r.assignee)
            /\ p \in Holders("reviewer") \cup Holders("project-manager") THEN "review"
    ELSE IF /\ r.status \in {"done", "paid", "closed"}
            /\ p \in Holders("customer") /\ CustomerOf[o] = p THEN "progress"
    ELSE "none"

OwnOrder(p, o) == p \in Holders("customer") /\ CustomerOf[o] = p

CanEdit(p, o, r) == OwnOrder(p, o) /\ r.status \in {"unassigned", "analyst"}

CanHide(p, o) == p \in Holders("account-manager") \/ OwnOrder(p, o)

\* An error replaces the pane; before the first answer there is nothing to press.
OnDisplay(p) == pane[p].shown # Nobody /\ ~pane[p].failed

PanelOf(p) == IF OnDisplay(p) THEN PanelFor(p, pane[p].shown, pane[p].row) ELSE "none"

-----------------------------------------------------------------------------
(* The pane: what an answer changes of it *)

OfPanel(c) == call[c].op \in Handovers \cup {"bill"}

\* setTask: a panel of another kind is mounted afresh; one of the same kind is given
\* the other order and keeps its state, but for the bill, which it fetches again.
Displayed(p, o, r) ==
    LET same == OnDisplay(p) /\ PanelFor(p, o, r) = PanelOf(p)
        kept == same /\ o = pane[p].shown IN
    [pane[p] EXCEPT !.shown = o, !.row = r,
                    !.of = IF same THEN @ \cup {o} ELSE {o},
                    !.result = same /\ @,
                    !.bill = IF kept THEN @ ELSE "loading",
                    !.busy = IF same THEN @ ELSE {c \in @ : ~OfPanel(c)}]

\* setError: the panel and the form are gone, the switch's call goes on.
Errored(p) ==
    [pane[p] EXCEPT !.failed = TRUE, !.of = {}, !.result = FALSE, !.bill = "loading",
                    !.busy = {c \in @ : call[c].op = "hide"}]

\* The pencil, and the form's Cancel, disabled while it is saving.
Edit(p) ==
    /\ OnDisplay(p) /\ ~pane[p].editing
    /\ CanEdit(p, pane[p].shown, pane[p].row)
    /\ pane' = [pane EXCEPT ![p].editing = TRUE]
    /\ UNCHANGED <<row, billed, call, clicks>>

CancelEdit(p) ==
    /\ OnDisplay(p) /\ pane[p].editing
    /\ \A c \in pane[p].busy : call[c].op # "save"
    /\ pane' = [pane EXCEPT ![p].editing = FALSE]
    /\ UNCHANGED <<row, billed, call, clicks>>

\* GET /api/tasks/:id of the id now in the address bar; calls for the order shown so
\* far go on, and will be heard.
Open(p, o) ==
    /\ pane[p].url # o
    /\ clicks < MaxClicks
    /\ clicks' = clicks + 1
    /\ \E c \in Calls :
        /\ Free(c)
        /\ call' = [call EXCEPT ![c] = [NoCall EXCEPT !.at = "sent", !.op = "open", !.by = p,
                                                     !.order = o, !.heard = TRUE]]
    /\ pane' = [pane EXCEPT ![p] = [NoPane EXCEPT !.url = o,
                                        !.busy = {c \in pane[p].busy : call[c].op = "hide"}]]
    /\ UNCHANGED <<row, billed>>

\* Back to the list: the pane is unmounted, and nobody hears what is still to come.
BackToList(p) ==
    /\ pane[p].url # Nobody
    /\ pane' = [pane EXCEPT ![p] = NoPane]
    /\ call' = [c \in Calls |-> IF call[c].by = p THEN [call[c] EXCEPT !.heard = FALSE]
                                                 ELSE call[c]]
    /\ UNCHANGED <<row, billed, clicks>>

\* POST /api/gofeeler/analyze answers: "Move to review" is offered.
Analysed(p) ==
    /\ PanelOf(p) = "analysis"
    /\ ~pane[p].result
    /\ pane' = [pane EXCEPT ![p].result = TRUE]
    /\ UNCHANGED <<row, billed, call, clicks>>

\* GET /bills/by-task/:id answers, or fails, which reads as no bill.
BillFetched(p) ==
    /\ PanelOf(p) = "bill" /\ pane[p].bill = "loading"
    /\ \E bill \in {"none"} \cup {b \in {"made"} : pane[p].shown \in billed} :
        pane' = [pane EXCEPT ![p].bill = bill]
    /\ UNCHANGED <<row, billed, call, clicks>>

-----------------------------------------------------------------------------
(* Pressing *)

\* AnalystPicker's list, recommendAnalysts in whatever order.
Recommended == Holders("analyst")

\* GET /tasks/:id/reviewer-candidates
ReviewersFor(o) == PmsOf[o] \cup Holders("reviewer")

Waiting(p, ops) == \E c \in pane[p].busy : call[c].op \in ops

\* A request about the order and the row on display.
Press(p, op, to) ==
    /\ clicks < MaxClicks
    /\ clicks' = clicks + 1
    /\ \E c \in Calls :
        /\ Free(c)
        /\ call' = [call EXCEPT ![c] = [at |-> "sent", op |-> op, by |-> p,
                                        order |-> pane[p].shown, to |-> to,
                                        seen |-> pane[p].row, answer |-> NoRowYet,
                                        heard |-> TRUE]]
        /\ pane' = [pane EXCEPT ![p].busy = @ \cup {c}]
    /\ UNCHANGED <<row, billed>>

PressAssign(p) ==
    /\ PanelOf(p) = "assign" /\ ~Waiting(p, {"assign"})
    /\ \E to \in Recommended : Press(p, "assign", to)

PressClaim(p) ==
    /\ PanelOf(p) = "claim" /\ ~Waiting(p, {"claim"})
    /\ Press(p, "claim", Nobody)

PressMoveToReview(p) ==
    /\ PanelOf(p) = "analysis" /\ pane[p].result /\ ~Waiting(p, {"review"})
    /\ Press(p, "review", Nobody)

\* The candidates on offer may still be those of an order shown before in the panel.
PressReassign(p) ==
    /\ PanelOf(p) = "review" /\ ~Waiting(p, {"reassign"})
    /\ \E to \in UNION {ReviewersFor(o) : o \in pane[p].of} : Press(p, "reassign", to)

PressApprove(p) ==
    /\ PanelOf(p) = "review" /\ ~Waiting(p, {"reassign", "approve"})
    /\ Press(p, "approve", Nobody)

\* The picker of a reject can be closed and opened again while one is under way.
PressReject(p) ==
    /\ PanelOf(p) = "review" /\ ~Waiting(p, {"reassign", "approve"})
    /\ \E to \in Recommended : Press(p, "reject", to)

PressCreateBill(p) ==
    /\ PanelOf(p) = "bill" /\ pane[p].bill = "none" /\ ~Waiting(p, {"bill"})
    /\ Press(p, "bill", Nobody)

\* The form stays for whatever task comes to be on display.
PressSave(p) ==
    /\ OnDisplay(p) /\ pane[p].editing /\ ~Waiting(p, {"save"})
    /\ Press(p, "save", Nobody)

PressHide(p) ==
    /\ OnDisplay(p) /\ CanHide(p, pane[p].shown) /\ ~Waiting(p, {"hide"})
    /\ Press(p, "hide", Nobody)

-----------------------------------------------------------------------------
(* task-service, and rustledger for the bill *)

HeldIn(k, status) == row[k.order].status = status /\ row[k.order].assignee = k.by

\* Deviation: that the caller still holds the order is not asked.
PermittedByStatus(k) ==
    CASE k.op = "open" -> MayRead(k.by, k.order)
      [] k.op \in {"assign", "claim"} -> row[k.order].status = "unassigned"
      [] k.op = "review" -> row[k.order].status = "analyst"
      [] k.op \in {"reassign", "approve", "reject"} -> row[k.order].status = "reviewer"
      [] OTHER -> FALSE

\* The checks of the route and of its UPDATE's WHERE.
Permitted(k) ==
    CASE k.op = "open" -> MayRead(k.by, k.order)
      [] k.op = "assign" ->
            /\ k.by \in Holders("project-manager") /\ k.to \in Recommended
            /\ row[k.order].status = "unassigned"
      [] k.op = "claim" -> k.by \in Holders("analyst") /\ row[k.order].status = "unassigned"
      [] k.op = "review" -> k.by \in Holders("analyst") /\ HeldIn(k, "analyst")
      [] k.op = "reassign" -> HeldIn(k, "reviewer") /\ k.to \in ReviewersFor(k.order)
      [] k.op = "approve" -> HeldIn(k, "reviewer")
      [] k.op = "reject" -> HeldIn(k, "reviewer") /\ k.to \in Recommended
      [] k.op = "bill" ->
            /\ k.by \in Holders("project-manager") /\ k.order \notin billed
            /\ row[k.order].status = "done" /\ row[k.order].owner = k.by
      [] k.op = "save" -> CanEdit(k.by, k.order, row[k.order])
      [] k.op = "hide" ->
            IF k.by \in Holders("account-manager") THEN ManagerOf[k.order] = k.by
            ELSE OwnOrder(k.by, k.order)

HandedTo(k, status, p) == [row[k.order] EXCEPT !.status = status, !.assignee = p, !.owner = p]

\* The rows RETURNING * can give; none where no PM is there to take the order.  What
\* is excluded from the search is the opposite of what was on display.
Outcomes(k) ==
    CASE k.op \in {"assign", "reject"} -> {HandedTo(k, "analyst", k.to)}
      [] k.op = "claim" -> {HandedTo(k, "analyst", k.by)}
      [] k.op = "review" -> {HandedTo(k, "reviewer", p) : p \in PmsOf[k.order]}
      [] k.op = "reassign" -> {HandedTo(k, "reviewer", k.to)}
      [] k.op = "approve" ->
            {[row[k.order] EXCEPT !.status = "done", !.assignee = Nobody, !.owner = p] :
                p \in IF k.by \in Holders("project-manager") THEN {k.by} ELSE PmsOf[k.order]}
      [] k.op = "hide" -> {[row[k.order] EXCEPT !.hidden = ~k.seen.hidden]}
      [] OTHER -> {row[k.order]}

Serve(c) ==
    LET k == call[c] IN
    /\ k.at = "sent" /\ Permitted(k)
    /\ \E r \in Outcomes(k) :
        /\ row' = [row EXCEPT ![k.order] = r]
        /\ call' = [call EXCEPT ![c].at = "answered", ![c].answer = r]
    /\ billed' = billed \cup {o \in {k.order} : k.op = "bill"}
    /\ UNCHANGED <<pane, clicks>>

\* 400, 403 or 409.
Refuse(c) ==
    /\ call[c].at = "sent"
    /\ ~Permitted(call[c]) \/ Outcomes(call[c]) = {}
    /\ call' = [call EXCEPT ![c].at = "refused"]
    /\ UNCHANGED <<row, billed, pane, clicks>>

\* A 5xx, or an answer lost on its way.
Lose(c) ==
    /\ call[c].at \in {"sent", "answered"}
    /\ call' = [call EXCEPT ![c].at = "failed"]
    /\ UNCHANGED <<row, billed, pane, clicks>>

\* The bill.paid consumer and the auto-close sweep.
MoveOn(o) ==
    /\ \/ row[o].status = "done" /\ o \in billed
          /\ row' = [row EXCEPT ![o].status = "paid"]
       \/ row[o].status = "paid" /\ row' = [row EXCEPT ![o].status = "closed"]
    /\ UNCHANGED <<billed, pane, call, clicks>>

-----------------------------------------------------------------------------
(* Answers reach the pane, in any order *)

\* onTaskUpdated, setTask or onSaved; a new bill comes back with the task as it was, and
\* a save closes the form, opened anew meanwhile or not: nobody waits for it any more.
Accepted(c) ==
    LET k == call[c]
        p == k.by
        kept == OnDisplay(p) /\ pane[p].shown = k.order /\ c \in pane[p].busy IN
    CASE k.op = "bill" ->
            [Displayed(p, k.order, k.seen) EXCEPT !.bill = IF kept THEN "made" ELSE @]
      [] k.op = "save" -> [Displayed(p, k.order, k.answer) EXCEPT !.editing = FALSE,
                                !.busy = {d \in @ : call[d].op # "save"}]
      [] OTHER -> Displayed(p, k.order, k.answer)

\* A panel shows its own error; that of a load or of the switch takes the pane.
Rejected(c) ==
    IF call[c].op \in {"open", "hide"} THEN Errored(call[c].by) ELSE pane[call[c].by]

Settle(c) ==
    LET k == call[c] IN
    /\ k.at \in {"answered", "refused", "failed"}
    /\ call' = [call EXCEPT ![c] = NoCall]
    /\ pane' = IF ~k.heard THEN pane
               ELSE [pane EXCEPT ![k.by] =
                        [(IF k.at = "answered" THEN Accepted(c) ELSE Rejected(c))
                            EXCEPT !.busy = @ \ {c}]]
    /\ UNCHANGED <<row, billed, clicks>>

DeskNext ==
    \/ \E p \in People :
        \/ Edit(p) \/ CancelEdit(p) \/ BackToList(p) \/ Analysed(p) \/ BillFetched(p)
        \/ PressAssign(p) \/ PressClaim(p) \/ PressMoveToReview(p) \/ PressReassign(p)
        \/ PressApprove(p) \/ PressReject(p) \/ PressCreateBill(p) \/ PressSave(p)
        \/ PressHide(p)
        \/ \E o \in Cases : Open(p, o)
    \/ \E c \in Calls : Serve(c) \/ Refuse(c) \/ Lose(c) \/ Settle(c)
    \/ \E o \in Cases : MoveOn(o)

DeskSpec == DeskInit /\ [][DeskNext]_deskVars

-----------------------------------------------------------------------------
(* What is promised *)

\* Whoever an order waits for finds it in the list, and is offered there what moves it
\* on, just in case the route lets them open it, and provided their username is their
\* e-mail where the order is theirs by name.  A customer finds every own order, and its
\* progress in the end.  Who is a customer and no PM finds no other: not even one that
\* was assigned to them as an analyst or reviewer.
HolderFindsWork ==
    \A o \in Cases :
        LET r == row[o]
            Offered(p, kind) == MayRead(p, o) => Finds(p, o) /\ PanelFor(p, o, r) = kind IN
        /\ r.status = "unassigned" =>
            /\ \A p \in Holders("project-manager") : Finds(p, o) /\ PanelFor(p, o, r) = "assign"
            /\ \A p \in People : IsPoolAnalyst(p) => Finds(p, o) /\ PanelFor(p, o, r) = "claim"
        /\ r.status = "analyst" /\ r.assignee \in NamedByEmail => Offered(r.assignee, "analysis")
        /\ r.status = "reviewer" /\ r.assignee \in NamedByEmail => Offered(r.assignee, "review")
        /\ r.status = "done" /\ r.owner \in NamedByEmail =>
            Finds(r.owner, o) /\ PanelFor(r.owner, o, r) = "bill"
        /\ r.status \in {"paid", "closed"} => PanelFor(CustomerOf[o], o, r) = "progress"
        /\ \A p \in People : CustomerOnly(p) => (Finds(p, o) <=> CustomerOf[o] = p)
        /\ Finds(CustomerOf[o], o)

SameHolder(r, s) == r.status = s.status /\ r.assignee = s.assignee /\ r.owner = s.owner

\* An order changes hands, or gets its bill, only by somebody who pressed a button with
\* that very stage and those very holders of that order on display, however late the
\* answers on the pane and the request itself were; money and time do the rest.
DecidedAsShown ==
    [][\A o \in Cases :
        ~SameHolder(row[o], row'[o]) \/ (o \in billed' \ billed) =>
            \/ row[o].status \in {"done", "paid"} /\ row'[o] # row[o]
                  /\ row'[o] = [row[o] EXCEPT !.status = row'[o].status]
            \/ \E c \in Calls : /\ call[c].at = "sent" /\ call'[c].at = "answered"
                                 /\ call[c].op \in Handovers \cup {"bill"}
                                 /\ call[c].order = o /\ SameHolder(call[c].seen, row[o])]_deskVars

\* A handover is refused only to somebody whose pane was out of date, or for want of a
\* PM to take the order, or when the receiver was picked from another order's list:
\* what actionPanelFor offers is what the routes allow.
RefusedOnlyIfOutdated ==
    [][\A c \in Calls :
        call[c].at = "sent" /\ call'[c].at = "refused" /\ call[c].op \in Handovers =>
            \/ ~SameHolder(call[c].seen, row[call[c].order])
            \/ call[c].op \in {"review", "approve"} /\ PmsOf[call[c].order] = {}
            \/ call[c].op = "reassign" /\ call[c].to \notin ReviewersFor(call[c].order)]_deskVars

\* Who is a customer and no PM has no order of another customer on display.
OnlyOwnShown ==
    \A p \in People : CustomerOnly(p) /\ pane[p].shown # Nobody => CustomerOf[pane[p].shown] = p
=============================================================================
