-------------------------- MODULE OrderDesk_proofs --------------------------
(***************************************************************************)
(* What OrderDesk.tla keeps, for any number of people, orders and calls    *)
(* under way, whatever their roles.                                        *)
(***************************************************************************)
EXTENDS OrderDesk, TLAPS

-----------------------------------------------------------------------------
(* What a pane shows and what a call carries was once a row of its order,  *)
(* and stays a row such an order may have.                                 *)

RowsLegal == \A o \in Cases : row[o] \in LegalRows(o)

\* A pane of p has a row of the order it shows, which p may read.
PaneKnown(p, q) ==
    q.shown # Nobody => q.row \in LegalRows(q.shown) /\ MayRead(p, q.shown)

\* The panel that makes each of the requests.
PressedOn(op, panel) ==
    CASE op = "assign" -> panel = "assign"
      [] op = "claim" -> panel = "claim"
      [] op = "review" -> panel = "analysis"
      [] op \in {"reassign", "approve", "reject"} -> panel = "review"
      [] op = "bill" -> panel = "bill"
      [] OTHER -> TRUE

\* A button's request carries the row that was on display with the button.
Pressed(k) ==
    /\ k.seen \in LegalRows(k.order)
    /\ MayRead(k.by, k.order)
    /\ PressedOn(k.op, PanelFor(k.by, k.order, k.seen))
    /\ k.op \in {"assign", "reject"} => k.to \in Recommended

\* An answer carries a row of its order.
Answered(k) == k.answer \in LegalRows(k.order) /\ MayRead(k.by, k.order)

CallKnown(k) ==
    k.at # "idle" =>
        /\ k.by \in People /\ k.order \in Cases
        /\ k.op # "open" => Pressed(k)
        /\ k.at = "answered" => Answered(k)

DeskInv ==
    /\ DeskTypeOK
    /\ RowsLegal
    /\ \A p \in People : PaneKnown(p, pane[p])
    /\ \A c \in Calls : CallKnown(call[c])

-----------------------------------------------------------------------------
(* Values *)

LEMMA NothingYet ==
    /\ NoRowYet \in CaseRow
    /\ NoPane \in Pane /\ NoPane.shown = Nobody
    /\ NoCall \in DeskCall
BY DEF NoRowYet, CaseRow, Stages, NoPane, Pane, NoCall, DeskCall, Presses, Handovers

LEMMA LegalIsRow == ASSUME NEW o PROVE LegalRows(o) \subseteq CaseRow
BY DEF LegalRows

\* The row and the holder a stage belongs to.
LEMMA LegalRow ==
    ASSUME NEW o \in Cases, NEW r \in LegalRows(o)
    PROVE  /\ r.status \in Stages
           /\ r.status = "unassigned" => r.assignee = Nobody /\ r.owner = CustomerOf[o]
           /\ r.status = "analyst" => r.assignee \in Holders("analyst") /\ r.owner = r.assignee
           /\ r.status = "reviewer" =>
                r.owner = r.assignee /\ r.assignee \in PmsOf[o] \cup Holders("reviewer")
           /\ r.status \in {"done", "paid", "closed"} =>
                r.assignee = Nobody /\ r.owner \in Holders("project-manager")
BY DEF LegalRows, CaseRow, Stages

\* Everybody named by a role is one of the people.
LEMMA WhoIsWho ==
    /\ \A role : Holders(role) \subseteq People
    /\ \A o \in Cases : PmsOf[o] \subseteq Holders("project-manager")
    /\ \A o \in Cases : CustomerOf[o] \in Holders("customer")
BY DeskAssumption DEF Holders

\* Nobody but a customer is ever kept from an order.
LEMMA WorkersMayRead ==
    ASSUME NEW o \in Cases, NEW p \in People, ~CustomerOnly(p)
    PROVE  MayRead(p, o)
BY DEF MayRead

-----------------------------------------------------------------------------
(* HolderFindsWork, of any legal row *)

LEMMA LegalRowsFound ==
    ASSUME DeskTypeOK, RowsLegal
    PROVE  HolderFindsWork
<1> SUFFICES ASSUME NEW o \in Cases
             PROVE  LET r == row[o]
                        Offered(p, kind) == MayRead(p, o) => Finds(p, o) /\ PanelFor(p, o, r) = kind IN
                 /\ r.status = "unassigned" =>
                     /\ \A p \in Holders("project-manager") :
                            Finds(p, o) /\ PanelFor(p, o, r) = "assign"
                     /\ \A p \in People : IsPoolAnalyst(p) => Finds(p, o) /\ PanelFor(p, o, r) = "claim"
                 /\ r.status = "analyst" /\ r.assignee \in NamedByEmail =>
                     Offered(r.assignee, "analysis")
                 /\ r.status = "reviewer" /\ r.assignee \in NamedByEmail =>
                     Offered(r.assignee, "review")
                 /\ r.status = "done" /\ r.owner \in NamedByEmail =>
                     Finds(r.owner, o) /\ PanelFor(r.owner, o, r) = "bill"
                 /\ r.status \in {"paid", "closed"} => PanelFor(CustomerOf[o], o, r) = "progress"
                 /\ \A p \in People : CustomerOnly(p) => (Finds(p, o) <=> CustomerOf[o] = p)
                 /\ Finds(CustomerOf[o], o)
    BY DEF HolderFindsWork
<1> DEFINE r == row[o]
<1>1. r \in LegalRows(o)
    BY DEF RowsLegal
<1>2. \A p \in Holders("project-manager") : Finds(p, o)
    BY WhoIsWho, WorkersMayRead DEF Finds, Visible, CustomerOnly
<1>11. ASSUME NEW p \in People, CustomerOnly(p)
       PROVE  Finds(p, o) <=> CustomerOf[o] = p
    <2>1. p \in Holders("customer") /\ p \notin Holders("project-manager")
        BY <1>11 DEF CustomerOnly
    <2>2. MayRead(p, o) <=> CustomerOf[o] = p
        BY <1>11 DEF MayRead
    <2>3. \A poolView \in BOOLEAN : Visible(p, o, poolView) <=> CustomerOf[o] = p
        BY <2>1 DEF Visible
    <2> QED
        BY <2>2, <2>3 DEF Finds
<1>3. ASSUME NEW p \in Holders("analyst") \cup Holders("reviewer") \cup Holders("project-manager"),
             Mine(p, r.assignee), MayRead(p, o)
      PROVE  Finds(p, o)
    <2>1. CASE CustomerOnly(p)
        BY <1>3, <1>11, <2>1, WhoIsWho DEF MayRead
    <2>2. CASE ~CustomerOnly(p)
        <3>1. Visible(p, o, FALSE)
            BY <1>3, <2>2 DEF Visible, CustomerOnly
        <3> QED
            BY <1>3, <3>1 DEF Finds
    <2> QED
        BY <2>1, <2>2
<1>4. ASSUME r.status = "unassigned", NEW p \in Holders("project-manager")
      PROVE  PanelFor(p, o, r) = "assign"
    BY <1>4 DEF PanelFor
<1>5. ASSUME r.status = "unassigned", NEW p \in People, IsPoolAnalyst(p)
      PROVE  Finds(p, o) /\ PanelFor(p, o, r) = "claim"
    <2>1. p \in Holders("analyst") /\ p \notin Holders("project-manager") \cup Holders("customer")
        BY <1>5 DEF IsPoolAnalyst
    <2>2. Visible(p, o, TRUE)
        BY <1>5, <2>1 DEF Visible
    <2>3. Finds(p, o)
        BY <2>1, <2>2, WorkersMayRead DEF Finds, CustomerOnly
    <2>4. PanelFor(p, o, r) = "claim"
        BY <1>5, <2>1 DEF PanelFor
    <2> QED
        BY <2>3, <2>4
<1>6. ASSUME r.status = "analyst", r.assignee \in NamedByEmail, MayRead(r.assignee, o)
      PROVE  Finds(r.assignee, o) /\ PanelFor(r.assignee, o, r) = "analysis"
    <2>1. r.assignee \in Holders("analyst")
        BY <1>1, <1>6, LegalRow
    <2>2. PanelFor(r.assignee, o, r) = "analysis"
        BY <1>6, <2>1 DEF PanelFor, Mine
    <2> QED
        BY <1>3, <1>6, <2>1, <2>2 DEF Mine
<1>7. ASSUME r.status = "reviewer", r.assignee \in NamedByEmail, MayRead(r.assignee, o)
      PROVE  Finds(r.assignee, o) /\ PanelFor(r.assignee, o, r) = "review"
    <2>1. r.assignee \in Holders("project-manager") \cup Holders("reviewer")
        BY <1>1, <1>7, LegalRow, WhoIsWho
    <2>2. PanelFor(r.assignee, o, r) = "review"
        BY <1>7, <2>1 DEF PanelFor, Mine
    <2> QED
        BY <1>3, <1>7, <2>1, <2>2 DEF Mine
<1>8. ASSUME r.status = "done", r.owner \in NamedByEmail
      PROVE  Finds(r.owner, o) /\ PanelFor(r.owner, o, r) = "bill"
    <2>1. r.owner \in Holders("project-manager")
        BY <1>1, <1>8, LegalRow
    <2>2. PanelFor(r.owner, o, r) = "bill"
        BY <1>8, <2>1 DEF PanelFor, Mine
    <2> QED
        BY <1>2, <2>1, <2>2
<1>9. Finds(CustomerOf[o], o)
    <2>1. MayRead(CustomerOf[o], o)
        BY DEF MayRead
    <2>2. Visible(CustomerOf[o], o, FALSE)
        BY WhoIsWho DEF Visible
    <2> QED
        BY <2>1, <2>2 DEF Finds
<1>10. ASSUME r.status \in {"paid", "closed"}
       PROVE  PanelFor(CustomerOf[o], o, r) = "progress"
    BY <1>10, WhoIsWho DEF PanelFor
<1> HIDE DEF r
<1> QED
    BY <1>2, <1>4, <1>5, <1>6, <1>7, <1>8, <1>9, <1>10, <1>11 DEF r

-----------------------------------------------------------------------------
(* Panes *)

\* A pane that is given a row shows that order with that row.
LEMMA DisplayedPane ==
    ASSUME DeskTypeOK, NEW p \in People, NEW o \in Cases, NEW r \in CaseRow
    PROVE  /\ Displayed(p, o, r) \in Pane
           /\ Displayed(p, o, r).shown = o
           /\ Displayed(p, o, r).row = r
<1>1. pane[p] \in Pane
    BY DEF DeskTypeOK
<1>2. /\ pane[p].url \in Cases \cup {Nobody}
      /\ pane[p].failed \in BOOLEAN
      /\ pane[p].editing \in BOOLEAN
      /\ pane[p].of \in SUBSET Cases
      /\ pane[p].result \in BOOLEAN
      /\ pane[p].bill \in {"loading", "none", "made"}
      /\ pane[p].busy \in SUBSET Calls
    BY <1>1 DEF Pane
<1> DEFINE same == OnDisplay(p) /\ PanelFor(p, o, r) = PanelOf(p)
           kept == same /\ o = pane[p].shown
<1> HIDE DEF same, kept
<1> DEFINE q == [pane[p] EXCEPT !.shown = o, !.row = r,
                    !.of = IF same THEN @ \cup {o} ELSE {o},
                    !.result = same /\ @,
                    !.bill = IF kept THEN @ ELSE "loading",
                    !.busy = IF same THEN @ ELSE {c \in @ : ~OfPanel(c)}]
<1>3. q \in Pane /\ q.shown = o /\ q.row = r
    <2>1. PICK of \in SUBSET Cases : of = IF same THEN pane[p].of \cup {o} ELSE {o}
        BY <1>2
    <2>2. PICK bill \in {"loading", "none", "made"} : bill = IF kept THEN pane[p].bill ELSE "loading"
        BY <1>2
    <2>3. PICK busy \in SUBSET Calls :
            busy = IF same THEN pane[p].busy ELSE {c \in pane[p].busy : ~OfPanel(c)}
        BY <1>2
    <2>4. (same /\ pane[p].result) \in BOOLEAN
        OBVIOUS
    <2>5. q = [pane[p] EXCEPT !.shown = o, !.row = r, !.of = of, !.result = same /\ @,
                              !.bill = bill, !.busy = busy]
        BY <2>1, <2>2, <2>3
    <2> HIDE DEF q
    <2> QED
        BY <1>1, <2>4, <2>5 DEF Pane
<1>4. Displayed(p, o, r) = q
    BY DEF Displayed, same, kept
<1> HIDE DEF q
<1> QED
    BY <1>3, <1>4

\* An error leaves the row where it was.
LEMMA ErroredPane ==
    ASSUME DeskTypeOK, NEW p \in People
    PROVE  /\ Errored(p) \in Pane
           /\ Errored(p).shown = pane[p].shown
           /\ Errored(p).row = pane[p].row
<1>1. pane[p] \in Pane
    BY DEF DeskTypeOK
<1> QED
    BY <1>1 DEF Errored, Pane

\* An answer leaves the pane with the row it brought.
LEMMA AcceptedPane ==
    ASSUME DeskInv, NEW c \in Calls, call[c].at = "answered"
    PROVE  Accepted(c) \in Pane /\ PaneKnown(call[c].by, Accepted(c))
<1> DEFINE k == call[c]
<1>1. k \in DeskCall /\ k.by \in People /\ k.order \in Cases /\ Answered(k)
    BY DEF DeskInv, DeskTypeOK, CallKnown
<1>2. k.seen \in CaseRow /\ k.answer \in CaseRow
    BY <1>1 DEF DeskCall
<1>3. Displayed(k.by, k.order, k.answer) \in Pane
      /\ PaneKnown(k.by, Displayed(k.by, k.order, k.answer))
    BY <1>1, <1>2, DisplayedPane DEF PaneKnown, Answered, DeskInv
<1>4. ASSUME k.op = "bill"
      PROVE  Accepted(c) \in Pane /\ PaneKnown(k.by, Accepted(c))
    <2> DEFINE d == Displayed(k.by, k.order, k.seen)
               kept == OnDisplay(k.by) /\ pane[k.by].shown = k.order /\ c \in pane[k.by].busy
    <2>1. Pressed(k)
        BY <1>4 DEF DeskInv, CallKnown
    <2>2. d \in Pane /\ d.shown = k.order /\ d.row = k.seen
        BY <1>1, <1>2, DisplayedPane DEF DeskInv
    <2>3. Accepted(c) = [d EXCEPT !.bill = IF kept THEN "made" ELSE @]
        BY <1>4 DEF Accepted
    <2> HIDE DEF d, kept
    <2>4. Accepted(c) \in Pane /\ Accepted(c).shown = k.order /\ Accepted(c).row = k.seen
        BY <2>2, <2>3 DEF Pane
    <2> QED
        BY <2>1, <2>4 DEF PaneKnown, Pressed
<1>5. ASSUME k.op = "save"
      PROVE  Accepted(c) \in Pane /\ PaneKnown(k.by, Accepted(c))
    <2> DEFINE d == Displayed(k.by, k.order, k.answer)
    <2>1. Accepted(c) = [d EXCEPT !.editing = FALSE, !.busy = {b \in @ : call[b].op # "save"}]
        BY <1>5 DEF Accepted
    <2>2. d \in Pane /\ PaneKnown(k.by, d)
        BY <1>3
    <2> HIDE DEF d
    <2>3. Accepted(c) \in Pane /\ Accepted(c).shown = d.shown /\ Accepted(c).row = d.row
        BY <2>1, <2>2 DEF Pane
    <2> QED
        BY <2>2, <2>3 DEF PaneKnown
<1>6. ASSUME k.op # "bill", k.op # "save"
      PROVE  Accepted(c) = Displayed(k.by, k.order, k.answer)
    BY <1>6 DEF Accepted
<1> HIDE DEF k
<1>7. Accepted(c) \in Pane /\ PaneKnown(k.by, Accepted(c))
    BY <1>3, <1>4, <1>5, <1>6
<1> QED
    BY <1>7 DEF k

\* A refusal or a failure shows nothing new.
LEMMA RejectedPane ==
    ASSUME DeskInv, NEW c \in Calls, call[c].at # "idle"
    PROVE  Rejected(c) \in Pane /\ PaneKnown(call[c].by, Rejected(c))
<1>1. call[c].by \in People
    BY DEF DeskInv, CallKnown
<1>2. pane[call[c].by] \in Pane /\ PaneKnown(call[c].by, pane[call[c].by])
    BY <1>1 DEF DeskInv, DeskTypeOK
<1>3. Errored(call[c].by) \in Pane /\ PaneKnown(call[c].by, Errored(call[c].by))
    BY <1>1, <1>2, ErroredPane DEF PaneKnown, DeskInv
<1> QED
    BY <1>2, <1>3 DEF Rejected

-----------------------------------------------------------------------------
(* The steps *)

\* Panes that were opened and answered before; nothing asked yet.
LEMMA DeskInitInv == DeskInit => DeskInv
<1> SUFFICES ASSUME DeskInit PROVE DeskInv
    OBVIOUS
<1>1. row \in [Cases -> CaseRow] /\ RowsLegal
    BY DEF DeskInit, RowsLegal
<1>2. ASSUME NEW p \in People
      PROVE  pane[p] \in Pane /\ PaneKnown(p, pane[p])
    <2>1. CASE pane[p] = NoPane
        BY <2>1, NothingYet DEF PaneKnown
    <2>2. CASE pane[p] # NoPane
        <3>1. PICK o \in Cases : pane[p] = Opened(o)
            BY <2>2 DEF DeskInit
        <3>2. Opened(o) \in Pane /\ Opened(o).url = o /\ Opened(o).shown = o /\ Opened(o).row = row[o]
            BY <1>1 DEF Opened, NoPane, Pane
        <3>3. MayRead(p, o)
            BY <2>2, <3>1, <3>2 DEF DeskInit
        <3> QED
            BY <1>1, <3>1, <3>2, <3>3 DEF PaneKnown, RowsLegal
    <2> QED
        BY <2>1, <2>2
<1>3. pane \in [People -> Pane]
    BY <1>2 DEF DeskInit
<1>4. call = [c \in Calls |-> NoCall] /\ NoCall.at = "idle"
    BY DEF DeskInit, NoCall
<1>5. call \in [Calls -> DeskCall] /\ \A c \in Calls : CallKnown(call[c])
    BY <1>4, NothingYet DEF CallKnown
<1>6. billed \in SUBSET Cases /\ clicks \in 0..MaxClicks
    BY DeskAssumption DEF DeskInit
<1> QED
    BY <1>1, <1>2, <1>3, <1>5, <1>6 DEF DeskInv, DeskTypeOK

\* A step of a pane that leaves the row on display.
LEMMA PaneKeepsInv ==
    ASSUME DeskInv, NEW p \in People, NEW q \in Pane,
           q.shown = pane[p].shown, q.row = pane[p].row,
           pane' = [pane EXCEPT ![p] = q],
           UNCHANGED <<row, billed, call, clicks>>
    PROVE  DeskInv'
<1>1. DeskTypeOK'
    BY DEF DeskInv, DeskTypeOK
<1>2. \A r \in People : PaneKnown(r, pane'[r])
    BY DEF DeskInv, DeskTypeOK, PaneKnown
<1>3. RowsLegal' /\ \A c \in Calls : CallKnown(call'[c])
    BY DEF DeskInv, RowsLegal
<1> QED
    BY <1>1, <1>2, <1>3 DEF DeskInv

LEMMA EditKeepsInv ==
    ASSUME DeskInv, NEW p \in People, Edit(p) \/ CancelEdit(p) \/ Analysed(p) \/ BillFetched(p)
    PROVE  DeskInv'
<1>1. pane[p] \in Pane
    BY DEF DeskInv, DeskTypeOK
<1>2. ASSUME NEW e \in BOOLEAN
      PROVE  [pane[p] EXCEPT !.editing = e] \in Pane
             /\ [pane[p] EXCEPT !.editing = e].shown = pane[p].shown
             /\ [pane[p] EXCEPT !.editing = e].row = pane[p].row
    BY <1>1 DEF Pane
<1>3. CASE Edit(p)
    <2>1. pane' = [pane EXCEPT ![p] = [pane[p] EXCEPT !.editing = TRUE]]
        BY <1>3 DEF Edit, DeskInv, DeskTypeOK
    <2> QED
        BY <1>2, <1>3, <2>1, PaneKeepsInv DEF Edit
<1>4. CASE CancelEdit(p)
    <2>1. pane' = [pane EXCEPT ![p] = [pane[p] EXCEPT !.editing = FALSE]]
        BY <1>4 DEF CancelEdit, DeskInv, DeskTypeOK
    <2> QED
        BY <1>2, <1>4, <2>1, PaneKeepsInv DEF CancelEdit
<1>5. CASE Analysed(p)
    <2> DEFINE q == [pane[p] EXCEPT !.result = TRUE]
    <2>1. pane' = [pane EXCEPT ![p] = q]
        BY <1>5 DEF Analysed, DeskInv, DeskTypeOK
    <2>2. q \in Pane /\ q.shown = pane[p].shown /\ q.row = pane[p].row
        BY <1>1 DEF Pane
    <2> HIDE DEF q
    <2> QED
        BY <1>5, <2>1, <2>2, PaneKeepsInv DEF Analysed
<1>6. CASE BillFetched(p)
    <2>1. PICK bill \in {"none", "made"} : pane' = [pane EXCEPT ![p].bill = bill]
        BY <1>6 DEF BillFetched
    <2> DEFINE q == [pane[p] EXCEPT !.bill = bill]
    <2>2. pane' = [pane EXCEPT ![p] = q]
        BY <2>1 DEF DeskInv, DeskTypeOK
    <2>3. q \in Pane /\ q.shown = pane[p].shown /\ q.row = pane[p].row
        BY <1>1 DEF Pane
    <2> HIDE DEF q
    <2> QED
        BY <1>6, <2>2, <2>3, PaneKeepsInv DEF BillFetched
<1> QED
    BY <1>3, <1>4, <1>5, <1>6

\* A pane is emptied: it shows no order.
LEMMA LeaveKeepsInv ==
    ASSUME DeskInv, NEW p \in People, BackToList(p)
    PROVE  DeskInv'
<1>1. DeskTypeOK
    BY DEF DeskInv
<1>2. ASSUME NEW c \in Calls
      PROVE  call'[c] \in DeskCall /\ CallKnown(call'[c])
    <2>1. call[c] \in DeskCall /\ CallKnown(call[c])
        BY DEF DeskInv, DeskTypeOK
    <2>2. CASE call'[c] = call[c]
        BY <2>1, <2>2
    <2>3. CASE call'[c] = [call[c] EXCEPT !.heard = FALSE]
        <3> DEFINE k == [call[c] EXCEPT !.heard = FALSE]
        <3>1. k \in DeskCall
            BY <2>1 DEF DeskCall
        <3>2. /\ k.at = call[c].at /\ k.by = call[c].by /\ k.order = call[c].order
              /\ k.op = call[c].op /\ k.to = call[c].to /\ k.seen = call[c].seen
              /\ k.answer = call[c].answer
            BY <2>1 DEF DeskCall
        <3> HIDE DEF k
        <3>3. CallKnown(k)
            BY <2>1, <3>2 DEF CallKnown, Pressed, Answered
        <3> QED
            BY <2>3, <3>1, <3>3 DEF k
    <2> QED
        BY <2>2, <2>3 DEF BackToList
<1>3. call' \in [Calls -> DeskCall]
    BY <1>2 DEF BackToList
<1>4. pane' = [pane EXCEPT ![p] = NoPane]
    BY DEF BackToList
<1>5. pane' \in [People -> Pane] /\ \A r \in People : PaneKnown(r, pane'[r])
    BY <1>1, <1>4, NothingYet DEF DeskInv, DeskTypeOK, PaneKnown
<1>6. UNCHANGED <<row, billed, clicks>>
    BY DEF BackToList
<1>7. DeskTypeOK' /\ RowsLegal'
    BY <1>1, <1>3, <1>5, <1>6 DEF DeskInv, DeskTypeOK, RowsLegal
<1> QED
    BY <1>2, <1>5, <1>7 DEF DeskInv

\* A request of somebody: the pane keeps its row or is emptied.
LEMMA RequestKeepsInv ==
    ASSUME DeskInv, NEW p \in People, NEW c \in Calls, NEW k \in DeskCall, CallKnown(k),
           NEW q \in Pane, PaneKnown(p, q),
           call' = [call EXCEPT ![c] = k], pane' = [pane EXCEPT ![p] = q],
           clicks' \in 0..MaxClicks, UNCHANGED <<row, billed>>
    PROVE  DeskInv'
<1>1. DeskTypeOK'
    BY DEF DeskInv, DeskTypeOK
<1>2. \A r \in People : PaneKnown(r, pane'[r])
    BY DEF DeskInv, DeskTypeOK
<1>3. \A d \in Calls : CallKnown(call'[d])
    BY DEF DeskInv, DeskTypeOK
<1>4. RowsLegal'
    BY DEF DeskInv, RowsLegal
<1> QED
    BY <1>1, <1>2, <1>3, <1>4 DEF DeskInv

LEMMA CountedClick ==
    ASSUME DeskTypeOK, clicks < MaxClicks, clicks' = clicks + 1
    PROVE  clicks' \in 0..MaxClicks
BY DeskAssumption DEF DeskTypeOK

LEMMA OpenKeepsInv ==
    ASSUME DeskInv, NEW p \in People, NEW o \in Cases, Open(p, o)
    PROVE  DeskInv'
<1> DEFINE k == [NoCall EXCEPT !.at = "sent", !.op = "open", !.by = p, !.order = o, !.heard = TRUE]
           q == [NoPane EXCEPT !.url = o, !.busy = {c \in pane[p].busy : call[c].op = "hide"}]
<1>1. PICK c \in Calls : call' = [call EXCEPT ![c] = k]
    BY DEF Open
<1>2. pane' = [pane EXCEPT ![p] = q]
    BY DEF Open
<1>3. k \in DeskCall /\ k.at = "sent" /\ k.op = "open" /\ k.by = p /\ k.order = o
    BY NothingYet DEF NoCall, DeskCall, Presses
<1>4. pane[p].busy \in SUBSET Calls
    BY DEF DeskInv, DeskTypeOK, Pane
<1>5. q \in Pane /\ q.shown = Nobody
    BY <1>4, NothingYet DEF NoPane, Pane
<1>6. clicks' \in 0..MaxClicks
    BY CountedClick DEF Open, DeskInv
<1>7. UNCHANGED <<row, billed>>
    BY DEF Open
<1> HIDE DEF k, q
<1>8. CallKnown(k) /\ PaneKnown(p, q)
    BY <1>3, <1>5 DEF CallKnown, PaneKnown
<1> QED
    BY <1>1, <1>2, <1>3, <1>5, <1>6, <1>7, <1>8, RequestKeepsInv

\* A button: the request carries what is on display.
LEMMA PressKeepsInv ==
    ASSUME DeskInv, NEW p \in People, OnDisplay(p),
           NEW op \in Presses, NEW to \in People \cup {Nobody},
           PressedOn(op, PanelFor(p, pane[p].shown, pane[p].row)),
           op \in {"assign", "reject"} => to \in Recommended,
           Press(p, op, to)
    PROVE  DeskInv'
<1>1. /\ pane[p] \in Pane
      /\ pane[p].shown \in Cases /\ pane[p].row \in CaseRow /\ pane[p].busy \in SUBSET Calls
    BY DEF DeskInv, DeskTypeOK, Pane, OnDisplay
<1>2. pane[p].row \in LegalRows(pane[p].shown) /\ MayRead(p, pane[p].shown)
    BY DEF DeskInv, PaneKnown, OnDisplay
<1> DEFINE k == [at |-> "sent", op |-> op, by |-> p, order |-> pane[p].shown, to |-> to,
                 seen |-> pane[p].row, answer |-> NoRowYet, heard |-> TRUE]
<1>3. PICK c \in Calls : /\ call' = [call EXCEPT ![c] = k]
                         /\ pane' = [pane EXCEPT ![p].busy = @ \cup {c}]
    BY DEF Press
<1> DEFINE q == [pane[p] EXCEPT !.busy = @ \cup {c}]
<1>4. pane' = [pane EXCEPT ![p] = q]
    BY <1>3 DEF DeskInv, DeskTypeOK
<1>5. k \in DeskCall
    BY <1>1, NothingYet DEF DeskCall
<1>6. CallKnown(k)
    BY <1>1, <1>2 DEF CallKnown, Pressed
<1>7. q \in Pane /\ q.shown = pane[p].shown /\ q.row = pane[p].row
    BY <1>1 DEF Pane
<1>8. clicks' \in 0..MaxClicks
    BY CountedClick DEF Press, DeskInv
<1>9. UNCHANGED <<row, billed>>
    BY DEF Press
<1> HIDE DEF k, q
<1>10. PaneKnown(p, q)
    BY <1>2, <1>7 DEF PaneKnown
<1> QED
    BY <1>3, <1>4, <1>5, <1>6, <1>7, <1>8, <1>9, <1>10, RequestKeepsInv

\* Each button is on the panel PressedOn names.
LEMMA ButtonsKeepInv ==
    ASSUME DeskInv, NEW p \in People,
           \/ PressAssign(p) \/ PressClaim(p) \/ PressMoveToReview(p) \/ PressReassign(p)
           \/ PressApprove(p) \/ PressReject(p) \/ PressCreateBill(p) \/ PressSave(p)
           \/ PressHide(p)
    PROVE  DeskInv'
<1> USE DEF PressedOn, Presses, Handovers
<1>1. ASSUME PanelOf(p) # "none"
      PROVE  OnDisplay(p) /\ PanelOf(p) = PanelFor(p, pane[p].shown, pane[p].row)
    BY <1>1 DEF PanelOf
<1>2. Recommended \subseteq People
    BY WhoIsWho DEF Recommended
<1>3. CASE PressAssign(p)
    <2>1. PICK to \in Recommended : Press(p, "assign", to)
        BY <1>3 DEF PressAssign
    <2>2. PanelOf(p) = "assign"
        BY <1>3 DEF PressAssign
    <2> QED
        BY <1>1, <1>2, <2>1, <2>2, PressKeepsInv
<1>4. CASE PressClaim(p)
    BY <1>1, <1>4, PressKeepsInv DEF PressClaim
<1>5. CASE PressMoveToReview(p)
    BY <1>1, <1>5, PressKeepsInv DEF PressMoveToReview
<1>6. CASE PressReassign(p)
    <2>1. PICK to \in UNION {ReviewersFor(o) : o \in pane[p].of} : Press(p, "reassign", to)
        BY <1>6 DEF PressReassign
    <2>2. pane[p].of \in SUBSET Cases
        BY DEF DeskInv, DeskTypeOK, Pane
    <2>3. to \in People
        BY <2>1, <2>2, WhoIsWho DEF ReviewersFor
    <2>4. PanelOf(p) = "review"
        BY <1>6 DEF PressReassign
    <2> QED
        BY <1>1, <2>1, <2>3, <2>4, PressKeepsInv
<1>7. CASE PressApprove(p)
    BY <1>1, <1>7, PressKeepsInv DEF PressApprove
<1>8. CASE PressReject(p)
    <2>1. PICK to \in Recommended : Press(p, "reject", to)
        BY <1>8 DEF PressReject
    <2>2. PanelOf(p) = "review"
        BY <1>8 DEF PressReject
    <2> QED
        BY <1>1, <1>2, <2>1, <2>2, PressKeepsInv
<1>9. CASE PressCreateBill(p)
    BY <1>1, <1>9, PressKeepsInv DEF PressCreateBill
<1>10. CASE PressSave(p)
    BY <1>10, PressKeepsInv DEF PressSave
<1>11. CASE PressHide(p)
    BY <1>11, PressKeepsInv DEF PressHide
<1> QED
    BY <1>3, <1>4, <1>5, <1>6, <1>7, <1>8, <1>9, <1>10, <1>11

-----------------------------------------------------------------------------
(* task-service: an order goes from one legal row to another               *)

LEMMA HandedToLegal ==
    ASSUME DeskInv, NEW k \in DeskCall, k.order \in Cases,
           NEW status \in {"analyst", "reviewer"}, NEW p \in People,
           status = "analyst" => p \in Holders("analyst"),
           status = "reviewer" => p \in PmsOf[k.order] \cup Holders("reviewer")
    PROVE  HandedTo(k, status, p) \in LegalRows(k.order)
<1>1. row[k.order] \in CaseRow
    BY DEF DeskInv, DeskTypeOK
<1> DEFINE r == HandedTo(k, status, p)
<1>2. r \in CaseRow /\ r.status = status /\ r.assignee = p /\ r.owner = p
    BY <1>1 DEF HandedTo, CaseRow, Stages
<1> HIDE DEF r
<1>3. r \in LegalRows(k.order)
    BY <1>2 DEF LegalRows
<1> QED
    BY <1>3 DEF r

\* Whatever a request that is permitted makes of its order.
LEMMA OutcomesLegal ==
    ASSUME DeskInv, NEW c \in Calls, call[c].at = "sent", Permitted(call[c]),
           NEW r \in Outcomes(call[c])
    PROVE  r \in LegalRows(call[c].order)
<1> DEFINE k == call[c]
<1>1. k \in DeskCall /\ k.by \in People /\ k.order \in Cases
    BY DEF DeskInv, DeskTypeOK, CallKnown
<1>2. row[k.order] \in LegalRows(k.order) /\ row[k.order] \in CaseRow
    BY <1>1 DEF DeskInv, DeskTypeOK, RowsLegal
<1>3. k.seen \in CaseRow /\ k.op \in Presses \cup {"open"}
    BY <1>1 DEF DeskCall
<1>4. PmsOf[k.order] \subseteq Holders("project-manager") /\ Holders("project-manager") \subseteq People
      /\ Holders("analyst") \subseteq People /\ Holders("reviewer") \subseteq People
    BY <1>1, WhoIsWho
<1>5. CASE k.op \in {"assign", "reject"}
    <2>1. k.to \in Holders("analyst")
        BY <1>5 DEF Permitted, Recommended
    <2>2. r = HandedTo(k, "analyst", k.to)
        BY <1>5 DEF Outcomes
    <2> QED
        BY <1>1, <1>4, <2>1, <2>2, HandedToLegal
<1>6. CASE k.op = "claim"
    <2>1. k.by \in Holders("analyst")
        BY <1>6 DEF Permitted
    <2>2. r = HandedTo(k, "analyst", k.by)
        BY <1>6 DEF Outcomes
    <2> QED
        BY <1>1, <1>4, <2>1, <2>2, HandedToLegal
<1>7. CASE k.op = "review"
    <2>1. PICK p \in PmsOf[k.order] : r = HandedTo(k, "reviewer", p)
        BY <1>7 DEF Outcomes
    <2> QED
        BY <1>1, <1>4, <2>1, HandedToLegal
<1>8. CASE k.op = "reassign"
    <2>1. k.to \in PmsOf[k.order] \cup Holders("reviewer")
        BY <1>8 DEF Permitted, ReviewersFor
    <2>2. r = HandedTo(k, "reviewer", k.to)
        BY <1>8 DEF Outcomes
    <2> QED
        BY <1>1, <1>4, <2>1, <2>2, HandedToLegal
<1>9. CASE k.op = "approve"
    <2>1. PICK p \in IF k.by \in Holders("project-manager") THEN {k.by} ELSE PmsOf[k.order] :
              r = [row[k.order] EXCEPT !.status = "done", !.assignee = Nobody, !.owner = p]
        BY <1>9 DEF Outcomes
    <2>2. p \in Holders("project-manager")
        BY <1>4, <2>1
    <2>3. r \in CaseRow /\ r.status = "done" /\ r.assignee = Nobody /\ r.owner = p
        BY <1>2, <1>4, <2>1, <2>2 DEF CaseRow, Stages
    <2> QED
        BY <2>2, <2>3 DEF LegalRows
<1>10. CASE k.op = "hide"
    <2>1. r = [row[k.order] EXCEPT !.hidden = ~k.seen.hidden]
        BY <1>10 DEF Outcomes
    <2>2. k.seen.hidden \in BOOLEAN
        BY <1>3 DEF CaseRow
    <2>3. /\ r \in CaseRow /\ r.status = row[k.order].status
          /\ r.assignee = row[k.order].assignee /\ r.owner = row[k.order].owner
        BY <1>2, <2>1, <2>2 DEF CaseRow
    <2> QED
        BY <1>2, <2>3 DEF LegalRows
<1>11. CASE k.op \in {"open", "bill", "save"}
    BY <1>2, <1>11 DEF Outcomes
<1> HIDE DEF k
<1> QED
    BY <1>3, <1>5, <1>6, <1>7, <1>8, <1>9, <1>10, <1>11 DEF Presses, Handovers

\* Who was permitted, or had the order on display, may read it.
LEMMA ServedMayRead ==
    ASSUME DeskInv, NEW c \in Calls, call[c].at = "sent", Permitted(call[c])
    PROVE  MayRead(call[c].by, call[c].order)
<1>1. CASE call[c].op = "open"
    BY <1>1 DEF Permitted
<1>2. CASE call[c].op # "open"
    BY <1>2 DEF DeskInv, CallKnown, Pressed
<1> QED
    BY <1>1, <1>2

LEMMA ServeKeepsInv ==
    ASSUME DeskInv, NEW c \in Calls, Serve(c)
    PROVE  DeskInv'
<1> DEFINE k == call[c]
<1>1. k.at = "sent" /\ Permitted(k)
    BY DEF Serve
<1>2. k \in DeskCall /\ CallKnown(k) /\ k.by \in People /\ k.order \in Cases
    BY <1>1 DEF DeskInv, DeskTypeOK, CallKnown
<1>3. PICK r \in Outcomes(k) :
          /\ row' = [row EXCEPT ![k.order] = r]
          /\ call' = [call EXCEPT ![c].at = "answered", ![c].answer = r]
    BY DEF Serve
<1>4. r \in LegalRows(k.order) /\ r \in CaseRow
    BY <1>1, OutcomesLegal, LegalIsRow
<1> DEFINE a == [k EXCEPT !.at = "answered", !.answer = r]
<1>5. call' = [call EXCEPT ![c] = a]
    BY <1>3 DEF DeskInv, DeskTypeOK
<1>6. /\ a \in DeskCall /\ a.at = "answered" /\ a.by = k.by /\ a.order = k.order /\ a.op = k.op
      /\ a.to = k.to /\ a.seen = k.seen /\ a.answer = r
    BY <1>2, <1>4 DEF DeskCall
<1>7. MayRead(k.by, k.order)
    BY <1>1, ServedMayRead
<1>8. billed' \in SUBSET Cases /\ UNCHANGED <<pane, clicks>>
    BY <1>2 DEF Serve, DeskInv, DeskTypeOK
<1> HIDE DEF a, k
<1>9. CallKnown(a)
    <2>1. k.at # "idle"
        BY <1>1
    <2> QED
        BY <1>2, <1>4, <1>6, <1>7, <2>1 DEF CallKnown, Pressed, Answered
<1>10. \A d \in Calls : CallKnown(call'[d])
    BY <1>5, <1>9 DEF DeskInv, DeskTypeOK
<1>11. row' \in [Cases -> CaseRow] /\ RowsLegal'
    BY <1>2, <1>3, <1>4 DEF DeskInv, DeskTypeOK, RowsLegal
<1>12. DeskTypeOK'
    BY <1>5, <1>6, <1>8, <1>11 DEF DeskInv, DeskTypeOK
<1>13. \A p \in People : PaneKnown(p, pane'[p])
    BY <1>8 DEF DeskInv
<1> QED
    BY <1>10, <1>11, <1>12, <1>13 DEF DeskInv

\* No answer but an error.
LEMMA ErrorKeepsInv ==
    ASSUME DeskInv, NEW c \in Calls, Refuse(c) \/ Lose(c)
    PROVE  DeskInv'
<1>1. PICK at \in {"refused", "failed"} : call' = [call EXCEPT ![c].at = at]
    BY DEF Refuse, Lose
<1>2. call[c].at # "idle" /\ UNCHANGED <<row, billed, pane, clicks>>
    BY DEF Refuse, Lose
<1>3. call[c] \in DeskCall /\ CallKnown(call[c])
    BY DEF DeskInv, DeskTypeOK
<1> DEFINE a == [call[c] EXCEPT !.at = at]
<1>4. call' = [call EXCEPT ![c] = a]
    BY <1>1 DEF DeskInv, DeskTypeOK
<1>5. /\ a \in DeskCall /\ a.at = at /\ a.by = call[c].by /\ a.order = call[c].order
      /\ a.op = call[c].op /\ a.to = call[c].to /\ a.seen = call[c].seen
    BY <1>3 DEF DeskCall
<1> HIDE DEF a
<1>6. CallKnown(a)
    BY <1>2, <1>3, <1>5 DEF CallKnown, Pressed
<1>7. DeskTypeOK'
    BY <1>2, <1>4, <1>5 DEF DeskInv, DeskTypeOK
<1>8. \A d \in Calls : CallKnown(call'[d])
    BY <1>4, <1>6 DEF DeskInv, DeskTypeOK
<1>9. RowsLegal' /\ \A p \in People : PaneKnown(p, pane'[p])
    BY <1>2 DEF DeskInv, RowsLegal
<1> QED
    BY <1>7, <1>8, <1>9 DEF DeskInv

\* Money and time leave the holders as they were.
LEMMA MoveOnKeepsInv ==
    ASSUME DeskInv, NEW o \in Cases, MoveOn(o)
    PROVE  DeskInv'
<1>1. row[o] \in LegalRows(o) /\ row[o] \in CaseRow /\ row[o].status \in {"done", "paid"}
    BY DEF DeskInv, DeskTypeOK, RowsLegal, MoveOn
<1>2. PICK s \in {"paid", "closed"} : row' = [row EXCEPT ![o].status = s]
    BY DEF MoveOn
<1> DEFINE r == [row[o] EXCEPT !.status = s]
<1>3. row' = [row EXCEPT ![o] = r]
    BY <1>2 DEF DeskInv, DeskTypeOK
<1>4. r \in CaseRow /\ r.status = s /\ r.assignee = row[o].assignee /\ r.owner = row[o].owner
    BY <1>1 DEF CaseRow, Stages
<1> HIDE DEF r
<1>5. r \in LegalRows(o)
    BY <1>1, <1>4 DEF LegalRows
<1>6. UNCHANGED <<billed, pane, call, clicks>>
    BY DEF MoveOn
<1>7. DeskTypeOK' /\ RowsLegal'
    BY <1>3, <1>4, <1>5, <1>6 DEF DeskInv, DeskTypeOK, RowsLegal
<1> QED
    BY <1>6, <1>7 DEF DeskInv

\* An answer reaches its pane, if that is still there.
LEMMA SettleKeepsInv ==
    ASSUME DeskInv, NEW c \in Calls, Settle(c)
    PROVE  DeskInv'
<1>1. call[c].at \in {"answered", "refused", "failed"} /\ call[c].by \in People
    BY DEF Settle, DeskInv, CallKnown
<1>2. call' = [call EXCEPT ![c] = NoCall] /\ UNCHANGED <<row, billed, clicks>>
    BY DEF Settle
<1> DEFINE q == IF call[c].at = "answered" THEN Accepted(c) ELSE Rejected(c)
           shut == [q EXCEPT !.busy = @ \ {c}]
<1>3. q \in Pane /\ PaneKnown(call[c].by, q)
    BY <1>1, AcceptedPane, RejectedPane
<1>4. shut \in Pane /\ shut.shown = q.shown /\ shut.row = q.row
    <2> HIDE DEF q
    <2> QED
        BY <1>3 DEF Pane
<1>5. pane' = pane \/ pane' = [pane EXCEPT ![call[c].by] = shut]
    BY DEF Settle
<1> HIDE DEF q, shut
<1>6. PaneKnown(call[c].by, shut)
    BY <1>3, <1>4 DEF PaneKnown
<1>7. pane' \in [People -> Pane] /\ \A p \in People : PaneKnown(p, pane'[p])
    BY <1>1, <1>4, <1>5, <1>6 DEF DeskInv, DeskTypeOK
<1>8. call' \in [Calls -> DeskCall]
    BY <1>2, NothingYet DEF DeskInv, DeskTypeOK
<1>9. CallKnown(NoCall)
    BY DEF CallKnown, NoCall
<1>10. \A d \in Calls : CallKnown(call'[d])
    BY <1>2, <1>9 DEF DeskInv, DeskTypeOK
<1>11. DeskTypeOK' /\ RowsLegal'
    BY <1>2, <1>7, <1>8 DEF DeskInv, DeskTypeOK, RowsLegal
<1> QED
    BY <1>7, <1>10, <1>11 DEF DeskInv

LEMMA DeskNextInv == DeskInv /\ [DeskNext]_deskVars => DeskInv'
<1> SUFFICES ASSUME DeskInv, [DeskNext]_deskVars
             PROVE  DeskInv'
    OBVIOUS
<1>1. CASE UNCHANGED deskVars
    BY <1>1 DEF deskVars, DeskInv, DeskTypeOK, RowsLegal
<1>2. ASSUME NEW p \in People, Edit(p) \/ CancelEdit(p) \/ Analysed(p) \/ BillFetched(p)
      PROVE  DeskInv'
    BY <1>2, EditKeepsInv
<1>3. ASSUME NEW p \in People, BackToList(p)
      PROVE  DeskInv'
    BY <1>3, LeaveKeepsInv
<1>4. ASSUME NEW p \in People,
             \/ PressAssign(p) \/ PressClaim(p) \/ PressMoveToReview(p) \/ PressReassign(p)
             \/ PressApprove(p) \/ PressReject(p) \/ PressCreateBill(p) \/ PressSave(p)
             \/ PressHide(p)
      PROVE  DeskInv'
    BY <1>4, ButtonsKeepInv
<1>5. ASSUME NEW p \in People, NEW o \in Cases, Open(p, o)
      PROVE  DeskInv'
    BY <1>5, OpenKeepsInv
<1>6. ASSUME NEW c \in Calls, Serve(c) \/ Refuse(c) \/ Lose(c) \/ Settle(c)
      PROVE  DeskInv'
    BY <1>6, ServeKeepsInv, ErrorKeepsInv, SettleKeepsInv
<1>7. ASSUME NEW o \in Cases, MoveOn(o)
      PROVE  DeskInv'
    BY <1>7, MoveOnKeepsInv
<1> QED
    BY <1>1, <1>2, <1>3, <1>4, <1>5, <1>6, <1>7 DEF DeskNext

THEOREM DeskInvariant == DeskSpec => []DeskInv
BY DeskInitInv, DeskNextInv, PTL DEF DeskSpec

-----------------------------------------------------------------------------
(* The theorems *)

\* Rows, panes and calls have their types.
THEOREM DeskTypes == DeskSpec => []DeskTypeOK
<1>1. DeskInv => DeskTypeOK
    BY DEF DeskInv
<1> QED
    BY <1>1, DeskInvariant, PTL

\* Whoever an order waits for finds it in the list and is offered what moves it on,
\* unless the route keeps them out of it; a customer who is no PM finds their own orders
\* and no other: what visibleTasks and actionPanelFor select is what the routes left behind.
THEOREM HoldersFindWork == DeskSpec => []HolderFindsWork
<1>1. DeskInv => HolderFindsWork
    BY LegalRowsFound DEF DeskInv
<1> QED
    BY <1>1, DeskInvariant, PTL

\* A customer never gets another customer's order on display, whatever answer is late.
THEOREM CustomersSeeOwn == DeskSpec => []OnlyOwnShown
<1>1. DeskInv => OnlyOwnShown
    BY DEF DeskInv, PaneKnown, MayRead, OnlyOwnShown
<1> QED
    BY <1>1, DeskInvariant, PTL

-----------------------------------------------------------------------------
(* A request that is granted was made on the row as it is.                 *)

\* What the routes ask of a handover says, of a legal row, who holds it; so does the
\* panel the button was on.
LEMMA GrantedAsShown ==
    ASSUME DeskInv, NEW c \in Calls, call[c].at = "sent", Permitted(call[c]),
           call[c].op \in Handovers \cup {"bill"}
    PROVE  SameHolder(call[c].seen, row[call[c].order])
<1> DEFINE k == call[c]
           r == row[k.order]
           s == k.seen
<1>1. k.by \in People /\ k.order \in Cases /\ Pressed(k)
    BY DEF DeskInv, CallKnown, Handovers
<1>2. r \in LegalRows(k.order) /\ s \in LegalRows(k.order)
    BY <1>1 DEF DeskInv, RowsLegal, Pressed
<1>3. PressedOn(k.op, PanelFor(k.by, k.order, s))
    BY <1>1 DEF Pressed
<1>4. CASE k.op \in {"assign", "claim"}
    <2>1. r.status = "unassigned"
        BY <1>4 DEF Permitted
    <2>2. s.status = "unassigned"
        BY <1>3, <1>4 DEF PressedOn, PanelFor, Mine
    <2> QED
        BY <1>1, <1>2, <2>1, <2>2, LegalRow DEF SameHolder
<1>5. CASE k.op = "review"
    <2>1. r.status = "analyst" /\ r.assignee = k.by
        BY <1>5 DEF Permitted, HeldIn
    <2>2. s.status = "analyst" /\ s.assignee = k.by
        BY <1>3, <1>5 DEF PressedOn, PanelFor, Mine
    <2> QED
        BY <1>1, <1>2, <2>1, <2>2, LegalRow DEF SameHolder
<1>6. CASE k.op \in {"reassign", "approve", "reject"}
    <2>1. r.status = "reviewer" /\ r.assignee = k.by
        BY <1>6 DEF Permitted, HeldIn
    <2>2. s.status = "reviewer" /\ s.assignee = k.by
        BY <1>3, <1>6 DEF PressedOn, PanelFor, Mine
    <2> QED
        BY <1>1, <1>2, <2>1, <2>2, LegalRow DEF SameHolder
<1>7. CASE k.op = "bill"
    <2>1. r.status = "done" /\ r.owner = k.by
        BY <1>7 DEF Permitted
    <2>2. s.status = "done" /\ s.owner = k.by
        BY <1>3, <1>7 DEF PressedOn, PanelFor, Mine
    <2> QED
        BY <1>1, <1>2, <2>1, <2>2, LegalRow DEF SameHolder
<1> QED
    BY <1>4, <1>5, <1>6, <1>7 DEF Handovers

\* What is not a handover leaves the holders alone.
LEMMA OthersKeepHolder ==
    ASSUME DeskInv, NEW k \in DeskCall, k.order \in Cases, k.op \in {"open", "save", "hide"},
           NEW r \in Outcomes(k)
    PROVE  SameHolder(row[k.order], r)
<1>1. row[k.order] \in CaseRow
    BY DEF DeskInv, DeskTypeOK
<1>2. r = row[k.order] \/ r = [row[k.order] EXCEPT !.hidden = ~k.seen.hidden]
    BY DEF Outcomes
<1> QED
    BY <1>1, <1>2 DEF SameHolder, CaseRow

\* What DecidedAsShown says of one order in one step.
DecidedStep(o) ==
    ~SameHolder(row[o], row'[o]) \/ (o \in billed' \ billed) =>
        \/ row[o].status \in {"done", "paid"} /\ row'[o] # row[o]
              /\ row'[o] = [row[o] EXCEPT !.status = row'[o].status]
        \/ \E c \in Calls : /\ call[c].at = "sent" /\ call'[c].at = "answered"
                             /\ call[c].op \in Handovers \cup {"bill"}
                             /\ call[c].order = o /\ SameHolder(call[c].seen, row[o])

LEMMA ServeDecides ==
    ASSUME DeskInv, NEW c \in Calls, Serve(c), NEW o \in Cases
    PROVE  DecidedStep(o)
<1> DEFINE k == call[c]
<1>1. k.at = "sent" /\ Permitted(k)
    BY DEF Serve
<1>2. k \in DeskCall /\ k.order \in Cases /\ k.op \in Presses \cup {"open"}
    BY <1>1 DEF DeskInv, DeskTypeOK, CallKnown, DeskCall
<1>3. PICK r \in Outcomes(k) :
          /\ row' = [row EXCEPT ![k.order] = r]
          /\ call' = [call EXCEPT ![c].at = "answered", ![c].answer = r]
    BY DEF Serve
<1>4. billed' = billed \cup {i \in {k.order} : k.op = "bill"}
    BY DEF Serve
<1>5. CASE k.op \in Handovers \cup {"bill"}
    <2>1. SameHolder(k.seen, row[k.order])
        BY <1>1, <1>5, GrantedAsShown
    <2>2. call'[c].at = "answered"
        BY <1>2, <1>3 DEF DeskInv, DeskTypeOK, DeskCall
    <2>3. CASE o = k.order
        BY <1>1, <1>5, <2>1, <2>2, <2>3 DEF DecidedStep
    <2>4. CASE o # k.order
        <3>1. row'[o] = row[o] /\ o \notin billed' \ billed
            BY <1>3, <1>4, <2>4 DEF DeskInv, DeskTypeOK
        <3> QED
            BY <3>1 DEF DecidedStep, SameHolder
    <2> QED
        BY <2>3, <2>4
<1>6. CASE k.op \notin Handovers \cup {"bill"}
    <2>1. k.op \in {"open", "save", "hide"}
        BY <1>2, <1>6 DEF Presses
    <2>2. SameHolder(row[k.order], r)
        BY <1>2, <2>1, OthersKeepHolder
    <2>3. billed' = billed
        BY <1>4, <1>6
    <2>4. CASE o = k.order
        BY <1>2, <1>3, <2>2, <2>3, <2>4 DEF DecidedStep, DeskInv, DeskTypeOK
    <2>5. CASE o # k.order
        <3>1. row'[o] = row[o]
            BY <1>3, <2>5 DEF DeskInv, DeskTypeOK
        <3> QED
            BY <2>3, <3>1 DEF DecidedStep, SameHolder
    <2> QED
        BY <2>4, <2>5
<1> QED
    BY <1>5, <1>6

LEMMA MoveOnDecides ==
    ASSUME DeskInv, NEW m \in Cases, MoveOn(m), NEW o \in Cases
    PROVE  DecidedStep(o)
<1>1. row[m] \in CaseRow /\ row[m].status \in {"done", "paid"} /\ billed' = billed
    BY DEF DeskInv, DeskTypeOK, MoveOn
<1>2. PICK s \in {"paid", "closed"} :
          row' = [row EXCEPT ![m].status = s] /\ s # row[m].status
    BY DEF MoveOn
<1>3. CASE o = m
    <2>1. row'[m] = [row[m] EXCEPT !.status = s]
        BY <1>2 DEF DeskInv, DeskTypeOK
    <2>2. row'[m].status = s
        BY <1>1, <2>1 DEF CaseRow
    <2> QED
        BY <1>1, <1>2, <1>3, <2>1, <2>2 DEF DecidedStep
<1>4. CASE o # m
    <2>1. row'[o] = row[o]
        BY <1>2, <1>4 DEF DeskInv, DeskTypeOK
    <2> QED
        BY <1>1, <2>1 DEF DecidedStep, SameHolder
<1> QED
    BY <1>3, <1>4

\* What is pressed on an outdated pane decides nothing: an order changes hands, or gets
\* its bill, by a request made on the row as it is, or by money and time.
THEOREM DecisionsAsShown == DeskSpec => DecidedAsShown
<1>1. DeskInv /\ [DeskNext]_deskVars => [\A o \in Cases : DecidedStep(o)]_deskVars
    <2> SUFFICES ASSUME DeskInv, DeskNext, NEW o \in Cases
                 PROVE  DecidedStep(o)
        OBVIOUS
    <2>1. ASSUME row' = row, billed' = billed
          PROVE  DecidedStep(o)
        BY <2>1 DEF DecidedStep, SameHolder
    <2>2. ASSUME NEW p \in People, NEW op, NEW to, Press(p, op, to)
          PROVE  row' = row /\ billed' = billed
        BY <2>2 DEF Press
    <2>3. ASSUME NEW p \in People, Edit(p) \/ CancelEdit(p) \/ BackToList(p) \/ Analysed(p) \/ BillFetched(p)
          PROVE  row' = row /\ billed' = billed
        BY <2>3 DEF Edit, CancelEdit, BackToList, Analysed, BillFetched
    <2>4. ASSUME NEW p \in People,
                 \/ PressAssign(p) \/ PressClaim(p) \/ PressMoveToReview(p) \/ PressReassign(p)
                 \/ PressApprove(p) \/ PressReject(p) \/ PressCreateBill(p) \/ PressSave(p)
                 \/ PressHide(p)
          PROVE  row' = row /\ billed' = billed
        BY <2>2, <2>4 DEF PressAssign, PressClaim, PressMoveToReview, PressReassign, PressApprove,
                          PressReject, PressCreateBill, PressSave, PressHide
    <2>5. ASSUME NEW p \in People, NEW i \in Cases, Open(p, i)
          PROVE  row' = row /\ billed' = billed
        BY <2>5 DEF Open
    <2>6. ASSUME NEW c \in Calls, Refuse(c) \/ Lose(c) \/ Settle(c)
          PROVE  row' = row /\ billed' = billed
        BY <2>6 DEF Refuse, Lose, Settle
    <2>7. ASSUME NEW c \in Calls, Serve(c)
          PROVE  DecidedStep(o)
        BY <2>7, ServeDecides
    <2>8. ASSUME NEW m \in Cases, MoveOn(m)
          PROVE  DecidedStep(o)
        BY <2>8, MoveOnDecides
    <2> QED
        BY <2>1, <2>3, <2>4, <2>5, <2>6, <2>7, <2>8 DEF DeskNext
<1> QED
    BY <1>1, DeskInvariant, PTL DEF DeskSpec, DecidedAsShown, DecidedStep

-----------------------------------------------------------------------------
(* What a panel offers is what the routes allow.                           *)

\* On a row as it was shown, every check of a handover passes, but for a receiver of
\* another order's list and for want of a PM.
LEMMA RefusedOutdated ==
    ASSUME DeskInv, NEW c \in Calls, call[c].at = "sent", call[c].op \in Handovers,
           SameHolder(call[c].seen, row[call[c].order]),
           ~Permitted(call[c]) \/ Outcomes(call[c]) = {}
    PROVE  \/ call[c].op \in {"review", "approve"} /\ PmsOf[call[c].order] = {}
           \/ call[c].op = "reassign" /\ call[c].to \notin ReviewersFor(call[c].order)
<1> DEFINE k == call[c]
           r == row[k.order]
<1>1. Pressed(k)
    BY DEF DeskInv, CallKnown, Handovers
<1>2. /\ PressedOn(k.op, PanelFor(k.by, k.order, k.seen))
      /\ k.op \in {"assign", "reject"} => k.to \in Recommended
    BY <1>1 DEF Pressed
<1>3. k.seen.status = r.status /\ k.seen.assignee = r.assignee
    BY DEF SameHolder
<1>4. CASE k.op = "assign"
    <2>1. k.by \in Holders("project-manager") /\ r.status = "unassigned"
        BY <1>2, <1>3, <1>4 DEF PressedOn, PanelFor, Mine
    <2> QED
        BY <1>2, <1>4, <2>1 DEF Permitted, Outcomes
<1>5. CASE k.op = "claim"
    <2>1. k.by \in Holders("analyst") /\ r.status = "unassigned"
        BY <1>2, <1>3, <1>5 DEF PressedOn, PanelFor, Mine
    <2> QED
        BY <1>5, <2>1 DEF Permitted, Outcomes
<1>6. CASE k.op = "review"
    <2>1. k.by \in Holders("analyst") /\ r.status = "analyst" /\ r.assignee = k.by
        BY <1>2, <1>3, <1>6 DEF PressedOn, PanelFor, Mine
    <2>2. Permitted(k)
        BY <1>6, <2>1 DEF Permitted, HeldIn
    <2>3. Outcomes(k) = {HandedTo(k, "reviewer", p) : p \in PmsOf[k.order]}
        BY <1>6 DEF Outcomes
    <2> QED
        BY <1>6, <2>2, <2>3
<1>7. CASE k.op \in {"reassign", "reject", "approve"}
    <2>1. HeldIn(k, "reviewer")
        BY <1>2, <1>3, <1>7 DEF PressedOn, PanelFor, Mine, HeldIn
    <2>2. CASE k.op = "reject"
        BY <1>2, <2>1, <2>2 DEF Permitted, Outcomes
    <2>3. CASE k.op = "reassign"
        BY <2>1, <2>3 DEF Permitted, Outcomes
    <2>4. CASE k.op = "approve"
        <3>1. Permitted(k)
            BY <2>1, <2>4 DEF Permitted
        <3>2. Outcomes(k) =
                {[row[k.order] EXCEPT !.status = "done", !.assignee = Nobody, !.owner = p] :
                    p \in IF k.by \in Holders("project-manager") THEN {k.by} ELSE PmsOf[k.order]}
            BY <2>4 DEF Outcomes
        <3> QED
            BY <2>4, <3>1, <3>2
    <2> QED
        BY <1>7, <2>2, <2>3, <2>4
<1> QED
    BY <1>4, <1>5, <1>6, <1>7 DEF Handovers

\* What RefusedOnlyIfOutdated says of one call in one step.
RefusedStep(c) ==
    call[c].at = "sent" /\ call'[c].at = "refused" /\ call[c].op \in Handovers =>
        \/ ~SameHolder(call[c].seen, row[call[c].order])
        \/ call[c].op \in {"review", "approve"} /\ PmsOf[call[c].order] = {}
        \/ call[c].op = "reassign" /\ call[c].to \notin ReviewersFor(call[c].order)

\* Nothing but a refusal refuses.
LEMMA OnlyRefuseRefuses ==
    ASSUME DeskInv, DeskNext, NEW c \in Calls, call[c].at = "sent", call'[c].at = "refused"
    PROVE  ~Permitted(call[c]) \/ Outcomes(call[c]) = {}
<1>1. call \in [Calls -> DeskCall]
    BY DEF DeskInv, DeskTypeOK
<1>2. call' # call
    OBVIOUS
<1>3. ASSUME NEW p \in People, BackToList(p)
      PROVE  FALSE
    <2>1. call'[c].at = call[c].at
        BY <1>1, <1>3 DEF BackToList, DeskCall
    <2> QED
        BY <2>1
<1>4. ASSUME NEW d \in Calls, NEW k, call' = [call EXCEPT ![d] = k], k.at # "refused"
      PROVE  FALSE
    <2>1. call'[c] = call[c] \/ call'[c] = k
        BY <1>1, <1>4
    <2> QED
        BY <1>4, <2>1
<1>5. ASSUME NEW p \in People, NEW op, NEW to, Press(p, op, to)
      PROVE  FALSE
    <2>1. PICK d \in Calls : call' = [call EXCEPT ![d] = [at |-> "sent", op |-> op, by |-> p,
                                        order |-> pane[p].shown, to |-> to,
                                        seen |-> pane[p].row, answer |-> NoRowYet,
                                        heard |-> TRUE]]
        BY <1>5 DEF Press
    <2> QED
        BY <1>4, <2>1
<1>6. ASSUME NEW p \in People, NEW o \in Cases, Open(p, o)
      PROVE  FALSE
    <2> DEFINE k == [NoCall EXCEPT !.at = "sent", !.op = "open", !.by = p, !.order = o,
                                   !.heard = TRUE]
    <2>1. PICK d \in Calls : call' = [call EXCEPT ![d] = k]
        BY <1>6 DEF Open
    <2>2. k.at = "sent"
        BY DEF NoCall
    <2> HIDE DEF k
    <2> QED
        BY <1>4, <2>1, <2>2
<1>7. ASSUME NEW p \in People,
             \/ PressAssign(p) \/ PressClaim(p) \/ PressMoveToReview(p) \/ PressReassign(p)
             \/ PressApprove(p) \/ PressReject(p) \/ PressCreateBill(p) \/ PressSave(p)
             \/ PressHide(p)
      PROVE  FALSE
    BY <1>5, <1>7 DEF PressAssign, PressClaim, PressMoveToReview, PressReassign, PressApprove,
                      PressReject, PressCreateBill, PressSave, PressHide
<1>8. ASSUME NEW p \in People, Edit(p) \/ CancelEdit(p) \/ Analysed(p) \/ BillFetched(p)
      PROVE  FALSE
    BY <1>2, <1>8 DEF Edit, CancelEdit, Analysed, BillFetched
<1>9. ASSUME NEW d \in Calls, Serve(d) \/ Lose(d) \/ Settle(d)
      PROVE  FALSE
    <2>1. CASE Serve(d)
        <3>1. PICK r : call' = [call EXCEPT ![d].at = "answered", ![d].answer = r]
            BY <2>1 DEF Serve
        <3> QED
            BY <1>1, <3>1 DEF DeskCall
    <2>2. CASE Lose(d)
        BY <1>1, <2>2 DEF Lose, DeskCall
    <2>3. CASE Settle(d)
        <3>1. call' = [call EXCEPT ![d] = NoCall] /\ NoCall.at = "idle"
            BY <2>3 DEF Settle, NoCall
        <3> QED
            BY <1>4, <3>1
    <2> QED
        BY <1>9, <2>1, <2>2, <2>3
<1>10. ASSUME NEW o \in Cases, MoveOn(o)
       PROVE  FALSE
    BY <1>2, <1>10 DEF MoveOn
<1>11. ASSUME NEW d \in Calls, Refuse(d)
       PROVE  ~Permitted(call[c]) \/ Outcomes(call[c]) = {}
    <2>1. CASE d = c
        BY <1>11, <2>1 DEF Refuse
    <2>2. CASE d # c
        <3>1. call'[c] = call[c]
            BY <1>1, <1>11, <2>2 DEF Refuse
        <3> QED
            BY <3>1
    <2> QED
        BY <2>1, <2>2
<1> QED
    BY <1>3, <1>6, <1>7, <1>8, <1>9, <1>10, <1>11 DEF DeskNext

\* Whoever presses what actionPanelFor offers on an up-to-date pane is not turned away:
\* for any roles, also of people who hold several, panel and routes agree.
THEOREM RefusalsOutdated == DeskSpec => RefusedOnlyIfOutdated
<1>1. DeskInv /\ [DeskNext]_deskVars => [\A c \in Calls : RefusedStep(c)]_deskVars
    <2> SUFFICES ASSUME DeskInv, DeskNext, NEW c \in Calls
                 PROVE  RefusedStep(c)
        OBVIOUS
    <2> SUFFICES ASSUME call[c].at = "sent", call'[c].at = "refused", call[c].op \in Handovers,
                        SameHolder(call[c].seen, row[call[c].order])
                 PROVE  \/ call[c].op \in {"review", "approve"} /\ PmsOf[call[c].order] = {}
                        \/ call[c].op = "reassign" /\ call[c].to \notin ReviewersFor(call[c].order)
        BY DEF RefusedStep
    <2> QED
        BY OnlyRefuseRefuses, RefusedOutdated
<1> QED
    BY <1>1, DeskInvariant, PTL DEF DeskSpec, RefusedOnlyIfOutdated, RefusedStep
=============================================================================
