----------------------------- MODULE MCOrderPage -----------------------------
(* The page of an order: its files (OrderFiles), its discussion (Comments) and  *)
(* the pane and buttons around them (OrderDesk).  None reads what another       *)
(* writes, so a behaviour exercises one of them and leaves the others as they   *)
(* were initially.                                                              *)
EXTENDS OrderFiles, Comments, OrderDesk, TLC

CONSTANTS t1, t2, boss, worker, buyer

\* One who assigns and bills, one who analyses and reviews, and the customer.
MCRolesOf ==
    (boss :> {"project-manager", "customer"}) @@ (worker :> {"analyst", "reviewer"}) @@ (buyer :> {"customer", "reviewer"})
MCNamedByEmail == {boss, worker, buyer}
MCCustomerOf == (t1 :> buyer) @@ (t2 :> boss)
MCPmsOf == (t1 :> {boss}) @@ (t2 :> {})
MCManagerOf == [o \in {t1, t2} |-> Nobody]

VARIABLE part

pageVars == <<fileVars, commentVars, deskVars, part>>

PageInit ==
    /\ FilesInit /\ CommentsInit /\ DeskInit
    /\ part \in {"files", "comments", "desk"}
    \* The parts that rest start in one way only.
    /\ part # "comments" => \A p \in Panels : panel[p].task = t1 /\ panel[p].visibility = "customer"
                                             /\ panel[p].viewer = "staff"
    /\ part # "files" => /\ \A b \in Tabs : tab[b].task = t1
                         /\ analysis.task = t1
    \* The orders are alike there: the form's, and that of some panel, is the first.
    /\ \A f \in Forms : form[f].task = t1
    /\ \E p \in Panels : panel[p].task = t1
    /\ \A o \in {t1, t2} : ~row[o].hidden
    /\ part # "desk" => pane = [p \in People |-> NoPane] /\ \A o \in {t1, t2} : row[o].status = "unassigned"
    \* The desk: two of them have the first order open, the customer comes later.
    /\ part = "desk" => /\ row[t1].status \in {"unassigned", "reviewer"} /\ row[t1].assignee \in {Nobody, worker}
                        /\ row[t2].status = "reviewer" /\ row[t2].assignee = worker
                        /\ pane[boss].url = t1 /\ pane[worker].url = t1 /\ pane[buyer] = NoPane

\* Which comment id or which slot of a call is taken next makes no difference: the
\* first one free, instead of a symmetry set.
FirstComment ==
    \A c, d \in CommentIds :
        d < c /\ comments[c] = NoComment /\ comments'[c] # NoComment => comments[d] # NoComment
FirstCall ==
    \A c, d \in Calls : d < c /\ Free(c) /\ ~Free(c)' => ~Free(d)

PageNext ==
    /\ \/ part = "files" /\ FilesNext /\ UNCHANGED <<commentVars, deskVars>>
       \/ part = "comments" /\ CommentsNext /\ FirstComment /\ UNCHANGED <<fileVars, deskVars>>
       \/ part = "desk" /\ DeskNext /\ FirstCall /\ UNCHANGED <<fileVars, commentVars>>
    /\ UNCHANGED part

PageSpec == PageInit /\ [][PageNext]_pageVars
=============================================================================
