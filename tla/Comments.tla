------------------------------- MODULE Comments -------------------------------
(***************************************************************************)
(* The discussion of an order: task_comments, its two routes and the       *)
(* TaskComments panels of the staff's and the customer's pages.            *)
(*                                                                         *)
(* A row is never changed.  A panel shows one visibility of one order; its *)
(* answers may arrive after it was given another order, and what is        *)
(* answered then offers comments of the wrong order to reply to.           *)
(***************************************************************************)
EXTENDS Naturals, FiniteSets

CONSTANTS
    CommentIds,
    Orders,         \* all of one customer
    Panels,         \* TaskComments mounted in some page
    NoId,           \* no parent
    MaxPosts        \* bound: comments sent, and orders opened

ASSUME CommentsAssumption == NoId \notin CommentIds /\ MaxPosts \in Nat

VARIABLES
    comments,       \* task_comments: a row per comment_id
    panel,          \* per panel: what it is for and what it shows
    request,        \* per panel: its POST
    posts

commentVars == <<comments, panel, request, posts>>

Visibilities == {"internal", "customer"}
Viewers == {"staff", "customer"}

Comment == [task: Orders, parent: CommentIds \cup {NoId}, visibility: Visibilities, author: Viewers]
NoComment == [author |-> "none"]

\* fetching: orders whose listing is under way.
Panel == [viewer: Viewers, visibility: Visibilities, task: Orders, shown: SUBSET CommentIds,
          fetching: SUBSET Orders]

Post == [at: {"idle", "read", "insert"}, task: Orders, visibility: Visibilities,
         parent: CommentIds \cup {NoId}]

CommentsTypeOK ==
    /\ comments \in [CommentIds -> Comment \cup {NoComment}]
    /\ panel \in [Panels -> Panel]
    /\ request \in [Panels -> Post]
    /\ posts \in 0..MaxPosts

Exists(c) == comments[c] # NoComment
TopLevel(c) == comments[c].parent = NoId

\* A customer's page mounts the panel of customer notes alone.
CommentsInit ==
    /\ comments = [c \in CommentIds |-> NoComment]
    /\ panel \in [Panels -> {p \in Panel :
                    /\ p.viewer = "customer" => p.visibility = "customer"
                    /\ p.shown = {} /\ p.fetching = {p.task}}]
    /\ request = [p \in Panels |-> [at |-> "idle", task |-> panel[p].task,
                                    visibility |-> panel[p].visibility, parent |-> NoId]]
    /\ posts = 0

\* listForTask: the top level, each with the replies found under it; a reply whose
\* parent is not among the rows is left out.
ListForTask(t, visibility) ==
    LET rows == {c \in CommentIds : Exists(c) /\ comments[c].task = t
                                              /\ comments[c].visibility = visibility}
        top == {c \in rows : TopLevel(c)} IN
    top \cup {c \in rows : comments[c].parent \in top}

Refetched(p, t) == [panel EXCEPT ![p].fetching = @ \cup {t}]

\* The page goes to another order, or the panel is mounted again.
OpenTask(p, t) ==
    /\ posts < MaxPosts
    /\ posts' = posts + 1
    /\ panel' = [panel EXCEPT ![p].task = t, ![p].shown = {}, ![p].fetching = @ \cup {t}]
    /\ UNCHANGED <<comments, request>>

\* Whichever answer comes last is shown.
ShowComments(p, t) ==
    /\ t \in panel[p].fetching
    /\ panel' = [panel EXCEPT ![p].fetching = @ \ {t},
                              ![p].shown = ListForTask(t, panel[p].visibility)]
    /\ UNCHANGED <<comments, request, posts>>

FailFetchComments(p, t) ==
    /\ t \in panel[p].fetching
    /\ panel' = [panel EXCEPT ![p].fetching = @ \ {t}]
    /\ UNCHANGED <<comments, request, posts>>

\* The compose box, or the reply box under a comment shown at the top.
SendComment(p) ==
    /\ request[p].at = "idle"
    /\ posts < MaxPosts
    /\ posts' = posts + 1
    /\ \E parent \in {NoId} \cup {c \in panel[p].shown : TopLevel(c)} :
        request' = [request EXCEPT ![p] = [at |-> "read", task |-> panel[p].task,
                                           visibility |-> panel[p].visibility, parent |-> parent]]
    /\ UNCHANGED <<comments, panel>>

\* A client of the route other than the panel; the body names what it likes.
SendDirectly(p) ==
    /\ request[p].at = "idle"
    /\ posts < MaxPosts
    /\ posts' = posts + 1
    /\ \E parent \in {NoId} \cup {c \in CommentIds : Exists(c)}, visibility \in Visibilities :
        request' = [request EXCEPT ![p] = [at |-> "read", task |-> panel[p].task,
                                           visibility |-> visibility, parent |-> parent]]
    /\ UNCHANGED <<comments, panel>>

\* Deviation: replies may be replied to.
ResolvedAnyDepth(p) ==
    LET r == request[p] IN
    IF r.parent = NoId THEN r.visibility
    ELSE IF comments[r.parent].task = r.task THEN comments[r.parent].visibility ELSE "refused"

\* The visibility of a new comment; "refused" answers 400, 403 or 404.
Resolved(p) ==
    LET r == request[p] IN
    IF r.parent = NoId THEN r.visibility
    ELSE IF comments[r.parent].task = r.task /\ TopLevel(r.parent)
      THEN comments[r.parent].visibility ELSE "refused"

\* Deviation: the visibility in the body is taken as it is.
ReadParentOwn(p) ==
    /\ request[p].at = "read"
    /\ Resolved(p) # "refused"
    /\ panel[p].viewer = "customer" => request[p].visibility = "customer"
    /\ request' = [request EXCEPT ![p].at = "insert"]
    /\ UNCHANGED <<comments, panel, posts>>

\* A customer posts to customer notes only.
ReadParent(p) ==
    /\ request[p].at = "read"
    /\ Resolved(p) # "refused"
    /\ panel[p].viewer = "customer" => Resolved(p) = "customer"
    /\ request' = [request EXCEPT ![p].at = "insert", ![p].visibility = Resolved(p)]
    /\ UNCHANGED <<comments, panel, posts>>

CreateComment(p) ==
    LET r == request[p] IN
    /\ r.at = "insert"
    /\ \E c \in CommentIds :
        /\ ~Exists(c)
        /\ comments' = [comments EXCEPT ![c] = [task |-> r.task, parent |-> r.parent,
                                                visibility |-> r.visibility,
                                                author |-> panel[p].viewer]]
    /\ request' = [request EXCEPT ![p].at = "idle"]
    /\ panel' = Refetched(p, r.task)
    /\ UNCHANGED posts

\* A check or a query fails: the box keeps its text and shows the error.
FailComment(p) ==
    /\ request[p].at # "idle"
    /\ request' = [request EXCEPT ![p].at = "idle"]
    /\ UNCHANGED <<comments, panel, posts>>

CommentsNext ==
    \E p \in Panels :
        \/ \E t \in Orders : OpenTask(p, t) \/ ShowComments(p, t) \/ FailFetchComments(p, t)
        \/ SendComment(p) \/ SendDirectly(p) \/ ReadParent(p) \/ CreateComment(p) \/ FailComment(p)

CommentsSpec == CommentsInit /\ [][CommentsNext]_commentVars

-----------------------------------------------------------------------------

\* A thread stays in one order and one visibility, whatever a panel with comments of
\* another order on display replies to: no reply carries staff talk to the customer.
ThreadsStayTogether ==
    \A c \in CommentIds : Exists(c) /\ ~TopLevel(c)
        => LET parent == comments[c].parent IN
           /\ Exists(parent) /\ TopLevel(parent)
           /\ comments[c].task = comments[parent].task
           /\ comments[c].visibility = comments[parent].visibility

\* Every comment is found in the listing of its order and visibility: the rules of
\* posting leave no reply without its parent there.
NoCommentHidden ==
    \A c \in CommentIds : Exists(c) => c \in ListForTask(comments[c].task, comments[c].visibility)
=============================================================================
