------------------------------ MODULE BlogPosts ------------------------------
(***************************************************************************)
(* The blog: the editors' forms, blog-service's handlers and table, the    *)
(* cover images in asset-service, and search-service's public index of     *)
(* what is published.                                                      *)
(*                                                                         *)
(* A handler reads the post, checks it, awaits, writes it, and publishes   *)
(* the row its write returned.  On every boot blog-service publishes all   *)
(* live posts again, rows read before the handlers of the new process      *)
(* wrote anything.                                                         *)
(***************************************************************************)
EXTENDS Naturals, Sequences, FiniteSets

CONSTANTS
    Posts,          \* post ids
    Editors,        \* forms open in the browsers of marketing staff
    Texts,          \* title, excerpt, tags and body of a post
    Null,
    MaxAttempts,    \* slugs tried for a new post, 5 in the code
    MaxRequests,    \* bound: requests and uploads of all forms
    MaxRestarts     \* bound: restarts of blog-service and of the indexer together

ASSUME BlogAssumption ==
    /\ Null \notin Posts /\ Null \notin Texts
    /\ MaxAttempts \in Nat \ {0} /\ MaxRequests \in Nat /\ MaxRestarts \in Nat

VARIABLES
    up,             \* which of search-service and asset-service runs
    posts,          \* blog_posts: a row per id
    images,         \* per post: what became of the image under its prefix
    form,           \* per editor: BlogPostForm
    req,            \* per editor: the handler of the form's request
    requests,
    backlog,        \* rows listed at boot and not yet published again
    topic,          \* blog-service.posts
    position,       \* events handled by the indexer
    committed,      \* events it will not be given again
    failed,         \* offsets whose handling was logged as an error
    dropped,        \* offsets the indexer took while it was stopping
    lost,           \* posts of which a handler's event was lost on its way
    index,          \* blog-articles: a document per id, or NoDoc
    restarts,
    shown           \* <<id, slug, text>> that were live at some time

browser == <<form, requests>>
indexer == <<position, committed, failed, dropped, index>>
vars == <<up, posts, images, browser, req, backlog, topic, lost, indexer, restarts, shown>>

Others == {"search", "asset"}

\* createPost numbers the slugs it tries; the first is the one asked for.
Slugs == 1..MaxAttempts

Row == [state: {"draft", "live"}, slug: Slugs, text: Texts, cover: BOOLEAN]
NoRow == [state |-> "none", slug |-> 0, text |-> Null, cover |-> FALSE]
Deleted == [NoRow EXCEPT !.state = "deleted"]

Event == [id: Posts, slug: Slugs, text: Texts, published: BOOLEAN]
Doc == [slug: Slugs, text: Texts]
NoDoc == [slug |-> 0, text |-> Null]

\* The slug of a form is the one in its locked field, 0 while the editor may type any.
Form == [id: Posts \cup {Null}, slug: {0} \cup Slugs, cover: BOOLEAN, live: BOOLEAN, uploading: BOOLEAN]
NewForm == [id |-> Null, slug |-> 0, cover |-> FALSE, live |-> FALSE, uploading |-> FALSE]

Ops == {"create", "update", "publish", "unpublish", "delete"}
Request == [op: Ops \cup {Null}, at: {"idle", "read", "write", "event"}, id: Posts \cup {Null},
            slug: 0..MaxAttempts, text: Texts \cup {Null}, cover: BOOLEAN, row: Row \cup {NoRow}]
NoRequest == [op |-> Null, at |-> "idle", id |-> Null, slug |-> 0, text |-> Null,
              cover |-> FALSE, row |-> NoRow]

TypeOK ==
    /\ up \subseteq Others
    /\ posts \in [Posts -> Row \cup {NoRow, Deleted}]
    /\ images \in [Posts -> {"none", "stored", "deleted"}]
    /\ form \in [Editors -> Form]
    /\ req \in [Editors -> Request]
    /\ requests \in 0..MaxRequests
    /\ backlog \subseteq Event
    /\ topic \in Seq(Event)
    /\ committed \in 0..position /\ position \in 0..Len(topic)
    /\ failed \subseteq 1..Len(topic) /\ dropped \subseteq 1..Len(topic)
    /\ lost \subseteq Posts
    /\ index \in [Posts -> Doc \cup {NoDoc}]
    /\ restarts \in 0..MaxRestarts
    /\ shown \subseteq Posts \X Slugs \X Texts

\* The table outlives its services: drafts may be there already.
Init ==
    /\ up \in SUBSET Others
    /\ posts \in [Posts -> {NoRow} \cup {row \in Row : row.state = "draft" /\ ~row.cover}]
    /\ \A p, q \in Posts : p # q /\ posts[p] # NoRow => posts[p].slug # posts[q].slug
    /\ images = [p \in Posts |-> "none"]
    /\ form = [e \in Editors |-> NewForm]
    /\ req = [e \in Editors |-> NoRequest]
    /\ requests = 0
    /\ backlog = {}
    /\ topic = <<>>
    /\ position = 0 /\ committed = 0 /\ failed = {} /\ dropped = {} /\ lost = {}
    /\ index = [p \in Posts |-> NoDoc]
    /\ restarts = 0
    /\ shown = {}

Exists(p) == posts[p].state \in {"draft", "live"}

-----------------------------------------------------------------------------
(* BlogPostForm and BlogManagePage *)

Locked(row) == IF row.state = "live" THEN row.slug ELSE 0

\* A post is selected and fetched, or a new one begun.  The form keeps what it was
\* opened with and what its own requests answer; other editors' writes never reach it.
Open(e, p) ==
    /\ req[e].at = "idle"
    /\ Exists(p)
    /\ form' = [form EXCEPT ![e] = [id |-> p, cover |-> posts[p].cover, uploading |-> FALSE,
                                    live |-> posts[p].state = "live",
                                    slug |-> Locked(posts[p])]]
    /\ UNCHANGED <<up, posts, images, req, requests, backlog, topic, lost, indexer, restarts, shown>>

New(e) ==
    /\ req[e].at = "idle"
    /\ form' = [form EXCEPT ![e] = NewForm]
    /\ UNCHANGED <<up, posts, images, req, requests, backlog, topic, lost, indexer, restarts, shown>>

Send(e, request) ==
    /\ req[e].at = "idle"
    /\ requests < MaxRequests
    /\ requests' = requests + 1
    /\ req' = [req EXCEPT ![e] = request]
    /\ UNCHANGED <<up, posts, images, form, backlog, topic, lost, indexer, restarts, shown>>

\* The whole form is submitted.  The slug of a post known to be live is locked; that of
\* a new one is made from its title, and all new posts have the same.
Save(e) ==
    LET f == form[e] IN
    \E text \in Texts, slug \in Slugs :
        /\ f.live => slug = f.slug
        /\ f.id = Null => slug = 1
        /\ Send(e, [NoRequest EXCEPT !.op = IF f.id = Null THEN "create" ELSE "update",
                        !.at = IF f.id = Null THEN "write" ELSE "read",
                        !.id = f.id, !.slug = slug, !.text = text, !.cover = f.cover])

TogglePublish(e) ==
    /\ form[e].id # Null
    /\ Send(e, [NoRequest EXCEPT !.op = IF form[e].live THEN "unpublish" ELSE "publish",
                                 !.at = "read", !.id = form[e].id])

Delete(e) ==
    /\ form[e].id # Null /\ ~form[e].live
    /\ Send(e, [NoRequest EXCEPT !.op = "delete", !.at = "read", !.id = form[e].id])

\* An upload address is minted; only for a post that was saved.  It runs beside the
\* form's other requests.
UploadCover(e) ==
    /\ "asset" \in up
    /\ form[e].id # Null /\ ~form[e].uploading
    /\ requests < MaxRequests
    /\ requests' = requests + 1
    /\ form' = [form EXCEPT ![e].uploading = TRUE]
    /\ UNCHANGED <<up, posts, images, req, backlog, topic, lost, indexer, restarts, shown>>

\* The browser puts the file; the form refers to it afterwards.
PutCover(e) ==
    /\ form[e].uploading
    /\ images' = [images EXCEPT ![form[e].id] = "stored"]
    /\ form' = [form EXCEPT ![e].uploading = FALSE, ![e].cover = TRUE]
    /\ UNCHANGED <<up, posts, req, requests, backlog, topic, lost, indexer, restarts, shown>>

\* Deviation: the form refers to the address the file will have.
FailCoverReferred(e) ==
    /\ form[e].uploading
    /\ form' = [form EXCEPT ![e].uploading = FALSE, ![e].cover = TRUE]
    /\ UNCHANGED <<up, posts, images, req, requests, backlog, topic, lost, indexer, restarts, shown>>

FailCover(e) ==
    /\ form[e].uploading
    /\ form' = [form EXCEPT ![e].uploading = FALSE]
    /\ UNCHANGED <<up, posts, images, req, requests, backlog, topic, lost, indexer, restarts, shown>>

RemoveCover(e) ==
    /\ form[e].cover
    /\ form' = [form EXCEPT ![e].cover = FALSE]
    /\ UNCHANGED <<up, posts, images, req, requests, backlog, topic, lost, indexer, restarts, shown>>

-----------------------------------------------------------------------------
(* asset-service *)

\* Marketing may delete an image whether a post refers to it or not; no form does.
DeleteImage(p) ==
    /\ "asset" \in up
    /\ requests < MaxRequests
    /\ requests' = requests + 1
    /\ images[p] = "stored"
    /\ images' = [images EXCEPT ![p] = "deleted"]
    /\ UNCHANGED <<up, posts, form, req, backlog, topic, lost, indexer, restarts, shown>>

-----------------------------------------------------------------------------
(* blog-service *)

\* What is checked on the row read; otherwise 404 or 409 (FailRequest).
Passes(r, row) ==
    CASE r.op = "update" -> row.state = "live" => r.slug = row.slug
      [] r.op = "unpublish" -> row.state = "live"
      [] OTHER -> row.state = "draft"

ReadPost(e) ==
    /\ req[e].at = "read"
    /\ Exists(req[e].id)
    /\ Passes(req[e], posts[req[e].id])
    /\ req' = [req EXCEPT ![e].at = "write"]
    /\ UNCHANGED <<up, posts, images, browser, backlog, topic, lost, indexer, restarts, shown>>

Taken(slug, p) == \E q \in Posts \ {p} : Exists(q) /\ posts[q].slug = slug

\* The row is written, and carried to the event and the answer.
Written(e, p, row) ==
    /\ posts' = [posts EXCEPT ![p] = row]
    /\ shown' = IF row.state = "live" THEN shown \cup {<<p, row.slug, row.text>>} ELSE shown
    /\ req' = [req EXCEPT ![e].at = "event", ![e].id = p, ![e].row = row]
    /\ UNCHANGED <<up, images, browser, backlog, topic, lost, indexer, restarts>>

\* createPost: an INSERT per slug, the next one when it is taken.
InsertPost(e) ==
    LET r == req[e] IN
    /\ r.at = "write" /\ r.op = "create"
    /\ ~Taken(r.slug, Null)
    /\ \E p \in Posts : /\ posts[p] = NoRow
                        /\ Written(e, p, [state |-> "draft", slug |-> r.slug, text |-> r.text,
                                          cover |-> r.cover])

RetryInsert(e) ==
    LET r == req[e] IN
    /\ r.at = "write" /\ r.op = "create"
    /\ Taken(r.slug, Null)
    /\ r.slug < MaxAttempts
    /\ req' = [req EXCEPT ![e].slug = r.slug + 1]
    /\ UNCHANGED <<up, posts, images, browser, backlog, topic, lost, indexer, restarts, shown>>

\* updatePost: by id alone, whatever happened to the post since it was read.
UpdatePost(e) ==
    LET r == req[e] IN
    /\ r.at = "write" /\ r.op = "update"
    /\ Exists(r.id) /\ ~Taken(r.slug, r.id)
    /\ Written(e, r.id, [posts[r.id] EXCEPT !.slug = r.slug, !.text = r.text, !.cover = r.cover])

\* publishPost and unpublishPost; no row returned is an error of the handler.
PublishPost(e) ==
    LET r == req[e] IN
    /\ r.at = "write" /\ r.op = "publish"
    /\ posts[r.id].state = "draft"
    /\ Written(e, r.id, [posts[r.id] EXCEPT !.state = "live"])

UnpublishPost(e) ==
    LET r == req[e] IN
    /\ r.at = "write" /\ r.op = "unpublish"
    /\ posts[r.id].state = "live"
    /\ Written(e, r.id, [posts[r.id] EXCEPT !.state = "draft"])

\* Deviation: the check before the await has to do.
RemovedAny(row) == Deleted

\* WHERE id = $1 AND published_at IS NULL.
Removed(row) == IF row.state = "draft" THEN Deleted ELSE row

\* Answered 204 whether a row was deleted or not, without an event; the form closes.
DeletePost(e) ==
    LET r == req[e] IN
    /\ r.at = "write" /\ r.op = "delete"
    /\ posts' = [posts EXCEPT ![r.id] = Removed(@)]
    /\ req' = [req EXCEPT ![e] = NoRequest]
    /\ form' = [form EXCEPT ![e] = NewForm]
    /\ UNCHANGED <<up, images, requests, backlog, topic, lost, indexer, restarts, shown>>

\* Deviation: every event but a withdrawal has its post indexed.
PostToEventAny(p, row) ==
    [id |-> p, slug |-> row.slug, text |-> row.text, published |-> TRUE]

PostToEvent(p, row) ==
    [id |-> p, slug |-> row.slug, text |-> row.text, published |-> row.state = "live"]

\* Best effort, then the answer reaches the form.  Going live locks the slug field on
\* what was typed there, saved or not.
PublishPostEvent(e) ==
    LET r == req[e] IN
    /\ r.at = "event"
    /\ \/ topic' = Append(topic, PostToEvent(r.id, r.row)) /\ lost' = lost
       \/ topic' = topic /\ lost' = lost \cup {r.id}
    /\ req' = [req EXCEPT ![e] = NoRequest]
    /\ \E slug \in IF r.op = "publish" THEN Slugs ELSE {Locked(r.row)} :
        form' = [form EXCEPT ![e] = [@ EXCEPT !.id = r.id, !.slug = slug,
                                              !.live = r.row.state = "live"]]
    /\ UNCHANGED <<up, posts, images, requests, backlog, indexer, restarts, shown>>

\* A check or a query fails: the form shows the error and keeps what it had.
FailRequest(e) ==
    /\ req[e].at \in {"read", "write"}
    /\ req' = [req EXCEPT ![e] = NoRequest]
    /\ UNCHANGED <<up, posts, images, browser, backlog, topic, lost, indexer, restarts, shown>>

\* blog-service starts again: all handlers are gone, and the live posts are listed.
RestartBlog ==
    /\ restarts < MaxRestarts
    /\ restarts' = restarts + 1
    /\ req' = [e \in Editors |-> NoRequest]
    /\ backlog' = {PostToEvent(p, posts[p]) : p \in {q \in Posts : posts[q].state = "live"}}
    /\ lost' = lost \cup {req[e].id : e \in {d \in Editors : req[d].at = "event"}}
    /\ UNCHANGED <<up, posts, images, browser, topic, indexer, shown>>

\* reindexPublishedPosts sends what it listed, in any order, while handlers write.
Reindex ==
    \E event \in backlog :
        /\ backlog' = backlog \ {event}
        /\ topic' \in {topic, Append(topic, event)}
        /\ UNCHANGED <<up, posts, images, browser, req, lost, indexer, restarts, shown>>

-----------------------------------------------------------------------------
(* search-service *)

\* post_event_to_doc and the choice between upsert and delete.
DocOf(event) == IF event.published THEN [slug |-> event.slug, text |-> event.text] ELSE NoDoc

HasMessage == "search" \in up /\ position < Len(topic)

\* Deviation: what was indexed first stays.
IndexPostEventOnce ==
    /\ HasMessage
    /\ LET event == topic[position + 1] IN
        index' = [index EXCEPT ![event.id] = IF @ = NoDoc \/ ~event.published
                                               THEN DocOf(event) ELSE @]
    /\ position' = position + 1
    /\ UNCHANGED <<up, posts, images, browser, req, backlog, topic, lost, committed, failed,
                   dropped, restarts, shown>>

IndexPostEvent ==
    /\ HasMessage
    /\ LET event == topic[position + 1] IN index' = [index EXCEPT ![event.id] = DocOf(event)]
    /\ position' = position + 1
    /\ UNCHANGED <<up, posts, images, browser, req, backlog, topic, lost, committed, failed,
                   dropped, restarts, shown>>

\* Elasticsearch refuses: the consumer is closed, which commits past the event.
SkipPostEvent ==
    /\ HasMessage
    /\ position' = position + 1
    /\ committed' = position + 1
    /\ failed' = failed \cup {position + 1}
    /\ UNCHANGED <<up, posts, images, browser, req, backlog, topic, lost, dropped, index, restarts,
                   shown>>

\* The service is stopping: the loop takes one more event, leaves without looking at it,
\* and closing the consumer commits past it.  Nothing is logged.
DropPostEvent ==
    /\ HasMessage
    /\ restarts < MaxRestarts
    /\ restarts' = restarts + 1
    /\ position' = position + 1
    /\ committed' = position + 1
    /\ dropped' = dropped \cup {position + 1}
    /\ UNCHANGED <<up, posts, images, browser, req, backlog, topic, lost, failed, index, shown>>

CommitIndexer ==
    /\ committed < position
    /\ committed' = position
    /\ UNCHANGED <<up, posts, images, browser, req, backlog, topic, lost, position, failed, dropped,
                   index, restarts, shown>>

RestartIndexer ==
    /\ "search" \in up
    /\ restarts < MaxRestarts
    /\ restarts' = restarts + 1
    /\ position' = committed
    /\ UNCHANGED <<up, posts, images, browser, req, backlog, topic, lost, committed, failed, dropped,
                   index, shown>>

-----------------------------------------------------------------------------

Next ==
    \/ \E e \in Editors :
        \/ \E p \in Posts : Open(e, p)
        \/ New(e) \/ Save(e) \/ TogglePublish(e) \/ Delete(e)
        \/ UploadCover(e) \/ PutCover(e) \/ FailCover(e) \/ RemoveCover(e)
        \/ ReadPost(e)
        \/ InsertPost(e) \/ RetryInsert(e) \/ UpdatePost(e)
        \/ PublishPost(e) \/ UnpublishPost(e) \/ DeletePost(e)
        \/ PublishPostEvent(e)
        \/ FailRequest(e)
    \/ \E p \in Posts : DeleteImage(p)
    \/ RestartBlog
    \/ Reindex
    \/ IndexPostEvent \/ SkipPostEvent \/ DropPostEvent \/ CommitIndexer \/ RestartIndexer

Spec == Init /\ [][Next]_vars

-----------------------------------------------------------------------------
(* Properties *)

\* What the public index holds of a post was live at some time, word for word, whatever
\* order the events of several editors, of a boot and of a redelivery arrive in: no
\* unpublished edit is found.  It may be out of date, and the post withdrawn since.
FoundWasLive ==
    \A p \in Posts : index[p] # NoDoc => <<p, index[p].slug, index[p].text>> \in shown

\* A post that is live is never deleted, also when it goes live between the check of
\* a delete and its statement.
LiveNotDeleted ==
    [][\A p \in Posts : posts[p].state = "live" => posts'[p] # Deleted]_vars

LastOfItsPost(i) == \A j \in i + 1 .. Len(topic) : topic[j].id # topic[i].id

\* The index shows what the last event on the topic says of a post, and nothing of one
\* that event says is not published, whatever was delivered again before it: unless that
\* very event failed, or came while the service was stopping.
IndexFollowsPosts ==
    \A i \in 1..position :
        LET event == topic[i] IN
        LastOfItsPost(i) /\ i \notin failed \cup dropped =>
            index[event.id] = IF event.published
                                THEN [slug |-> event.slug, text |-> event.text] ELSE NoDoc

\* Whatever is uploaded and saved at the same time, and by whom, a post refers to a
\* cover image only once that image was stored: if it is missing, someone deleted it.
CoverExists == \A p \in Posts : posts[p].cover => images[p] \in {"stored", "deleted"}

\* The comments on published: a later event cannot bring a withdrawn post back.  When
\* all is delivered, and of its events none was lost, failed or dropped, a post that is
\* not live is not found.
WithdrawnStaysOut ==
    \A p \in Posts :
        /\ posts[p].state # "live"
        /\ backlog = {} /\ \A e \in Editors : req[e].at = "idle"
        /\ position = Len(topic)
        /\ p \notin lost
        /\ \A i \in failed \cup dropped : topic[i].id # p
        => index[p] = NoDoc
=============================================================================
