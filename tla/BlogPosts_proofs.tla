--------------------------- MODULE BlogPosts_proofs ---------------------------
(***************************************************************************)
(* What BlogPosts.tla keeps, for any number of posts, editors, slugs,      *)
(* requests and restarts.                                                  *)
(***************************************************************************)
EXTENDS BlogPosts, TLAPS

-----------------------------------------------------------------------------
(* What forms, requests and events know *)

\* Posts with an image that is there, or was deleted by hand.
Stored == {p \in Posts : images[p] # "none"}

\* A form without a post has no image; the image of one with a post is there.
FormKnows(f, there) ==
    /\ f.id = Null => ~f.cover /\ ~f.uploading
    /\ f.cover => f.id \in there

\* A request is about the post of its form, which is not closed meanwhile.
Knows(r, f, there) ==
    /\ r.at = "read" => r.op \in Ops \ {"create"}
    /\ r.at \in {"write", "event"} => r.op \in Ops
    /\ r.at \in {"read", "write"} =>
        /\ r.op = "create" => r.id = Null /\ f.id = Null /\ ~r.cover
        /\ r.op # "create" => r.id \in Posts /\ f.id = r.id
        /\ r.op \in {"create", "update"} => r.slug \in Slugs /\ r.text \in Texts
        /\ r.op = "update" /\ r.cover => r.id \in there
    /\ r.at = "event" => r.id \in Posts /\ r.row \in Row /\ f.id \in {Null, r.id}

\* A row that is live, and an event that says so, were shown.
RowTold(p, row, was) == row.state = "live" => <<p, row.slug, row.text>> \in was
EventTold(event, was) == event.published => <<event.id, event.slug, event.text>> \in was

EditorsKnow ==
    \A e \in Editors : FormKnows(form[e], Stored) /\ Knows(req[e], form[e], Stored)

WasShown ==
    /\ \A p \in Posts : RowTold(p, posts[p], shown)
    /\ \A e \in Editors : req[e].at = "event" => RowTold(req[e].id, req[e].row, shown)
    /\ \A event \in backlog : EventTold(event, shown)
    /\ \A i \in 1..Len(topic) : EventTold(topic[i], shown)

\* The last event of a post that the indexer took decides its document, and goes on
\* doing so when older ones were delivered again before it.
IndexHoldsLast ==
    \A i \in 1..position :
        LastOfItsPost(i) /\ i \notin failed \cup dropped => index[topic[i].id] = DocOf(topic[i])

BlogInv ==
    /\ TypeOK /\ EditorsKnow /\ CoverExists
    /\ WasShown /\ FoundWasLive /\ IndexHoldsLast

\* A cover is referred to just in case its post is one of Stored.
LEMMA CoversStored ==
    ASSUME TypeOK
    PROVE  /\ Stored \subseteq Posts
           /\ \A p \in Posts : p \in Stored <=> images[p] \in {"stored", "deleted"}
           /\ images' = images => Stored' = Stored
    BY DEF Stored, TypeOK

LEMMA NewFormKnows ==
    ASSUME NEW there
    PROVE  NewForm \in Form /\ NewForm.id = Null /\ FormKnows(NewForm, there)
BY DEF NewForm, Form, FormKnows

LEMMA NoRequestKnows ==
    /\ NoRequest \in Request /\ NoRequest.at = "idle"
    /\ \A f, there : Knows(NoRequest, f, there)
<1>1. 0 \in 0..MaxAttempts
    BY BlogAssumption
<1> QED
    BY <1>1 DEF NoRequest, Request, Knows

LEMMA BlogInit == Init => BlogInv
<1> SUFFICES ASSUME Init PROVE BlogInv
    OBVIOUS
<1>1. TypeOK
    <2>1. posts \in [Posts -> Row \cup {NoRow, Deleted}]
        BY DEF Init
    <2>2. index \in [Posts -> Doc \cup {NoDoc}]
        BY DEF Init
    <2>3. form \in [Editors -> Form] /\ req \in [Editors -> Request]
        BY NewFormKnows, NoRequestKnows DEF Init
    <2>4. topic \in Seq(Event) /\ Len(topic) = 0
        BY DEF Init
    <2> QED
        BY <2>1, <2>2, <2>3, <2>4, BlogAssumption DEF Init, TypeOK
<1>2. EditorsKnow
    BY NewFormKnows, NoRequestKnows DEF Init, EditorsKnow
<1>3. \A p \in Posts : posts[p].state # "live" /\ ~posts[p].cover
    BY DEF Init, NoRow
<1>4. WasShown
    BY <1>3, NoRequestKnows DEF Init, WasShown, RowTold
<1>5. CoverExists /\ FoundWasLive /\ IndexHoldsLast
    BY <1>3 DEF Init, CoverExists, FoundWasLive, IndexHoldsLast
<1> QED
    BY <1>1, <1>2, <1>4, <1>5 DEF BlogInv

-----------------------------------------------------------------------------
(* Forms and requests *)

\* A form is opened, edited or gets an image; its request stays about the same post.
LEMMA FormTurns ==
    ASSUME BlogInv, NEW e \in Editors, NEW f \in Form, form' = [form EXCEPT ![e] = f],
           FormKnows(f, Stored'), req[e].at # "idle" => f.id = form[e].id,
           Stored \subseteq Stored', images' \in [Posts -> {"none", "stored", "deleted"}],
           requests' \in 0..MaxRequests,
           UNCHANGED <<up, posts, req, backlog, topic, lost, indexer, restarts, shown>>
    PROVE  BlogInv'
<1> USE DEF BlogInv, indexer
<1>1. TypeOK'
    BY DEF TypeOK
<1>2. \A d \in Editors : form'[d] = IF d = e THEN f ELSE form[d]
    BY DEF TypeOK
<1>0. \A p \in Stored : p \in Posts /\ images'[p] \in {"stored", "deleted"}
    <2>1. \A p \in Stored : p \in Posts /\ images'[p] # "none"
        BY DEF Stored
    <2> QED
        BY <2>1
<1>3. ASSUME NEW d \in Editors
      PROVE  (FormKnows(form[d], Stored) /\ Knows(req[d], form[d], Stored))'
    <2>1. FormKnows(form'[d], Stored')
        BY <1>2, <1>3 DEF EditorsKnow, FormKnows
    <2>2. req[d].at # "idle" => form'[d].id = form[d].id
        BY <1>2
    <2>3. Knows(req[d], form'[d], Stored')
        BY <2>2 DEF EditorsKnow, Knows
    <2> QED
        BY <2>1, <2>3
<1>4. EditorsKnow'
    BY <1>3 DEF EditorsKnow
<1>5. WasShown' /\ FoundWasLive'
    BY DEF WasShown, RowTold, EventTold, FoundWasLive
<1>7. CoverExists'
    BY <1>0, CoversStored DEF CoverExists
<1>6. IndexHoldsLast'
    BY DEF IndexHoldsLast, LastOfItsPost
<1> QED
    BY <1>1, <1>4, <1>5, <1>6, <1>7

\* A request begins, goes on or ends, and writes nothing.
LEMMA RequestTurns ==
    ASSUME BlogInv, NEW e \in Editors, NEW r \in Request, req' = [req EXCEPT ![e] = r],
           Knows(r, form[e], Stored), r.at # "event", requests' \in 0..MaxRequests,
           UNCHANGED <<up, posts, images, form, backlog, topic, lost, indexer, restarts, shown>>
    PROVE  BlogInv'
<1> USE DEF BlogInv, indexer
<1>1. TypeOK'
    BY DEF TypeOK
<1>2. \A d \in Editors : req'[d] = IF d = e THEN r ELSE req[d]
    BY DEF TypeOK
<1>3. EditorsKnow'
    BY <1>2, CoversStored DEF EditorsKnow
<1>4. WasShown'
    BY <1>2 DEF WasShown, RowTold, EventTold
<1>5. CoverExists' /\ FoundWasLive' /\ IndexHoldsLast'
    BY DEF CoverExists, FoundWasLive, IndexHoldsLast, LastOfItsPost
<1> QED
    BY <1>1, <1>3, <1>4, <1>5

\* A handler writes a row and keeps what it wrote.
LEMMA WrittenStep ==
    ASSUME BlogInv, NEW e \in Editors, NEW p \in Posts, NEW row \in Row, Written(e, p, row),
           req[e].at = "write", form[e].id \in {Null, p}, row.cover => p \in Stored
    PROVE  BlogInv'
<1> USE DEF BlogInv, indexer
<1>1. PICK r : r = [req[e] EXCEPT !.at = "event", !.id = p, !.row = row]
    OBVIOUS
<1>2. r \in Request /\ r.at = "event" /\ r.id = p /\ r.row = row /\ r.op = req[e].op
    BY ZenonT(60), <1>1 DEF TypeOK, Request
<1>3. /\ req' = [req EXCEPT ![e] = r] /\ posts' = [posts EXCEPT ![p] = row]
      /\ UNCHANGED <<up, images, form, requests, backlog, topic, lost, indexer, restarts>>
    BY <1>1 DEF Written, browser
<1>4. shown \subseteq shown' /\ shown' \subseteq Posts \X Slugs \X Texts /\ RowTold(p, row, shown')
    BY DEF Written, RowTold, TypeOK, Row
<1>5. TypeOK'
    BY <1>2, <1>3, <1>4 DEF TypeOK
<1>6. /\ \A d \in Editors : req'[d] = IF d = e THEN r ELSE req[d]
      /\ \A q \in Posts : posts'[q] = IF q = p THEN row ELSE posts[q]
    BY <1>3 DEF TypeOK
<1>7. EditorsKnow'
    <2>1. r.op \in Ops
        BY <1>2 DEF EditorsKnow, Knows
    <2>2. Knows(r, form[e], Stored)
        BY <1>2, <2>1 DEF Knows
    <2> QED
        BY <1>3, <1>6, <2>2, CoversStored DEF EditorsKnow
<1>8. WasShown'
    <2>1. \A q \in Posts : RowTold(q, posts'[q], shown')
        BY <1>4, <1>6 DEF WasShown, RowTold
    <2>2. \A d \in Editors : req'[d].at = "event" => RowTold(req'[d].id, req'[d].row, shown')
        BY <1>2, <1>4, <1>6 DEF WasShown, RowTold
    <2>3. /\ \A event \in backlog : EventTold(event, shown')
          /\ \A i \in 1..Len(topic) : EventTold(topic[i], shown')
        BY <1>4 DEF WasShown, EventTold
    <2> QED
        BY <1>3, <2>1, <2>2, <2>3 DEF WasShown
<1>9. CoverExists'
    BY <1>3, <1>6, CoversStored DEF CoverExists
<1>11. FoundWasLive'
    BY <1>3, <1>4 DEF FoundWasLive
<1>10. IndexHoldsLast'
    BY <1>3 DEF IndexHoldsLast, LastOfItsPost
<1> QED
    BY <1>5, <1>7, <1>8, <1>9, <1>10, <1>11
LEMMA FormSteps ==
    ASSUME BlogInv, NEW e \in Editors,
           \/ \E p \in Posts : Open(e, p)
           \/ New(e) \/ UploadCover(e) \/ PutCover(e) \/ FailCover(e) \/ RemoveCover(e)
    PROVE  BlogInv'
<1> USE DEF BlogInv
<1>1. form[e] \in Form /\ FormKnows(form[e], Stored)
      /\ images \in [Posts -> {"none", "stored", "deleted"}]
      /\ requests \in 0..MaxRequests /\ (images' = images => Stored' = Stored)
    BY CoversStored DEF TypeOK, EditorsKnow
<1>2. ASSUME NEW p \in Posts, Open(e, p) PROVE BlogInv'
    <2> DEFINE f == [id |-> p, cover |-> posts[p].cover, uploading |-> FALSE,
                     live |-> posts[p].state = "live", slug |-> Locked(posts[p])]
    <2>1. posts[p] \in Row
        BY <1>2 DEF Open, Exists, TypeOK, NoRow, Deleted
    <2>2. Locked(posts[p]) \in {0} \cup Slugs
        BY <2>1 DEF Locked, Row
    <2>3. f \in Form
        BY <2>1, <2>2 DEF Form, Row
    <2>4. f.id = p /\ (f.cover => p \in Stored)
        BY CoversStored DEF CoverExists
    <2>5. form' = [form EXCEPT ![e] = f] /\ req[e].at = "idle"
        BY <1>2 DEF Open
    <2> HIDE DEF f
    <2>6. FormKnows(f, Stored)
        BY <2>4, BlogAssumption DEF FormKnows
    <2>7. UNCHANGED <<up, posts, images, req, requests, backlog, topic, lost, indexer, restarts, shown>>
        BY <1>2 DEF Open
    <2> QED
        BY <1>1, <2>3, <2>5, <2>6, <2>7, FormTurns
<1>3. CASE New(e)
    BY <1>1, <1>3, NewFormKnows, FormTurns DEF New
<1>4. CASE UploadCover(e)
    <2>1. PICK f : f = [form[e] EXCEPT !.uploading = TRUE]
        OBVIOUS
    <2>2. f \in Form /\ f.id = form[e].id /\ f.cover = form[e].cover
        BY <1>1, <2>1 DEF Form
    <2>3. form' = [form EXCEPT ![e] = f] /\ form[e].id # Null
        BY <1>4, <2>1 DEF UploadCover
    <2>4. FormKnows(f, Stored)
        BY <1>1, <2>2, <2>3 DEF FormKnows
    <2>5. requests' \in 0..MaxRequests
        <3>1. requests < MaxRequests /\ requests' = requests + 1
            BY <1>4 DEF UploadCover
        <3> QED
            BY <1>1, <3>1, BlogAssumption
    <2>6. UNCHANGED <<up, posts, images, req, backlog, topic, lost, indexer, restarts, shown>>
        BY <1>4 DEF UploadCover
    <2> QED
        BY <1>1, <2>2, <2>3, <2>4, <2>5, <2>6, FormTurns
<1>5. CASE PutCover(e)
    <2>1. PICK f : f = [form[e] EXCEPT !.uploading = FALSE, !.cover = TRUE]
        OBVIOUS
    <2>2. f \in Form /\ f.id = form[e].id
        BY <1>1, <2>1 DEF Form
    <2>3. form' = [form EXCEPT ![e] = f] /\ images' = [images EXCEPT ![f.id] = "stored"]
        BY <1>5, <2>1, <2>2 DEF PutCover
    <2>4. f.id # Null /\ f.id \in Posts
        BY <1>1, <1>5, <2>2 DEF PutCover, FormKnows, Form
    <2>7. /\ Stored \subseteq Stored' /\ f.id \in Stored'
          /\ images' \in [Posts -> {"none", "stored", "deleted"}]
        BY <1>1, <2>3, <2>4 DEF Stored
    <2>5. FormKnows(f, Stored')
        BY <2>4, <2>7 DEF FormKnows
    <2>6. UNCHANGED <<up, posts, req, requests, backlog, topic, lost, indexer, restarts, shown>>
        BY <1>5 DEF PutCover
    <2> QED
        BY <1>1, <2>2, <2>3, <2>5, <2>6, <2>7, FormTurns
<1>6. CASE FailCover(e)
    <2>1. PICK f : f = [form[e] EXCEPT !.uploading = FALSE]
        OBVIOUS
    <2>2. f \in Form /\ f.id = form[e].id /\ f.cover = form[e].cover /\ ~f.uploading
        BY <1>1, <2>1 DEF Form
    <2>3. form' = [form EXCEPT ![e] = f]
        BY <1>6, <2>1 DEF FailCover
    <2>4. FormKnows(f, Stored)
        BY <1>1, <2>2 DEF FormKnows
    <2>5. UNCHANGED <<up, posts, images, req, requests, backlog, topic, lost, indexer, restarts, shown>>
        BY <1>6 DEF FailCover
    <2> QED
        BY <1>1, <2>2, <2>3, <2>4, <2>5, FormTurns
<1>7. CASE RemoveCover(e)
    <2>1. PICK f : f = [form[e] EXCEPT !.cover = FALSE]
        OBVIOUS
    <2>2. f \in Form /\ f.id = form[e].id /\ ~f.cover /\ f.uploading = form[e].uploading
        BY <1>1, <2>1 DEF Form
    <2>3. form' = [form EXCEPT ![e] = f]
        BY <1>7, <2>1 DEF RemoveCover
    <2>4. FormKnows(f, Stored)
        BY <1>1, <2>2 DEF FormKnows
    <2>5. UNCHANGED <<up, posts, images, req, requests, backlog, topic, lost, indexer, restarts, shown>>
        BY <1>7 DEF RemoveCover
    <2> QED
        BY <1>1, <2>2, <2>3, <2>4, <2>5, FormTurns
<1> QED
    BY <1>2, <1>3, <1>4, <1>5, <1>6, <1>7

\* An image is deleted, whatever refers to it.
LEMMA ImageStep ==
    ASSUME BlogInv, NEW p \in Posts, DeleteImage(p)
    PROVE  BlogInv'
<1> USE DEF BlogInv, indexer
<1>1. /\ images' = [images EXCEPT ![p] = "deleted"] /\ images[p] = "stored"
      /\ requests < MaxRequests /\ requests' = requests + 1
      /\ UNCHANGED <<up, posts, form, req, backlog, topic, lost, indexer, restarts, shown>>
    BY DEF DeleteImage
<1>2. requests' \in 0..MaxRequests
    BY <1>1, BlogAssumption DEF TypeOK
<1>3. images' \in [Posts -> {"none", "stored", "deleted"}] /\ Stored' = Stored
    BY <1>1 DEF TypeOK, Stored
<1>4. TypeOK'
    BY <1>1, <1>2, <1>3 DEF TypeOK
<1>5. EditorsKnow' /\ WasShown' /\ FoundWasLive'
    BY <1>1, <1>3 DEF EditorsKnow, WasShown, FoundWasLive
<1>6. CoverExists'
    BY <1>1 DEF CoverExists, TypeOK
<1>7. IndexHoldsLast'
    BY <1>1 DEF IndexHoldsLast, LastOfItsPost
<1> QED
    BY <1>4, <1>5, <1>6, <1>7

LEMMA Sent ==
    ASSUME BlogInv, NEW e \in Editors, NEW r \in Request, Send(e, r),
           Knows(r, form[e], Stored), r.at # "event"
    PROVE  BlogInv'
<1>1. requests \in 0..MaxRequests /\ requests < MaxRequests /\ requests' = requests + 1
    BY DEF BlogInv, TypeOK, Send
<1>2. requests' \in 0..MaxRequests
    BY <1>1, BlogAssumption
<1>3. /\ req' = [req EXCEPT ![e] = r]
      /\ UNCHANGED <<up, posts, images, form, backlog, topic, lost, indexer, restarts, shown>>
    BY DEF Send
<1> QED
    BY <1>2, <1>3, RequestTurns

LEMMA RequestSteps ==
    ASSUME BlogInv, NEW e \in Editors,
           \/ Save(e) \/ TogglePublish(e) \/ Delete(e)
           \/ ReadPost(e) \/ RetryInsert(e) \/ FailRequest(e)
    PROVE  BlogInv'
<1> USE DEF BlogInv
<1>1. /\ form[e] \in Form /\ FormKnows(form[e], Stored) /\ requests \in 0..MaxRequests
      /\ req[e] \in Request /\ Knows(req[e], form[e], Stored)
    BY DEF TypeOK, EditorsKnow
<1>2. NoRow \in Row \cup {NoRow} /\ Slugs \subseteq 0..MaxAttempts /\ 0 \in 0..MaxAttempts
    BY BlogAssumption DEF Slugs
<1>3. CASE Save(e)
    <2>1. PICK text \in Texts, slug \in Slugs :
            Send(e, [NoRequest EXCEPT !.op = IF form[e].id = Null THEN "create" ELSE "update",
                        !.at = IF form[e].id = Null THEN "write" ELSE "read",
                        !.id = form[e].id, !.slug = slug, !.text = text, !.cover = form[e].cover])
        BY <1>3 DEF Save
    <2> DEFINE r == [NoRequest EXCEPT !.op = IF form[e].id = Null THEN "create" ELSE "update",
                        !.at = IF form[e].id = Null THEN "write" ELSE "read",
                        !.id = form[e].id, !.slug = slug, !.text = text, !.cover = form[e].cover]
    <2>2. form[e].id \in Posts \cup {Null} /\ form[e].cover \in BOOLEAN
        BY <1>1 DEF Form
    <2>3. slug \in 0..MaxAttempts
        BY <1>2
    <2>4. r \in Request
        BY <1>2, <2>2, <2>3 DEF NoRequest, Request, Ops
    <2>5. /\ r.op = IF form[e].id = Null THEN "create" ELSE "update"
          /\ r.at = IF form[e].id = Null THEN "write" ELSE "read"
          /\ r.id = form[e].id /\ r.slug = slug /\ r.text = text /\ r.cover = form[e].cover
        BY DEF NoRequest
    <2> HIDE DEF r
    <2>6. Knows(r, form[e], Stored)
        BY <1>1, <2>2, <2>5 DEF Knows, FormKnows, Ops
    <2>7. r.at # "event" /\ Send(e, r)
        BY <2>1, <2>5 DEF r
    <2> QED
        BY <2>4, <2>6, <2>7, Sent
<1>4. ASSUME NEW op \in {"publish", "unpublish", "delete"}, form[e].id # Null,
             Send(e, [NoRequest EXCEPT !.op = op, !.at = "read", !.id = form[e].id])
      PROVE  BlogInv'
    <2> DEFINE r == [NoRequest EXCEPT !.op = op, !.at = "read", !.id = form[e].id]
    <2>1. form[e].id \in Posts
        BY <1>1, <1>4 DEF Form
    <2>2. r \in Request
        BY <1>2, <2>1 DEF NoRequest, Request, Ops
    <2>3. r.op = op /\ r.at = "read" /\ r.id = form[e].id
        BY DEF NoRequest
    <2>4. Send(e, r)
        BY <1>4
    <2> HIDE DEF r
    <2>5. Knows(r, form[e], Stored)
        BY <2>1, <2>3 DEF Knows, Ops
    <2> QED
        BY <2>2, <2>3, <2>4, <2>5, Sent
<1>5. CASE TogglePublish(e)
    <2>1. CASE form[e].live
        BY <1>4, <1>5, <2>1 DEF TogglePublish
    <2>2. CASE ~form[e].live
        BY <1>4, <1>5, <2>2 DEF TogglePublish
    <2> QED
        BY <2>1, <2>2
<1>6. CASE Delete(e)
    BY <1>4, <1>6 DEF Delete
<1>7. CASE ReadPost(e)
    <2>1. PICK r : r = [req[e] EXCEPT !.at = "write"]
        OBVIOUS
    <2>2. r \in Request /\ r.at = "write" /\ req[e].at = "read"
        BY <1>1, <1>7, <2>1 DEF Request, ReadPost
    <2>3. /\ r.op = req[e].op /\ r.id = req[e].id /\ r.slug = req[e].slug
          /\ r.text = req[e].text /\ r.cover = req[e].cover
        BY <1>1, <2>1 DEF Request
    <2>4. Knows(r, form[e], Stored)
        BY <1>1, <2>2, <2>3 DEF Knows
    <2>5. /\ req' = [req EXCEPT ![e] = r]
          /\ UNCHANGED <<up, posts, images, form, requests, backlog, topic, lost, indexer, restarts, shown>>
        BY <1>7, <2>1 DEF ReadPost, browser
    <2> QED
        BY <1>1, <2>2, <2>4, <2>5, RequestTurns
<1>8. CASE RetryInsert(e)
    <2>1. PICK r : r = [req[e] EXCEPT !.slug = req[e].slug + 1]
        OBVIOUS
    <2>2. req[e].at = "write" /\ req[e].op = "create" /\ req[e].slug < MaxAttempts
        BY <1>8 DEF RetryInsert
    <2>3. req[e].slug \in Slugs
        BY <1>1, <2>2 DEF Knows
    <2>4. req[e].slug + 1 \in Slugs
        BY <2>2, <2>3, BlogAssumption DEF Slugs
    <2>5. req[e].slug + 1 \in 0..MaxAttempts
        BY <1>2, <2>4
    <2>6. r \in Request /\ r.slug = req[e].slug + 1
        BY <1>1, <2>1, <2>5 DEF Request
    <2>7. /\ r.op = req[e].op /\ r.id = req[e].id /\ r.at = req[e].at
          /\ r.text = req[e].text /\ r.cover = req[e].cover
        BY <1>1, <2>1 DEF Request
    <2>8. Knows(r, form[e], Stored)
        BY <1>1, <2>2, <2>4, <2>6, <2>7 DEF Knows
    <2>9. /\ req' = [req EXCEPT ![e] = r]
          /\ UNCHANGED <<up, posts, images, form, requests, backlog, topic, lost, indexer, restarts, shown>>
        BY <1>8, <2>1 DEF RetryInsert, browser
    <2> QED
        BY <1>1, <2>2, <2>6, <2>7, <2>8, <2>9, RequestTurns
<1>9. CASE FailRequest(e)
    BY <1>1, <1>9, NoRequestKnows, RequestTurns DEF FailRequest, browser
<1> QED
    BY <1>3, <1>5, <1>6, <1>7, <1>8, <1>9
-----------------------------------------------------------------------------
(* Writes and events *)

LEMMA WriteSteps ==
    ASSUME BlogInv, NEW e \in Editors,
           InsertPost(e) \/ UpdatePost(e) \/ PublishPost(e) \/ UnpublishPost(e)
    PROVE  \E p \in Posts, row \in Row :
            /\ Written(e, p, row)
            /\ req[e].at = "write" /\ form[e].id \in {Null, p} /\ (row.cover => p \in Stored)
<1> USE DEF BlogInv
<1>1. /\ req[e] \in Request /\ req[e].at = "write" /\ Knows(req[e], form[e], Stored)
      /\ req[e].cover \in BOOLEAN
    BY DEF TypeOK, EditorsKnow, InsertPost, UpdatePost, PublishPost, UnpublishPost, Request
<1>2. CASE InsertPost(e)
    <2> DEFINE row == [state |-> "draft", slug |-> req[e].slug, text |-> req[e].text,
                       cover |-> req[e].cover]
    <2>1. PICK p \in Posts : Written(e, p, row)
        BY <1>2 DEF InsertPost
    <2>2. /\ form[e].id = Null /\ ~req[e].cover /\ req[e].slug \in Slugs /\ req[e].text \in Texts
        BY <1>1, <1>2 DEF InsertPost, Knows
    <2>3. row \in Row /\ ~row.cover
        BY <1>1, <2>2 DEF Row
    <2> HIDE DEF row
    <2> QED
        BY <1>1, <2>1, <2>2, <2>3
<1>3. CASE UpdatePost(e)
    <2>1. PICK p \in Posts : p = req[e].id /\ form[e].id = p
        BY <1>1, <1>3 DEF UpdatePost, Knows
    <2>2. posts[p] \in Row
        BY <1>3, <2>1 DEF UpdatePost, Exists, TypeOK, NoRow, Deleted
    <2>3. /\ req[e].slug \in Slugs /\ req[e].text \in Texts /\ (req[e].cover => p \in Stored)
        BY <1>1, <1>3, <2>1 DEF UpdatePost, Knows
    <2>4. PICK row : row = [posts[p] EXCEPT !.slug = req[e].slug, !.text = req[e].text,
                                            !.cover = req[e].cover]
        OBVIOUS
    <2>5. row \in Row /\ row.cover = req[e].cover
        BY <1>1, <2>2, <2>3, <2>4 DEF Row
    <2>6. Written(e, p, row)
        BY <1>3, <2>1, <2>4 DEF UpdatePost
    <2> QED
        BY <1>1, <2>1, <2>3, <2>5, <2>6
<1>4. ASSUME NEW state \in {"draft", "live"}, req[e].id \in Posts, form[e].id = req[e].id,
             posts[req[e].id].state \in {"draft", "live"},
             Written(e, req[e].id, [posts[req[e].id] EXCEPT !.state = state])
      PROVE  \E p \in Posts, row \in Row :
                /\ Written(e, p, row)
                /\ form[e].id \in {Null, p} /\ (row.cover => p \in Stored)
    <2>1. PICK p \in Posts : p = req[e].id
        BY <1>4
    <2>2. posts[p] \in Row
        BY <1>4, <2>1 DEF TypeOK, NoRow, Deleted
    <2>3. PICK row : row = [posts[p] EXCEPT !.state = state]
        OBVIOUS
    <2>4. row \in Row /\ row.cover = posts[p].cover
        BY <2>2, <2>3 DEF Row
    <2>5. Written(e, p, row)
        BY <1>4, <2>1, <2>3
    <2>6. row.cover => p \in Stored
        BY <2>4, CoversStored DEF CoverExists
    <2> QED
        BY <1>4, <2>1, <2>4, <2>5, <2>6
<1>5. CASE PublishPost(e) \/ UnpublishPost(e)
    <2>1. req[e].id \in Posts /\ form[e].id = req[e].id
        BY <1>1, <1>5 DEF PublishPost, UnpublishPost, Knows
    <2>2. CASE PublishPost(e)
        BY <1>1, <1>4, <2>1, <2>2 DEF PublishPost
    <2>3. CASE UnpublishPost(e)
        BY <1>1, <1>4, <2>1, <2>3 DEF UnpublishPost
    <2> QED
        BY <1>5, <2>2, <2>3
<1> QED
    BY <1>2, <1>3, <1>5

LEMMA DeleteStep ==
    ASSUME BlogInv, NEW e \in Editors, DeletePost(e)
    PROVE  BlogInv'
<1> USE DEF BlogInv, indexer
<1>1. PICK p \in Posts : p = req[e].id
    BY DEF EditorsKnow, Knows, DeletePost
<1>2. PICK row : row = Removed(posts[p])
    OBVIOUS
<1>3. /\ posts' = [posts EXCEPT ![p] = row] /\ req' = [req EXCEPT ![e] = NoRequest]
      /\ form' = [form EXCEPT ![e] = NewForm]
      /\ UNCHANGED <<up, images, requests, backlog, topic, lost, indexer, restarts, shown>>
    BY <1>1, <1>2 DEF DeletePost
<1>4. /\ row \in Row \cup {NoRow, Deleted} /\ (row = posts[p] \/ row = Deleted)
    BY <1>2 DEF TypeOK, Removed
<1>5. Deleted.state # "live" /\ ~Deleted.cover
    BY DEF Deleted, NoRow
<1>6. /\ \A d \in Editors : /\ form'[d] = IF d = e THEN NewForm ELSE form[d]
                            /\ req'[d] = IF d = e THEN NoRequest ELSE req[d]
      /\ \A q \in Posts : posts'[q] = IF q = p THEN row ELSE posts[q]
    BY <1>3 DEF TypeOK
<1>7. TypeOK'
    BY <1>3, <1>4, NewFormKnows, NoRequestKnows DEF TypeOK
<1>8. EditorsKnow'
    BY <1>3, <1>6, NewFormKnows, NoRequestKnows, CoversStored DEF EditorsKnow
<1>9. WasShown'
    BY SMTT(60), <1>3, <1>4, <1>5, <1>6, NoRequestKnows DEF WasShown, RowTold, EventTold
<1>10. CoverExists' /\ FoundWasLive'
    BY <1>3, <1>4, <1>5, <1>6 DEF CoverExists, FoundWasLive
<1>11. IndexHoldsLast'
    BY <1>3 DEF IndexHoldsLast, LastOfItsPost
<1> QED
    BY <1>7, <1>8, <1>9, <1>10, <1>11

LEMMA Appended ==
    ASSUME TypeOK, NEW event \in Event, topic' = Append(topic, event)
    PROVE  /\ topic' \in Seq(Event) /\ Len(topic) \in Nat /\ Len(topic') = Len(topic) + 1
           /\ \A i \in 1..Len(topic) : topic'[i] = topic[i]
           /\ topic'[Len(topic) + 1] = event
<1>1. topic \in Seq(Event)
    BY DEF TypeOK
<1> QED
    BY <1>1

\* An event that tells what was shown is published, or lost.
LEMMA TopicGrows ==
    ASSUME BlogInv, NEW event \in Event, EventTold(event, shown),
           topic' \in {topic, Append(topic, event)}, UNCHANGED <<indexer, shown>>
    PROVE  /\ topic' \in Seq(Event) /\ position \in 0..Len(topic') /\ failed \cup dropped \subseteq 1..Len(topic')
           /\ \A i \in 1..Len(topic') : EventTold(topic'[i], shown)
           /\ IndexHoldsLast'
<1> USE DEF BlogInv, indexer
<1>1. /\ position \in 0..Len(topic) /\ failed \cup dropped \subseteq 1..Len(topic)
      /\ Len(topic) \in Nat
    BY DEF TypeOK
<1>2. CASE topic' = topic
    BY <1>1, <1>2 DEF TypeOK, WasShown, IndexHoldsLast, LastOfItsPost
<1>3. CASE topic' = Append(topic, event)
    <2>1. /\ topic' \in Seq(Event) /\ Len(topic') = Len(topic) + 1
          /\ \A i \in 1..Len(topic) : topic'[i] = topic[i]
          /\ topic'[Len(topic) + 1] = event
        BY <1>3, Appended
    <2>2. position \in 0..Len(topic') /\ failed \cup dropped \subseteq 1..Len(topic')
        BY <1>1, <2>1
    <2>3. \A i \in 1..Len(topic') : i \in 1..Len(topic) \/ i = Len(topic) + 1
        BY <1>1, <2>1
    <2>4. \A i \in 1..Len(topic') : EventTold(topic'[i], shown)
        BY <2>1, <2>3 DEF WasShown, EventTold
    <2>5. \A i \in 1..position : i \in 1..Len(topic) /\ topic'[i] = topic[i]
        BY <1>1, <2>1
    <2>6. \A i \in 1..position : LastOfItsPost(i)' => LastOfItsPost(i)
        <3> SUFFICES ASSUME NEW i \in 1..position, LastOfItsPost(i)', NEW j \in i + 1 .. Len(topic)
                     PROVE  topic[j].id # topic[i].id
            BY DEF LastOfItsPost
        <3>1. j \in 1..Len(topic) /\ j \in i + 1 .. Len(topic')
            BY <1>1, <2>1
        <3>2. topic'[j] = topic[j] /\ topic'[i] = topic[i]
            BY <2>1, <2>5, <3>1
        <3> QED
            BY <3>1, <3>2 DEF LastOfItsPost
    <2>7. IndexHoldsLast'
        BY <2>5, <2>6 DEF IndexHoldsLast
    <2> QED
        BY <2>1, <2>2, <2>4, <2>7
<1> QED
    BY <1>2, <1>3

\* The event of a row tells of it.
LEMMA EventOf ==
    ASSUME NEW p \in Posts, NEW row \in Row, NEW was, RowTold(p, row, was)
    PROVE  PostToEvent(p, row) \in Event /\ EventTold(PostToEvent(p, row), was)
<1>1. PostToEvent(p, row) \in Event
    BY DEF PostToEvent, Event, Row
<1>2. EventTold(PostToEvent(p, row), was)
    BY DEF PostToEvent, EventTold, RowTold
<1> QED
    BY <1>1, <1>2

LEMMA EventStep ==
    ASSUME BlogInv, NEW e \in Editors, PublishPostEvent(e)
    PROVE  BlogInv'
<1> USE DEF BlogInv, indexer
<1>1. /\ req[e].id \in Posts /\ req[e].row \in Row /\ req[e].at = "event"
      /\ form[e].id \in {Null, req[e].id} /\ form[e] \in Form /\ FormKnows(form[e], Stored)
      /\ RowTold(req[e].id, req[e].row, shown)
    BY DEF EditorsKnow, Knows, PublishPostEvent, TypeOK, WasShown
<1>2. PICK event : event = PostToEvent(req[e].id, req[e].row)
    OBVIOUS
<1>3. event \in Event /\ EventTold(event, shown)
    BY <1>1, <1>2, EventOf
<1>4. /\ topic' \in {topic, Append(topic, event)} /\ req' = [req EXCEPT ![e] = NoRequest]
      /\ lost' \subseteq lost \cup {req[e].id}
      /\ UNCHANGED <<up, posts, images, requests, backlog, indexer, restarts, shown>>
    BY <1>2 DEF PublishPostEvent
<1>5. PICK slug : /\ slug \in IF req[e].op = "publish" THEN Slugs ELSE {Locked(req[e].row)}
                  /\ form' = [form EXCEPT ![e] = [form[e] EXCEPT !.id = req[e].id, !.slug = slug,
                                                   !.live = req[e].row.state = "live"]]
    BY DEF PublishPostEvent
<1>6. slug \in {0} \cup Slugs
    BY <1>1, <1>5 DEF Locked, Row
<1>7. PICK f : f = [form[e] EXCEPT !.id = req[e].id, !.slug = slug, !.live = req[e].row.state = "live"]
    OBVIOUS
<1>8. f \in Form /\ f.id = req[e].id /\ f.cover = form[e].cover /\ f.uploading = form[e].uploading
    BY <1>1, <1>6, <1>7 DEF Form
<1>9. form' = [form EXCEPT ![e] = f]
    BY <1>5, <1>7
<1>10. FormKnows(f, Stored)
    BY <1>1, <1>8, BlogAssumption DEF FormKnows
<1>11. /\ topic' \in Seq(Event) /\ position \in 0..Len(topic') /\ failed \cup dropped \subseteq 1..Len(topic')
       /\ \A i \in 1..Len(topic') : EventTold(topic'[i], shown)
       /\ IndexHoldsLast'
    BY <1>3, <1>4, TopicGrows
<1>12. TypeOK'
    <2>1. dropped \subseteq 1..Len(topic') /\ failed \subseteq 1..Len(topic') /\ lost' \subseteq Posts
        BY <1>1, <1>4, <1>11 DEF TypeOK
    <2>2. form' \in [Editors -> Form] /\ req' \in [Editors -> Request]
        BY <1>4, <1>8, <1>9, NoRequestKnows DEF TypeOK
    <2> QED
        BY <1>4, <1>11, <2>1, <2>2 DEF TypeOK
<1>13. \A d \in Editors : /\ form'[d] = IF d = e THEN f ELSE form[d]
                          /\ req'[d] = IF d = e THEN NoRequest ELSE req[d]
    BY <1>4, <1>9 DEF TypeOK
<1>14. EditorsKnow'
    BY <1>4, <1>10, <1>13, NoRequestKnows, CoversStored DEF EditorsKnow
<1>15. WasShown'
    BY <1>4, <1>11, <1>13, NoRequestKnows DEF WasShown
<1>16. CoverExists' /\ FoundWasLive'
    BY <1>4 DEF CoverExists, FoundWasLive
<1> QED
    BY <1>11, <1>12, <1>14, <1>15, <1>16

LEMMA BootSteps ==
    ASSUME BlogInv, RestartBlog \/ Reindex
    PROVE  BlogInv'
<1> USE DEF BlogInv, indexer
<1>1. CASE RestartBlog
    <2>1. /\ req' = [e \in Editors |-> NoRequest] /\ restarts < MaxRestarts /\ restarts' = restarts + 1
          /\ backlog' = {PostToEvent(p, posts[p]) : p \in {q \in Posts : posts[q].state = "live"}}
          /\ lost' = lost \cup {req[e].id : e \in {d \in Editors : req[d].at = "event"}}
          /\ UNCHANGED <<up, posts, images, form, requests, topic, indexer, shown>>
        BY <1>1 DEF RestartBlog, browser
    <2>2. restarts' \in 0..MaxRestarts
        <3>1. restarts \in 0..MaxRestarts
            BY DEF TypeOK
        <3> QED
            BY <2>1, <3>1, BlogAssumption
    <2>3. \A event \in backlog' : event \in Event /\ EventTold(event, shown)
        <3> SUFFICES ASSUME NEW p \in Posts, posts[p].state = "live"
                     PROVE  /\ PostToEvent(p, posts[p]) \in Event
                            /\ EventTold(PostToEvent(p, posts[p]), shown)
            BY <2>1
        <3>1. posts[p] \in Row /\ RowTold(p, posts[p], shown)
            BY DEF TypeOK, NoRow, Deleted, WasShown
        <3> QED
            BY <3>1, EventOf
    <2>4. TypeOK'
        <3>1. backlog' \subseteq Event
            BY <2>3
        <3>4. lost' \subseteq Posts
            BY <2>1 DEF TypeOK, EditorsKnow, Knows
        <3> HIDE DEF BlogInv
        <3>2. TypeOK
            BY DEF BlogInv
        <3>3. req' \in [Editors -> Request]
            BY <2>1, NoRequestKnows
        <3> QED
            BY <2>1, <2>2, <3>1, <3>2, <3>3, <3>4 DEF TypeOK
    <2>5. EditorsKnow'
        BY <2>1, NoRequestKnows, CoversStored DEF EditorsKnow
    <2>6. WasShown'
        BY <2>1, <2>3, NoRequestKnows DEF WasShown
    <2>7. CoverExists' /\ FoundWasLive' /\ IndexHoldsLast'
        BY <2>1 DEF CoverExists, FoundWasLive, IndexHoldsLast, LastOfItsPost
    <2> QED
        BY <2>4, <2>5, <2>6, <2>7
<1>2. CASE Reindex
    <2>1. PICK event \in backlog :
            /\ backlog' = backlog \ {event} /\ topic' \in {topic, Append(topic, event)}
            /\ UNCHANGED <<up, posts, images, form, requests, req, lost, indexer, restarts, shown>>
        BY <1>2 DEF Reindex, browser
    <2>2. event \in Event /\ EventTold(event, shown)
        BY DEF TypeOK, WasShown
    <2>3. /\ topic' \in Seq(Event) /\ position \in 0..Len(topic') /\ failed \cup dropped \subseteq 1..Len(topic')
          /\ \A i \in 1..Len(topic') : EventTold(topic'[i], shown)
          /\ IndexHoldsLast'
        BY <2>1, <2>2, TopicGrows
    <2>4. TypeOK'
        BY <2>1, <2>3 DEF TypeOK
    <2>5. EditorsKnow' /\ WasShown'
        BY <2>1, <2>3, CoversStored DEF EditorsKnow, WasShown
    <2>6. CoverExists' /\ FoundWasLive'
        BY <2>1 DEF CoverExists, FoundWasLive
    <2> QED
        BY <2>3, <2>4, <2>5, <2>6
<1> QED
    BY <1>1, <1>2
-----------------------------------------------------------------------------
(* The index *)

\* The indexer steps back, or counts an event it did not index.
LEMMA OffsetsMove ==
    ASSUME BlogInv, position' \in 0..Len(topic), committed' \in 0..position',
           failed \subseteq failed', failed' \subseteq 1..Len(topic), restarts' \in 0..MaxRestarts,
           dropped \subseteq dropped', dropped' \subseteq 1..Len(topic),
           \A i \in 1..position' : i \in 1..position \/ i \in failed' \cup dropped',
           UNCHANGED <<up, posts, images, browser, req, backlog, topic, lost, index, shown>>
    PROVE  BlogInv'
<1> USE DEF BlogInv, browser
<1>1. TypeOK'
    BY DEF TypeOK
<1>2. EditorsKnow' /\ CoverExists' /\ FoundWasLive'
    BY CoversStored DEF EditorsKnow, CoverExists, FoundWasLive
<1>3. WasShown'
    BY DEF WasShown
<1>4. IndexHoldsLast'
    BY DEF IndexHoldsLast, LastOfItsPost
<1> QED
    BY <1>1, <1>2, <1>3, <1>4

LEMMA OffsetSteps ==
    ASSUME BlogInv, SkipPostEvent \/ DropPostEvent \/ CommitIndexer \/ RestartIndexer
    PROVE  BlogInv'
<1>1. /\ position \in 0..Len(topic) /\ committed \in 0..position /\ Len(topic) \in Nat
      /\ failed \subseteq 1..Len(topic) /\ dropped \subseteq 1..Len(topic)
      /\ restarts \in 0..MaxRestarts
    BY DEF BlogInv, TypeOK
<1>2. CASE SkipPostEvent
    <2>1. position < Len(topic) /\ position' = position + 1 /\ committed' = position + 1
          /\ failed' = failed \cup {position + 1}
          /\ UNCHANGED <<up, posts, images, browser, req, backlog, topic, lost, dropped, index,
                         restarts, shown>>
        BY <1>2 DEF SkipPostEvent, HasMessage
    <2>2. /\ position' \in 0..Len(topic) /\ committed' \in 0..position'
          /\ position + 1 \in 1..Len(topic)
          /\ \A i \in 1..position' : i \in 1..position \/ i = position + 1
        BY <1>1, <2>1
    <2> QED
        BY <1>1, <2>1, <2>2, OffsetsMove
<1>3. CASE CommitIndexer
    <2>1. committed' = position
          /\ UNCHANGED <<up, posts, images, browser, req, backlog, topic, lost, position, failed,
                         dropped, index, restarts, shown>>
        BY <1>3 DEF CommitIndexer
    <2>2. committed' \in 0..position'
        BY <1>1, <2>1
    <2> QED
        BY <1>1, <2>1, <2>2, OffsetsMove
<1>4. CASE RestartIndexer
    <2>1. position' = committed /\ restarts < MaxRestarts /\ restarts' = restarts + 1
          /\ UNCHANGED <<up, posts, images, browser, req, backlog, topic, lost, committed, failed,
                         dropped, index, shown>>
        BY <1>4 DEF RestartIndexer
    <2>2. /\ position' \in 0..Len(topic) /\ committed' \in 0..position'
          /\ \A i \in 1..position' : i \in 1..position
        BY <1>1, <2>1
    <2>3. restarts' \in 0..MaxRestarts
        BY <1>1, <2>1, BlogAssumption
    <2> QED
        BY <1>1, <2>1, <2>2, <2>3, OffsetsMove
<1>5. CASE DropPostEvent
    <2>1. position < Len(topic) /\ position' = position + 1 /\ committed' = position + 1
          /\ dropped' = dropped \cup {position + 1} /\ restarts < MaxRestarts
          /\ restarts' = restarts + 1
          /\ UNCHANGED <<up, posts, images, browser, req, backlog, topic, lost, failed, index, shown>>
        BY <1>5 DEF DropPostEvent, HasMessage
    <2>2. /\ position' \in 0..Len(topic) /\ committed' \in 0..position'
          /\ position + 1 \in 1..Len(topic)
          /\ \A i \in 1..position' : i \in 1..position \/ i = position + 1
        BY <1>1, <2>1
    <2>3. restarts' \in 0..MaxRestarts
        BY <1>1, <2>1, BlogAssumption
    <2> QED
        BY <1>1, <2>1, <2>2, <2>3, OffsetsMove
<1> QED
    BY <1>2, <1>3, <1>4, <1>5

LEMMA IndexStep ==
    ASSUME BlogInv, IndexPostEvent
    PROVE  BlogInv'
<1> USE DEF BlogInv, browser
<1>1. /\ position \in 0..Len(topic) /\ Len(topic) \in Nat /\ position < Len(topic)
      /\ committed \in 0..position
    BY DEF TypeOK, IndexPostEvent, HasMessage
<1>2. PICK k : k = position + 1
    OBVIOUS
<1>3. k \in 1..Len(topic) /\ k \in Nat
    BY <1>1, <1>2
<1>4. PICK event \in Event : event = topic[k]
    <2>1. topic \in Seq(Event)
        BY DEF TypeOK
    <2> QED
        BY <1>3, <2>1
<1>5. /\ index' = [index EXCEPT ![event.id] = DocOf(event)] /\ position' = k
      /\ UNCHANGED <<up, posts, images, form, requests, req, backlog, topic, lost, committed,
                     failed, dropped, restarts, shown>>
    BY <1>2, <1>4 DEF IndexPostEvent
<1>6. event.id \in Posts /\ DocOf(event) \in Doc \cup {NoDoc}
    BY DEF Event, DocOf, Doc
<1>7. \A p \in Posts : index'[p] = IF p = event.id THEN DocOf(event) ELSE index[p]
    BY <1>5, <1>6 DEF TypeOK
<1>8. position' \in 0..Len(topic) /\ committed \in 0..position'
    BY <1>1, <1>2, <1>5
<1>9. TypeOK'
    BY <1>5, <1>6, <1>8 DEF TypeOK
<1>10. EditorsKnow' /\ CoverExists' /\ WasShown'
    BY <1>5, CoversStored DEF EditorsKnow, CoverExists, WasShown
<1>11. FoundWasLive'
    <2>1. EventTold(event, shown)
        BY <1>3, <1>4 DEF WasShown
    <2>2. DocOf(event) # NoDoc =>
            <<event.id, DocOf(event).slug, DocOf(event).text>> \in shown
        <3>1. CASE event.published
            <4>1. DocOf(event).slug = event.slug /\ DocOf(event).text = event.text
                BY <3>1 DEF DocOf
            <4> QED
                BY <2>1, <3>1, <4>1 DEF EventTold
        <3>2. CASE ~event.published
            BY <3>2 DEF DocOf
        <3> QED
            BY <3>1, <3>2
    <2> QED
        BY <1>5, <1>7, <2>2 DEF FoundWasLive
<1>12. IndexHoldsLast'
    <2> SUFFICES ASSUME NEW i \in 1..k, LastOfItsPost(i), i \notin failed \cup dropped
                 PROVE  index'[topic[i].id] = DocOf(topic[i])
        BY <1>5 DEF IndexHoldsLast, LastOfItsPost
    <2>1. CASE i = k
        BY <1>4, <1>6, <1>7, <2>1
    <2>2. CASE i # k
        <3>1. i \in 1..position /\ k \in i + 1 .. Len(topic) /\ i \in 1..Len(topic)
            BY <1>1, <1>2, <1>3, <2>2
        <3>2. event.id # topic[i].id
            BY <1>4, <3>1 DEF LastOfItsPost
        <3>3. topic[i].id \in Posts
            <4>1. topic \in Seq(Event)
                BY DEF TypeOK
            <4>2. topic[i] \in Event
                BY <3>1, <4>1
            <4> QED
                BY <4>2 DEF Event
        <3> QED
            BY <1>7, <3>1, <3>2, <3>3 DEF IndexHoldsLast
    <2> QED
        BY <2>1, <2>2
<1> QED
    BY <1>9, <1>10, <1>11, <1>12

LEMMA BlogStep == BlogInv /\ [Next]_vars => BlogInv'
<1> SUFFICES ASSUME BlogInv, [Next]_vars PROVE BlogInv'
    OBVIOUS
<1>1. ASSUME NEW e \in Editors,
             \/ \E p \in Posts : Open(e, p)
             \/ New(e) \/ UploadCover(e) \/ PutCover(e) \/ FailCover(e) \/ RemoveCover(e)
      PROVE  BlogInv'
    BY <1>1, FormSteps
<1>10. ASSUME NEW p \in Posts, DeleteImage(p) PROVE BlogInv'
    BY <1>10, ImageStep
<1>2. ASSUME NEW e \in Editors,
             \/ Save(e) \/ TogglePublish(e) \/ Delete(e)
             \/ ReadPost(e) \/ RetryInsert(e) \/ FailRequest(e)
      PROVE  BlogInv'
    BY <1>2, RequestSteps
<1>3. ASSUME NEW e \in Editors,
             InsertPost(e) \/ UpdatePost(e) \/ PublishPost(e) \/ UnpublishPost(e)
      PROVE  BlogInv'
    BY <1>3, WriteSteps, WrittenStep
<1>4. ASSUME NEW e \in Editors, DeletePost(e) PROVE BlogInv'
    BY <1>4, DeleteStep
<1>5. ASSUME NEW e \in Editors, PublishPostEvent(e) PROVE BlogInv'
    BY <1>5, EventStep
<1>6. CASE RestartBlog \/ Reindex
    BY <1>6, BootSteps
<1>7. CASE IndexPostEvent
    BY <1>7, IndexStep
<1>8. CASE SkipPostEvent \/ DropPostEvent \/ CommitIndexer \/ RestartIndexer
    BY <1>8, OffsetSteps
<1>9. CASE UNCHANGED vars
    <2>1. UNCHANGED <<up, posts, images, form, requests, req, backlog, topic, lost, position,
                      committed, failed, dropped, index, restarts, shown>>
        BY <1>9 DEF vars, browser, indexer
    <2>2. TypeOK'
        BY <2>1 DEF BlogInv, TypeOK
    <2>3. EditorsKnow' /\ CoverExists' /\ WasShown' /\ FoundWasLive'
        BY <2>1 DEF BlogInv, Stored, EditorsKnow, CoverExists, WasShown, FoundWasLive
    <2>4. IndexHoldsLast'
        BY <2>1 DEF BlogInv, IndexHoldsLast, LastOfItsPost
    <2> QED
        BY <2>2, <2>3, <2>4 DEF BlogInv
<1> QED
    BY <1>1, <1>2, <1>3, <1>4, <1>5, <1>6, <1>7, <1>8, <1>9, <1>10 DEF Next

LEMMA BlogAlways == Spec => []BlogInv
<1> QED
    BY BlogInit, BlogStep, PTL DEF Spec

-----------------------------------------------------------------------------
(* Theorems *)

\* Every state of posts, forms, handlers and the index is well formed.
THEOREM BlogTypes == Spec => []TypeOK
<1>1. BlogInv => TypeOK
    BY DEF BlogInv
<1> QED
    BY <1>1, BlogAlways, PTL

\* What the public index holds of a post was live at some time, word for word.
THEOREM FoundLive == Spec => []FoundWasLive
<1>1. BlogInv => FoundWasLive
    BY DEF BlogInv
<1> QED
    BY <1>1, BlogAlways, PTL

\* A post refers to a cover image only once it was stored; if it is missing, someone
\* deleted it.
THEOREM CoversThere == Spec => []CoverExists
<1>1. BlogInv => CoverExists
    BY DEF BlogInv
<1> QED
    BY <1>1, BlogAlways, PTL

\* Whatever was delivered again before it, the last event of a post on the topic decides
\* its document, unless that very event failed or met a stopping service.
THEOREM IndexFollows == Spec => []IndexFollowsPosts
<1>1. BlogInv => IndexFollowsPosts
    BY DEF BlogInv, IndexHoldsLast, IndexFollowsPosts, DocOf
<1> QED
    BY <1>1, BlogAlways, PTL

LEMMA DeletedStep ==
    ASSUME BlogInv, [Next]_vars, NEW p \in Posts, posts[p].state = "live"
    PROVE  posts'[p] # Deleted
<1> USE DEF BlogInv
<1>1. posts[p] # Deleted
    BY DEF Deleted, NoRow
<1>2. CASE UNCHANGED posts
    BY <1>1, <1>2
<1>3. ASSUME NEW e \in Editors,
             InsertPost(e) \/ UpdatePost(e) \/ PublishPost(e) \/ UnpublishPost(e)
      PROVE  posts'[p] # Deleted
    <2>1. PICK q \in Posts, row \in Row : posts' = [posts EXCEPT ![q] = row]
        BY ZenonT(60), <1>3, WriteSteps DEF Written
    <2>2. row # Deleted
        BY DEF Row, Deleted, NoRow
    <2> QED
        BY <1>1, <2>1, <2>2 DEF TypeOK
<1>4. ASSUME NEW e \in Editors, DeletePost(e)
      PROVE  posts'[p] # Deleted
    <2>1. posts' = [posts EXCEPT ![req[e].id] = Removed(posts[req[e].id])]
        BY <1>4 DEF DeletePost
    <2>2. CASE req[e].id = p
        <3>1. Removed(posts[p]) = posts[p]
            BY DEF Removed
        <3> QED
            BY <1>1, <2>1, <2>2, <3>1 DEF TypeOK
    <2>3. CASE req[e].id # p
        BY <1>1, <2>1, <2>3 DEF TypeOK
    <2> QED
        BY <2>2, <2>3
<1>5. \/ UNCHANGED posts
      \/ \E e \in Editors : \/ InsertPost(e) \/ UpdatePost(e) \/ PublishPost(e) \/ UnpublishPost(e)
                            \/ DeletePost(e)
    BY ZenonT(60) DEF Next, vars, Open, New, Save, TogglePublish, Delete, Send, UploadCover, PutCover,
        FailCover, RemoveCover, ReadPost, RetryInsert, PublishPostEvent, FailRequest, RestartBlog,
        Reindex, IndexPostEvent, SkipPostEvent, DropPostEvent, DeleteImage, CommitIndexer, RestartIndexer
<1> QED
    BY <1>2, <1>3, <1>4, <1>5

\* A live post is never deleted, also when it goes live between the check of a delete
\* and its statement.
THEOREM LiveStays == Spec => LiveNotDeleted
<1>1. BlogInv /\ [Next]_vars
        => [\A p \in Posts : posts[p].state = "live" => posts'[p] # Deleted]_vars
    BY DeletedStep
<1> QED
    BY <1>1, BlogAlways, PTL DEF Spec, LiveNotDeleted
=============================================================================
