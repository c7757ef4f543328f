# Microverse HQ: specifications

TLA+ models of Microverse HQ: its order workflow, the services around it and the
parts of its front end that act on them, model-checked with TLC and proved about
with TLAPS. Paths are relative to the repository's root.

## The system

Customers order analyses ("orders", `tasks` in the code). A project manager (PM)
assigns an analyst or an analyst claims the order; the analyst sends it to review;
a reviewer or PM approves or rejects it; the PM bills it, the account manager
publishes the bill, the customer pays through Stripe, and a month later the order
is closed. Each part is a process with a database of its own; they share Kafka
topics and call each other over HTTP. Nothing spans two of them in a transaction.

| Part | State | Operations | What makes it correct | Modelled in |
|---|---|---|---|---|
| task-service, orders (`business-services/task-service`) | `tasks` | submit, edit, no-index, assign, claim, move to review, hand over, approve, reject | one edge of the workflow at a time, only by its holder; assignee and owner follow the status; each milestone once | TaskService, TaskLifecycle |
| task-service, users | `users` (mirror of Keycloak plus a local `active`) | token sync on every request, (de)activation | an order is given only to somebody eligible at some moment of the request | TaskService, TaskGrants |
| task-service, accounts and projects | `accounts`, `user_accounts`, `pm_accounts`, `projects` | the account of a first order, propose, approve, staff, deactivate, no-index | one account per customer; a responsible PM is linked; inactive is for good | Accounts |
| task-service, comments | `task_comments` | post, reply, list | a thread stays in one order and one visibility | Comments |
| task-service, bill.paid consumer | consumer group offset | done -> paid | idempotent under redelivery | TaskService, Billing |
| task-service, auto-close | none between runs | paid -> closed after the grace period | never early, in the end always | TaskService |
| rustledger, bills (`domain-services/rustledger`) | `bills`, producer connection | draft, publish, checkout, webhook | an order is paid exactly when it was charged; drafts hidden; facts published once | Billing |
| rustledger, line items | `line_items` | bill a stopped session | a session is paid for once, to the cent | WorkSessions |
| elixtempo (`domain-services/elixtempo`) | a process per work session, `sessions` | start, pause, resume, stop, rehydrate | a session counts as a stopwatch does | WorkSessions, Stopwatch |
| search-service (`platform-services`) | one index per service, blog index, tags | upsert or delete per event | the index follows the last event it was given; what is found of a post was live once | OrderEvents, BlogPosts |
| audit-, notification-service | events, notifications | one entry, or a fan-out, per event | nothing lost but logged errors | OrderEvents |
| blog-service | posts | draft, edit, publish, withdraw, delete, re-publish at boot | what is live is not deleted; the index follows | BlogPosts |
| asset-service | objects in MinIO, no table | presigned upload and download, list, delete | results only for who paid; a cover is referred to once it was stored | OrderFiles, BlogPosts |
| gofeeler | `sentiment_results` | analyse the files of an order | an analysis reads all files listed or none | OrderFiles |
| taskfusion (front end), order desk | the pane of an order, per person | open, every button on an order, answers in any order | what is offered is what is allowed; what is decided was on display | OrderDesk |
| taskfusion, the rest | React state, `localStorage` | work timer, blog form, order form, files and downloads, discussion, accounts page | what it shows and sends survives late and lost answers | beside the service each calls |
| pyreel, email-service, springpix, netcruncher, infrastructure, branding | none | | | not modelled |

What is hard here: REST handlers in Node and Tokio interleave at every `await`,
reading a row, checking it and writing it in separate steps, with no locks and only
the `WHERE` of the final `UPDATE` between two of them; events are published after
the commit, best effort; Kafka delivers at least once; Stripe repeats webhooks; user
rows follow whatever token was seen last; browsers show what was true when it was
fetched, in several tabs at once. `PROJECT.json` lists each such place as a hazard.

## Modules

### TaskLifecycle: the promise

The order as one atomic machine: `Submit`, `Staff`, `SendToReview`, `HandOver`,
`Reject`, `Approve`, `Pay`, `Close`, over three maps `status`, `assignee`, `owner`.

### TaskService: task-service as it runs

- `tasks`, `users`, `managers` are the tables `tasks`, `users`, `pm_accounts`. Each
  SQL statement is an atomic step, as PostgreSQL serialises statements on one row.
- `req` has a slot per REST handler in flight. `Arrive` is the middleware (token
  sync, `active`, role), `ReadTask` is `findById` and the checks on the row,
  `Resolve` looks up who receives the order, the nine operation actions are the
  conditional `UPDATE`s, `PublishTaskEvent` appends to `topic`, `FailRequest` ends a
  handler at any point (a query throws, the broker refuses, the process stops).
  `Update` is the statement they all share: one row returned, or none and a 409.
- `billing` is the bill.paid consumer between `markPaid` and its event; `sweep` is
  the auto-close job between its list and its `UPDATE`s.
- `FailRequest`, `FailBilling` and `FailSweep` together are a restart of the process.

Abstractions. A user is identified with their e-mail. The awaits of one lookup
(`getUser` and `projectManagersFor`) are one step, `Resolve`. A PM is picked among
all that qualify where the code takes the first by name. `paid_at` is one of not
set, within the grace period, beyond it; the comparison is made in the database.
What the customer wrote is one value, `content`. `dueDate`, timestamps and the
optional project of an order are left out; the value of `no_index` an order starts
with (its project's) is therefore any. The account of a customer is a constant: it
is set once, before the first order exists. Requests that only read, or are refused,
still sync the caller's row (`SyncUser`). Any message about an order that is not
`done` is a no-op of the consumer and so no step.

### TaskGrants: who was eligible, and when

`TaskGrants` adds one auxiliary variable to `TaskService`: `fitted` has, for each request in
flight, everybody who was eligible for what it gives away (`Eligible`, from the tables and the
caller's claims) at some moment since it arrived. No step of the service reads it. A role taken
away and a user deactivated between the check and the `UPDATE` are steps of `TaskService`, and
then the receiver is in `fitted` without being eligible any more.

### Billing: how an order gets paid

- `bills` is rustledger's table, `calls` its handlers in flight (`insert`: the order
  was seen done, `mint`: the bill was read, Stripe not yet asked, `publish`: the
  bill was updated, the event not yet sent), `connected` the producer's once-cell.
- `sessions` is Stripe: sessions are minted, charged or expire. Stripe is external
  and modelled from how rustledger uses it. A webhook can come any number of times
  for a charged session (`MarkBillPaid`), also twice at once.
- `topic`, `offset` and `handled` are the Kafka topic and task-service's consumer
  group: a message is handled, then committed; `CrashConsumer` lies in between and
  has it delivered again, `FailMessage` is the logged and swallowed error.
- `orders` is the status task-service answers with; `ApproveOrder` and
  `HandleMessage` are what `TaskService` refines in detail.

`FetchTask` leaves out that the caller owns the order or is an administrator:
ownership is `TaskService`'s matter, and every caller who passes does the same.

### OrderEvents: what other services make of an order's events

- `rows` is the `tasks` table as far as its events tell of it, `sending` the handlers
  between their `UPDATE` and `publishTaskEvent`, `topic` the partition of the order.
  `UpdateTask` abstracts all of `TaskService`'s updates: a new version of the row.
  `PublishTaskEvent` and `LoseTaskEvent` come at any time after it, so two handlers may
  publish in another order than they wrote.
- `position` and `committed` are, per consumer group, what was handled and what will
  not be delivered again; `Commit` and `Restart` belong to the client libraries and are
  external. `failed` remembers where an error was logged and passed over, `dropped` where the
  search indexer left its loop at a shutdown (`stop_event`) with an event in hand, which closing
  the consumer commits past.
- `IndexTaskEvent` / `SkipTaskEvent` / `DropTaskEvent` is the search indexer, `InsertEvent` / `FailAudit`
  the audit service, `ResolveRecipients`, `NotifyRecipient`, `SendNotificationEmail`,
  `EventNotified`, `FailNotify` the notifier, one action per await of its fan-out.

The time stamps of events are left out: the audit timeline sorts by the producer's milliseconds,
without a tie-breaker (`models/audit.js:31`), and nothing here speaks of its order. A search document is the version of the row it was made from. E-mail is sent
or not without effect on anything else.

### WorkSessions: the timer, and the pay

- `process` is the GenServer of each session, `table` the row it comes back from. A
  transition happens in the process; then its caller stores the view it was answered
  (`Upsert`), then publishes it. `call` has the caller of each browser tab at one
  of these awaits, `timer` what that tab shows, `remembered` the `localStorage` they share.
- Time is a count of ticks. `Elapsed` and `Amount` are computed from time stamps as the
  code does; `SecondsPerTick` and `CentsPerHour` are the real unit and rate.
- `offset`, `skipped`, `items` are rustledger's consumer, which commits nothing and reads
  the whole topic again after every start; only the unique `session_id` stops it.
- `Stopwatch` is the promise: `Start`, `Pause`, `Resume`, `Stop`, `Tick`, and `Recover`,
  which says the most a restart can do: an older state, never more than its age.

### BlogPosts: editors, table, images, public index

- `form` and `req` are `BlogPostForm` and the handler of its request; a handler reads the
  post, checks, writes, and publishes the row it got back. `InsertPost` / `RetryInsert`
  is the loop over numbered slugs.
- `backlog` is what `RestartBlog` lists at boot and `Reindex` publishes, one by one, while
  the first handlers of the new process already write.
- `images` is what became of the cover image of each post in asset-service's store:
  `UploadCover`, `PutCover`, `FailCover`, `RemoveCover` are the form's steps, `DeleteImage` the
  route that deletes an image without asking whether a post refers to it. The index and its
  consumer are as in `OrderEvents`; `lost` has the posts an event of which was never published.
- `shown` is history: what was live at some time. The properties ask about it; no step reads it.

### Accounts: who orders, for whom, and who manages it

- The first order of a customer makes an account in a transaction that locks the
  customer's row: `LockUser`, `InsertAccount`, `CommitAccount`. What a transaction wrote is
  applied at its commit.
- The requests of the account manager read a project and check it, then write by id:
  `ManagedRead`, `FindPm`, `LinkPm`, `WriteProject`, with `FailRequest` and `Restart`
  anywhere in between.
- `page` is `AccountsProjectsView`: `Select`, `FetchDetail` with its `cancelled` flag,
  `Click` on the buttons it shows and `Answer`, which puts the body of the response on the page.

### OrderFiles and Comments: the page of an order

- `form` is `CreateOrderForm`: mint an address, put the file, create the order under the
  id the form made, wait for an answer that may be lost. `tab` is the customer's page with
  its list of files and its download of all of them, each address asked for on its own.
- asset-service keeps no table, so its state is the store `objects`, and every check of it
  is a question to task-service (`status`) one await before what it allows.
- `analysis` is one `/analyze` of gofeeler between its awaits; `background` the two
  goroutines that store and announce the result after the answer.
- `Comments` is the table with its two routes, and the `TaskComments` panels, whose late
  answers may be of another order than the one they are on.

`MoveOrder` of `OrderFiles` is `TaskService` reduced to statuses: it follows the workflow
and is otherwise unconstrained. Ownership of an order is a guard that nobody in the model fails.

### OrderDesk: the people in front of the orders

- `row` and `billed` are the columns of `tasks` and the bills the desk acts on. A request is
  one step of the service here (`Serve`, `Refuse`, `Lose`): its awaits are `TaskService`'s
  subject, and the `UPDATE` at their end asks again for all that was checked.
- `pane` is `TaskDetailContent` with the panel of actions it mounts, per person: the order in
  the address bar, the task on display, whether the edit form is open, and of the panel's own
  state what outlives a change of task (`of`, `result`, `bill`, `busy`).
- `call` is the `fetch()` calls under way. Each remembers the row its button was pressed on
  (`seen`); `Settle` hands the answers over in any order. One that was sent for an order opened
  before still changes the pane, and one whose pane is gone changes nothing (`heard`).
- `PanelFor` is `actionPanelFor`, `Visible` the filter of the list; `Permitted` and `Outcomes`
  are what the routes ask and write. The two sides are written from different files, and
  `HolderFindsWork` and `RefusedOnlyIfOutdated` say that they fit together.

Roles are constants here, in any combination: `docs/architecture/1.0/core.md` lets one person be
an analyst and a reviewer, and nothing keeps a customer from being either. `HolderFindsWork`
says what the code then makes of it (see below). `NamedByEmail` is the set of people whose
Keycloak username is their e-mail: see below, too.

### Instances

The MC modules give the constants small values. Operators commented "Deviation" are
plausible bugs of the definition they stand above. No specification uses them;
substituted for that definition they must make a property fail, and so show what the
property is sensitive to.

## Runs

| Run | Module, instance | Shows |
|---|---|---|
| `task_races` | TaskService; 5 users, 1 order, 2 texts, 2 handlers, steady roles | `TypeOK`, `RowCoherent`, `AnnouncedOnce`, `HandoverByHolder`, `FrozenInReview`, `ImplementsLifecycle` |
| `task_people` | TaskGrants; the same people and order, 1 handler, roles come and go, one user may be deactivated | `GivenToEligible`, `ClosedAfterGrace`, `PaidOrderCloses` |
| `task_deactivated` | TaskService; the same | finding: `DeactivatedNotPicked` fails |
| `billing` | Billing; 1 order, 2 Stripe sessions, 2 calls | `PaidIsCharged`, `OfferedInOrder`, `PublishedOnce`, `FirstPaymentStands`, `ChargeRecorded` |
| `billing_lost` | the same | finding: `PaidBillReachesOrder` fails |
| `order_events` | OrderEvents; 1 order written 3 times, 2 handlers, 2 people, 1 restart or shutdown | `IndexFollowsTopic`, `AuditComplete`, `AssigneeTold`, `EventsConsumed` |
| `order_resurrected` | the same | finding: `ExcludedStaysOut` fails |
| `work_sessions` | WorkSessions; 2 sessions, 2 tabs, 5 buttons, 2 ticks, 1 restart per service, 50 dollars an hour | `ImplementsStopwatch`, `PaidAmountStands`, `NothingMissed`, `PayAddsUp` |
| `blog` | BlogPosts; 2 posts, 2 editors, 2 texts, 2 slugs tried, 3 requests, 1 restart or shutdown | `FoundWasLive`, `IndexFollowsPosts`, `CoverExists`, `LiveNotDeleted` |
| `blog_resurrected` | the same | finding: `WithdrawnStaysOut` fails |
| `accounts` | Accounts; 2 customers, 1 manager, 1 PM, 3 accounts, 2 projects, 2 handlers, 5 requests, 1 restart | `OneAccountEach`, `ResponsibleLinked`, `FetchedIsSelected`, `InactiveStays` |
| `order_page` | OrderFiles, Comments and OrderDesk; 2 orders, 2 files, 1 form, 1 tab, 3 uses; 3 comments, 2 panels, 3 posts; 3 people (one both customer and PM, one both customer and reviewer), 2 calls, 3 clicks | `OneOrderPerForm`, `OrderHasFile`, `DownloadsPaid`, `AnalysisWhole`, `ThreadsStayTogether`, `NoCommentHidden`, `HolderFindsWork`, `DecidedAsShown`, `RefusedOnlyIfOutdated` |

Bounds. Handlers race in pairs on one row, and the theorems below cover any number
of both, so two handlers and one order suffice; three people are enough for a hand-over in
review, and two analysts for a race for the pool. `MaxEvents = 1` stops new requests
once the topic holds an event; handlers, consumer and sweep under way still finish, and
because publishing can fail an order goes all the way to `closed` within the bound.
`MaxSuspended` bounds the users deactivated at a time. Users, texts and slots are
symmetric; the runs with liveness use no symmetry. `task_people` has one handler: what it races
with is token syncs, deactivations, the consumer and the sweep. TaskService stops when the bound
is reached, so its runs do not check for deadlock; Billing never stops (its producer
restarts for ever) and its runs do.

The other modules count what people start (`MaxRequests`, `MaxUses`, `MaxPosts`,
`MaxVersion`, `MaxTime`) and what crashes (`MaxRestarts`), and stop when the counts are
used up and everything under way has ended, so their runs do not check for deadlock either.
Each bound leaves room for the case its properties are about: three writes let an older
event follow a newer one and the last write follow both; five buttons let one tab stop a
session the other has paused and a restart bring it back; three requests on a blog let one
editor publish between another's check and delete; five requests let two first orders and
an approval, a deactivation and a selection of the page meet.

`MaxClicks = 3` lets two people press on panes of which one is out of date, or one person press,
open the other order and press there while the first answer is still to come.

Type correctness is a theorem for every module; of the runs only `task_races` repeats it.

Some runs start in a part of `Init`. `OneGroup` (OrderEvents) and `OneDraft` (BlogPosts)
run one consuming service and leave the others down: they share nothing but what they
read, no step of one is a guard of another, and a property speaks of one of them only; a
service that is down is a service whose position stands still, which is a state the system
may be in anyway. `OneDraft` also has one draft there and the other id free, `OneCompany` one
company account with one member. `MCOrderPage` lets a behaviour exercise the files of an order, its
discussion or its desk (`part`): none reads what another writes, and the parts at rest start in
one way only. At the desk the PM and the analyst have the first order open already and the
customer comes later; the second order is in review and has no PM to go to. Instead of a
symmetry set, `FirstComment` and `FirstCall` take the first free id or slot, and the orders of
the files and the discussion are named in one way. The theorems hold for the specifications
without any of these restrictions.

Fairness. `SweepFairness`: time passes, cron fires daily, and an order whose close
fails one day is listed again the next, so a close that stays possible again and
again succeeds once (`SF` of `CloseTask`: weak fairness would not do, as a failing
sweep disables it). No fairness for people or handlers. `Billing!Fairness`: handlers
end one way or the other, the producer's connection loop retries for ever, Stripe
posts a completed session until it is answered (`SF`: the slot may be taken, the
process restarting), and a consumer group that crashes is restarted after 5 s and
gets to commit in the end (`SF` of `CommitOffset`). Neither says that a publication,
`markPaid` or a checkout succeeds. `OrderEvents!Fairness`: a consumer group that runs polls,
handles what it polled one way or the other (a failing event is logged and passed over, never
stuck on) and commits, as every group's loop is started again when it ends; nothing is assumed
of the publication of an event, nor of the handlers. The other modules state no fairness.

## Findings

- An order can be moved to review to a deactivated PM (`task_deactivated`):
  `projectManagersFor` does not ask for `active`, unlike every other lookup and
  unlike the comment on `listUsers`.
- A bill can be paid and its order `done` for ever (`billing_lost`): the event is
  sent once, best effort, after the commit, and a repeated webhook does not resend it.
- An order excluded from search can come back into the index (`order_resurrected`): every
  event carries the flag, as `kafka-producer.js` says, but the flag its own `UPDATE`
  returned, and an event written before the exclusion may be published after it.
- A withdrawn post can come back into the public index (`blog_resurrected`) in the same way: one
  editor's publication is announced after another's withdrawal.

Observed while modelling, in code no property of the runs speaks about, or which a property had
to be stated around:

- A receiver is checked when a request resolves it (`task-routes.js:328`) and not by the `UPDATE`:
  whose role is revoked, or who is deactivated, in between holds the order all the same, where
  `docs/architecture/1.0/core.md:101` says that no transition should complete "without a valid
  assignee holding the right role". `GivenToEligible` says what the code does keep.
- A paid order stays its PM's and a closed one keeps an owner, where the Assignee / Owner table
  (`core.md:97-98`) says customer and nobody: `markPaid` and `closeTask` leave `owner` alone.
- Whoever is a customer and an analyst or reviewer, but no PM, can be assigned an order and then
  neither finds nor opens it: `isCustomerOnly` (`task-routes.js:52-55`) answers 403 and the list
  filters it, although the comment above says that "Analyst/reviewer pool visibility is
  unaffected". Nothing forbids the combination (`core.md:75`, `core.md:87`).
- Stopping search-service (`stop_event` in `kafka_consumer.py:104`, `blog_kafka_consumer.py:84`) can
  drop one event without a trace; a lost, failed or dropped event leaves the index as it was.
- `DELETE /assets/blog/{post_id}/{filename}` (`asset-service/src/api.rs:531`) deletes an image a
  post still shows.
- asset-service lists one page of 1000 keys of a whole service and narrows it to the order
  (`minio.rs:163-183`): past that number, files of an order go unseen. The model lists them all.
- The page compares `assignee` and `owner`, which task-service writes as e-mails
  (`models/task.js`), with the token's `preferred_username` (`TaskDetailContent.js:128`,
  `GofeelerListPanel.js:40`). The realm keeps the two apart (`registrationEmailAsUsername` is
  false); `docs/schema.md:52` says that usernames stand in. Who has another username finds
  neither their orders nor the panel: `HolderFindsWork` speaks of `NamedByEmail` only.
- Any answer may come on display after another order was opened (no `cancelled` flag as on the
  accounts page), so the pane may show another order than the address bar. What is pressed then
  is still pressed on what is shown, which is `DecidedAsShown`.
- The edit form stays open for whatever task comes to be on display, although the comments at
  `TaskDetailContent.js:158` and `EditOrderForm.js:37` say otherwise: after a late answer the text
  of one order can be saved to another one. Likewise `AnalysisPanel` keeps its result, and a
  reassignment its list of candidates, hence the last line of `RefusedOnlyIfOutdated`.
- The no-index switch is offered on every order to an account manager; the route allows it on
  the orders of their own accounts, and its 403 replaces the whole pane.
- `scout.js:41` counts finished orders by `assignee`, which approval clears: the count an
  analyst is recommended with is always 0.

## Proofs

`TaskService_proofs` proves, for any users, orders, services, accounts, role sets
and number of handlers, from `ConstantsAssumption` alone:

| Theorem | Statement |
|---|---|
| `TypesCorrect` | `Spec => []TypeOK` |
| `RowsCoherent` | `Spec => []RowCoherent` |
| `HolderHandsOver` | `Spec => HandoverByHolder` |
| `TextFrozenInReview` | `Spec => FrozenInReview` |
| `ClosedOnlyAfterGrace` | `Spec => ClosedAfterGrace` |
| `RefinesLifecycle` | `Spec => ImplementsLifecycle` |
| `MilestonesOnce` | `Spec => []AnnouncedOnce` |
| `GivenToTheEligible` | `GrantsSpec => GivenToEligible` |

The inductive invariant is `OrderInv == TypeInv /\ RowCoherent /\ ListedIsStale`.
`TypeOK` alone is not inductive: a handler that writes needs an order, a caller and,
where the order is handed on, a receiver, which `HandlersKnow` says of each place a
handler can wait at. `RowCoherent` alone does not tell that a listed order may
be closed: `ListedIsStale` says that whatever the sweep has listed stays beyond its
grace period. Everything else rests on one lemma, `ChangesOneRow`: a step of the
service touches at most one row, along one of eight edges, each with what it demands
of the row and of the handler that takes it. Coherence, the three action properties and the
refinement are then proved edge by edge, never action by action again.

`MilestonesOnce` rests on a second invariant, `MilestoneInv`: whatever is on the topic, or
about to be sent by a handler, the consumer or the sweep, tells of a milestone its order has
reached (`TopicReached`, `HandlersHold`, `OthersHold`). No step takes a milestone back
(`ReachedStays`), and every `UPDATE` that announces one asks for a status before it, so no
event of that milestone exists when it succeeds.

`GivenToTheEligible` is about `TaskGrants` and rests on a third, `GrantsInv`: a request remembers
everybody eligible now (`EligibleSeen`) and forgets nobody while it lasts (`RemembersStep`), so the
receiver it resolved (`PickedEligible`), or the analyst who claims, is still remembered when it
writes (`HandlersEntitled`), whatever became of their roles. It also needs that an order once
submitted stays. The row written then names that receiver (`GivenToReceiver`).

`Billing_proofs` proves, for any orders, checkout sessions and calls in flight, from
`NullAssumption` alone:

| Theorem | Statement |
|---|---|
| `BillingTypes` | `Spec => []TypeOK` |
| `PaymentsAreCharged` | `Spec => []PaidIsCharged` |
| `BillsOfferedInOrder` | `Spec => []OfferedInOrder` |
| `FirstPaymentKept` | `Spec => FirstPaymentStands` |
| `EventsPublishedOnce` | `Spec => []PublishedOnce` |

Order, bill and session live in three stores and no transaction spans them, so the
inductive invariant `BillingInv` says what each party may rely on while it waits:
`CallsKnow`, that what a call saw before its await still holds; `EventsTrue`, that an
event sent or about to be sent tells something that happened; `SessionsKnow`, that a
session is minted for a bill that exists. All three survive other parties' steps for one
reason, the lemma `OnwardStep`: every step moves bills, orders and sessions onward
only. `FirstPaymentStands` is part of that lemma. `PublishedOnce` is inductive beside
`BillingInv`: a call begins to publish only in the step that turns the bill
(`NewSender`), a bill turns once, and `EventsTrue` shows that no such event was sent
before.

`OrderEvents_proofs`, `WorkSessions_proofs`, `BlogPosts_proofs`, `Accounts_proofs`,
`OrderPage_proofs` (OrderFiles and Comments) and `OrderDesk_proofs` prove, for any number of
orders, users, handlers, tabs, posts and so on, and for topics and delays of any length within the bounds' values,
from each module's named assumption:

| Theorem | Statement | Inductive invariant, and what it adds |
|---|---|---|
| `EventTypes`, `AuditKeepsAll` | types, `[]AuditComplete` | `AuditInv`: types; with them the property is inductive |
| `IndexFollows` (OrderEvents) | `[]IndexFollowsTopic` | `SearchInv`: the last event an indexer took of an order decides its document, also while older ones are delivered again (`IndexHoldsLast`) |
| `AssigneesTold` | `[]AssigneeTold` | `NotifyInv`: during a fan-out the assignee is still to be told or was told for that offset (`FanoutKnows`) |
| `WorkTypes`, `PaidStands`, `NothingIsMissed` | types, `PaidAmountStands`, `[]NothingMissed` | `WorkInv`: every state of a session, in its process, its row or the hands of a caller, is one it had since it began (`Sound`) |
| `PaidToTheCent` | `[]EachItemRounded` | rounding: each line item is within half a cent of its time at the rate |
| `PaySums` | `[]PayAddsUp` | types; the sum over a finite set of sessions, see below |
| `RefinesStopwatch` | `ImplementsStopwatch` | `WorkInv`; every transition is a turn of one watch, a tick all of them, a restart `Recover` |
| `BlogTypes`, `FoundLive`, `CoversThere` | `[]TypeOK`, `[]FoundWasLive`, `[]CoverExists` | `BlogInv`: rows, events, the boot's backlog and requests about to publish say `live` only of what was shown (`WasShown`); a form's cover was stored (`EditorsKnow`) |
| `IndexFollows` (BlogPosts) | `[]IndexFollowsPosts` | `IndexHoldsLast`, as above |
| `LiveStays` | `LiveNotDeleted` | none: the `DELETE` asks for the state again |
| `AccountTypes`, `OneAccount` | `[]TypeOK`, `[]OneAccountEach` | `AccountsInv`: two requests that make an account are never of one customer nor make the same one (`RequestsApart`), the row lock; the order's customer has the order's account from the commit on (`Placed`) |
| `ManagersLinked`, `FetchedShown`, `InactiveForGood` | `[]ResponsibleLinked`, `[]FetchedIsSelected`, `InactiveStays` | a project once read stays, and the PM is linked before it is made responsible (`Managed`) |
| `FileTypes`, `OneOrderEach`, `OrdersHaveFiles` | types, `[]OneOrderPerForm`, `[]OrderHasFile` | `FilesInv`: a form about to create has put its file, removed since or not (`FormsKnow`); an order is its form's (`OrdersKnow`) |
| `DownloadsArePaid`, `AnalysesAreWhole` | `[]DownloadsPaid`, `[]AnalysisWhole` | a tab that holds an address holds it of a paid order, and paid is for good (`TabsKnow`); past the fetching all files were read or none (`AnalysisKnows`) |
| `CommentTypes`, `ThreadsTogether`, `CommentsListed` | types, `[]ThreadsStayTogether`, `[]NoCommentHidden` | `CommentsInv`: rows never change, so what a request checked about the parent holds when it inserts (`RequestsKnow`) |
| `DeskTypes`, `HoldersFindWork` | types, `[]HolderFindsWork` | `DeskInv`: a row is one the workflow knows, with assignee and owner of the right function (`RowsLegal`) |
| `CustomersSeeOwn`, `DecisionsAsShown`, `RefusalsOutdated` | `[]OnlyOwnShown`, `DecidedAsShown`, `RefusedOnlyIfOutdated` | a pane shows a row such an order may have and its viewer may read, whatever came late (`PaneKnown`); a call carries such a row, which offered the panel it was pressed on, and is answered with such a row (`CallKnown`) |

All are proved the same way: one step per action, and under it one per conjunct the action can
disturb; what holds because an action leaves its variables alone is shared by a lemma. Where a
theorem states a property some run checks, the run came first.

`PaySums` is about a sum defined by recursion over a finite set, which asks for induction. The
induction theorems of the library take an operator, so the proof takes a smallest
counterexample instead: proper inclusion is well-founded on the finite subsets of the sessions
(`FS_StrictSubsetOrderingWellFounded`), so among the sets the bound fails for one is smallest
(`SmallestBad`). It is not empty, and without the session the recursion takes out the bound
holds; putting it back adds one line item, which is off by at most half a cent (`AmountRounds`).

At the desk everything an answer does to a pane is one of two operators, `Displayed` and
`Errored`, so the lemmas about these two (`DisplayedPane`, `ErroredPane`) carry all answers, and
`Pressed` carries what a press knows: the row on display gave the panel with that button, and
so the role, the stage and the holder that `Permitted` will ask for. `RefusalsOutdated` is then the comparison of two
tables, `PanelFor` and `Permitted`, one operation at a time.

Only model-checked: the liveness properties `PaidOrderCloses`, `ChargeRecorded` and
`EventsConsumed`, which the prover cannot reach. Every other property of a passing run is a
theorem, for every value of the constants.

## Not modelled

- The tag registry of search-service (a counter read, incremented and written back) and all
  queries; listing notifications and marking them as read.
- Profile pictures and other public images of asset-service.
- The words gofeeler's engines find, its templates and providers: text processing.
- Scout and the service catalogue of task-service: a query and seeded rows; OrderDesk takes
  Scout's answer as the set of analysts.
- pyreel, springpix, netcruncher: prototypes without state. email-service: one mail per
  request. nginx, compose files, branding and docs.
- The rest of taskfusion: routing, sign-in, administration, and lists that fetch and show; of
  the order list its late answers, search and paging.
- Signatures, tokens and the parsing of messages: every request is one its service accepts,
  or ends in a failure action.

Hazards without a property, or which the code leaves open, are in `PROJECT.json` with the
reason: a second charge is not refunded, a redelivery notifies twice, a presigned address
outlives the edit window, a lost event leaves a deleted post in the index. The slug of a live
post can change when a publication falls between `blog-routes.js:126` and its `UPDATE`; the index
follows it.

## What could come next

The consumers of `OrderEvents` on top of the handlers of `TaskService` instead of its
`UpdateTask`; several partitions; the tag registry, once something relies on its counter.
