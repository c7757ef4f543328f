------------------------------ MODULE OrderFiles ------------------------------
(***************************************************************************)
(* The files of an order: the form that uploads one before the order is    *)
(* there, the customer's page that adds, removes and downloads them,       *)
(* asset-service in between, and gofeeler, which analyses them.            *)
(*                                                                         *)
(* asset-service keeps no table.  It asks task-service for the status of   *)
(* an order at every request, and lists the object store; between its      *)
(* check and what the check allows others write.  A browser puts a file    *)
(* to an address that was minted earlier and holds for 15 minutes.         *)
(***************************************************************************)
EXTENDS Naturals, FiniteSets

CONSTANTS
    Tasks,          \* order ids
    Names,          \* file names
    Forms,          \* CreateOrderForm in a browser, one customer's
    Tabs,           \* TaskDetailContent in a browser, of the same customer
    Null,
    MaxUses         \* bound: requests sent by forms, tabs and the analyst

ASSUME FilesAssumption ==
    /\ Null \notin Names /\ Null \notin Forms
    /\ MaxUses \in Nat

VARIABLES
    status,         \* tasks.status, "none" before the order is created
    madeBy,         \* the form an order was created from
    objects,        \* the object store
    removed,        \* files the customer removed at some time
    form, tab,
    opened,         \* files whose download address reached the customer
    analysis,       \* /analyze between its awaits
    background,     \* its goroutines at work: a result and where it goes
    saved, told,    \* sentiment_results and gofeeler.sentiment
    uses

service == <<status, madeBy>>
store == <<objects, removed>>
gofeeler == <<analysis, background, saved, told>>
fileVars == <<service, store, form, tab, opened, gofeeler, uses>>

File == Tasks \X Names
Statuses == {"unassigned", "analyst", "reviewer", "done", "paid", "closed"}
EditWindow == {"unassigned", "analyst"}
Unlocked == {"paid", "closed"}

\* task: the id the form minted.
Form == [at: {"fill", "mint", "put", "create", "answer", "left"}, task: Tasks, name: Names \cup {Null}]

\* shown: the status on display; files: the listing last fetched; todo, got: a download.
Tab == [task: Tasks, shown: Statuses \cup {"none"}, files: SUBSET Names,
        at: {"idle", "mint", "put", "remove", "find", "delete", "list", "download"},
        name: Names \cup {Null}, todo: SUBSET Names, got: SUBSET Names]
NewTab(t) == [task |-> t, shown |-> "none", files |-> {}, at |-> "idle", name |-> Null,
              todo |-> {}, got |-> {}]

\* listed: the files found; got: those whose content was read so far.
Analysis == [at: {"idle", "list", "fetch", "resolve", "complete"}, task: Tasks,
             advanced: BOOLEAN, listed: SUBSET Names, got: SUBSET Names]
Idle(t) == [at |-> "idle", task |-> t, advanced |-> FALSE, listed |-> {}, got |-> {}]

\* raw_content: the files it holds, of those the order had.
Result == [task: Tasks, listed: SUBSET Names, got: SUBSET Names]
Job == {"save", "publish"} \X Result

FilesTypeOK ==
    /\ status \in [Tasks -> Statuses \cup {"none"}]
    /\ madeBy \in [Tasks -> Forms \cup {Null}]
    /\ objects \subseteq File /\ removed \subseteq File
    /\ form \in [Forms -> Form]
    /\ tab \in [Tabs -> Tab]
    /\ opened \subseteq File
    /\ analysis \in Analysis
    /\ background \subseteq Job
    /\ saved \subseteq Result /\ told \subseteq Result
    /\ uses \in 0..MaxUses

\* Each form has an id of its own.
FilesInit ==
    /\ status = [t \in Tasks |-> "none"]
    /\ madeBy = [t \in Tasks |-> Null]
    /\ objects = {} /\ removed = {}
    /\ \E id \in [Forms -> Tasks] :
        /\ \A f, g \in Forms : f # g => id[f] # id[g]
        /\ form = [f \in Forms |-> [at |-> "fill", task |-> id[f], name |-> Null]]
    /\ tab \in [Tabs -> {NewTab(t) : t \in Tasks}]
    /\ opened = {}
    /\ analysis \in {Idle(t) : t \in Tasks}
    /\ background = {}
    /\ saved = {} /\ told = {}
    /\ uses = 0

Use == uses < MaxUses /\ uses' = uses + 1

\* list_order_objects: one page of at most 1000 keys of the whole service, narrowed to the
\* order; here all of them fit.
Listed(t) == {n \in Names : <<t, n>> \in objects}

\* The rest of the platform moves an order on (TaskLifecycle).
MoveOrder(t, s) ==
    /\ <<status[t], s>> \in
        {<<"unassigned", "analyst">>, <<"analyst", "reviewer">>, <<"reviewer", "analyst">>,
         <<"reviewer", "done">>, <<"done", "paid">>, <<"paid", "closed">>}
    /\ status' = [status EXCEPT ![t] = s]
    /\ UNCHANGED <<madeBy, store, form, tab, opened, gofeeler, uses>>

-----------------------------------------------------------------------------
(* CreateOrderForm *)

\* upload_url: no order yet, or one open for edits.
MayUpload(t) == status[t] \in EditWindow \cup {"none"}

GoForm(f, from, to) == /\ form[f].at = from
                       /\ form' = [form EXCEPT ![f].at = to]

\* Submitted again after an error, it uploads again under the id it has.
Submit(f) ==
    /\ form[f].at = "fill"
    /\ Use
    /\ \E n \in Names : form' = [form EXCEPT ![f].at = "mint", ![f].name = n]
    /\ UNCHANGED <<service, store, tab, opened, gofeeler>>

MintForm(f) ==
    /\ MayUpload(form[f].task)
    /\ GoForm(f, "mint", "put")
    /\ UNCHANGED <<service, store, tab, opened, gofeeler, uses>>

\* Deviation: the form goes on before the file is up.
PutFormEarly(f) ==
    /\ GoForm(f, "put", "create")
    /\ UNCHANGED <<service, store, tab, opened, gofeeler, uses>>

PutForm(f) ==
    /\ GoForm(f, "put", "create")
    /\ objects' = objects \cup {<<form[f].task, form[f].name>>}
    /\ UNCHANGED <<service, removed, tab, opened, gofeeler, uses>>

\* Deviation: the service makes an id for the order.
CreateTaskNew(f) ==
    /\ GoForm(f, "create", "answer")
    /\ \E t \in Tasks :
        /\ status[t] = "none"
        /\ status' = [status EXCEPT ![t] = "unassigned"]
        /\ madeBy' = [madeBy EXCEPT ![t] = f]
    /\ UNCHANGED <<store, tab, opened, gofeeler, uses>>

\* The id is the primary key: a second INSERT of it fails (FailForm).
CreateTask(f) ==
    LET t == form[f].task IN
    /\ GoForm(f, "create", "answer")
    /\ status[t] = "none"
    /\ status' = [status EXCEPT ![t] = "unassigned"]
    /\ madeBy' = [madeBy EXCEPT ![t] = f]
    /\ UNCHANGED <<store, tab, opened, gofeeler, uses>>

LeaveForm(f) ==
    /\ GoForm(f, "answer", "left")
    /\ UNCHANGED <<service, store, tab, opened, gofeeler, uses>>

\* A call fails or its answer is lost, also that of an order created.
FailForm(f) ==
    /\ form[f].at \notin {"fill", "left"}
    /\ form' = [form EXCEPT ![f].at = "fill"]
    /\ UNCHANGED <<service, store, tab, opened, gofeeler, uses>>

-----------------------------------------------------------------------------
(* TaskDetailContent, TaskFilesList and CustomerProgressPanel of the customer *)

GoTab(b, from, to) == /\ tab[b].at = from
                      /\ tab' = [tab EXCEPT ![b].at = to]

\* The order is fetched; what is shown of it grows old.
OpenOrder(b) ==
    /\ tab[b].at = "idle" /\ status[tab[b].task] # "none"
    /\ tab[b].shown # status[tab[b].task]
    /\ tab' = [tab EXCEPT ![b].shown = status[tab[b].task], ![b].files = Listed(tab[b].task)]
    /\ UNCHANGED <<service, store, form, opened, gofeeler, uses>>

\* handleAdd and handleRemove, for an order the page shows as editable.
Add(b) ==
    /\ tab[b].at = "idle" /\ tab[b].shown \in EditWindow
    /\ Use
    /\ \E n \in Names : tab' = [tab EXCEPT ![b].at = "mint", ![b].name = n]
    /\ UNCHANGED <<service, store, form, opened, gofeeler>>

MintTab(b) ==
    /\ MayUpload(tab[b].task)
    /\ GoTab(b, "mint", "put")
    /\ UNCHANGED <<service, store, form, opened, gofeeler, uses>>

\* At any time before the address expires, whatever became of the order.
PutTab(b) ==
    LET t == tab[b] IN
    /\ t.at = "put"
    /\ objects' = objects \cup {<<t.task, t.name>>}
    /\ tab' = [tab EXCEPT ![b].at = "idle", ![b].files = Listed(t.task) \cup {t.name}]
    /\ UNCHANGED <<service, removed, form, opened, gofeeler, uses>>

Remove(b) ==
    /\ tab[b].at = "idle" /\ tab[b].shown \in EditWindow
    /\ Use
    /\ \E n \in tab[b].files : tab' = [tab EXCEPT ![b].at = "remove", ![b].name = n]
    /\ UNCHANGED <<service, store, form, opened, gofeeler>>

CheckRemove(b) ==
    /\ status[tab[b].task] \in EditWindow
    /\ GoTab(b, "remove", "find")
    /\ UNCHANGED <<service, store, form, opened, gofeeler, uses>>

FindRemoved(b) ==
    /\ tab[b].name \in Listed(tab[b].task)
    /\ GoTab(b, "find", "delete")
    /\ UNCHANGED <<service, store, form, opened, gofeeler, uses>>

DeleteFile(b) ==
    LET file == <<tab[b].task, tab[b].name>> IN
    /\ tab[b].at = "delete"
    /\ objects' = objects \ {file}
    /\ removed' = removed \cup {file}
    /\ tab' = [tab EXCEPT ![b].at = "idle", ![b].files = Listed(tab[b].task) \ {tab[b].name}]
    /\ UNCHANGED <<service, form, opened, gofeeler, uses>>

\* "Download results", which the page offers once it shows the order as paid; the
\* routes are there without the page too, and asset-service alone decides.
StartDownload(b) ==
    /\ tab[b].at = "idle"
    /\ Use
    /\ tab' = [tab EXCEPT ![b].at = "list"]
    /\ UNCHANGED <<service, store, form, opened, gofeeler>>

ListDownload(b) ==
    /\ tab[b].at = "list"
    /\ Listed(tab[b].task) # {}
    /\ tab' = [tab EXCEPT ![b].at = "download", ![b].todo = Listed(tab[b].task),
                          ![b].got = {}]
    /\ UNCHANGED <<service, store, form, opened, gofeeler, uses>>

\* Deviation: an order that is done may be downloaded.
MayDownloadDone(t) == status[t] \in {"done", "paid", "closed"}

\* The customer's: staff and the service account skip the question.
MayDownload(t) == status[t] \in Unlocked

\* download_url of one file, listed again; those of a download run in parallel.
DownloadUrl(b, n) ==
    LET t == tab[b] IN
    /\ t.at = "download" /\ n \in t.todo
    /\ n \in Listed(t.task) /\ MayDownload(t.task)
    /\ tab' = [tab EXCEPT ![b].todo = @ \ {n}, ![b].got = @ \cup {n}]
    /\ UNCHANGED <<service, store, form, opened, gofeeler, uses>>

\* Once all addresses are there, all are opened.
OpenUrls(b) ==
    /\ tab[b].at = "download" /\ tab[b].todo = {}
    /\ opened' = opened \cup {<<tab[b].task, n>> : n \in tab[b].got}
    /\ tab' = [tab EXCEPT ![b].at = "idle"]
    /\ UNCHANGED <<service, store, form, gofeeler, uses>>

\* A check or a call fails, or an address has expired.
FailTab(b) ==
    /\ tab[b].at # "idle"
    /\ tab' = [tab EXCEPT ![b].at = "idle"]
    /\ UNCHANGED <<service, store, form, opened, gofeeler, uses>>

-----------------------------------------------------------------------------
(* gofeeler's POST /analyze, which AnalysisPanel calls *)

\* The panel is there while the order is with its analyst; the text of an order is
\* mandatory, so there is always something to analyse.
StartAnalysis(t) ==
    /\ analysis.at = "idle" /\ status[t] = "analyst"
    /\ Use
    /\ \E advanced \in BOOLEAN :
        analysis' = [Idle(t) EXCEPT !.at = "list", !.advanced = advanced]
    /\ UNCHANGED <<service, store, form, tab, opened, background, saved, told>>

\* The engine is next: the advanced one looks its prompt template up first.
ToEngine(a) == [a EXCEPT !.at = IF a.advanced THEN "resolve" ELSE "complete"]

ListFiles ==
    /\ analysis.at = "list"
    /\ analysis' = [analysis EXCEPT !.at = "fetch", !.listed = Listed(analysis.task)]
    /\ UNCHANGED <<service, store, form, tab, opened, background, saved, told, uses>>

FetchFile(n) ==
    /\ analysis.at = "fetch" /\ n \in analysis.listed \ analysis.got
    /\ n \in Listed(analysis.task)
    /\ analysis' = [analysis EXCEPT !.got = @ \cup {n}]
    /\ UNCHANGED <<service, store, form, tab, opened, background, saved, told, uses>>

FetchedAll ==
    /\ analysis.at = "fetch" /\ analysis.got = analysis.listed
    /\ analysis' = ToEngine(analysis)
    /\ UNCHANGED <<service, store, form, tab, opened, background, saved, told, uses>>

\* Deviation: what was read before the error is analysed.
FetchFailsPartly ==
    /\ analysis.at \in {"list", "fetch"}
    /\ analysis' = ToEngine(analysis)
    /\ UNCHANGED <<service, store, form, tab, opened, background, saved, told, uses>>

\* A file is gone, or a call fails or times out: the text alone is analysed.
FetchFails ==
    /\ analysis.at \in {"list", "fetch"}
    /\ analysis' = ToEngine([analysis EXCEPT !.got = {}])
    /\ UNCHANGED <<service, store, form, tab, opened, background, saved, told, uses>>

ResolveTemplate ==
    /\ analysis.at = "resolve"
    /\ analysis' = [analysis EXCEPT !.at = "complete"]
    /\ UNCHANGED <<service, store, form, tab, opened, background, saved, told, uses>>

\* Answered; the result is stored and announced behind the answer.
Complete ==
    LET r == [task |-> analysis.task, listed |-> analysis.listed, got |-> analysis.got] IN
    /\ analysis.at = "complete"
    /\ background' = background \cup {<<"save", r>>, <<"publish", r>>}
    /\ analysis' = Idle(analysis.task)
    /\ UNCHANGED <<service, store, form, tab, opened, saved, told, uses>>

\* No template, or the provider failed: 502.
FailAnalysis ==
    /\ analysis.at \in {"resolve", "complete"} /\ analysis.advanced
    /\ analysis' = Idle(analysis.task)
    /\ UNCHANGED <<service, store, form, tab, opened, background, saved, told, uses>>

SaveResult(r) ==
    /\ <<"save", r>> \in background
    /\ background' = background \ {<<"save", r>>}
    /\ saved' = saved \cup {r}
    /\ UNCHANGED <<service, store, form, tab, opened, analysis, told, uses>>

PublishSentimentAnalyzed(r) ==
    /\ <<"publish", r>> \in background
    /\ background' = background \ {<<"publish", r>>}
    /\ told' = told \cup {r}
    /\ UNCHANGED <<service, store, form, tab, opened, analysis, saved, uses>>

\* Either fails on its own after five seconds, and is logged.
LoseResult(job) ==
    /\ job \in background
    /\ background' = background \ {job}
    /\ UNCHANGED <<service, store, form, tab, opened, analysis, saved, told, uses>>

-----------------------------------------------------------------------------

FormNext(f) ==
    Submit(f) \/ MintForm(f) \/ PutForm(f) \/ CreateTask(f) \/ LeaveForm(f) \/ FailForm(f)

TabNext(b) ==
    \/ OpenOrder(b) \/ FailTab(b)
    \/ Add(b) \/ MintTab(b) \/ PutTab(b)
    \/ Remove(b) \/ CheckRemove(b) \/ FindRemoved(b) \/ DeleteFile(b)
    \/ StartDownload(b) \/ ListDownload(b) \/ OpenUrls(b)
    \/ \E n \in Names : DownloadUrl(b, n)

AnalysisNext ==
    \/ \E t \in Tasks : StartAnalysis(t)
    \/ ListFiles \/ FetchedAll \/ FetchFails \/ ResolveTemplate \/ Complete \/ FailAnalysis
    \/ \E n \in Names : FetchFile(n)
    \/ \E job \in background :
        LoseResult(job) \/ SaveResult(job[2]) \/ PublishSentimentAnalyzed(job[2])

FilesNext ==
    \/ \E t \in Tasks, s \in Statuses : MoveOrder(t, s)
    \/ \E f \in Forms : FormNext(f)
    \/ \E b \in Tabs : TabNext(b)
    \/ AnalysisNext

FilesSpec == FilesInit /\ [][FilesNext]_fileVars

-----------------------------------------------------------------------------

\* CreateOrderForm mints its order's id once: however often a customer submits it
\* again, also after the answer to an order created was lost, it makes one order.
OneOrderPerForm ==
    \A t, u \in Tasks : madeBy[t] # Null /\ madeBy[t] = madeBy[u] => t = u

\* The form uploads before it creates: there is no order without a file but one
\* whose customer removed it, with whatever retries and lost answers.
OrderHasFile ==
    \A t \in Tasks : status[t] # "none" /\ Listed(t) = {}
        => \E n \in Names : <<t, n>> \in removed

\* What a customer downloads is paid for, whenever the page was loaded and however
\* many of the parallel address requests of one download are still under way.
DownloadsPaid ==
    \A file \in opened : status[file[1]] \in Unlocked

\* A stored or announced analysis read every file its order listed or none of them:
\* never a part, whatever is added, removed or failing while they are fetched.
AnalysisWhole ==
    \A r \in saved \cup told : r.got \in {{}, r.listed}
=============================================================================
