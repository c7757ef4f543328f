--------------------------- MODULE OrderPage_proofs ---------------------------
(***************************************************************************)
(* What an order's files (OrderFiles) and its discussion (Comments) keep,  *)
(* for any number of orders, files, forms, tabs, comments and panels.      *)
(***************************************************************************)
EXTENDS OrderFiles, Comments, TLAPS

-----------------------------------------------------------------------------
(* What each party relies on between two awaits.                           *)

\* A form that was submitted has a file, and one about to create its order has
\* put it up; the file may have been removed by a tab since.
FormsKnow ==
    \A f \in Forms :
        /\ form[f].at \notin {"fill", "left"} => form[f].name \in Names
        /\ form[f].at = "create" => <<form[f].task, form[f].name>> \in objects \cup removed

\* A tab handles a file, and holds addresses of an order that is paid for.
TabsKnow ==
    \A b \in Tabs :
        /\ tab[b].at \in {"mint", "put", "remove", "find", "delete"} => tab[b].name \in Names
        /\ tab[b].at = "download" /\ tab[b].got # {} => status[tab[b].task] \in Unlocked

\* An order came from the form that minted its id, with a file.
OrdersKnow ==
    \A t \in Tasks :
        /\ status[t] # "none" => \E n \in Names : <<t, n>> \in objects \cup removed
        /\ madeBy[t] # Null => form[madeBy[t]].task = t

\* Whatever comes after the fetching of files has all of them or none.
Whole(r) == r.got \in {{}, r.listed}

AnalysisKnows ==
    /\ analysis.at \in {"resolve", "complete"} => Whole(analysis)
    /\ \A job \in background : Whole(job[2])
    /\ \A r \in saved \cup told : Whole(r)

FilesInv == FilesTypeOK /\ FormsKnow /\ TabsKnow /\ OrdersKnow /\ AnalysisKnows /\ DownloadsPaid

-----------------------------------------------------------------------------

\* No order, no file, nobody at work.
LEMMA FilesInitInv == FilesInit => FilesInv
<1> SUFFICES ASSUME FilesInit PROVE FilesInv
    OBVIOUS
<1>1. form \in [Forms -> Form] /\ \A f \in Forms : form[f].at = "fill"
    BY DEF FilesInit, Form
<1>2. tab \in [Tabs -> Tab] /\ \A b \in Tabs : tab[b].at = "idle"
    BY DEF FilesInit, Tab, NewTab
<1>3. analysis \in Analysis /\ analysis.at = "idle"
    <2>1. PICK t \in Tasks : analysis = Idle(t)
        BY DEF FilesInit
    <2>2. Idle(t) \in Analysis /\ Idle(t).at = "idle"
        BY DEF Analysis, Idle
    <2> QED
        BY <2>1, <2>2
<1>4. /\ status \in [Tasks -> Statuses \cup {"none"}]
      /\ madeBy \in [Tasks -> Forms \cup {Null}]
    BY DEF FilesInit
<1>5. /\ objects = {} /\ removed = {} /\ opened = {} /\ background = {}
      /\ saved = {} /\ told = {} /\ uses \in 0..MaxUses
    BY FilesAssumption DEF FilesInit
<1>6. FilesTypeOK
    BY <1>1, <1>2, <1>3, <1>4, <1>5 DEF FilesTypeOK
<1> QED
    BY <1>1, <1>2, <1>3, <1>5, <1>6
       DEF FilesInit, FilesInv, FormsKnow, TabsKnow, OrdersKnow, AnalysisKnows, DownloadsPaid

\* A form goes on, having put up its file or not.
LEMMA FormMoves ==
    ASSUME FilesInv, NEW f \in Forms, NEW after \in Form, after.task = form[f].task,
           form' = [form EXCEPT ![f] = after],
           after.at \notin {"fill", "left"} => after.name \in Names,
           after.at = "create" => <<after.task, after.name>> \in objects',
           objects \subseteq objects', objects' \subseteq File, uses' \in 0..MaxUses,
           UNCHANGED <<service, removed, tab, opened, gofeeler>>
    PROVE  FilesInv'
<1> USE DEF FilesInv, FilesTypeOK, service, gofeeler
<1>1. FilesTypeOK'
    OBVIOUS
<1>2. FormsKnow'
    BY DEF FormsKnow
<1>3. TabsKnow'
    BY DEF TabsKnow
<1>4. OrdersKnow'
    <2>1. \A t \in Tasks : status[t] # "none" => \E n \in Names : <<t, n>> \in objects' \cup removed
        BY DEF OrdersKnow
    <2>2. \A g \in Forms : form'[g].task = form[g].task
        OBVIOUS
    <2>3. \A t \in Tasks : madeBy[t] # Null => form'[madeBy[t]].task = t
        BY <2>2 DEF OrdersKnow
    <2> QED
        BY <2>1, <2>3 DEF OrdersKnow
<1>5. AnalysisKnows' /\ DownloadsPaid'
    BY DEF AnalysisKnows, DownloadsPaid, Whole
<1> QED
    BY <1>1, <1>2, <1>3, <1>4, <1>5

\* A tab goes on; what it takes from the store it remembers as removed.
LEMMA TabMoves ==
    ASSUME FilesInv, NEW b \in Tabs, NEW after \in Tab, after.task = tab[b].task,
           tab' = [tab EXCEPT ![b] = after],
           after.at \in {"mint", "put", "remove", "find", "delete"} => after.name \in Names,
           after.at = "download" /\ after.got # {} => status[after.task] \in Unlocked,
           objects \cup removed \subseteq objects' \cup removed',
           objects' \subseteq File, removed' \subseteq File,
           opened' \subseteq File, \A file \in opened' : status[file[1]] \in Unlocked,
           uses' \in 0..MaxUses,
           UNCHANGED <<service, form, gofeeler>>
    PROVE  FilesInv'
<1> USE DEF FilesInv, FilesTypeOK, service, gofeeler
<1>1. FilesTypeOK'
    OBVIOUS
<1>2. FormsKnow'
    BY DEF FormsKnow
<1>3. TabsKnow'
    BY DEF TabsKnow
<1>4. OrdersKnow'
    BY DEF OrdersKnow
<1>5. AnalysisKnows' /\ DownloadsPaid'
    BY DEF AnalysisKnows, DownloadsPaid, Whole
<1> QED
    BY <1>1, <1>2, <1>3, <1>4, <1>5

\* gofeeler goes on, and no one else.
LEMMA AnalysisMoves ==
    ASSUME FilesInv, analysis' \in Analysis, background' \subseteq Job,
           saved' \subseteq Result, told' \subseteq Result, AnalysisKnows',
           uses' \in 0..MaxUses,
           UNCHANGED <<service, store, form, tab, opened>>
    PROVE  FilesInv'
BY DEF FilesInv, FilesTypeOK, FormsKnow, TabsKnow, OrdersKnow, DownloadsPaid, service, store

\* The status of an order changes; what is unlocked stays so.
LEMMA OrderMoves ==
    ASSUME FilesInv, NEW t \in Tasks, NEW s \in Statuses,
           status' = [status EXCEPT ![t] = s],
           status[t] \in Unlocked => s \in Unlocked,
           status[t] # "none" \/ \E n \in Names : <<t, n>> \in objects \cup removed
    PROVE  /\ status' \in [Tasks -> Statuses \cup {"none"}]
           /\ \A u \in Tasks : status[u] \in Unlocked => status'[u] \in Unlocked
           /\ \A u \in Tasks : status'[u] # "none" =>
                \E n \in Names : <<u, n>> \in objects \cup removed
<1> USE DEF FilesInv, FilesTypeOK
<1>1. status' \in [Tasks -> Statuses \cup {"none"}]
    OBVIOUS
<1>2. \A u \in Tasks : status[u] \in Unlocked => status'[u] \in Unlocked
    OBVIOUS
<1>3. \A u \in Tasks : status'[u] # "none" => \E n \in Names : <<u, n>> \in objects \cup removed
    BY DEF OrdersKnow
<1> QED
    BY <1>1, <1>2, <1>3

\* Tabs and downloads know as much as before once no order is locked again.
LEMMA UnlockedStays ==
    ASSUME FilesInv, \A u \in Tasks : status[u] \in Unlocked => status'[u] \in Unlocked,
           UNCHANGED <<tab, opened>>
    PROVE  TabsKnow' /\ DownloadsPaid'
<1> USE DEF FilesInv, FilesTypeOK
<1>1. \A b \in Tabs : tab[b].task \in Tasks
    BY DEF Tab
<1>2. \A file \in opened : file[1] \in Tasks
    BY DEF File
<1> QED
    BY <1>1, <1>2 DEF TabsKnow, DownloadsPaid

-----------------------------------------------------------------------------

\* The forms' actions.
LEMMA FormStep ==
    ASSUME FilesInv, NEW f \in Forms, FormNext(f)
    PROVE  FilesInv'
<1> DEFINE r == form[f]
<1>1. r \in Form /\ uses \in 0..MaxUses /\ objects \subseteq File /\ MaxUses \in Nat
    BY FilesAssumption DEF FilesInv, FilesTypeOK
<1>2. r.at \notin {"fill", "left"} => r.name \in Names
    BY DEF FilesInv, FormsKnow
<1>3. ASSUME Submit(f)
      PROVE  FilesInv'
    <2>1. PICK n \in Names : form' = [form EXCEPT ![f] = [r EXCEPT !.at = "mint", !.name = n]]
        BY <1>3 DEF Submit, FilesInv, FilesTypeOK
    <2>2. [r EXCEPT !.at = "mint", !.name = n] \in Form
        BY <1>1 DEF Form
    <2>3. uses' \in 0..MaxUses /\ UNCHANGED <<service, store, tab, opened, gofeeler>>
        BY <1>1, <1>3 DEF Submit, Use
    <2> QED
        BY <1>1, <2>1, <2>2, <2>3, FormMoves DEF Form, store
<1>4. ASSUME MintForm(f)
      PROVE  FilesInv'
    <2>1. form' = [form EXCEPT ![f] = [r EXCEPT !.at = "put"]] /\ r.at = "mint"
        BY <1>4 DEF MintForm, GoForm, FilesInv, FilesTypeOK
    <2>2. [r EXCEPT !.at = "put"] \in Form
        BY <1>1 DEF Form
    <2>3. UNCHANGED <<service, store, tab, opened, gofeeler, uses>>
        BY <1>4 DEF MintForm
    <2> QED
        BY <1>1, <1>2, <2>1, <2>2, <2>3, FormMoves DEF Form, store
<1>5. ASSUME PutForm(f)
      PROVE  FilesInv'
    <2>1. form' = [form EXCEPT ![f] = [r EXCEPT !.at = "create"]] /\ r.at = "put"
        BY <1>5 DEF PutForm, GoForm, FilesInv, FilesTypeOK
    <2>2. [r EXCEPT !.at = "create"] \in Form
        BY <1>1 DEF Form
    <2>3. /\ objects' = objects \cup {<<r.task, r.name>>}
          /\ UNCHANGED <<service, removed, tab, opened, gofeeler, uses>>
        BY <1>5 DEF PutForm
    <2>4. <<r.task, r.name>> \in File
        BY <1>1, <1>2, <2>1 DEF Form, File
    <2> QED
        BY <1>1, <1>2, <2>1, <2>2, <2>3, <2>4, FormMoves DEF Form
<1>6. ASSUME CreateTask(f)
      PROVE  FilesInv'
    <2> DEFINE t == r.task
    <2>1. /\ form' = [form EXCEPT ![f] = [r EXCEPT !.at = "answer"]] /\ r.at = "create"
          /\ status[t] = "none"
          /\ status' = [status EXCEPT ![t] = "unassigned"]
          /\ madeBy' = [madeBy EXCEPT ![t] = f]
          /\ UNCHANGED <<store, tab, opened, gofeeler, uses>>
        BY <1>6 DEF CreateTask, GoForm, FilesInv, FilesTypeOK
    <2>2. t \in Tasks /\ [r EXCEPT !.at = "answer"] \in Form
        BY <1>1 DEF Form
    <2>3. \E n \in Names : <<t, n>> \in objects \cup removed
        BY <1>2, <2>1 DEF FilesInv, FormsKnow
    <2>4. /\ status' \in [Tasks -> Statuses \cup {"none"}]
          /\ \A u \in Tasks : status[u] \in Unlocked => status'[u] \in Unlocked
          /\ \A u \in Tasks : status'[u] # "none" => \E n \in Names : <<u, n>> \in objects \cup removed
        BY <2>1, <2>2, <2>3, OrderMoves DEF Statuses, Unlocked
    <2>5. TabsKnow' /\ DownloadsPaid'
        BY <2>1, <2>4, UnlockedStays
    <2>6. FilesTypeOK'
        BY <2>1, <2>2, <2>4 DEF FilesInv, FilesTypeOK, store, gofeeler
    <2>7. FormsKnow'
        BY <1>2, <2>1 DEF FilesInv, FilesTypeOK, FormsKnow, store
    <2>8. OrdersKnow'
        <3>1. \A g \in Forms : form'[g].task = form[g].task
            BY <1>1, <2>1 DEF FilesInv, FilesTypeOK, Form
        <3>2. \A u \in Tasks : madeBy'[u] # Null => madeBy'[u] \in Forms /\ form[madeBy'[u]].task = u
            BY <2>1, <2>2 DEF FilesInv, FilesTypeOK, OrdersKnow
        <3> QED
            BY <2>1, <2>4, <3>1, <3>2 DEF OrdersKnow, store
    <2>9. AnalysisKnows'
        BY <2>1 DEF FilesInv, AnalysisKnows, Whole, gofeeler
    <2> QED
        BY <2>5, <2>6, <2>7, <2>8, <2>9 DEF FilesInv
<1>7. ASSUME LeaveForm(f)
      PROVE  FilesInv'
    <2>1. form' = [form EXCEPT ![f] = [r EXCEPT !.at = "left"]]
        BY <1>7 DEF LeaveForm, GoForm, FilesInv, FilesTypeOK
    <2>2. [r EXCEPT !.at = "left"] \in Form
        BY <1>1 DEF Form
    <2>3. UNCHANGED <<service, store, tab, opened, gofeeler, uses>>
        BY <1>7 DEF LeaveForm
    <2> QED
        BY <1>1, <2>1, <2>2, <2>3, FormMoves DEF Form, store
<1>8. ASSUME FailForm(f)
      PROVE  FilesInv'
    <2>1. form' = [form EXCEPT ![f] = [r EXCEPT !.at = "fill"]]
        BY <1>8 DEF FailForm, FilesInv, FilesTypeOK
    <2>2. [r EXCEPT !.at = "fill"] \in Form
        BY <1>1 DEF Form
    <2>3. UNCHANGED <<service, store, tab, opened, gofeeler, uses>>
        BY <1>8 DEF FailForm
    <2> QED
        BY <1>1, <2>1, <2>2, <2>3, FormMoves DEF Form, store
<1> QED
    BY <1>3, <1>4, <1>5, <1>6, <1>7, <1>8 DEF FormNext

\* The tabs' actions.
LEMMA TabStep ==
    ASSUME FilesInv, NEW b \in Tabs, TabNext(b)
    PROVE  FilesInv'
<1> DEFINE r == tab[b]
<1>1. /\ r \in Tab /\ r.task \in Tasks /\ uses \in 0..MaxUses /\ MaxUses \in Nat
      /\ objects \subseteq File /\ removed \subseteq File /\ opened \subseteq File
      /\ \A file \in opened : status[file[1]] \in Unlocked
      /\ Listed(r.task) \subseteq Names
    BY FilesAssumption DEF FilesInv, FilesTypeOK, DownloadsPaid, Tab, Listed
<1>2. r.at \in {"mint", "put", "remove", "find", "delete"} => r.name \in Names
    BY DEF FilesInv, TabsKnow
<1>3. ASSUME OpenOrder(b)
      PROVE  FilesInv'
    <2> DEFINE after == [r EXCEPT !.shown = status[r.task], !.files = Listed(r.task)]
    <2>1. tab' = [tab EXCEPT ![b] = after] /\ r.at = "idle"
        BY <1>3 DEF OpenOrder, FilesInv, FilesTypeOK
    <2>2. after \in Tab /\ after.task = r.task /\ after.at = "idle"
        BY <1>1, <2>1 DEF Tab, FilesInv, FilesTypeOK
    <2>3. UNCHANGED <<service, store, form, opened, gofeeler, uses>>
        BY <1>3 DEF OpenOrder
    <2> HIDE DEF after
    <2> QED
        BY <1>1, <2>1, <2>2, <2>3, TabMoves DEF store
<1>4. ASSUME NEW n \in Names, NEW at \in {"mint", "remove"}, Use,
             tab' = [tab EXCEPT ![b].at = at, ![b].name = n],
             UNCHANGED <<service, store, form, opened, gofeeler>>
      PROVE  FilesInv'
    <2> DEFINE after == [r EXCEPT !.at = at, !.name = n]
    <2>1. tab' = [tab EXCEPT ![b] = after]
        BY <1>4 DEF FilesInv, FilesTypeOK
    <2>2. after \in Tab /\ after.task = r.task /\ after.at = at /\ after.name = n
        BY <1>1 DEF Tab
    <2>3. uses' \in 0..MaxUses
        BY <1>1, <1>4 DEF Use
    <2> HIDE DEF after
    <2> QED
        BY <1>1, <1>4, <2>1, <2>2, <2>3, TabMoves DEF store
<1>5. ASSUME Add(b)
      PROVE  FilesInv'
    BY <1>4, <1>5 DEF Add
<1>6. ASSUME Remove(b)
      PROVE  FilesInv'
    <2>1. r.files \subseteq Names
        BY <1>1 DEF Tab
    <2> QED
        BY <1>4, <1>6, <2>1 DEF Remove
\* An action that only goes on to another step.
<1>7. ASSUME NEW at \in {"put", "find", "delete", "idle", "list"},
             r.at \in {"mint", "remove", "find"} \/ at \in {"idle", "list"},
             tab' = [tab EXCEPT ![b].at = at], uses' \in 0..MaxUses,
             UNCHANGED <<service, store, form, opened, gofeeler>>
      PROVE  FilesInv'
    <2> DEFINE after == [r EXCEPT !.at = at]
    <2>1. tab' = [tab EXCEPT ![b] = after]
        BY <1>7 DEF FilesInv, FilesTypeOK
    <2>2. after \in Tab /\ after.task = r.task /\ after.at = at /\ after.name = r.name
        BY <1>1, <1>7 DEF Tab
    <2> HIDE DEF after
    <2> QED
        BY <1>1, <1>2, <1>7, <2>1, <2>2, TabMoves DEF store
<1>8. ASSUME MintTab(b) \/ CheckRemove(b) \/ FindRemoved(b) \/ FailTab(b) \/ StartDownload(b)
      PROVE  FilesInv'
    BY <1>1, <1>7, <1>8 DEF MintTab, CheckRemove, FindRemoved, FailTab, StartDownload, GoTab, Use
<1>9. ASSUME PutTab(b)
      PROVE  FilesInv'
    <2> DEFINE after == [r EXCEPT !.at = "idle", !.files = Listed(r.task) \cup {r.name}]
    <2>1. /\ tab' = [tab EXCEPT ![b] = after] /\ r.name \in Names
          /\ objects' = objects \cup {<<r.task, r.name>>}
          /\ UNCHANGED <<service, removed, form, opened, gofeeler, uses>>
        BY <1>2, <1>9 DEF PutTab, FilesInv, FilesTypeOK
    <2>2. after \in Tab /\ after.task = r.task /\ after.at = "idle"
        BY <1>1, <2>1 DEF Tab
    <2>3. <<r.task, r.name>> \in File
        BY <1>1, <2>1 DEF File
    <2> HIDE DEF after
    <2> QED
        BY <1>1, <2>1, <2>2, <2>3, TabMoves
<1>10. ASSUME DeleteFile(b)
       PROVE  FilesInv'
    <2> DEFINE after == [r EXCEPT !.at = "idle", !.files = Listed(r.task) \ {r.name}]
               file == <<r.task, r.name>>
    <2>1. /\ tab' = [tab EXCEPT ![b] = after] /\ r.name \in Names
          /\ objects' = objects \ {file} /\ removed' = removed \cup {file}
          /\ UNCHANGED <<service, form, opened, gofeeler, uses>>
        BY <1>2, <1>10 DEF DeleteFile, FilesInv, FilesTypeOK
    <2>2. after \in Tab /\ after.task = r.task /\ after.at = "idle"
        BY <1>1, <2>1 DEF Tab
    <2>3. file \in File
        BY <1>1, <2>1 DEF File
    <2> HIDE DEF after, file
    <2> QED
        BY <1>1, <2>1, <2>2, <2>3, TabMoves
<1>11. ASSUME ListDownload(b)
       PROVE  FilesInv'
    <2> DEFINE after == [r EXCEPT !.at = "download", !.todo = Listed(r.task), !.got = {}]
    <2>1. /\ tab' = [tab EXCEPT ![b] = after]
          /\ UNCHANGED <<service, store, form, opened, gofeeler, uses>>
        BY <1>11 DEF ListDownload, FilesInv, FilesTypeOK
    <2>2. after \in Tab /\ after.task = r.task /\ after.at = "download" /\ after.got = {}
        BY <1>1 DEF Tab
    <2> HIDE DEF after
    <2> QED
        BY <1>1, <2>1, <2>2, TabMoves DEF store
<1>12. ASSUME NEW n \in Names, DownloadUrl(b, n)
       PROVE  FilesInv'
    <2> DEFINE after == [r EXCEPT !.todo = @ \ {n}, !.got = @ \cup {n}]
    <2>1. /\ tab' = [tab EXCEPT ![b] = after] /\ r.at = "download"
          /\ status[r.task] \in Unlocked
          /\ UNCHANGED <<service, store, form, opened, gofeeler, uses>>
        BY <1>12 DEF DownloadUrl, MayDownload, FilesInv, FilesTypeOK
    <2>2. after \in Tab /\ after.task = r.task /\ after.at = "download"
        BY <1>1, <2>1 DEF Tab
    <2> HIDE DEF after
    <2> QED
        BY <1>1, <2>1, <2>2, TabMoves DEF store
<1>13. ASSUME OpenUrls(b)
       PROVE  FilesInv'
    <2> DEFINE after == [r EXCEPT !.at = "idle"]
    <2>1. /\ tab' = [tab EXCEPT ![b] = after] /\ r.at = "download"
          /\ opened' = opened \cup {<<r.task, n>> : n \in r.got}
          /\ UNCHANGED <<service, store, form, gofeeler, uses>>
        BY <1>13 DEF OpenUrls, FilesInv, FilesTypeOK
    <2>2. after \in Tab /\ after.task = r.task /\ after.at = "idle" /\ r.got \subseteq Names
        BY <1>1 DEF Tab
    <2>3. r.got # {} => status[r.task] \in Unlocked
        BY <2>1 DEF FilesInv, TabsKnow
    <2>4. opened' \subseteq File /\ \A file \in opened' : status[file[1]] \in Unlocked
        BY <1>1, <2>1, <2>2, <2>3 DEF File
    <2> HIDE DEF after
    <2> QED
        BY <1>1, <2>1, <2>2, <2>4, TabMoves DEF store
<1> QED
    BY <1>3, <1>5, <1>6, <1>8, <1>9, <1>10, <1>11, <1>12, <1>13 DEF TabNext

\* gofeeler's actions.
LEMMA AnalysisStep ==
    ASSUME FilesInv, AnalysisNext
    PROVE  FilesInv'
<1> DEFINE a == analysis
<1>1. /\ a \in Analysis /\ uses \in 0..MaxUses /\ MaxUses \in Nat
      /\ background \subseteq Job /\ saved \subseteq Result /\ told \subseteq Result
      /\ AnalysisKnows
    BY FilesAssumption DEF FilesInv, FilesTypeOK
\* Only the request under way changes.
<1>2. ASSUME analysis' \in Analysis,
             analysis'.at \in {"resolve", "complete"} => Whole(analysis'),
             uses' \in 0..MaxUses,
             UNCHANGED <<service, store, form, tab, opened, background, saved, told>>
      PROVE  FilesInv'
    <2>1. AnalysisKnows'
        BY <1>1, <1>2 DEF AnalysisKnows, Whole
    <2> QED
        BY <1>1, <1>2, <2>1, AnalysisMoves
<1>3. ASSUME NEW t \in Tasks, StartAnalysis(t)
      PROVE  FilesInv'
    <2>1. PICK advanced \in BOOLEAN :
            analysis' = [Idle(t) EXCEPT !.at = "list", !.advanced = advanced]
        BY <1>3 DEF StartAnalysis
    <2>2. analysis' \in Analysis /\ analysis'.at = "list"
        BY <2>1 DEF Idle, Analysis
    <2> QED
        BY <1>1, <1>2, <1>3, <2>2 DEF StartAnalysis, Use
<1>4. ASSUME ListFiles
      PROVE  FilesInv'
    <2>1. analysis' \in Analysis /\ analysis'.at = "fetch"
        BY <1>1, <1>4 DEF ListFiles, Analysis, Listed
    <2> QED
        BY <1>1, <1>2, <1>4, <2>1 DEF ListFiles
<1>5. ASSUME NEW n \in Names, FetchFile(n)
      PROVE  FilesInv'
    <2>1. analysis' \in Analysis /\ analysis'.at = "fetch"
        BY <1>1, <1>5 DEF FetchFile, Analysis
    <2> QED
        BY <1>1, <1>2, <1>5, <2>1 DEF FetchFile
<1>6. ASSUME FetchedAll
      PROVE  FilesInv'
    <2>1. analysis' \in Analysis /\ Whole(analysis')
        BY <1>1, <1>6 DEF FetchedAll, ToEngine, Analysis, Whole
    <2> QED
        BY <1>1, <1>2, <1>6, <2>1 DEF FetchedAll
<1>7. ASSUME FetchFails
      PROVE  FilesInv'
    <2>1. analysis' \in Analysis /\ Whole(analysis')
        BY <1>1, <1>7 DEF FetchFails, ToEngine, Analysis, Whole
    <2> QED
        BY <1>1, <1>2, <1>7, <2>1 DEF FetchFails
<1>8. ASSUME ResolveTemplate
      PROVE  FilesInv'
    <2>1. analysis' \in Analysis /\ Whole(analysis')
        BY <1>1, <1>8 DEF ResolveTemplate, Analysis, AnalysisKnows, Whole
    <2> QED
        BY <1>1, <1>2, <1>8, <2>1 DEF ResolveTemplate
<1>9. ASSUME FailAnalysis
      PROVE  FilesInv'
    <2>1. analysis' \in Analysis /\ analysis'.at = "idle"
        BY <1>1, <1>9 DEF FailAnalysis, Idle, Analysis
    <2> QED
        BY <1>1, <1>2, <1>9, <2>1 DEF FailAnalysis
<1>10. ASSUME Complete
       PROVE  FilesInv'
    <2> DEFINE r == [task |-> a.task, listed |-> a.listed, got |-> a.got]
    <2>1. /\ background' = background \cup {<<"save", r>>, <<"publish", r>>}
          /\ analysis' = Idle(a.task) /\ a.at = "complete"
          /\ UNCHANGED <<service, store, form, tab, opened, saved, told, uses>>
        BY <1>10 DEF Complete
    <2>2. r \in Result /\ Whole(r)
        BY <1>1, <2>1 DEF Analysis, Result, AnalysisKnows, Whole
    <2>3. analysis' \in Analysis /\ analysis'.at = "idle"
        BY <1>1, <2>1 DEF Idle, Analysis
    <2> HIDE DEF r
    <2>4. background' \subseteq Job
        BY <1>1, <2>1, <2>2 DEF Job
    <2>5. AnalysisKnows'
        BY <1>1, <2>1, <2>2, <2>3 DEF AnalysisKnows, Whole
    <2> QED
        BY <1>1, <2>1, <2>3, <2>4, <2>5, AnalysisMoves
<1>11. ASSUME NEW job \in background, LoseResult(job) \/ SaveResult(job[2])
                                      \/ PublishSentimentAnalyzed(job[2])
       PROVE  FilesInv'
    <2>1. job[2] \in Result /\ Whole(job[2])
        BY <1>1 DEF Job, AnalysisKnows
    <2>2. /\ background' \subseteq background
          /\ saved' \subseteq saved \cup {job[2]} /\ told' \subseteq told \cup {job[2]}
          /\ UNCHANGED <<service, store, form, tab, opened, analysis, uses>>
        BY <1>11 DEF LoseResult, SaveResult, PublishSentimentAnalyzed
    <2>3. AnalysisKnows'
        BY <1>1, <2>1, <2>2 DEF AnalysisKnows, Whole
    <2> QED
        BY <1>1, <2>1, <2>2, <2>3, AnalysisMoves
<1> QED
    BY <1>3, <1>4, <1>5, <1>6, <1>7, <1>8, <1>9, <1>10, <1>11 DEF AnalysisNext

\* One step per actor.
LEMMA FilesStep ==
    FilesInv /\ [FilesNext]_fileVars => FilesInv'
<1> SUFFICES ASSUME FilesInv, [FilesNext]_fileVars
             PROVE  FilesInv'
    OBVIOUS
<1>1. ASSUME NEW t \in Tasks, NEW s \in Statuses, MoveOrder(t, s)
      PROVE  FilesInv'
    <2>1. /\ status' = [status EXCEPT ![t] = s] /\ status[t] # "none"
          /\ status[t] \in Unlocked => s \in Unlocked
          /\ UNCHANGED <<madeBy, store, form, tab, opened, gofeeler, uses>>
        BY <1>1 DEF MoveOrder, Unlocked
    <2>2. /\ status' \in [Tasks -> Statuses \cup {"none"}]
          /\ \A u \in Tasks : status[u] \in Unlocked => status'[u] \in Unlocked
          /\ \A u \in Tasks : status'[u] # "none" => \E n \in Names : <<u, n>> \in objects \cup removed
        BY <2>1, OrderMoves
    <2>3. TabsKnow' /\ DownloadsPaid'
        BY <2>1, <2>2, UnlockedStays
    <2>4. FilesTypeOK'
        BY <2>1, <2>2 DEF FilesInv, FilesTypeOK, store, gofeeler
    <2>5. FormsKnow' /\ AnalysisKnows'
        BY <2>1 DEF FilesInv, FormsKnow, AnalysisKnows, Whole, store, gofeeler
    <2>6. OrdersKnow'
        BY <2>1, <2>2 DEF FilesInv, OrdersKnow, store
    <2> QED
        BY <2>3, <2>4, <2>5, <2>6 DEF FilesInv
<1>2. CASE UNCHANGED fileVars
    BY <1>2 DEF fileVars, service, store, gofeeler, FilesInv, FilesTypeOK, FormsKnow, TabsKnow,
                OrdersKnow, AnalysisKnows, DownloadsPaid, Whole
<1> QED
    BY <1>1, <1>2, FormStep, TabStep, AnalysisStep DEF FilesNext

-----------------------------------------------------------------------------

LEMMA FilesInvariant == FilesSpec => []FilesInv
BY FilesInitInv, FilesStep, PTL DEF FilesSpec

\* Orders, files, forms, tabs and analyses have their types in every state.
THEOREM FileTypes == FilesSpec => []FilesTypeOK
<1>1. FilesInv => FilesTypeOK
    BY DEF FilesInv
<1> QED
    BY <1>1, FilesInvariant, PTL

\* A form makes one order at most, whatever is submitted again after whatever failed.
THEOREM OneOrderEach == FilesSpec => []OneOrderPerForm
<1>1. FilesInv => OneOrderPerForm
    BY DEF FilesInv, OrdersKnow, OneOrderPerForm
<1> QED
    BY <1>1, FilesInvariant, PTL

\* No order is there without a file, unless its customer removed one.
THEOREM OrdersHaveFiles == FilesSpec => []OrderHasFile
<1>1. FilesInv => OrderHasFile
    <2> SUFFICES ASSUME FilesInv, NEW t \in Tasks, status[t] # "none", Listed(t) = {}
                 PROVE  \E n \in Names : <<t, n>> \in removed
        BY DEF OrderHasFile
    <2>1. PICK n \in Names : <<t, n>> \in objects \cup removed
        BY DEF FilesInv, OrdersKnow
    <2>2. <<t, n>> \notin objects
        BY DEF Listed
    <2> QED
        BY <2>1, <2>2
<1> QED
    BY <1>1, FilesInvariant, PTL

\* The results of an order reach its customer once they are paid for.
THEOREM DownloadsArePaid == FilesSpec => []DownloadsPaid
<1>1. FilesInv => DownloadsPaid
    BY DEF FilesInv
<1> QED
    BY <1>1, FilesInvariant, PTL

\* What is stored or announced is the analysis of all files or of none.
THEOREM AnalysesAreWhole == FilesSpec => []AnalysisWhole
<1>1. FilesInv => AnalysisWhole
    BY DEF FilesInv, AnalysisKnows, AnalysisWhole, Whole
<1> QED
    BY <1>1, FilesInvariant, PTL

-----------------------------------------------------------------------------
(* The discussion.                                                         *)

-----------------------------------------------------------------------------
(* A row is never changed: what a request or a panel learned of a comment  *)
(* stays true however long it waits.                                       *)

\* What a panel offers to reply to is there.
ShownExist == \A p \in Panels : \A c \in panel[p].shown : Exists(c)

\* The parent a request names is there; past the check it is a comment to reply
\* to, of the request's order and visibility.
Fits(r) ==
    /\ TopLevel(r.parent)
    /\ comments[r.parent].task = r.task
    /\ comments[r.parent].visibility = r.visibility

RequestsKnow ==
    \A p \in Panels : request[p].at # "idle" /\ request[p].parent # NoId =>
        /\ Exists(request[p].parent)
        /\ request[p].at = "insert" => Fits(request[p])

CommentsInv == CommentsTypeOK /\ ShownExist /\ RequestsKnow /\ ThreadsStayTogether

-----------------------------------------------------------------------------

\* A comment that is there is a row of its type.
LEMMA RowsAreComments ==
    ASSUME CommentsTypeOK, NEW c \in CommentIds, Exists(c)
    PROVE  comments[c] \in Comment
BY DEF CommentsTypeOK, Exists

\* What is listed is there.
LEMMA ListedExist ==
    ASSUME NEW t, NEW visibility
    PROVE  /\ ListForTask(t, visibility) \subseteq CommentIds
           /\ \A c \in ListForTask(t, visibility) : Exists(c)
BY DEF ListForTask

\* Nothing written, nothing shown, nothing asked.
LEMMA CommentsInitInv == CommentsInit => CommentsInv
<1> SUFFICES ASSUME CommentsInit PROVE CommentsInv
    OBVIOUS
<1>1. panel \in [Panels -> Panel] /\ \A p \in Panels : panel[p].shown = {}
    BY DEF CommentsInit
<1>2. \A p \in Panels : panel[p].task \in Orders /\ panel[p].visibility \in Visibilities
    BY <1>1 DEF Panel
<1>3. request \in [Panels -> Post]
    BY <1>2 DEF CommentsInit, Post
<1>4. CommentsTypeOK
    BY <1>1, <1>3, CommentsAssumption DEF CommentsInit, CommentsTypeOK
<1>5. RequestsKnow
    BY DEF CommentsInit, RequestsKnow
<1>6. ThreadsStayTogether
    BY DEF CommentsInit, ThreadsStayTogether, Exists
<1> QED
    BY <1>1, <1>4, <1>5, <1>6 DEF CommentsInv, ShownExist

\* A step that leaves comments and requests alone, and shows what is there.
LEMMA PanelStep ==
    ASSUME CommentsInv, UNCHANGED <<comments, request>>,
           panel' \in [Panels -> Panel], posts' \in 0..MaxPosts,
           \A p \in Panels : \A c \in panel'[p].shown : Exists(c)
    PROVE  CommentsInv'
BY DEF CommentsInv, CommentsTypeOK, ShownExist, RequestsKnow, ThreadsStayTogether, Exists,
       TopLevel, Fits

\* A step that leaves comments and panels alone; the request it changes knows what it
\* has to.
LEMMA RequestStep ==
    ASSUME CommentsInv, UNCHANGED <<comments, panel>>, posts' \in 0..MaxPosts,
           NEW p \in Panels, NEW r \in Post,
           request' = [request EXCEPT ![p] = r],
           r.at # "idle" /\ r.parent # NoId => Exists(r.parent) /\ (r.at = "insert" => Fits(r))
    PROVE  CommentsInv'
<1>1. CommentsTypeOK' /\ ShownExist' /\ ThreadsStayTogether'
    BY DEF CommentsInv, CommentsTypeOK, ShownExist, ThreadsStayTogether, Exists, TopLevel
<1>2. RequestsKnow'
    BY DEF CommentsInv, CommentsTypeOK, RequestsKnow, Exists, TopLevel, Fits
<1> QED
    BY <1>1, <1>2 DEF CommentsInv

\* A comment is written where none was, and its panel fetches again.
LEMMA CreateStep ==
    ASSUME CommentsInv, NEW p \in Panels, CreateComment(p)
    PROVE  CommentsInv'
<1> DEFINE r == request[p]
<1>1. PICK c \in CommentIds :
        /\ ~Exists(c)
        /\ comments' = [comments EXCEPT ![c] = [task |-> r.task, parent |-> r.parent,
                                                visibility |-> r.visibility,
                                                author |-> panel[p].viewer]]
    BY DEF CreateComment
<1> DEFINE row == [task |-> r.task, parent |-> r.parent, visibility |-> r.visibility,
                   author |-> panel[p].viewer]
<1>2. r \in Post /\ panel[p] \in Panel /\ r.at = "insert"
    BY DEF CommentsInv, CommentsTypeOK, CreateComment
<1>3. row \in Comment /\ row # NoComment
    BY <1>2 DEF Post, Panel, Comment, NoComment, Viewers
<1>4. /\ comments' = [comments EXCEPT ![c] = row]
      /\ row.parent = r.parent /\ row.task = r.task /\ row.visibility = r.visibility
    BY <1>1
<1>5. r.parent # NoId => Exists(r.parent) /\ Fits(r) /\ r.parent # c /\ r.parent \in CommentIds
    BY <1>1, <1>2 DEF CommentsInv, RequestsKnow, Post
<1> HIDE DEF row, r
<1>6. comments' \in [CommentIds -> Comment \cup {NoComment}]
    BY <1>3, <1>4 DEF CommentsInv, CommentsTypeOK
<1>7. \A d \in CommentIds : Exists(d) => d # c /\ comments'[d] = comments[d]
    BY <1>1, <1>4 DEF CommentsInv, CommentsTypeOK
<1>8. Exists(c)' /\ \A d \in CommentIds : Exists(d) => Exists(d)'
    BY <1>3, <1>4, <1>7 DEF Exists, CommentsInv, CommentsTypeOK
<1>9. request' = [request EXCEPT ![p].at = "idle"] /\ request' \in [Panels -> Post]
    BY DEF CreateComment, CommentsInv, CommentsTypeOK, Post
<1>10. /\ panel' \in [Panels -> Panel]
       /\ \A q \in Panels : panel'[q].shown = panel[q].shown /\ panel[q].shown \subseteq CommentIds
    BY <1>2 DEF CreateComment, Refetched, CommentsInv, CommentsTypeOK, Panel, Post, r
<1>11. CommentsTypeOK'
    BY <1>6, <1>9, <1>10 DEF CreateComment, CommentsInv, CommentsTypeOK
<1>12. ShownExist'
    BY <1>8, <1>10 DEF CommentsInv, ShownExist
<1>13. RequestsKnow'
    <2> SUFFICES ASSUME NEW q \in Panels, (request[q].at # "idle" /\ request[q].parent # NoId)'
                 PROVE  (/\ Exists(request[q].parent)
                         /\ request[q].at = "insert" => Fits(request[q]))'
        BY DEF RequestsKnow
    <2>1. q # p /\ request'[q] = request[q] /\ request[q].parent \in CommentIds
        BY <1>9 DEF CommentsInv, CommentsTypeOK, Post
    <2>2. /\ Exists(request[q].parent)
          /\ request[q].at = "insert" => Fits(request[q])
        BY <2>1 DEF CommentsInv, RequestsKnow
    <2>3. comments'[request[q].parent] = comments[request[q].parent]
        BY <2>1, <2>2, <1>7
    <2> QED
        BY <2>1, <2>2, <2>3 DEF Fits, TopLevel, Exists
<1>14. ThreadsStayTogether'
    <2> SUFFICES ASSUME NEW d \in CommentIds, Exists(d)', ~TopLevel(d)'
                 PROVE  (LET parent == comments[d].parent IN
                         /\ Exists(parent) /\ TopLevel(parent)
                         /\ comments[d].task = comments[parent].task
                         /\ comments[d].visibility = comments[parent].visibility)'
        BY DEF ThreadsStayTogether
    <2>1. CASE d = c
        <3>1. comments'[d] = row /\ row.parent # NoId
            BY <2>1, <1>4, <1>6 DEF TopLevel, CommentsInv, CommentsTypeOK
        <3>2. comments'[r.parent] = comments[r.parent] /\ comments[r.parent] # NoComment
            BY <3>1, <1>4, <1>5, <1>7 DEF Exists
        <3>3. /\ comments[r.parent].parent = NoId
              /\ comments[r.parent].task = r.task /\ comments[r.parent].visibility = r.visibility
            BY <3>1, <1>4, <1>5 DEF Fits, TopLevel
        <3> QED
            BY <3>1, <3>2, <3>3, <1>4 DEF Exists, TopLevel
    <2>2. CASE d # c
        <3>1. comments'[d] = comments[d] /\ Exists(d) /\ ~TopLevel(d)
            BY <2>2, <1>4 DEF Exists, TopLevel, CommentsInv, CommentsTypeOK
        <3>2. comments[d].parent \in CommentIds
            BY <3>1, RowsAreComments DEF CommentsInv, Comment, TopLevel
        <3>3. /\ Exists(comments[d].parent) /\ TopLevel(comments[d].parent)
              /\ comments[d].task = comments[comments[d].parent].task
              /\ comments[d].visibility = comments[comments[d].parent].visibility
            BY <3>1 DEF CommentsInv, ThreadsStayTogether
        <3>4. comments'[comments[d].parent] = comments[comments[d].parent]
            BY <3>2, <3>3, <1>7
        <3> QED
            BY <3>1, <3>2, <3>3, <3>4 DEF TopLevel, Exists
    <2> QED
        BY <2>1, <2>2
<1> QED
    BY <1>11, <1>12, <1>13, <1>14 DEF CommentsInv

\* One step per action.
LEMMA CommentsStep ==
    CommentsInv /\ [CommentsNext]_commentVars => CommentsInv'
<1> SUFFICES ASSUME CommentsInv, [CommentsNext]_commentVars
             PROVE  CommentsInv'
    OBVIOUS
<1> USE CommentsAssumption
<1>1. ASSUME NEW p \in Panels, NEW t \in Orders, OpenTask(p, t)
      PROVE  CommentsInv'
    <2>1. panel' \in [Panels -> Panel]
        BY ZenonT(60), <1>1 DEF OpenTask, CommentsInv, CommentsTypeOK, Panel
    <2>2. \A q \in Panels : \A c \in panel'[q].shown : Exists(c)
        BY <1>1 DEF OpenTask, CommentsInv, CommentsTypeOK, ShownExist
    <2>3. posts' \in 0..MaxPosts
        BY <1>1 DEF OpenTask, CommentsInv, CommentsTypeOK
    <2> QED
        BY <1>1, <2>1, <2>2, <2>3, PanelStep DEF OpenTask
<1>2. ASSUME NEW p \in Panels, NEW t \in Orders, ShowComments(p, t)
      PROVE  CommentsInv'
    <2> DEFINE list == ListForTask(t, panel[p].visibility)
    <2>1. list \subseteq CommentIds /\ \A c \in list : Exists(c)
        BY ListedExist
    <2>2. panel' = [panel EXCEPT ![p].fetching = @ \ {t}, ![p].shown = list]
        BY <1>2 DEF ShowComments
    <2> HIDE DEF list
    <2>3. panel' \in [Panels -> Panel]
        BY ZenonT(60), <2>1, <2>2 DEF CommentsInv, CommentsTypeOK, Panel
    <2>4. \A q \in Panels : \A c \in panel'[q].shown : Exists(c)
        BY <2>1, <2>2 DEF CommentsInv, CommentsTypeOK, ShownExist
    <2> QED
        BY <1>2, <2>3, <2>4, PanelStep DEF ShowComments, CommentsInv, CommentsTypeOK
<1>3. ASSUME NEW p \in Panels, NEW t \in Orders, FailFetchComments(p, t)
      PROVE  CommentsInv'
    <2>1. panel' \in [Panels -> Panel]
        BY <1>3 DEF FailFetchComments, CommentsInv, CommentsTypeOK, Panel
    <2>2. \A q \in Panels : \A c \in panel'[q].shown : Exists(c)
        BY <1>3 DEF FailFetchComments, CommentsInv, CommentsTypeOK, ShownExist
    <2> QED
        BY <1>3, <2>1, <2>2, PanelStep DEF FailFetchComments, CommentsInv, CommentsTypeOK
<1>4. ASSUME NEW p \in Panels, SendComment(p)
      PROVE  CommentsInv'
    <2>1. PICK parent \in {NoId} \cup {c \in panel[p].shown : TopLevel(c)} :
            request' = [request EXCEPT ![p] = [at |-> "read", task |-> panel[p].task,
                            visibility |-> panel[p].visibility, parent |-> parent]]
        BY <1>4 DEF SendComment
    <2>2. /\ panel[p] \in Panel
          /\ parent # NoId => parent \in CommentIds /\ Exists(parent)
        BY DEF CommentsInv, CommentsTypeOK, ShownExist, Panel
    <2>3. [at |-> "read", task |-> panel[p].task, visibility |-> panel[p].visibility,
           parent |-> parent] \in Post
        BY <2>2 DEF Panel, Post
    <2>4. posts' \in 0..MaxPosts /\ UNCHANGED <<comments, panel>>
        BY <1>4 DEF SendComment, CommentsInv, CommentsTypeOK
    <2> QED
        BY <2>1, <2>2, <2>3, <2>4, RequestStep
<1>5. ASSUME NEW p \in Panels, SendDirectly(p)
      PROVE  CommentsInv'
    <2>1. PICK parent \in {NoId} \cup {c \in CommentIds : Exists(c)}, visibility \in Visibilities :
            request' = [request EXCEPT ![p] = [at |-> "read", task |-> panel[p].task,
                            visibility |-> visibility, parent |-> parent]]
        BY <1>5 DEF SendDirectly
    <2>2. [at |-> "read", task |-> panel[p].task, visibility |-> visibility,
           parent |-> parent] \in Post
        BY DEF CommentsInv, CommentsTypeOK, Panel, Post
    <2>3. posts' \in 0..MaxPosts /\ UNCHANGED <<comments, panel>>
        BY <1>5 DEF SendDirectly, CommentsInv, CommentsTypeOK
    <2> QED
        BY <2>1, <2>2, <2>3, RequestStep
<1>6. ASSUME NEW p \in Panels, ReadParent(p)
      PROVE  CommentsInv'
    <2> DEFINE r == request[p]
               after == [r EXCEPT !.at = "insert", !.visibility = Resolved(p)]
    <2>1. r \in Post /\ r.at = "read" /\ Resolved(p) # "refused"
        BY <1>6 DEF ReadParent, CommentsInv, CommentsTypeOK
    <2>2. r.parent # NoId =>
            /\ Exists(r.parent) /\ r.parent \in CommentIds
            /\ comments[r.parent] \in Comment
            /\ comments[r.parent].task = r.task /\ TopLevel(r.parent)
            /\ Resolved(p) = comments[r.parent].visibility
        <3>1. r.parent # NoId => Exists(r.parent) /\ r.parent \in CommentIds
            BY <2>1 DEF CommentsInv, RequestsKnow, Post
        <3>2. r.parent # NoId => comments[r.parent] \in Comment
            BY <3>1, RowsAreComments DEF CommentsInv
        <3> QED
            BY <2>1, <3>1, <3>2 DEF Resolved
    <2>3. Resolved(p) \in Visibilities
        BY <2>1, <2>2 DEF Resolved, Post, Comment
    <2>4. after \in Post /\ after.parent = r.parent /\ after.task = r.task
          /\ after.visibility = Resolved(p) /\ after.at = "insert"
        BY <2>1, <2>3 DEF Post
    <2>5. request' = [request EXCEPT ![p] = after] /\ UNCHANGED <<comments, panel, posts>>
        BY <1>6 DEF ReadParent, CommentsInv, CommentsTypeOK
    <2> HIDE DEF after, r
    <2>6. after.parent # NoId => Exists(after.parent) /\ Fits(after)
        BY <2>2, <2>4 DEF Fits
    <2>7. posts' \in 0..MaxPosts
        BY <2>5 DEF CommentsInv, CommentsTypeOK
    <2> QED
        BY <2>4, <2>5, <2>6, <2>7, RequestStep
<1>7. ASSUME NEW p \in Panels, CreateComment(p)
      PROVE  CommentsInv'
    BY <1>7, CreateStep
<1>8. ASSUME NEW p \in Panels, FailComment(p)
      PROVE  CommentsInv'
    <2>1. [request[p] EXCEPT !.at = "idle"] \in Post
          /\ [request[p] EXCEPT !.at = "idle"].at = "idle"
        BY DEF CommentsInv, CommentsTypeOK, Post
    <2>2. request' = [request EXCEPT ![p] = [request[p] EXCEPT !.at = "idle"]]
          /\ UNCHANGED <<comments, panel, posts>>
        BY <1>8 DEF FailComment
    <2>3. posts' \in 0..MaxPosts
        BY <2>2 DEF CommentsInv, CommentsTypeOK
    <2> QED
        BY <2>1, <2>2, <2>3, RequestStep
<1>9. CASE UNCHANGED commentVars
    BY <1>9 DEF commentVars, CommentsInv, CommentsTypeOK, ShownExist, RequestsKnow,
                ThreadsStayTogether, Exists, TopLevel, Fits
<1> QED
    BY <1>1, <1>2, <1>3, <1>4, <1>5, <1>6, <1>7, <1>8, <1>9 DEF CommentsNext

-----------------------------------------------------------------------------

\* Rows, panels and requests have their types in every state.
THEOREM CommentTypes == CommentsSpec => []CommentsTypeOK
<1>1. CommentsInv => CommentsTypeOK
    BY DEF CommentsInv
<1> QED
    BY <1>1, CommentsInitInv, CommentsStep, PTL DEF CommentsSpec

\* A thread never leaves its order and its visibility, with any number of panels
\* replying to what they no longer should show.
THEOREM ThreadsTogether == CommentsSpec => []ThreadsStayTogether
<1>1. CommentsInv => ThreadsStayTogether
    BY DEF CommentsInv
<1> QED
    BY <1>1, CommentsInitInv, CommentsStep, PTL DEF CommentsSpec

\* listForTask leaves no comment out.
THEOREM CommentsListed == CommentsSpec => []NoCommentHidden
<1>1. CommentsInv => NoCommentHidden
    <2> SUFFICES ASSUME CommentsInv, NEW c \in CommentIds, Exists(c)
                 PROVE  c \in ListForTask(comments[c].task, comments[c].visibility)
        BY DEF NoCommentHidden
    <2>1. comments[c] \in Comment
        BY RowsAreComments DEF CommentsInv
    <2>2. CASE TopLevel(c)
        BY <2>2 DEF ListForTask
    <2>3. CASE ~TopLevel(c)
        <3>1. comments[c].parent \in CommentIds
            BY <2>1, <2>3 DEF Comment, TopLevel
        <3> QED
            BY <2>3, <3>1 DEF ListForTask, CommentsInv, ThreadsStayTogether
    <2> QED
        BY <2>2, <2>3
<1> QED
    BY <1>1, CommentsInitInv, CommentsStep, PTL DEF CommentsSpec
=============================================================================
