------------------------------ MODULE ScrollList ------------------------------
(***************************************************************************)
(* The two popups that list what is in the database: History (commits, with *)
(* a squash mode in which rows are ticked) and Levels                      *)
(* (src/ui/common/ScrollListPopup, HistoryList, HistoryCommitRow,          *)
(* HistoryFlows, LevelBrowserLayer).                                       *)
(*                                                                         *)
(* A list is read by a worker job and rendered by a callback on the main   *)
(* thread; meanwhile the user goes on, other jobs change the database, and *)
(* further lists are requested.  Jobs run in any order.  Requesting a list *)
(* cancels the previous request, but a cancelled one may be on its way to  *)
(* the main thread already: the model never relies on the cancellation.    *)
(* A squash is one job here; EditorFlows has its phases.                   *)
(***************************************************************************)
EXTENDS Integers, FiniteSets, Sequences, SequencesExt

CONSTANTS
    MaxItems,    \* bound of the model on the rows ever stored
    MaxClicks    \* bound of the model on the buttons pressed that lead to a job

ASSUME ListAssumption == MaxItems \in Nat \ {0} /\ MaxClicks \in Nat

VARIABLES
    kind,        \* "history" or "levels"
    store,       \* the rows in the database, newest first, and a count of their changes
    closing, loadSerial,      \* ListState
    list,        \* m_commits (the rows last loaded), with the count of changes they were read at
    view,        \* the scroll layer: the loading label, and the rows as they were rendered and ticked
    mode, selected,           \* m_squashMode, m_selected
    header,      \* the number on the squash button, 0 without one
    busy,        \* m_busy
    dialog,      \* the question that the user has to answer: its op and the rows it is about
    jobs,        \* worker jobs and, once done, their answers on the way to the main thread
    lastId, clicks,
    \* History variable, not in the code:
    changed      \* the count of changes after the last one that this popup asked for

vars == <<kind, store, closing, loadSerial, list, view, mode, selected, header, busy, dialog, jobs,
          lastId, clicks, changed>>
popupVars == <<closing, loadSerial, list, view, mode, selected, header, busy, dialog>>

NoDialog == [op |-> "none", ids |-> <<>>]

Job(op, no, ids) ==
    [op |-> op, no |-> no, ids |-> ids, done |-> FALSE, ok |-> FALSE, items |-> <<>>, at |-> 0]

Blank(loading) == [loading |-> loading, rows |-> <<>>, mode |-> FALSE, ticked |-> {}]

\* renderList and createCommitRow: beginListRender removes the label and the rows, every row shows its tick.
Rendered(items, m, sel) ==
    [loading |-> FALSE, rows |-> items, mode |-> m, ticked |-> IF m THEN sel \cap ToSet(items) ELSE {}]

\* rebuildHeader
HeaderFor(m, sel) == IF m /\ Cardinality(sel) >= 2 THEN Cardinality(sel) ELSE 0

-------------------------------------------------------------------------------
(***************************************************************************)
(* Loading                                                                 *)
(***************************************************************************)

\* beginLoading returns ++loadSerial.
BeginLoading_Postfix == loadSerial
BeginLoading == loadSerial + 1

\* rebuildList with loadAsync: the label replaces the rows, the job carries the new serial.
RebuildList(others) ==
    /\ loadSerial' = loadSerial + 1
    /\ view' = Blank(TRUE)
    /\ jobs' = others \cup {Job("load", BeginLoading, <<>>)}

IsStaleLoad_AnyAnswer(j) == closing
IsStaleLoad(j) == closing \/ j.no # loadSerial

Init ==
    /\ kind \in {"history", "levels"}
    /\ lastId \in 0 .. MaxItems - 1
    /\ store = [items |-> [n \in 1 .. lastId |-> lastId + 1 - n], changes |-> 1]
    /\ closing = FALSE /\ loadSerial = 1
    /\ list = [items |-> <<>>, at |-> 0]
    /\ view = Blank(TRUE)
    /\ mode = FALSE /\ selected = {} /\ header = 0
    /\ busy = FALSE /\ dialog = NoDialog
    /\ jobs = {Job("load", 1, <<>>)}
    /\ clicks = 0 /\ changed = 0

-------------------------------------------------------------------------------
(***************************************************************************)
(* The worker                                                              *)
(***************************************************************************)

Finish(j, ok) ==
    jobs' = (jobs \ {j}) \cup
            {[j EXCEPT !.done = TRUE, !.ok = ok, !.items = store.items, !.at = store.changes]}

\* listSummaries or listLevels.
RunLoad(j) ==
    /\ j.op = "load" /\ ~j.done
    /\ Finish(j, TRUE)
    /\ UNCHANGED <<store, lastId, changed>>

\* updateCommitMessage and the squash fail if their rows are not there any more: those of a squash,
\* oldest first, next to each other.  deleteLevel does not ask.
Change(items, id) ==
    /\ store' = [items |-> items, changes |-> store.changes + 1]
    /\ lastId' = id

Rename(ids) == ids[1] \in ToSet(store.items) /\ Change(store.items, lastId)

Delete(ids) == Change(SelectSeq(store.items, LAMBDA i : i # ids[1]), lastId)

Squash(ids) ==
    /\ lastId < MaxItems
    /\ \E n \in 1 .. Len(store.items) - Len(ids) + 1 :
          /\ SubSeq(store.items, n, n + Len(ids) - 1) = Reverse(ids)
          /\ Change(SubSeq(store.items, 1, n - 1) \o <<lastId + 1>> \o
                    SubSeq(store.items, n + Len(ids), Len(store.items)), lastId + 1)

RunChange(j) ==
    /\ j.op # "load" /\ ~j.done
    /\ \/ /\ \/ j.op = "rename" /\ Rename(j.ids)
             \/ j.op = "delete" /\ Delete(j.ids)
             \/ j.op = "squash" /\ Squash(j.ids)
          /\ Finish(j, TRUE)
          /\ changed' = store'.changes
       \/ Finish(j, FALSE) /\ UNCHANGED <<store, lastId, changed>>

Work == (\E j \in jobs : RunLoad(j) \/ RunChange(j)) /\ UNCHANGED <<kind, popupVars, clicks>>

\* A job that was posted before the popup opened: a commit, or the first commit of a level.
OtherCommit ==
    /\ clicks < MaxClicks /\ lastId < MaxItems
    /\ clicks' = clicks + 1
    /\ Change(<<lastId + 1>> \o store.items, lastId + 1)
    /\ UNCHANGED <<kind, popupVars, jobs, changed>>

-------------------------------------------------------------------------------
(***************************************************************************)
(* Answers on the main thread                                              *)
(***************************************************************************)

Drop(j) == jobs' = jobs \ {j} /\ UNCHANGED <<loadSerial, view>>

\* The callback of loadAsync, with renderList.
AnswerLoad(j) ==
    /\ j.op = "load" /\ j.done
    /\ jobs' = jobs \ {j}
    /\ IF IsStaleLoad(j)
       THEN UNCHANGED <<list, view>>
       ELSE /\ list' = [items |-> j.items, at |-> j.at]
            /\ view' = Rendered(j.items, mode, selected)
    /\ UNCHANGED <<closing, loadSerial, mode, selected, header, busy, dialog>>

\* The callbacks of a rename and of a deletion; the latter set the busy flag.
AnswerChange(j) ==
    /\ j.op \in {"rename", "delete"} /\ j.done
    /\ busy' = (busy /\ j.op = "rename")
    /\ IF closing \/ ~j.ok THEN Drop(j) ELSE RebuildList(jobs \ {j})
    /\ UNCHANGED <<closing, list, mode, selected, header, dialog>>

AnswerSquash_NoRebuild(j) ==
    /\ j.op = "squash" /\ j.done
    /\ busy' = FALSE
    /\ Drop(j)
    /\ IF closing \/ ~j.ok
       THEN UNCHANGED <<mode, selected, header>>
       ELSE mode' = FALSE /\ selected' = {} /\ header' = HeaderFor(FALSE, {})
    /\ UNCHANGED <<closing, list, dialog>>

\* onSuccess of runSquash leaves the squash mode.
AnswerSquash(j) ==
    /\ j.op = "squash" /\ j.done
    /\ busy' = FALSE
    /\ IF closing \/ ~j.ok
       THEN Drop(j) /\ UNCHANGED <<mode, selected, header>>
       ELSE /\ mode' = FALSE /\ selected' = {} /\ header' = HeaderFor(FALSE, {})
            /\ RebuildList(jobs \ {j})
    /\ UNCHANGED <<closing, list, dialog>>

Answer ==
    /\ \E j \in jobs : AnswerLoad(j) \/ AnswerChange(j) \/ AnswerSquash(j)
    /\ UNCHANGED <<kind, store, lastId, clicks, changed>>

-------------------------------------------------------------------------------
(***************************************************************************)
(* The user                                                                *)
(***************************************************************************)

Free == ~closing /\ dialog = NoDialog
Click == clicks < MaxClicks /\ clicks' = clicks + 1

\* The mode button renders the rows last loaded again, also while newer ones are loading.
ToggleMode ==
    /\ Free /\ kind = "history"
    /\ mode' = ~mode /\ selected' = {} /\ header' = HeaderFor(mode', {})
    /\ IF list.items = <<>>
       THEN Click /\ RebuildList(jobs)
       ELSE view' = Rendered(list.items, mode', {}) /\ UNCHANGED <<clicks, jobs, loadSerial>>
    /\ UNCHANGED <<closing, list, busy, dialog>>

\* The tick of a row: m_selected counts, not the toggler's state, which flips with every press.
Tick(i) ==
    /\ Free /\ i \in ToSet(view.rows) /\ view.mode
    /\ selected' = IF i \in selected THEN selected \ {i} ELSE selected \cup {i}
    /\ view' = [view EXCEPT !.ticked = IF i \in @ THEN @ \ {i} ELSE @ \cup {i}]
    /\ header' = HeaderFor(mode, selected')
    /\ UNCHANGED <<closing, loadSerial, list, mode, busy, dialog, jobs, clicks>>

\* selectedOldestFirst: the selected rows of the last list, which is newest first.
SelectedOldestFirst == Reverse(SelectSeq(list.items, LAMBDA i : i \in selected))

\* onSquashPressed refuses a selection with rows that are not in the last list.
OnSquashPressed ==
    /\ Free /\ header # 0 /\ ~busy
    /\ Len(SelectedOldestFirst) = Cardinality(selected)
    /\ Click
    /\ busy' = TRUE
    /\ dialog' = [op |-> "squash", ids |-> SelectedOldestFirst]
    /\ UNCHANGED <<closing, loadSerial, list, view, mode, selected, header, jobs>>

\* The Rename button of a commit and the Delete button of a level.
OnRowButton(i) ==
    /\ Free /\ i \in ToSet(view.rows) /\ ~view.mode
    /\ Click
    /\ \/ kind = "history" /\ busy' = busy /\ dialog' = [op |-> "rename", ids |-> <<i>>]
       \/ kind = "levels" /\ ~busy /\ busy' = TRUE /\ dialog' = [op |-> "delete", ids |-> <<i>>]
    /\ UNCHANGED <<closing, loadSerial, list, view, mode, selected, header, jobs>>

\* The dialogs: confirmation and message of a squash, message of a rename, confirmation of a deletion.
\* A squash that is confirmed after the popup closed is dropped; nobody reads the busy flag any more.
AnswerDialog ==
    /\ dialog # NoDialog
    /\ dialog' = NoDialog
    /\ \/ /\ ~(closing /\ dialog.op = "squash")
          /\ jobs' = jobs \cup {Job(dialog.op, clicks, dialog.ids)}
          /\ UNCHANGED busy
       \/ jobs' = jobs /\ busy' = (busy /\ dialog.op = "rename")
    /\ UNCHANGED <<closing, loadSerial, list, view, mode, selected, header, clicks>>

\* onClose, with preparePopupClose.
OnClose ==
    /\ ~closing
    /\ closing' = TRUE
    /\ loadSerial' = loadSerial + 1
    /\ view' = Blank(FALSE)
    /\ UNCHANGED <<list, mode, selected, header, busy, dialog, jobs, clicks>>

User ==
    /\ \/ ToggleMode \/ OnSquashPressed \/ AnswerDialog \/ OnClose
       \/ \E i \in 1 .. MaxItems : Tick(i) \/ OnRowButton(i)
    /\ UNCHANGED <<kind, store, lastId, changed>>

Next == Work \/ OtherCommit \/ Answer \/ User

\* Jobs run and callbacks are called; nothing is asked of the user.
Spec == Init /\ [][Next]_vars /\ WF_vars(Work) /\ WF_vars(Answer)

-------------------------------------------------------------------------------
(***************************************************************************)
(* Properties                                                              *)
(***************************************************************************)

\* A list that was read earlier never replaces one that was read later, whatever the order in which
\* requests are answered (isStaleLoad).
ListsNeverGoBack == [][list'.at >= list.at]_list

\* A rename, squash or deletion that the popup asked for and that succeeded is on its list in the end,
\* unless the popup closes: no answer is taken for a stale one that is not, and no loading label stays.
OwnChangesAppear ==
    \A n \in 1 .. 1 + MaxClicks :
        changed = n ~> closing \/ (list.at >= n /\ ~view.loading)

\* What the popup shows is what a press would act on: the rows have ticks only in squash mode, a row is
\* ticked if and only if it is selected, the squash button counts the selection, and there is no
\* selection outside the squash mode, also when lists arrive or a squash ends while the user ticks.
PopupShowsSelection ==
    ~closing =>
        /\ view.rows # <<>> => view.mode = mode /\ view.ticked = selected \cap ToSet(view.rows)
        /\ header = HeaderFor(mode, selected)
        /\ ~mode => selected = {}

===============================================================================
