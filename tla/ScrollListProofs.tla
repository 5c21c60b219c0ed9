--------------------------- MODULE ScrollListProofs ---------------------------
(***************************************************************************)
(* Proofs about the two list popups, for any number of rows, presses and   *)
(* jobs on their way.                                                      *)
(***************************************************************************)
EXTENDS ScrollList, TLAPS

\* Jobs are records, and a dialog never asks for a list.
IsJob(j) ==
    \E op \in {"load", "rename", "delete", "squash"}, no \in Nat, at \in Nat :
        \E ids, done, ok, items :
            j = [op |-> op, no |-> no, ids |-> ids, done |-> done, ok |-> ok, items |-> items, at |-> at]

JobsInv ==
    /\ \A j \in jobs : IsJob(j)
    /\ {clicks, loadSerial, store.changes} \subseteq Nat
    /\ dialog.op \in {"none", "rename", "delete", "squash"} /\ (dialog.op = "none" => dialog = NoDialog)

\* The lists that were asked for and not answered.
Loads == {j \in jobs : j.op = "load"}

\* A serial is given out once, so that an answer that is not stale belongs to the request that was made
\* last, and what it brings was read after the list on display: this is the invariant behind isStaleLoad.
LoadInv ==
    /\ loadSerial \in Nat /\ store.changes \in Nat /\ list.at \in Nat
    /\ \A j \in Loads : j.no \in Nat /\ j.at \in Nat /\ j.no <= loadSerial
    /\ \A j, k \in Loads : j.no = k.no => j = k
    /\ list.at <= store.changes
    /\ \A j \in Loads : j.no = loadSerial /\ j.done => list.at <= j.at /\ j.at <= store.changes

LEMMA LoadInitially == Init => JobsInv /\ LoadInv
<1> SUFFICES ASSUME Init PROVE JobsInv /\ LoadInv
  OBVIOUS
<1>1. Loads = {Job("load", 1, <<>>)}
  BY DEF Init, Loads, Job
<1>2. LoadInv
  BY <1>1 DEF Init, LoadInv, Job
<1>3. JobsInv
  <2>1. IsJob(Job("load", 1, <<>>))
    BY DEF IsJob, Job
  <2> QED
    BY <2>1 DEF Init, JobsInv, NoDialog
<1> QED
  BY <1>2, <1>3

\* A job that is done is a job.
LEMMA DoneJob ==
    ASSUME NEW j, IsJob(j), NEW ok, store.changes \in Nat, NEW k,
           k = [j EXCEPT !.done = TRUE, !.ok = ok, !.items = store.items, !.at = store.changes]
    PROVE  IsJob(k) /\ k.op = j.op /\ k.no = j.no /\ k.at = store.changes
<1>1. PICK op \in {"load", "rename", "delete", "squash"}, no \in Nat, at \in Nat :
        \E ids, done, okay, items : j = [op |-> op, no |-> no, ids |-> ids, done |-> done, ok |-> okay,
                                         items |-> items, at |-> at]
  BY DEF IsJob
<1>2. PICK ids, done, okay, items : j = [op |-> op, no |-> no, ids |-> ids, done |-> done, ok |-> okay,
                                         items |-> items, at |-> at]
  BY <1>1
<1>3. k = [op |-> op, no |-> no, ids |-> ids, done |-> TRUE, ok |-> ok, items |-> store.items,
           at |-> store.changes]
  BY <1>2
<1> QED
  BY <1>2, <1>3 DEF IsJob

\* Whatever a job does to the rows, the count of changes rises by one.
LEMMA ChangeCounted ==
    ASSUME NEW ids, Rename(ids) \/ Delete(ids) \/ Squash(ids)
    PROVE  store'.changes = store.changes + 1
<1>1. \E items, id : Change(items, id)
  BY Zenon DEF Rename, Delete, Squash
<1> QED
  BY <1>1 DEF Change

LEMMA JobsStep ==
    ASSUME JobsInv, [Next]_vars
    PROVE  JobsInv'
<1>1. CASE UNCHANGED vars
  BY <1>1 DEF vars, JobsInv
<1>2. CASE OtherCommit
  BY <1>2 DEF OtherCommit, Change, popupVars, JobsInv
<1>3. CASE Work
  <2>1. PICK j \in jobs : RunLoad(j) \/ RunChange(j)
    BY <1>3 DEF Work
  <2>2. UNCHANGED <<loadSerial, dialog, clicks>>
    BY <1>3 DEF Work, popupVars
  <2>3. PICK ok \in BOOLEAN : Finish(j, ok)
    BY <2>1 DEF RunLoad, RunChange
  <2>4. \A k \in jobs' : IsJob(k)
    <3>1. PICK k : k = [j EXCEPT !.done = TRUE, !.ok = ok, !.items = store.items, !.at = store.changes]
      OBVIOUS
    <3>2. IsJob(k)
      BY <3>1, DoneJob DEF JobsInv
    <3> QED
      BY <2>3, <3>1, <3>2 DEF Finish, JobsInv
  <2>5. store'.changes \in Nat
    <3>1. store' = store \/ store'.changes = store.changes + 1
      BY <2>1, ChangeCounted DEF RunLoad, RunChange
    <3> QED
      BY <3>1 DEF JobsInv
  <2> QED
    BY <2>2, <2>4, <2>5 DEF JobsInv
<1>4. \A op \in {"load", "rename", "delete", "squash"}, no \in Nat : \A ids : IsJob(Job(op, no, ids))
  BY DEF IsJob, Job
<1>5. CASE Answer
  <2>1. UNCHANGED <<store, clicks, dialog>>
    BY <1>5 DEF Answer, AnswerLoad, AnswerChange, AnswerSquash
  <2>2. /\ loadSerial' \in {loadSerial, loadSerial + 1}
        /\ jobs' \subseteq jobs \cup {Job("load", loadSerial + 1, <<>>)}
    BY <1>5 DEF Answer, AnswerLoad, AnswerChange, AnswerSquash, Drop, RebuildList, BeginLoading
  <2>3. IsJob(Job("load", loadSerial + 1, <<>>)) /\ loadSerial' \in Nat
    BY <1>4, <2>2 DEF JobsInv
  <2> QED
    BY <2>1, <2>2, <2>3 DEF JobsInv
<1>6. CASE User
  <2>1. UNCHANGED store /\ clicks' \in {clicks, clicks + 1}
    BY <1>6 DEF User, ToggleMode, OnSquashPressed, AnswerDialog, OnClose, Tick, OnRowButton, Click
  <2>2. loadSerial' \in {loadSerial, loadSerial + 1}
    BY <1>6 DEF User, ToggleMode, OnSquashPressed, AnswerDialog, OnClose, Tick, OnRowButton, RebuildList
  <2>3. dialog' \in {dialog, NoDialog} \/ dialog'.op \in {"squash", "rename", "delete"}
    <3>1. CASE OnSquashPressed
      <4>1. \E ids : dialog' = [op |-> "squash", ids |-> ids]
        BY <3>1 DEF OnSquashPressed
      <4> QED BY <4>1
    <3>2. CASE ToggleMode \/ AnswerDialog \/ OnClose \/ \E i \in 1 .. MaxItems : Tick(i)
      BY <3>2 DEF ToggleMode, AnswerDialog, OnClose, Tick
    <3>3. CASE \E i \in 1 .. MaxItems : OnRowButton(i)
      <4>1. \E op \in {"rename", "delete"} : \E ids : dialog' = [op |-> op, ids |-> ids]
        BY <3>3 DEF OnRowButton
      <4> QED BY <4>1
    <3> QED BY <1>6, <3>1, <3>2, <3>3 DEF User
  <2>4. \/ jobs' \subseteq jobs \cup {Job("load", loadSerial + 1, <<>>)}
        \/ dialog # NoDialog /\ jobs' = jobs \cup {Job(dialog.op, clicks, dialog.ids)}
    BY <1>6 DEF User, ToggleMode, OnSquashPressed, AnswerDialog, OnClose, Tick, OnRowButton, RebuildList,
                BeginLoading
  <2>5. \A k \in jobs' : IsJob(k)
    BY <2>4, <1>4 DEF JobsInv
  <2> QED
    BY <2>1, <2>2, <2>3, <2>5 DEF JobsInv, NoDialog
<1> QED
  BY <1>1, <1>2, <1>3, <1>5, <1>6 DEF Next

-------------------------------------------------------------------------------
(***************************************************************************)
(* What a step does to the loads                                           *)
(***************************************************************************)

\* Nothing, but for the count of changes, which may rise.
LoadsKept ==
    /\ Loads' = Loads /\ loadSerial' = loadSerial /\ list' = list
    /\ store'.changes = store.changes \/ store'.changes = store.changes + 1

\* The worker reads a list.
LoadRead(j) ==
    /\ j \in Loads /\ Loads' = (Loads \ {j}) \cup {[j EXCEPT !.done = TRUE, !.ok = TRUE,
                                        !.items = store.items, !.at = store.changes]}
    /\ UNCHANGED <<loadSerial, list, store>>

\* A list is asked for, or the popup closes and makes all of them stale.
LoadAsked ==
    /\ loadSerial' = loadSerial + 1 /\ UNCHANGED <<list, store>>
    /\ Loads' \subseteq Loads \cup {Job("load", loadSerial + 1, <<>>)}

\* A list arrives.
LoadAnswered(j) ==
    /\ j \in Loads /\ j.done /\ Loads' = Loads \ {j} /\ UNCHANGED <<loadSerial, store>>
    /\ \/ list' = list
       \/ j.no = loadSerial /\ list'.at = j.at

LEMMA LoadCases ==
    ASSUME JobsInv, [Next]_vars
    PROVE  LoadsKept \/ LoadAsked \/ \E j \in jobs : LoadRead(j) \/ LoadAnswered(j)
<1>1. CASE UNCHANGED vars
  BY <1>1 DEF vars, LoadsKept, Loads
<1>2. CASE OtherCommit
  BY <1>2 DEF OtherCommit, Change, popupVars, LoadsKept, Loads
<1>3. CASE Work
  <2>1. PICK j \in jobs : RunLoad(j) \/ RunChange(j)
    BY <1>3 DEF Work
  <2>2. UNCHANGED <<loadSerial, list>>
    BY <1>3 DEF Work, popupVars
  <2>3. CASE RunLoad(j)
    <3>1. PICK k : k = [j EXCEPT !.done = TRUE, !.ok = TRUE, !.items = store.items, !.at = store.changes]
      OBVIOUS
    <3>2. k.op = "load" /\ j.op = "load" /\ jobs' = (jobs \ {j}) \cup {k} /\ UNCHANGED store
      <4>1. IsJob(j) /\ store.changes \in Nat
        BY DEF JobsInv
      <4>2. k.op = j.op
        BY <3>1, <4>1, DoneJob
      <4> QED
        BY <2>3, <3>1, <4>2 DEF RunLoad, Finish
    <3>3. Loads' = (Loads \ {j}) \cup {k} /\ j \in Loads
      BY <3>2 DEF Loads
    <3> QED
      BY <2>2, <3>1, <3>2, <3>3 DEF LoadRead
  <2>4. CASE RunChange(j)
    <3>1. PICK ok \in BOOLEAN : Finish(j, ok)
      BY <2>4 DEF RunChange
    <3>2. store' = store \/ store'.changes = store.changes + 1
      BY <2>4, ChangeCounted DEF RunChange
    <3>3. PICK k : k = [j EXCEPT !.done = TRUE, !.ok = ok, !.items = store.items, !.at = store.changes]
      OBVIOUS
    <3>4. k.op # "load" /\ j.op # "load" /\ jobs' = (jobs \ {j}) \cup {k}
      <4>1. IsJob(j) /\ store.changes \in Nat
        BY DEF JobsInv
      <4>2. k.op = j.op
        BY <3>3, <4>1, DoneJob
      <4>3. j.op # "load"
        BY <2>4 DEF RunChange
      <4> QED
        BY <3>1, <3>3, <4>2, <4>3 DEF Finish
    <3>5. Loads' = Loads
      BY <3>4 DEF Loads
    <3> QED
      BY <2>2, <3>2, <3>5 DEF LoadsKept
  <2> QED
    BY <2>1, <2>3, <2>4
<1>4. CASE Answer
  <2>1. PICK j \in jobs : AnswerLoad(j) \/ AnswerChange(j) \/ AnswerSquash(j)
    BY <1>4 DEF Answer
  <2>2. UNCHANGED store
    BY <1>4 DEF Answer
  <2>3. CASE AnswerLoad(j)
    BY <2>2, <2>3 DEF AnswerLoad, IsStaleLoad, LoadAnswered, Loads
  <2>4. CASE AnswerChange(j)
    BY <2>2, <2>4 DEF AnswerChange, Drop, RebuildList, BeginLoading, LoadAsked, LoadsKept, Loads
  <2>5. CASE AnswerSquash(j)
    BY <2>2, <2>5 DEF AnswerSquash, Drop, RebuildList, BeginLoading, LoadAsked, LoadsKept, Loads
  <2> QED
    BY <2>1, <2>3, <2>4, <2>5
<1>5. CASE User
  <2>1. UNCHANGED store
    BY <1>5 DEF User
  <2>2. CASE ToggleMode
    BY <2>1, <2>2 DEF ToggleMode, RebuildList, BeginLoading, LoadAsked, LoadsKept, Loads
  <2>3. CASE OnSquashPressed
    BY <2>1, <2>3 DEF OnSquashPressed, LoadsKept, Loads
  <2>4. CASE AnswerDialog
    <3>1. dialog.op # "load"
      BY DEF JobsInv
    <3> QED
      BY <2>1, <2>4, <3>1 DEF AnswerDialog, LoadsKept, Loads, Job
  <2>5. CASE OnClose
    BY <2>1, <2>5 DEF OnClose, LoadAsked, Loads
  <2>6. CASE \E i \in 1 .. MaxItems : Tick(i) \/ OnRowButton(i)
    BY <2>1, <2>6 DEF Tick, OnRowButton, LoadsKept, Loads
  <2> QED
    BY <1>5, <2>2, <2>3, <2>4, <2>5, <2>6 DEF User
<1> QED
  BY <1>1, <1>2, <1>3, <1>4, <1>5 DEF Next

LEMMA LoadStep ==
    ASSUME JobsInv, LoadInv, [Next]_vars
    PROVE  LoadInv' /\ list'.at >= list.at
<1>1. JobsInv'
  BY JobsStep
<1>2. /\ {loadSerial, store.changes, list.at} \subseteq Nat
      /\ \A j \in Loads : j.no \in Nat /\ j.at \in Nat /\ j.no <= loadSerial
  BY DEF LoadInv
<1>3. CASE LoadsKept
  BY <1>2, <1>3 DEF LoadsKept, LoadInv
<1>4. CASE LoadAsked
  <2>1. PICK n : n = Job("load", loadSerial + 1, <<>>)
    OBVIOUS
  <2>2. n.no = loadSerial + 1 /\ n.at = 0 /\ n.done = FALSE
    BY <2>1 DEF Job
  <2>3. \A j \in Loads' : j \in Loads \/ j = n
    BY <1>4, <2>1 DEF LoadAsked
  <2>4. \A j \in Loads : j.no # loadSerial + 1
    BY <1>2
  <2>5. loadSerial' = loadSerial + 1 /\ UNCHANGED <<list, store>>
    BY <1>4 DEF LoadAsked
  <2>6. \A j \in Loads' : j.no \in Nat /\ j.at \in Nat /\ j.no <= loadSerial'
    BY <1>2, <2>2, <2>3, <2>5
  <2>7. \A j, k \in Loads' : j.no = k.no => j = k
    BY <2>2, <2>3, <2>4 DEF LoadInv
  <2>8. \A j \in Loads' : ~(j.no = loadSerial' /\ j.done)
    BY <2>2, <2>3, <2>4, <2>5
  <2> QED
    BY <1>2, <2>5, <2>6, <2>7, <2>8 DEF LoadInv
<1>5. ASSUME NEW j \in jobs, LoadRead(j) PROVE LoadInv' /\ list'.at >= list.at
  <2>1. PICK k : k = [j EXCEPT !.done = TRUE, !.ok = TRUE, !.items = store.items, !.at = store.changes]
    OBVIOUS
  <2>2. k.no = j.no /\ k.at = store.changes
    <3>1. IsJob(j) /\ store.changes \in Nat
      BY DEF JobsInv
    <3> QED
      BY <2>1, <3>1, DoneJob
  <2>3. j \in Loads /\ Loads' = (Loads \ {j}) \cup {k} /\ UNCHANGED <<loadSerial, list, store>>
    BY <1>5, <2>1 DEF LoadRead
  <2> QED
    BY <1>2, <2>2, <2>3 DEF LoadInv
<1>6. ASSUME NEW j \in jobs, LoadAnswered(j) PROVE LoadInv' /\ list'.at >= list.at
  <2>1. j \in Loads /\ j.done /\ Loads' = Loads \ {j} /\ UNCHANGED <<loadSerial, store>>
    BY <1>6 DEF LoadAnswered
  <2>2. CASE list' = list
    BY <1>2, <2>1, <2>2 DEF LoadInv
  <2>3. CASE j.no = loadSerial /\ list'.at = j.at
    <3>1. \A k \in Loads' : k.no # loadSerial'
      BY <2>1, <2>3 DEF LoadInv
    <3>2. list.at <= j.at /\ j.at <= store.changes /\ j.at \in Nat
      BY <2>1, <2>3 DEF LoadInv
    <3> QED
      BY <1>2, <2>1, <2>3, <3>1, <3>2 DEF LoadInv
  <2> QED
    BY <1>6, <2>2, <2>3 DEF LoadAnswered
<1> QED
  BY <1>3, <1>4, <1>5, <1>6, LoadCases

\* A list that was read earlier never replaces one that was read later, whatever the order in which
\* the jobs run and their answers reach the main thread, for any number of requests (loadAsync).
THEOREM ListsGoForward == Spec => ListsNeverGoBack
<1>1. Init => JobsInv /\ LoadInv
  BY LoadInitially
<1>2. JobsInv /\ LoadInv /\ [Next]_vars => (JobsInv /\ LoadInv)' /\ [list'.at >= list.at]_list
  BY JobsStep, LoadStep
<1> QED
  BY <1>1, <1>2, PTL DEF Spec, ListsNeverGoBack

-------------------------------------------------------------------------------
(***************************************************************************)
(* Ticks and selection                                                     *)
(***************************************************************************)

IsView(v) ==
    \E loading, rows, m, ticked : v = [loading |-> loading, rows |-> rows, mode |-> m, ticked |-> ticked]

\* A tick changes one part of the view.
LEMMA ViewTicked ==
    ASSUME NEW v, IsView(v), NEW w, NEW ticked, w = [v EXCEPT !.ticked = ticked]
    PROVE  IsView(w) /\ w.rows = v.rows /\ w.mode = v.mode /\ w.ticked = ticked
BY DEF IsView

LEMMA ViewsAreViews ==
    /\ \A loading : IsView(Blank(loading))
    /\ \A items, m, sel : IsView(Rendered(items, m, sel))
BY DEF IsView, Blank, Rendered

SelectionInv == IsView(view) /\ PopupShowsSelection

LEMMA TickKeepsSelection ==
    ASSUME IsView(view), PopupShowsSelection, NEW i, Tick(i)
    PROVE  IsView(view') /\ PopupShowsSelection'
<1>1. PICK ticked : /\ view' = [view EXCEPT !.ticked = ticked]
                    /\ ticked = IF i \in view.ticked THEN view.ticked \ {i} ELSE view.ticked \cup {i}
  BY DEF Tick
<1>2. IsView(view') /\ view'.rows = view.rows /\ view'.mode = view.mode /\ view'.ticked = ticked
  BY <1>1, ViewTicked
<1>3. /\ i \in ToSet(view.rows) /\ view.mode /\ mode' = mode /\ closing' = closing /\ ~closing
      /\ selected' = IF i \in selected THEN selected \ {i} ELSE selected \cup {i}
      /\ header' = HeaderFor(mode, selected')
  BY DEF Tick, Free
<1>4. view.rows # <<>>
  BY <1>3 DEF ToSet
<1>5. view.mode = mode /\ view.ticked = selected \cap ToSet(view.rows)
  BY <1>3, <1>4 DEF PopupShowsSelection
<1>6. ticked = selected' \cap ToSet(view.rows)
  BY <1>1, <1>3, <1>5
<1>7. mode'
  BY <1>3, <1>5
<1>8. view'.mode = mode' /\ view'.ticked = selected' \cap ToSet(view'.rows)
  BY <1>2, <1>3, <1>5, <1>6
<1>9. header' = HeaderFor(mode', selected')
  BY <1>3
<1> QED
  BY <1>2, <1>7, <1>8, <1>9 DEF PopupShowsSelection, HeaderFor, ToSet

\* What is ticked is what a press acts on, for any number of rows, list loads and squashes under way.
THEOREM TicksAreSelection == Spec => []PopupShowsSelection
<1>1. Init => SelectionInv
  BY ViewsAreViews DEF Init, SelectionInv, PopupShowsSelection, Blank, HeaderFor
<1>2. ASSUME IsView(view), PopupShowsSelection, [Next]_vars
      PROVE  IsView(view') /\ PopupShowsSelection'
  <2>1. CASE UNCHANGED vars \/ Work \/ OtherCommit
    <3>1. UNCHANGED <<closing, view, mode, selected, header>>
      BY <2>1 DEF vars, Work, OtherCommit, popupVars
    <3> QED
      BY <3>1, <1>2 DEF PopupShowsSelection, HeaderFor
  <2>2. CASE Answer
    <3>1. PICK j \in jobs : AnswerLoad(j) \/ AnswerChange(j) \/ AnswerSquash(j)
      BY <2>2 DEF Answer
    <3>2. CASE AnswerLoad(j)
      <4>1. UNCHANGED <<closing, mode, selected, header>>
        BY <3>2 DEF AnswerLoad
      <4>2. CASE view' = view
        BY <1>2, <4>1, <4>2 DEF PopupShowsSelection, HeaderFor
      <4>3. CASE view' = Rendered(j.items, mode, selected)
        <5>1. view'.rows = j.items /\ view'.mode = mode
          BY <4>3 DEF Rendered
        <5>2. view'.ticked = IF mode THEN selected \cap ToSet(j.items) ELSE {}
          BY <4>3 DEF Rendered
        <5>3. ~closing => view'.ticked = selected \cap ToSet(j.items)
          BY <5>2, <1>2 DEF PopupShowsSelection
        <5>4. IsView(view')
          BY <4>3, ViewsAreViews
        <5> QED
          BY <1>2, <4>1, <5>1, <5>3, <5>4 DEF PopupShowsSelection, HeaderFor
      <4> QED
        BY <3>2, <4>2, <4>3 DEF AnswerLoad
    <3>3. CASE AnswerChange(j)
      BY <3>3, <1>2, ViewsAreViews DEF AnswerChange, Drop, RebuildList, Blank, PopupShowsSelection, HeaderFor
    <3>4. CASE AnswerSquash(j)
      BY <3>4, <1>2, ViewsAreViews DEF AnswerSquash, Drop, RebuildList, Blank, PopupShowsSelection, HeaderFor
    <3> QED BY <3>1, <3>2, <3>3, <3>4
  <2>3. CASE User
    <3>1. CASE ToggleMode
      BY <3>1, <1>2, ViewsAreViews DEF ToggleMode, RebuildList, Blank, Rendered, PopupShowsSelection, HeaderFor
    <3>2. CASE OnSquashPressed \/ AnswerDialog \/ \E i \in 1 .. MaxItems : OnRowButton(i)
      <4>1. UNCHANGED <<closing, view, mode, selected, header>>
        BY <3>2 DEF OnSquashPressed, AnswerDialog, OnRowButton
      <4> QED
        BY <4>1, <1>2 DEF PopupShowsSelection, HeaderFor
    <3>3. CASE OnClose
      BY <3>3, ViewsAreViews DEF OnClose, PopupShowsSelection
    <3>4. ASSUME NEW i \in 1 .. MaxItems, Tick(i) PROVE IsView(view') /\ PopupShowsSelection'
      BY <3>4, <1>2, TickKeepsSelection
    <3> QED BY <2>3, <3>1, <3>2, <3>3, <3>4 DEF User
  <2> QED BY <1>2, <2>1, <2>2, <2>3 DEF Next
<1>3. SelectionInv /\ [Next]_vars => SelectionInv'
  BY <1>2 DEF SelectionInv
<1>4. SelectionInv => PopupShowsSelection
  BY DEF SelectionInv
<1> QED
  BY <1>1, <1>3, <1>4, PTL DEF Spec
===============================================================================
