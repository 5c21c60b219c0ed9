------------------------------ MODULE EditorFlows ------------------------------
(***************************************************************************)
(* The user's side of the two-phase operations: popups with their busy and *)
(* closing flags, the level in the editor, and the flows that go back and  *)
(* forth between the main thread and the git worker                        *)
(* (src/ui/common/PreparedEditorFlow.hpp and its callers in HistoryFlows,  *)
(* LevelBrowserLayer, ImportGdgeFlow and EditorPauseLayerHook).            *)
(*                                                                         *)
(* A worker job is one step here, and a row's delta stands for the level   *)
(* that the row rebuilds to, which GitService shows to be sound            *)
(* (HistoryFaithful).  Every callback on the main thread is one step; jobs *)
(* run in any order.                                                       *)
(***************************************************************************)
EXTENDS CommitStore

CONSTANTS
    Popup,        \* the History and Levels popups that are ever opened
    NoPopup, NoEditor, NoFlow,
    UserOps,      \* the operations that the user starts
    MaxLayers,    \* bound of the model on the editor layers that are ever opened
    MaxFlows      \* bound of the model on the flows in progress

ASSUME FlowAssumption ==
    /\ NoPopup \notin Popup
    /\ MaxLayers \in Nat /\ MaxFlows \in Nat

VARIABLES
    editor,       \* the active LevelEditorLayer: its number, the level edited and its content
    layers,       \* the number of editor layers opened so far
    popups,       \* m_listState.closing and m_busy of every popup
    flows,        \* the operations in progress
    \* History variable, not in the code:
    unsaved       \* the editor may differ from HEAD: edited, a write failed, or it shows older work

flowVars == <<editor, layers, popups, flows, unsaved>>
vars == <<storeVars, flowVars>>

Slot == 1 .. MaxFlows

\* stage says what the flow waits for: "confirm" and "message" for the user in a dialog, "prepare" and
\* "finalize" for the worker, "apply", "outcome" and "close" for the main thread.  layer is editorRef,
\* args are the commits the user picked, ok whether the last job succeeded, state what it rebuilt or
\* captured, parent the parent it found, pending whether there is something to finalize.
Flow ==
    [popup : Popup \cup {NoPopup}, op : UserOps,
     stage : {"confirm", "message", "prepare", "apply", "finalize", "outcome", "close"},
     layer : 1 .. MaxLayers, level : LevelKey, src : LevelKey, args : Seq(Nat),
     ok : BOOLEAN, state : Blob, parent : Nat, pending : BOOLEAN]

ASSUME NoFlowAssumption == NoFlow \notin Flow

FlowTypeOK ==
    /\ StoreTypeOK
    /\ layers \in 0 .. MaxLayers
    /\ editor \in {NoEditor} \cup [layer : 1 .. layers, level : LevelKey, content : Blob]
    /\ popups \in [Popup -> [phase : {"unopened", "open", "closing"}, busy : BOOLEAN]]
    /\ flows \in [Slot -> Flow \cup {NoFlow}]
    /\ unsaved \in BOOLEAN

Init ==
    /\ StoreInit
    /\ editor = NoEditor /\ layers = 0
    /\ popups = [p \in Popup |-> [phase |-> "unopened", busy |-> FALSE]]
    /\ flows = [n \in Slot |-> NoFlow]
    /\ unsaved = FALSE

-------------------------------------------------------------------------------
(***************************************************************************)
(* Helpers                                                                 *)
(***************************************************************************)

Waiting(n, stage) == flows[n] # NoFlow /\ flows[n].stage = stage
Closing(p) == p # NoPopup /\ popups[p].phase = "closing"
NoPopupOpen == \A p \in Popup : popups[p].phase # "open"
NoDialog == \A n \in Slot : ~Waiting(n, "confirm") /\ ~Waiting(n, "message")

HeadShows(k, content) == refs[k] # NoId /\ commits[refs[k]].delta = content

Advance(n, f) == flows' = [flows EXCEPT ![n] = f]
End(n) == Advance(n, NoFlow)

\* finishBusyAction, of flows that have a popup.
Released(p) == IF p = NoPopup THEN popups ELSE [popups EXCEPT ![p].busy = FALSE]

\* The lowest free slot takes a new flow.
Enter(f) ==
    \E n \in Slot :
        /\ flows[n] = NoFlow /\ \A m \in 1 .. n - 1 : flows[m] # NoFlow
        /\ Advance(n, f)

NewFlow(p, op, stage, src, args, content) ==
    [popup |-> p, op |-> op, stage |-> stage, layer |-> editor.layer, level |-> editor.level,
     src |-> src, args |-> args, ok |-> TRUE, state |-> content, parent |-> NoId,
     pending |-> FALSE]

-------------------------------------------------------------------------------
(***************************************************************************)
(* The user                                                                *)
(***************************************************************************)

\* External: the game's editor.  Leaving or editing needs the popups out of the way.
OpenEditor(k, content) ==
    /\ editor = NoEditor /\ layers < MaxLayers
    /\ layers' = layers + 1
    /\ editor' = [layer |-> layers + 1, level |-> k, content |-> content]
    /\ unsaved' = TRUE
    /\ UNCHANGED <<storeVars, popups, flows>>

LeaveEditor ==
    /\ editor # NoEditor /\ NoPopupOpen /\ NoDialog /\ layers < MaxLayers
    /\ editor' = NoEditor
    /\ UNCHANGED <<storeVars, layers, popups, flows, unsaved>>

EditLevel(content) ==
    /\ editor # NoEditor /\ NoPopupOpen /\ NoDialog
    /\ editor' = [editor EXCEPT !.content = content]
    /\ unsaved' = TRUE
    /\ UNCHANGED <<storeVars, layers, popups, flows>>

OpenPopup(p) ==
    /\ popups[p].phase = "unopened" /\ NoPopupOpen /\ editor # NoEditor
    /\ popups' = [popups EXCEPT ![p].phase = "open"]
    /\ UNCHANGED <<storeVars, editor, layers, flows, unsaved>>

\* onClose, with preparePopupClose: at any time.
ClosePopup(p) ==
    /\ popups[p].phase = "open"
    /\ popups' = [popups EXCEPT ![p].phase = "closing"]
    /\ UNCHANGED <<storeVars, editor, layers, flows, unsaved>>

\* A button of a popup: tryBeginBusyAction, then a dialog.  The ids are those of a list that may be old.
Start(p, op, src, args) ==
    /\ op \in UserOps
    /\ ~popups[p].busy
    /\ popups' = [popups EXCEPT ![p].busy = TRUE]
    /\ Enter(NewFlow(p, op, "confirm", src, args, editor.content))
    /\ UNCHANGED <<storeVars, editor, layers, unsaved>>

StartCheckoutFlow(p) == \E i \in IdArgs(editor.level) : Start(p, "checkout", editor.level, <<i>>)
StartRevertFlow(p) == \E i \in IdArgs(editor.level) : Start(p, "revert", editor.level, <<i>>)
OnSquashPressed(p) ==
    \E ids \in Selections(IdArgs(editor.level)) : Start(p, "squash", editor.level, ids)
\* The Load and Delete buttons of the Levels popup.
LoadPressed(p) == \E src \in LevelKey \ {editor.level} : Start(p, "load", src, <<>>)
DeletePressed(p) == \E src \in LevelKey : Start(p, "delete", src, <<>>)

PressButton(p) ==
    /\ popups[p].phase = "open" /\ editor # NoEditor
    /\ \/ StartCheckoutFlow(p) \/ StartRevertFlow(p) \/ OnSquashPressed(p)
       \/ LoadPressed(p) \/ DeletePressed(p)

\* startImportGdgeFlow up to its plan dialog: no popup of the mod, and no busy flag.
StartImport ==
    /\ "import" \in UserOps /\ editor # NoEditor /\ NoPopupOpen
    /\ Enter(NewFlow(NoPopup, "import", "confirm", editor.level, <<>>, editor.content))
    /\ UNCHANGED <<storeVars, editor, layers, popups, unsaved>>

\* onGitCommit: the level is captured when the message is confirmed, and committed by a job.
StartCommit ==
    /\ "commit" \in UserOps /\ editor # NoEditor /\ NoPopupOpen
    /\ Enter(NewFlow(NoPopup, "commit", "finalize", editor.level, <<>>, editor.content))
    /\ unsaved' = FALSE
    /\ UNCHANGED <<storeVars, editor, layers, popups>>

Confirm(n) ==
    /\ Waiting(n, "confirm")
    /\ LET f == flows[n]
       IN  IF f.op = "squash" /\ Closing(f.popup)
           THEN End(n) /\ popups' = Released(f.popup)
           ELSE /\ Advance(n, [f EXCEPT !.stage = CASE f.op = "squash" -> "message"
                                                    [] f.op = "delete" -> "finalize"
                                                    [] OTHER -> "prepare"])
                /\ UNCHANGED popups
    /\ UNCHANGED <<storeVars, editor, layers, unsaved>>

Cancel(n) ==
    /\ Waiting(n, "confirm")
    /\ End(n) /\ popups' = Released(flows[n].popup)
    /\ UNCHANGED <<storeVars, editor, layers, unsaved>>

\* The message dialog of a squash.  If the popup closed under it, nothing happens at all.
ConfirmMessage(n) ==
    /\ Waiting(n, "message")
    /\ IF Closing(flows[n].popup) THEN End(n) ELSE Advance(n, [flows[n] EXCEPT !.stage = "prepare"])
    /\ UNCHANGED <<storeVars, editor, layers, popups, unsaved>>

CancelMessage(n) ==
    /\ Waiting(n, "message")
    /\ End(n)
    /\ popups' = IF Closing(flows[n].popup) THEN popups ELSE Released(flows[n].popup)
    /\ UNCHANGED <<storeVars, editor, layers, unsaved>>

-------------------------------------------------------------------------------
(***************************************************************************)
(* The worker: prepare                                                     *)
(***************************************************************************)

\* What a prepare that succeeds hands to the main thread: the content for the editor, the parent and
\* whether there is something to finalize.
Result(f, content, parent, pending) ==
    [f EXCEPT !.stage = "apply", !.state = content, !.parent = parent, !.pending = pending]

\* Mutant: the checkout is not recorded.
PreparedCheckout_NothingPending(f) ==
    LET target == f.args[1]
        head == refs[f.level]
    IN  IF head # NoId /\ target \in RowsOf(f.level)
        THEN {Result(f, commits[target].delta, head, FALSE)} ELSE {}

PreparedCheckout(f) ==
    LET target == f.args[1]
        head == refs[f.level]
    IN  IF head # NoId /\ target \in RowsOf(f.level)
        THEN {Result(f, commits[target].delta, head, target # head)} ELSE {}

\* The commits since decide what is left of HEAD's content: any.
PreparedRevert(f) ==
    LET target == f.args[1]
    IN  IF refs[f.level] # NoId /\ target \in RowsOf(f.level) /\ commits[target].parent # NoId
        THEN {Result(f, c, refs[f.level], TRUE) : c \in Blob} ELSE {}

PreparedSquash(f) ==
    IF Contiguous(f.level, f.args)
    THEN {Result(f, commits[f.args[Len(f.args)]].delta, commits[f.args[1]].parent, TRUE)} ELSE {}

PreparedLoad(f) ==
    IF refs[f.src] # NoId THEN {Result(f, commits[refs[f.src]].delta, NoId, TRUE)} ELSE {}

\* A batch of one merged commit.
PreparedImport(f) == {Result(f, c, refs[f.level], TRUE) : c \in Blob}

PreparedFlows(f) ==
    CASE f.op = "checkout" -> PreparedCheckout(f)
      [] f.op = "revert" -> PreparedRevert(f)
      [] f.op = "squash" -> PreparedSquash(f)
      [] f.op = "load" -> PreparedLoad(f)
      [] f.op = "import" -> PreparedImport(f)

\* The first job of a flow.  It may fail on any error of the database, too.
RunPrepare(n) ==
    /\ Waiting(n, "prepare")
    /\ \E f \in PreparedFlows(flows[n]) \cup {[flows[n] EXCEPT !.stage = "apply", !.ok = FALSE]} :
        Advance(n, f)
    /\ UNCHANGED <<storeVars, editor, layers, popups, unsaved>>

-------------------------------------------------------------------------------
(***************************************************************************)
(* The main thread: the editor takes the content                           *)
(***************************************************************************)

\* Mutant: the layer that is active now is not compared with the one the flow began in.
Accepts_AnyLayer(f) == ~Closing(f.popup) /\ f.ok /\ editor # NoEditor

Accepts(f) == ~Closing(f.popup) /\ f.ok /\ editor # NoEditor /\ editor.layer = f.layer

\* Mutant: the busy flag is forgotten.
Abort_KeepsBusy(n) ==
    /\ Waiting(n, "apply") /\ ~Accepts(flows[n])
    /\ End(n)
    /\ UNCHANGED <<storeVars, editor, layers, popups, unsaved>>

\* The popup is closing, prepare failed, or the layer is not active any more: no editor is touched.
Abort(n) ==
    /\ Waiting(n, "apply") /\ ~Accepts(flows[n])
    /\ End(n) /\ popups' = Released(flows[n].popup)
    /\ UNCHANGED <<storeVars, editor, layers, unsaved>>

\* applyLevelString returns false: before it touches the editor, or after, with some of the objects.
EditorRefuses(n, content) ==
    /\ Waiting(n, "apply") /\ Accepts(flows[n])
    /\ editor' = [editor EXCEPT !.content = content]
    /\ unsaved' = TRUE
    /\ End(n) /\ popups' = Released(flows[n].popup)
    /\ UNCHANGED <<storeVars, layers>>

\* onSuccess: checkout, revert and load close their popup, in a callback of its own.
Succeed(n) ==
    /\ popups' = Released(flows[n].popup)
    /\ IF flows[n].op \in {"checkout", "revert", "load"} /\ ~Closing(flows[n].popup)
       THEN Advance(n, [flows[n] EXCEPT !.stage = "close"]) ELSE End(n)

\* A squash whose range does not end at HEAD leaves older work in the editor.
ApplyToEditor(n) ==
    LET f == flows[n]
    IN  /\ Waiting(n, "apply") /\ Accepts(f)
        /\ editor' = [editor EXCEPT !.content = f.state]
        /\ unsaved' = (f.op = "squash" /\ ~HeadShows(f.level, f.state))
        /\ IF f.pending
           THEN Advance(n, [f EXCEPT !.stage = "finalize"]) /\ UNCHANGED popups
           ELSE Succeed(n)
        /\ UNCHANGED <<storeVars, layers>>

-------------------------------------------------------------------------------
(***************************************************************************)
(* The worker: finalize.  The main thread: its outcome                     *)
(***************************************************************************)

FinalizeHead(f, parent, reverts) ==
    \E m \in Message, t \in Time : InsertAndSetHead(f.level, parent, reverts, m, t, f.state)

Finalize(f) ==
    \/ f.op = "commit" /\ FinalizeHead(f, refs[f.level], NoId)
    \/ f.op = "import" /\ FinalizeHead(f, f.parent, NoId)
    \/ f.op \in {"checkout", "revert"} /\ FinalizeHead(f, f.parent, f.args[1])
    \/ f.op = "squash" /\ \E m \in Message, t \in Time : Squash(f.level, f.args, f.parent, m, t, f.state)
    \/ f.op = "load" /\ \E g \in CopyMaps(f.src) : ReplaceLevelHistoryFrom(f.level, f.src, g)
    \/ f.op = "delete" /\ DeleteLevel(f.src)

\* The second job of a flow.
RunFinalize(n) ==
    /\ Waiting(n, "finalize")
    /\ \E ok \in BOOLEAN :
        /\ IF ok THEN Finalize(flows[n]) ELSE UNCHANGED storeVars
        /\ Advance(n, [flows[n] EXCEPT !.stage = "outcome", !.ok = ok])
    /\ UNCHANGED <<editor, layers, popups, unsaved>>

\* A failed write leaves the editor ahead of HEAD, a deleted history leaves it without one.
Outcome(n) ==
    LET f == flows[n]
    IN  /\ Waiting(n, "outcome")
        /\ IF f.ok THEN Succeed(n) ELSE End(n) /\ popups' = Released(f.popup)
        /\ unsaved' = (unsaved \/ IF f.op = "delete" THEN f.ok ELSE ~f.ok)
        /\ UNCHANGED <<storeVars, editor, layers>>

\* Mutant: a popup that the user closed meanwhile is waited for.
CloseAndResume_IfOpen(n) ==
    /\ Waiting(n, "close") /\ ~Closing(flows[n].popup)
    /\ End(n)
    /\ popups' = [popups EXCEPT ![flows[n].popup].phase = "closing"]
    /\ UNCHANGED <<storeVars, editor, layers, unsaved>>

\* deferCloseAndResume: closeOnce does nothing if the popup is closing already.
CloseAndResume(n) ==
    /\ Waiting(n, "close")
    /\ End(n)
    /\ popups' = [popups EXCEPT ![flows[n].popup].phase = "closing"]
    /\ UNCHANGED <<storeVars, editor, layers, unsaved>>

-------------------------------------------------------------------------------
UserStep ==
    \/ \E c \in Blob : EditLevel(c) \/ \E k \in LevelKey : OpenEditor(k, c)
    \/ LeaveEditor \/ StartImport \/ StartCommit
    \/ \E p \in Popup : OpenPopup(p) \/ ClosePopup(p) \/ PressButton(p)
    \/ \E n \in Slot : Confirm(n) \/ Cancel(n) \/ ConfirmMessage(n) \/ CancelMessage(n)

\* What goes on without the user.
FlowStep(n) ==
    \/ RunPrepare(n) \/ Abort(n) \/ ApplyToEditor(n) \/ \E c \in Blob : EditorRefuses(n, c)
    \/ RunFinalize(n) \/ Outcome(n) \/ CloseAndResume(n)

OpenStore == InitStore /\ UNCHANGED flowVars

Next == OpenStore \/ UserStep \/ \E n \in Slot : FlowStep(n)

Spec == Init /\ [][Next]_vars

\* Jobs and callbacks run; the user need not do anything.
FairSpec == Spec /\ \A n \in Slot : WF_vars(FlowStep(n))
-------------------------------------------------------------------------------
(***************************************************************************)
(* Properties                                                              *)
(***************************************************************************)

\* m_busy of a popup that is not closing is set exactly while one flow of it runs, its dialogs
\* included: no path through the flow forgets to release it, none releases it early, and a second
\* button never starts a flow beside the first.
BusyWhileOneFlowRuns ==
    \A p \in Popup : popups[p].phase = "open" =>
        LET running == {n \in Slot : flows[n] # NoFlow /\ flows[n].popup = p
                                        /\ flows[n].stage # "close"}
        IN  Cardinality(running) = IF popups[p].busy THEN 1 ELSE 0

\* The user can leave one editor and open another, of another level, while a flow waits for the worker
\* (Import has no popup that would block this): the content goes only into the level it is for.
OnlyOwnLevelReplaced ==
    [][\A n \in Slot : ApplyToEditor(n) => editor.level = flows[n].level]_vars

\* With one operation at a time, an editor that was not edited since shows what HEAD of its level
\* holds, after every sequence of commits, checkouts, reverts, squashes, loads and imports, unless a
\* write failed, the editor refused, or a squash brought back older work.
EditorShowsHead ==
    (\A n \in Slot : flows[n] = NoFlow) /\ editor # NoEditor /\ ~unsaved
        => HeadShows(editor.level, editor.content)

\* A flow that waits for no answer of the user comes to its end.
FlowsEnd ==
    \A n \in Slot : (flows[n] # NoFlow /\ ~Waiting(n, "confirm") /\ ~Waiting(n, "message"))
                        ~> (flows[n] = NoFlow)

-------------------------------------------------------------------------------
\* about.md: "Squash: Combine adjacent commits into a single, clean commit."  An editor that shows HEAD
\* shows HEAD after it, too.
SquashKeepsLevel ==
    [][\A n \in Slot :
        /\ ApplyToEditor(n) /\ flows[n].op = "squash"
        /\ HeadShows(editor.level, editor.content)
        => editor'.content = editor.content]_vars
===============================================================================
