--------------------------- MODULE EditorFlowsProofs ---------------------------
(***************************************************************************)
(* Proofs about the user's side, for any number of levels, popups, editors *)
(* and flows in progress.                                                  *)
(*                                                                         *)
(* FlowInv is inductive.  A flow's arguments are ids that its level once   *)
(* was given: they stay so, because an id never comes back in another      *)
(* level.  The layer number of a flow tells its level, because a layer     *)
(* edits one level and numbers only grow.  A popup that was never opened   *)
(* has no flows, so that its flag is right when it opens.                  *)
(***************************************************************************)
EXTENDS EditorFlows, CommitStoreProofs

Ops == {"commit", "import", "checkout", "revert", "squash", "load", "delete"}

\* The ids in a flow belong to its level, and its stage to its operation.
ArgsOK(f) ==
    /\ f.parent \in IdArgs(f.level) \cup {NoId}
    /\ f.op \in {"checkout", "revert"} => f.args[1] \in IdArgs(f.level)
    /\ f.op = "squash" => f.args \in Selections(IdArgs(f.level))
    /\ f.op \in Ops
    /\ f.stage = "confirm" => f.op # "commit"
    /\ f.stage \in {"message", "prepare", "apply"} => f.op \notin {"commit", "delete"}

\* The layer of a flow was opened, and if it is the active one, it edits the level of the flow.
LayerOK(f) ==
    /\ f.layer <= layers
    /\ editor # NoEditor /\ f.layer = editor.layer => f.level = editor.level

FlowOK(f) == f \in Flow /\ ArgsOK(f) /\ LayerOK(f)

Runs(n, p) == flows[n] # NoFlow /\ flows[n].popup = p /\ flows[n].stage # "close"

\* The busy flag of one popup.
BusyOK(p) ==
    /\ popups[p].phase = "unopened" =>
        ~popups[p].busy /\ \A n \in Slot : flows[n] # NoFlow => flows[n].popup # p
    /\ popups[p].phase = "open" =>
        /\ popups[p].busy <=> \E n \in Slot : Runs(n, p)
        /\ \A m, n \in Slot : Runs(m, p) /\ Runs(n, p) => m = n

FlowInv ==
    /\ StoreInv
    /\ FlowTypeOK
    /\ \A f \in Flow : (\E n \in Slot : flows[n] = f) => FlowOK(f)
    /\ \A p \in Popup : BusyOK(p)

-------------------------------------------------------------------------------
(***************************************************************************)
(* The second job of a flow: what the store does                           *)
(***************************************************************************)

\* An id that is handed out stays in its level for ever, gone or not.
IdsKept ==
    /\ lastId \in Nat /\ lastId' \in Nat /\ lastId <= lastId'
    /\ \A i \in Ids' : i \in 1 .. lastId => i \in Ids /\ commits'[i].level = commits[i].level

\* The content of HEAD of a level after a job that succeeds.
HeadEffect(f) ==
    /\ f.op \in {"commit", "import", "checkout", "revert"} => HeadShows(f.level, f.state)'
    /\ f.op = "squash" /\ HeadShows(f.level, f.state) => HeadShows(f.level, f.state)'
    /\ f.op = "load" /\ HeadShows(f.src, f.state) => HeadShows(f.level, f.state)'

LEMMA StoreFacts ==
    ASSUME StoreInv
    PROVE  /\ lastId \in Nat /\ Ids \subseteq 1 .. lastId /\ refs \in [LevelKey -> Nat]
           /\ commits \in [Ids -> Row] /\ NextId = lastId + 1
           /\ \A k \in LevelKey : refs[k] \in IdArgs(k) \cup {NoId}
           /\ \A k \in LevelKey : refs[k] # NoId => refs[k] \in RowsOf(k)
           /\ \A k \in LevelKey : \A i \in RowsOf(k) : commits[i].parent \in IdArgs(k) \cup {NoId}
<1>1. /\ lastId \in Nat /\ Ids \subseteq 1 .. lastId /\ refs \in [LevelKey -> Nat]
      /\ commits \in [Ids -> Row] /\ NextId = lastId + 1
  BY StoreAssumption DEF StoreInv, StoreTypeOK, NextId
<1>2. \A k \in LevelKey : refs[k] # NoId => refs[k] \in RowsOf(k)
  BY DEF StoreInv, HeadsInOwnLevel, RowsOf, Ids
<1>3. \A k \in LevelKey : \A i \in RowsOf(k) : commits[i].parent # NoId => commits[i].parent \in RowsOf(k)
  BY DEF StoreInv, ReferencesInOwnLevel, RefersWithinLevel, RowsOf, Ids
<1>4. \A k \in LevelKey : RowsOf(k) \subseteq IdArgs(k)
  BY <1>1 DEF RowsOf, IdArgs
<1> QED
  BY <1>1, <1>2, <1>3, <1>4

\* insertAndSetHead
LEMMA InsertEffect ==
    ASSUME StoreInv, NEW k \in LevelKey, NEW d \in Blob, NEW p \in IdArgs(k) \cup {NoId},
           NEW r \in IdArgs(k) \cup {NoId}, NEW m \in Message, NEW t \in Time,
           InsertAndSetHead(k, p, r, m, t, d)
    PROVE  StoreInv' /\ IdsKept /\ HeadShows(k, d)'
<1>1. StoreInv'
  BY InsertAndSetHeadInv
<1> DEFINE row == [level |-> k, parent |-> p, reverts |-> r, message |-> m, createdAt |-> t,
                   delta |-> d]
           rows == InsertRow(commits, NextId, row)
<1>2. /\ commits' = rows /\ lastId' = NextId /\ refs' = [refs EXCEPT ![k] = NextId]
  BY DEF InsertAndSetHead, CommitTx
<1>3. DOMAIN rows = Ids \cup {NextId} /\ rows[NextId] = row
      /\ \A i \in Ids : i # NextId => rows[i] = commits[i]
  BY DEF InsertRow, Ids
<1> HIDE DEF rows
<1>4. IdsKept
  BY <1>2, <1>3, StoreFacts DEF IdsKept, Ids
<1>5. HeadShows(k, d)'
  BY <1>2, <1>3, StoreFacts DEF HeadShows, NoId
<1> QED
  BY <1>1, <1>4, <1>5

\* squash
LEMMA SquashEffect ==
    ASSUME StoreInv, NEW k \in LevelKey, NEW d \in Blob, NEW p \in IdArgs(k) \cup {NoId},
           NEW ids \in Selections(IdArgs(k)), NEW m \in Message, NEW t \in Time,
           Squash(k, ids, p, m, t, d)
    PROVE  StoreInv' /\ IdsKept /\ (HeadShows(k, d) => HeadShows(k, d)')
<1>1. StoreInv'
  BY SquashInv
<1> DEFINE rows == SquashedRows(k, ids, p, m, t, d)
<1>2. SquashShape(rows, k, ids, p, m, t, d)
  BY SquashedRowsShape
<1>3. /\ commits' = rows /\ lastId' = NextId
      /\ refs' = [refs EXCEPT ![k] = IF refs[k] \in Gone(ids) THEN NextId ELSE refs[k]]
  <2>1. (\E n \in DOMAIN ids : ids[n] = refs[k]) <=> refs[k] \in Gone(ids)
    BY DEF Gone
  <2> QED
    BY <2>1 DEF Squash, CommitTx
<1> HIDE DEF rows
<1>4. IdsKept
  BY <1>2, <1>3, StoreFacts DEF IdsKept, Ids, SquashShape
<1>5. ASSUME HeadShows(k, d) PROVE HeadShows(k, d)'
  <2>1. refs[k] \in Ids /\ commits[refs[k]].delta = d /\ refs[k] # NoId
    BY <1>5, StoreFacts DEF HeadShows, RowsOf
  <2>2. refs'[k] = IF refs[k] \in Gone(ids) THEN NextId ELSE refs[k]
    BY <1>3, StoreFacts
  <2> QED
    BY <2>1, <2>2, <1>2, <1>3 DEF HeadShows, SquashShape, NoId
<1> QED
  BY <1>1, <1>4, <1>5

\* deleteLevel
LEMMA DeleteEffect ==
    ASSUME StoreInv, NEW k \in LevelKey, DeleteLevel(k)
    PROVE  StoreInv' /\ IdsKept
<1>1. StoreInv'
  BY DeleteLevelInv
<1>2. commits' = WithoutRows(commits, RowsOf(k)) /\ lastId' = lastId
  BY DEF DeleteLevel, CommitTx
<1>3. Ids' = Ids \ RowsOf(k) /\ \A i \in Ids' : commits'[i] = commits[i]
  BY <1>2 DEF Ids, WithoutRows
<1> QED
  BY <1>1, <1>2, <1>3, StoreFacts DEF IdsKept

\* replaceLevelHistoryFrom
LEMMA ReplaceEffect ==
    ASSUME StoreInv, NEW k \in LevelKey, NEW src \in LevelKey, NEW g \in CopyMaps(src), NEW d,
           ReplaceLevelHistoryFrom(k, src, g)
    PROVE  StoreInv' /\ IdsKept /\ (HeadShows(src, d) => HeadShows(k, d)')
<1>1. StoreInv'
  BY ReplaceLevelHistoryFromInv
<1> DEFINE copies == {g[i] : i \in RowsOf(src)}
           origin(n) == CHOOSE i \in RowsOf(src) : g[i] = n
           rows == [n \in (Ids \ RowsOf(k)) \cup copies |->
                        IF n \in copies THEN CopiedRow(g, k, origin(n)) ELSE commits[n]]
           count == Cardinality(RowsOf(src))
<1>2. /\ refs[src] \in RowsOf(src) /\ commits' = rows /\ lastId' = lastId + count
      /\ refs' = [refs EXCEPT ![k] = g[refs[src]]]
  BY DEF ReplaceLevelHistoryFrom, CommitTx
<1>3. count \in Nat
  BY RowsOfFinite DEF StoreInv
<1>4. /\ \A i \in RowsOf(src) : g[i] \in lastId + 1 .. lastId + count
      /\ \A i, j \in RowsOf(src) : g[i] = g[j] => i = j
  BY StoreFacts DEF CopyMaps
<1> HIDE DEF count
<1>5. \A i \in RowsOf(src) : origin(g[i]) = i
  BY <1>4
<1> HIDE DEF origin
<1>6. IdsKept
  <2>1. \A n \in copies : n \notin 1 .. lastId
    BY <1>3, <1>4, StoreFacts
  <2>2. Ids' = (Ids \ RowsOf(k)) \cup copies
    BY <1>2 DEF Ids
  <2>3. \A n \in Ids' : n \in 1 .. lastId => n \in Ids /\ commits'[n] = commits[n]
    BY <2>1, <2>2, <1>2
  <2>4. lastId \in Nat /\ lastId' \in Nat /\ lastId <= lastId'
    BY <1>2, <1>3, StoreFacts
  <2> QED
    BY <2>3, <2>4 DEF IdsKept
<1>7. ASSUME HeadShows(src, d) PROVE HeadShows(k, d)'
  <2>1. commits'[g[refs[src]]] = CopiedRow(g, k, refs[src])
    BY <1>2, <1>5
  <2>2. commits[refs[src]] \in Row
    BY <1>2, StoreFacts DEF RowsOf
  <2>3. CopiedRow(g, k, refs[src]).delta = commits[refs[src]].delta
    BY <2>2 DEF CopiedRow, Row
  <2>4. refs'[k] = g[refs[src]] /\ g[refs[src]] # NoId
    BY <1>2, <1>3, <1>4, StoreFacts DEF NoId
  <2> QED
    BY <2>1, <2>3, <2>4, <1>7 DEF HeadShows
<1> QED
  BY <1>1, <1>6, <1>7

\* The second job, of any flow.
LEMMA FinalizeEffect ==
    ASSUME StoreInv, NEW f \in Flow, ArgsOK(f), Finalize(f)
    PROVE  StoreInv' /\ IdsKept /\ HeadEffect(f)
<1>1. f.level \in LevelKey /\ f.src \in LevelKey /\ f.state \in Blob
  BY DEF Flow
<1>2. CASE f.op = "commit" /\ FinalizeHead(f, refs[f.level], NoId)
  BY <1>1, <1>2, InsertEffect, StoreFacts DEF FinalizeHead, HeadEffect
<1>3. CASE f.op = "import" /\ FinalizeHead(f, f.parent, NoId)
  BY <1>1, <1>3, InsertEffect DEF FinalizeHead, HeadEffect, ArgsOK
<1>4. CASE f.op \in {"checkout", "revert"} /\ FinalizeHead(f, f.parent, f.args[1])
  BY <1>1, <1>4, InsertEffect DEF FinalizeHead, HeadEffect, ArgsOK
<1>5. CASE f.op = "squash" /\ \E m \in Message, t \in Time : Squash(f.level, f.args, f.parent, m, t, f.state)
  BY <1>1, <1>5, SquashEffect DEF HeadEffect, ArgsOK
<1>6. CASE f.op = "load" /\ \E g \in CopyMaps(f.src) : ReplaceLevelHistoryFrom(f.level, f.src, g)
  BY <1>1, <1>6, ReplaceEffect DEF HeadEffect
<1>7. CASE f.op = "delete" /\ DeleteLevel(f.src)
  BY <1>1, <1>7, DeleteEffect DEF HeadEffect
<1> QED
  BY <1>2, <1>3, <1>4, <1>5, <1>6, <1>7 DEF Finalize

-------------------------------------------------------------------------------
(***************************************************************************)
(* What a step may do to the editor and to the flows                       *)
(***************************************************************************)

EditorKept ==
    /\ layers' = layers
    /\ editor' = NoEditor \/ (editor # NoEditor /\ editor'.layer = editor.layer
                                                /\ editor'.level = editor.level)

EditorOpened == layers' = layers + 1 /\ editor'.layer = layers + 1

EditorTypeOK ==
    /\ layers \in 0 .. MaxLayers
    /\ editor \in {NoEditor} \cup [layer : 1 .. layers, level : LevelKey, content : Blob]
    /\ unsaved \in BOOLEAN

\* At most one flow changes, into one that is in order before the step.
FlowsChanged ==
    \/ UNCHANGED flows
    \/ \E n \in Slot, g \in Flow \cup {NoFlow} :
        (g = NoFlow \/ FlowOK(g)) /\ flows' = [flows EXCEPT ![n] = g]

Frame == StoreInv' /\ IdsKept /\ EditorTypeOK' /\ (EditorKept \/ EditorOpened) /\ FlowsChanged

\* A flow that is in order stays so.
LEMMA FlowKept ==
    ASSUME FlowInv, IdsKept, EditorKept \/ EditorOpened, NEW f, FlowOK(f)
    PROVE  FlowOK(f)'
<1>1. IdArgs(f.level) \subseteq IdArgs(f.level)'
  BY DEF IdsKept, IdArgs
<1>2. Selections(IdArgs(f.level)) \subseteq Selections(IdArgs(f.level))'
  BY <1>1 DEF Selections
<1>3. ArgsOK(f)'
  BY <1>1, <1>2 DEF FlowOK, ArgsOK
<1>4. f.layer \in Nat /\ layers \in Nat
  BY FlowAssumption DEF FlowInv, FlowTypeOK, FlowOK, Flow
<1>5. LayerOK(f)'
  BY <1>4 DEF FlowOK, LayerOK, EditorKept, EditorOpened
<1> QED
  BY <1>3, <1>5 DEF FlowOK

\* Popups aside, the frame is all that the invariant needs.
LEMMA FramedStep ==
    ASSUME FlowInv, Frame
    PROVE  \A f \in Flow : (\E n \in Slot : flows'[n] = f) => FlowOK(f)'
<1> SUFFICES ASSUME NEW f \in Flow, NEW n \in Slot, flows'[n] = f PROVE FlowOK(f)'
  OBVIOUS
<1>1. FlowOK(f)
  BY NoFlowAssumption DEF FlowInv, FlowTypeOK, Frame, FlowsChanged
<1> QED
  BY <1>1, FlowKept DEF Frame

LEMMA StoreSame ==
    ASSUME FlowInv, UNCHANGED <<commits, refs, lastId>>, open' \in BOOLEAN
    PROVE  StoreInv' /\ IdsKept
<1>1. StoreInv'
  BY TablesUnchangedInv DEF FlowInv
<1> QED
  BY <1>1, StoreFacts DEF FlowInv, IdsKept, Ids

\* The parts of the frame that most steps leave alone.
LEMMA StillStore ==
    ASSUME FlowInv, UNCHANGED storeVars
    PROVE  StoreInv' /\ IdsKept
BY StoreSame DEF storeVars, FlowInv, StoreInv, StoreTypeOK

LEMMA StillEditor ==
    ASSUME FlowInv, UNCHANGED <<editor, layers>>, unsaved' \in BOOLEAN
    PROVE  EditorTypeOK' /\ EditorKept
BY DEF FlowInv, FlowTypeOK, EditorTypeOK, EditorKept

-------------------------------------------------------------------------------
\* The editor.
LEMMA EditorFrame ==
    ASSUME FlowInv,
           \/ \E c \in Blob : EditLevel(c) \/ \E k \in LevelKey : OpenEditor(k, c)
           \/ LeaveEditor
    PROVE  Frame
<1> USE DEF FlowInv, FlowTypeOK
<1>1. ASSUME NEW c \in Blob, EditLevel(c) PROVE Frame
  BY <1>1, StillStore DEF EditLevel, Frame, FlowsChanged, EditorTypeOK, EditorKept
<1>2. ASSUME NEW c \in Blob, NEW k \in LevelKey, OpenEditor(k, c) PROVE Frame
  <2>1. layers \in Nat /\ MaxLayers \in Nat
    BY FlowAssumption
  <2>2. EditorTypeOK' /\ EditorOpened
    BY <1>2, <2>1 DEF OpenEditor, EditorTypeOK, EditorOpened
  <2> QED
    BY <1>2, <2>2, StillStore DEF OpenEditor, Frame, FlowsChanged
<1>3. ASSUME LeaveEditor PROVE Frame
  BY <1>3, StillStore DEF LeaveEditor, Frame, FlowsChanged, EditorTypeOK, EditorKept
<1> QED
  BY <1>1, <1>2, <1>3

\* A new flow.
LEMMA NewFlowOK ==
    ASSUME FlowInv, editor # NoEditor, NEW p \in Popup \cup {NoPopup}, NEW op \in UserOps,
           NEW stage \in {"confirm", "finalize"}, NEW src \in LevelKey, NEW args \in Seq(Nat),
           op \in Ops, stage = "confirm" => op # "commit",
           op \in {"checkout", "revert"} => args[1] \in IdArgs(editor.level),
           op = "squash" => args \in Selections(IdArgs(editor.level))
    PROVE  FlowOK(NewFlow(p, op, stage, src, args, editor.content))
<1> DEFINE f == NewFlow(p, op, stage, src, args, editor.content)
<1>1. /\ editor.layer \in 1 .. layers /\ editor.level \in LevelKey /\ editor.content \in Blob
      /\ layers \in 0 .. MaxLayers /\ MaxLayers \in Nat
  BY FlowAssumption DEF FlowInv, FlowTypeOK
<1>2. editor.layer \in 1 .. MaxLayers
  BY <1>1
<1>3. f \in Flow
  BY <1>1, <1>2 DEF NewFlow, Flow, NoId
<1>4. ArgsOK(f)
  BY DEF NewFlow, ArgsOK
<1>5. LayerOK(f)
  BY <1>1 DEF NewFlow, LayerOK
<1> QED
  BY <1>3, <1>4, <1>5 DEF FlowOK

LEMMA EnterChanges ==
    ASSUME NEW f \in Flow, FlowOK(f), Enter(f)
    PROVE  FlowsChanged
BY DEF Enter, Advance, FlowsChanged

\* The button's flow: what a press of any button is.
Pressed(p, op, src, args) ==
    /\ src \in LevelKey /\ args \in Seq(Nat) /\ op \in Ops \ {"commit"}
    /\ op \in {"checkout", "revert"} => args[1] \in IdArgs(editor.level)
    /\ op = "squash" => args \in Selections(IdArgs(editor.level))
    /\ Start(p, op, src, args)

LEMMA PressCases ==
    ASSUME FlowInv, NEW p \in Popup, PressButton(p)
    PROVE  \E op, src, args : Pressed(p, op, src, args)
<1>1. editor.level \in LevelKey /\ lastId \in Nat
  BY StoreFacts DEF PressButton, FlowInv, FlowTypeOK
<1>2. \A i \in IdArgs(editor.level) : i \in Nat
  BY <1>1 DEF IdArgs
<1>3. CASE StartCheckoutFlow(p)
  <2>1. PICK i \in IdArgs(editor.level) : Start(p, "checkout", editor.level, <<i>>)
    BY <1>3 DEF StartCheckoutFlow
  <2>2. <<i>> \in Seq(Nat) /\ <<i>>[1] = i
    BY <1>2
  <2>3. Pressed(p, "checkout", editor.level, <<i>>)
    BY <2>1, <2>2, <1>1 DEF Pressed, Ops
  <2> QED BY <2>3
<1>4. CASE StartRevertFlow(p)
  <2>1. PICK i \in IdArgs(editor.level) : Start(p, "revert", editor.level, <<i>>)
    BY <1>4 DEF StartRevertFlow
  <2>2. <<i>> \in Seq(Nat) /\ <<i>>[1] = i
    BY <1>2
  <2>3. Pressed(p, "revert", editor.level, <<i>>)
    BY <2>1, <2>2, <1>1 DEF Pressed, Ops
  <2> QED BY <2>3
<1>5. CASE OnSquashPressed(p)
  <2>1. PICK ids \in Selections(IdArgs(editor.level)) : Start(p, "squash", editor.level, ids)
    BY <1>5 DEF OnSquashPressed
  <2>2. PICK n \in 2 .. MaxSquash : ids \in [1 .. n -> IdArgs(editor.level)]
    BY DEF Selections
  <2>3. n \in Nat
    BY <2>2, StoreAssumption
  <2>4. ids \in [1 .. n -> Nat]
    BY <2>2, <1>2
  <2>5. ids \in Seq(Nat)
    BY <2>3, <2>4
  <2>6. Pressed(p, "squash", editor.level, ids)
    BY <2>1, <2>5, <1>1 DEF Pressed, Ops
  <2> QED BY <2>6
<1>6. CASE LoadPressed(p)
  <2>1. PICK src \in LevelKey \ {editor.level} : Start(p, "load", src, <<>>)
    BY <1>6 DEF LoadPressed
  <2>2. Pressed(p, "load", src, <<>>)
    BY <2>1 DEF Pressed, Ops
  <2> QED BY <2>2
<1>7. CASE DeletePressed(p)
  <2>1. PICK src \in LevelKey : Start(p, "delete", src, <<>>)
    BY <1>7 DEF DeletePressed
  <2>2. Pressed(p, "delete", src, <<>>)
    BY <2>1 DEF Pressed, Ops
  <2> QED BY <2>2
<1> QED
  BY <1>3, <1>4, <1>5, <1>6, <1>7 DEF PressButton

\* The buttons, and the two operations of the pause menu.
LEMMA StartFrame ==
    ASSUME FlowInv,
           \/ \E p \in Popup : OpenPopup(p) \/ ClosePopup(p) \/ PressButton(p)
           \/ StartImport \/ StartCommit
    PROVE  Frame
<1>1. unsaved \in BOOLEAN
  BY DEF FlowInv, FlowTypeOK
<1>2. ASSUME NEW p \in Popup, OpenPopup(p) \/ ClosePopup(p) PROVE Frame
  BY <1>1, <1>2, StillStore, StillEditor DEF OpenPopup, ClosePopup, Frame, FlowsChanged
<1>3. ASSUME NEW p \in Popup, PressButton(p) PROVE Frame
  <2>1. PICK op, src, args : Pressed(p, op, src, args)
    BY <1>3, PressCases
  <2>2. editor # NoEditor
    BY <1>3 DEF PressButton
  <2>3. FlowOK(NewFlow(p, op, "confirm", src, args, editor.content))
    BY <2>1, <2>2, NewFlowOK DEF Pressed, Start
  <2>4. FlowsChanged
    BY <2>1, <2>3, EnterChanges DEF Pressed, Start, FlowOK
  <2> QED
    BY <1>1, <2>1, <2>4, StillStore, StillEditor DEF Pressed, Start, Frame
<1>4. ASSUME StartImport PROVE Frame
  <2>1. editor # NoEditor /\ editor.level \in LevelKey /\ <<>> \in Seq(Nat)
    BY <1>4 DEF StartImport, FlowInv, FlowTypeOK
  <2>2. FlowOK(NewFlow(NoPopup, "import", "confirm", editor.level, <<>>, editor.content))
    BY <1>4, <2>1, NewFlowOK DEF StartImport, Ops
  <2>3. FlowsChanged
    BY <1>4, <2>2, EnterChanges DEF StartImport, FlowOK
  <2> QED
    BY <1>1, <1>4, <2>3, StillStore, StillEditor DEF StartImport, Frame
<1>5. ASSUME StartCommit PROVE Frame
  <2>1. editor # NoEditor /\ editor.level \in LevelKey /\ <<>> \in Seq(Nat)
    BY <1>5 DEF StartCommit, FlowInv, FlowTypeOK
  <2>2. FlowOK(NewFlow(NoPopup, "commit", "finalize", editor.level, <<>>, editor.content))
    BY <1>5, <2>1, NewFlowOK DEF StartCommit, Ops
  <2>3. FlowsChanged
    BY <1>5, <2>2, EnterChanges DEF StartCommit, FlowOK
  <2> QED
    BY <1>5, <2>3, StillStore, StillEditor DEF StartCommit, Frame
<1> QED
  BY <1>2, <1>3, <1>4, <1>5

\* A flow that runs.
LEMMA RunningFlow ==
    ASSUME FlowInv, NEW n \in Slot, flows[n] # NoFlow
    PROVE  flows[n] \in Flow /\ FlowOK(flows[n])
BY DEF FlowInv, FlowTypeOK

\* It may go to another stage that its operation has.
LEMMA StageChanged ==
    ASSUME NEW f, FlowOK(f), NEW ok \in BOOLEAN,
           NEW stage \in {"message", "prepare", "apply", "finalize", "outcome", "close"},
           stage \in {"message", "prepare", "apply"} => f.op \notin {"commit", "delete"}
    PROVE  FlowOK([f EXCEPT !.stage = stage]) /\ FlowOK([f EXCEPT !.stage = stage, !.ok = ok])
<1> DEFINE g == [f EXCEPT !.stage = stage]
           h == [f EXCEPT !.stage = stage, !.ok = ok]
<1>1. f \in Flow
  BY DEF FlowOK
<1>2. ASSUME NEW x \in {g, h}
      PROVE  /\ x \in Flow /\ x.stage = stage /\ x.op = f.op /\ x.layer = f.layer
             /\ x.level = f.level /\ x.args = f.args /\ x.parent = f.parent
  BY ZenonT(40), <1>1, <1>2 DEF Flow
<1> HIDE DEF g, h
<1>3. ASSUME NEW x \in {g, h} PROVE FlowOK(x)
  BY <1>2, <1>3 DEF FlowOK, ArgsOK, LayerOK
<1> QED
  BY <1>3 DEF g, h

LEMMA AdvanceChanges ==
    ASSUME FlowInv, NEW n \in Slot, NEW g, g = NoFlow \/ FlowOK(g), Advance(n, g)
    PROVE  FlowsChanged
BY DEF Advance, FlowsChanged, FlowOK

LEMMA EndChanges ==
    ASSUME FlowInv, NEW n \in Slot, End(n)
    PROVE  FlowsChanged
BY AdvanceChanges DEF End

\* The dialogs.
LEMMA DialogFrame ==
    ASSUME FlowInv, NEW n \in Slot,
           Confirm(n) \/ Cancel(n) \/ ConfirmMessage(n) \/ CancelMessage(n)
    PROVE  Frame
<1>1. unsaved \in BOOLEAN
  BY DEF FlowInv, FlowTypeOK
<1>2. UNCHANGED storeVars /\ UNCHANGED <<editor, layers>> /\ unsaved' \in BOOLEAN
  BY <1>1 DEF Confirm, Cancel, ConfirmMessage, CancelMessage
<1>3. flows[n] # NoFlow
  BY DEF Confirm, Cancel, ConfirmMessage, CancelMessage, Waiting
<1>4. PICK f : f = flows[n]
  OBVIOUS
<1>5. FlowOK(f)
  BY <1>3, <1>4, RunningFlow
<1>6. FlowsChanged
  <2>1. CASE Confirm(n)
    <3>1. PICK stage : stage = CASE f.op = "squash" -> "message" [] f.op = "delete" -> "finalize"
                                 [] OTHER -> "prepare"
      OBVIOUS
    <3>2. /\ stage \in {"message", "prepare", "finalize"}
          /\ stage \in {"message", "prepare"} => f.op # "delete"
      BY <3>1
    <3>3. End(n) \/ Advance(n, [f EXCEPT !.stage = stage])
      BY <2>1, <3>1, <1>4 DEF Confirm
    <3>4. f.op # "commit"
      BY <2>1, <1>4, <1>5 DEF FlowOK, ArgsOK, Confirm, Waiting
    <3>5. FlowOK([f EXCEPT !.stage = stage])
      BY <3>2, <3>4, <1>5, StageChanged
    <3> QED
      BY <3>3, <3>5, AdvanceChanges, EndChanges
  <2>2. CASE ConfirmMessage(n)
    <3>1. f.op \notin {"commit", "delete"}
      BY <2>2, <1>4, <1>5 DEF ConfirmMessage, Waiting, FlowOK, ArgsOK
    <3>2. FlowOK([f EXCEPT !.stage = "prepare"])
      BY <3>1, <1>5, StageChanged
    <3> QED
      BY <2>2, <3>2, <1>4, AdvanceChanges, EndChanges DEF ConfirmMessage
  <2>3. CASE Cancel(n) \/ CancelMessage(n)
    BY <2>3, EndChanges DEF Cancel, CancelMessage
  <2> QED
    BY <2>1, <2>2, <2>3
<1> QED
  BY <1>2, <1>6, StillStore, StillEditor DEF Frame

\* The first job: what a prepare hands over is in order.
LEMMA ResultOK ==
    ASSUME NEW f, FlowOK(f), f.op \notin {"commit", "delete"}, NEW c \in Blob,
           NEW parent \in IdArgs(f.level) \cup {NoId}, parent \in Nat, NEW pending \in BOOLEAN
    PROVE  FlowOK(Result(f, c, parent, pending))
<1> DEFINE g == Result(f, c, parent, pending)
<1>1. f \in Flow
  BY DEF FlowOK
<1>2. /\ g \in Flow /\ g.stage = "apply" /\ g.op = f.op /\ g.layer = f.layer
      /\ g.level = f.level /\ g.args = f.args /\ g.parent = parent
  BY <1>1 DEF Flow, Result
<1> HIDE DEF g
<1>3. FlowOK(g)
  BY <1>2 DEF FlowOK, ArgsOK, LayerOK
<1> QED
  BY <1>3 DEF g

LEMMA PreparedOK ==
    ASSUME FlowInv, NEW f, FlowOK(f), f.op \notin {"commit", "delete"}, NEW g \in PreparedFlows(f)
    PROVE  FlowOK(g)
<1>1. /\ f.level \in LevelKey /\ f.src \in LevelKey /\ f \in Flow /\ lastId \in Nat
      /\ \A i \in IdArgs(f.level) \cup {NoId} : i \in Nat
  BY StoreFacts DEF FlowOK, Flow, FlowInv, IdArgs, NoId
<1>2. /\ \A k \in LevelKey : \A i \in RowsOf(k) :
            commits[i].delta \in Blob /\ commits[i].parent \in IdArgs(k) \cup {NoId}
      /\ \A k \in LevelKey : refs[k] \in IdArgs(k) \cup {NoId}
      /\ \A k \in LevelKey : refs[k] # NoId => refs[k] \in RowsOf(k)
  BY StoreFacts DEF FlowInv, RowsOf, Row
<1>3. CASE f.op = "checkout"
  <2>1. refs[f.level] # NoId /\ f.args[1] \in RowsOf(f.level)
        /\ g = Result(f, commits[f.args[1]].delta, refs[f.level], f.args[1] # refs[f.level])
    BY <1>3 DEF PreparedFlows, PreparedCheckout
  <2> QED
    BY <2>1, <1>1, <1>2, ResultOK
<1>4. CASE f.op = "revert"
  <2>1. PICK c \in Blob : g = Result(f, c, refs[f.level], TRUE)
    BY <1>4 DEF PreparedFlows, PreparedRevert
  <2> QED
    BY <2>1, <1>1, <1>2, ResultOK
<1>5. CASE f.op = "squash"
  <2>1. /\ Contiguous(f.level, f.args)
        /\ g = Result(f, commits[f.args[Len(f.args)]].delta, commits[f.args[1]].parent, TRUE)
    BY <1>5 DEF PreparedFlows, PreparedSquash
  <2>2. f.args \in Selections(IdArgs(f.level))
    BY <1>5 DEF FlowOK, ArgsOK
  <2>3. PICK n \in 2 .. MaxSquash : f.args \in [1 .. n -> IdArgs(f.level)]
    BY <2>2 DEF Selections
  <2>4. n \in Nat /\ n >= 2
    BY <2>3, StoreAssumption
  <2>5. Len(f.args) = n /\ DOMAIN f.args = 1 .. n
    BY <2>3, <2>4, <1>1 DEF Flow
  <2>6. f.args[1] \in RowsOf(f.level) /\ f.args[Len(f.args)] \in RowsOf(f.level)
    BY <2>1, <2>4, <2>5 DEF Contiguous
  <2> QED
    BY <2>1, <2>6, <1>1, <1>2, ResultOK
<1>6. CASE f.op = "load"
  <2>1. refs[f.src] # NoId /\ g = Result(f, commits[refs[f.src]].delta, NoId, TRUE)
    BY <1>6 DEF PreparedFlows, PreparedLoad
  <2> QED
    BY <2>1, <1>1, <1>2, ResultOK
<1>7. CASE f.op = "import"
  <2>1. PICK c \in Blob : g = Result(f, c, refs[f.level], TRUE)
    BY <1>7 DEF PreparedFlows, PreparedImport
  <2> QED
    BY <2>1, <1>1, <1>2, ResultOK
<1> QED
  BY <1>3, <1>4, <1>5, <1>6, <1>7 DEF FlowOK, ArgsOK, Ops

LEMMA PrepareFrame ==
    ASSUME FlowInv, NEW n \in Slot, RunPrepare(n)
    PROVE  Frame
<1>1. PICK f : f = flows[n]
  OBVIOUS
<1>2. FlowOK(f) /\ f.op \notin {"commit", "delete"}
  BY <1>1, RunningFlow DEF RunPrepare, Waiting, FlowOK, ArgsOK
<1>3. PICK g \in PreparedFlows(f) \cup {[f EXCEPT !.stage = "apply", !.ok = FALSE]} : Advance(n, g)
  BY <1>1 DEF RunPrepare
<1>4. FlowOK([f EXCEPT !.stage = "apply", !.ok = FALSE])
  BY <1>2, StageChanged
<1>5. FlowsChanged
  BY <1>2, <1>3, <1>4, PreparedOK, AdvanceChanges
<1> QED
  BY <1>5, StillStore, StillEditor DEF RunPrepare, Frame, FlowInv, FlowTypeOK

\* The main thread's callback between the jobs.
LEMMA ApplyFrame ==
    ASSUME FlowInv, NEW n \in Slot,
           Abort(n) \/ ApplyToEditor(n) \/ \E c \in Blob : EditorRefuses(n, c)
    PROVE  Frame
<1>1. PICK f : f = flows[n]
  OBVIOUS
<1>2. f # NoFlow
  BY <1>1 DEF Abort, ApplyToEditor, EditorRefuses, Waiting
<1>3. FlowOK(f)
  BY <1>1, <1>2, RunningFlow
<1>4. UNCHANGED storeVars
  BY DEF Abort, ApplyToEditor, EditorRefuses
<1>5. EditorTypeOK' /\ EditorKept
  <2>1. CASE Abort(n)
    BY <2>1, StillEditor DEF Abort, FlowInv, FlowTypeOK
  <2>2. ASSUME editor # NoEditor, NEW c \in Blob, editor' = [editor EXCEPT !.content = c],
               layers' = layers, unsaved' \in BOOLEAN
        PROVE  EditorTypeOK' /\ EditorKept
    BY <2>2 DEF FlowInv, FlowTypeOK, EditorTypeOK, EditorKept
  <2>3. CASE ApplyToEditor(n)
    <3>1. f.state \in Blob
      BY <1>3 DEF FlowOK, Flow
    <3>2. editor # NoEditor /\ editor' = [editor EXCEPT !.content = f.state] /\ layers' = layers
      BY <2>3, <1>1 DEF ApplyToEditor, Accepts
    <3>3. unsaved' \in BOOLEAN
      BY <2>3 DEF ApplyToEditor
    <3> QED
      BY <3>1, <3>2, <3>3, <2>2
  <2>4. ASSUME NEW c \in Blob, EditorRefuses(n, c) PROVE EditorTypeOK' /\ EditorKept
    BY <2>2, <2>4 DEF EditorRefuses, Accepts
  <2> QED
    BY <2>1, <2>3, <2>4
<1>6. FlowsChanged
  <2>1. FlowOK([f EXCEPT !.stage = "finalize"]) /\ FlowOK([f EXCEPT !.stage = "close"])
    BY <1>3, StageChanged
  <2>2. CASE ApplyToEditor(n)
    BY <2>1, <2>2, <1>1, AdvanceChanges, EndChanges DEF ApplyToEditor, Succeed
  <2>3. CASE Abort(n) \/ \E c \in Blob : EditorRefuses(n, c)
    BY <2>3, EndChanges DEF Abort, EditorRefuses
  <2> QED
    BY <2>2, <2>3
<1> QED
  BY <1>4, <1>5, <1>6, StillStore DEF Frame

\* The second job, and the callbacks after it.
LEMMA FinalizeFrame ==
    ASSUME FlowInv, NEW n \in Slot, RunFinalize(n) \/ Outcome(n) \/ CloseAndResume(n)
    PROVE  Frame
<1>1. PICK f : f = flows[n]
  OBVIOUS
<1>2. f # NoFlow
  BY <1>1 DEF RunFinalize, Outcome, CloseAndResume, Waiting
<1>3. FlowOK(f) /\ f \in Flow
  BY <1>1, <1>2, RunningFlow
<1>4. \A ok \in BOOLEAN : FlowOK([f EXCEPT !.stage = "outcome", !.ok = ok])
  BY <1>3, StageChanged
<1>5. FlowOK([f EXCEPT !.stage = "close"])
  BY <1>3, StageChanged
<1>6. UNCHANGED <<editor, layers>> /\ unsaved' \in BOOLEAN
  BY DEF RunFinalize, Outcome, CloseAndResume, FlowInv, FlowTypeOK
<1>7. CASE RunFinalize(n)
  <2>1. PICK ok \in BOOLEAN : /\ IF ok THEN Finalize(f) ELSE UNCHANGED storeVars
                              /\ Advance(n, [f EXCEPT !.stage = "outcome", !.ok = ok])
    BY <1>1, <1>7 DEF RunFinalize
  <2>2. StoreInv' /\ IdsKept
    BY <2>1, <1>3, FinalizeEffect, StillStore DEF FlowOK, FlowInv
  <2>3. FlowsChanged
    BY <2>1, <1>4, AdvanceChanges
  <2> QED
    BY <2>2, <2>3, <1>6, StillEditor DEF Frame
<1>8. CASE Outcome(n) \/ CloseAndResume(n)
  <2>1. UNCHANGED storeVars
    BY <1>8 DEF Outcome, CloseAndResume
  <2>2. FlowsChanged
    BY <1>1, <1>5, <1>8, AdvanceChanges, EndChanges DEF Outcome, Succeed, CloseAndResume
  <2> QED
    BY <2>1, <2>2, <1>6, StillStore, StillEditor DEF Frame
<1> QED
  BY <1>7, <1>8

-------------------------------------------------------------------------------
(***************************************************************************)
(* The busy flags                                                          *)
(***************************************************************************)

PopupState == [phase : {"unopened", "open", "closing"}, busy : BOOLEAN]

PopupsInv == popups \in [Popup -> PopupState] /\ \A p \in Popup : BusyOK(p)

\* What the proofs about the flags need of the flows and of the popups.
LEMMA PopupFacts ==
    ASSUME FlowInv
    PROVE  /\ popups \in [Popup -> PopupState] /\ NoPopup \notin Popup
           /\ flows \in [Slot -> Flow \cup {NoFlow}]
           /\ \A p \in Popup : popups[p] \in PopupState /\ BusyOK(p)
BY FlowAssumption DEF FlowInv, FlowTypeOK, PopupState

LEMMA PopupsSame ==
    ASSUME FlowInv, UNCHANGED <<popups, flows>>
    PROVE  PopupsInv'
BY PopupFacts DEF PopupsInv, BusyOK, Runs

\* A popup opens, or closes, for good.
LEMMA PhaseChanged ==
    ASSUME FlowInv, NEW q \in Popup, OpenPopup(q) \/ ClosePopup(q)
    PROVE  PopupsInv'
<1>1. /\ popups' \in [Popup -> PopupState] /\ UNCHANGED flows
      /\ \A p \in Popup : popups'[p].busy = popups[p].busy /\ (p # q => popups'[p] = popups[p])
      /\ \/ popups[q].phase = "unopened" /\ popups'[q].phase = "open"
         \/ popups'[q].phase = "closing"
  BY PopupFacts DEF OpenPopup, ClosePopup, PopupState
<1>2. ASSUME NEW p \in Popup PROVE BusyOK(p)'
  BY <1>1, PopupFacts DEF BusyOK, Runs
<1> QED
  BY <1>1, <1>2 DEF PopupsInv

\* A slot takes a new value; the flag of every popup is as said.
LEMMA SlotChanged ==
    ASSUME FlowInv, NEW n \in Slot, NEW g \in Flow \cup {NoFlow}, Advance(n, g)
    PROVE  \A m \in Slot : flows'[m] = IF m = n THEN g ELSE flows[m]
BY PopupFacts DEF Advance

\* tryBeginBusyAction: the popup's first flow.
LEMMA FlowStarted ==
    ASSUME FlowInv, NEW q \in Popup, popups[q].phase = "open", ~popups[q].busy,
           NEW g \in Flow, g.popup = q, g.stage = "confirm", Enter(g),
           popups' = [popups EXCEPT ![q].busy = TRUE]
    PROVE  PopupsInv'
<1>1. PICK n \in Slot : flows[n] = NoFlow /\ Advance(n, g)
  BY DEF Enter
<1>2. \A m \in Slot : flows'[m] = IF m = n THEN g ELSE flows[m]
  BY <1>1, SlotChanged
<1>3. /\ popups' \in [Popup -> PopupState]
      /\ popups'[q].busy /\ popups'[q].phase = "open"
      /\ \A p \in Popup \ {q} : popups'[p] = popups[p]
  BY PopupFacts DEF PopupState
<1>4. ASSUME NEW p \in Popup PROVE BusyOK(p)'
  <2>1. CASE p = q
    BY <2>1, <1>1, <1>2, <1>3, PopupFacts, NoFlowAssumption DEF BusyOK, Runs
  <2>2. CASE p # q
    BY <2>2, <1>1, <1>2, <1>3, PopupFacts DEF BusyOK, Runs
  <2> QED
    BY <2>1, <2>2
<1> QED
  BY <1>3, <1>4 DEF PopupsInv

\* A flow without a popup begins.
LEMMA OtherFlowStarted ==
    ASSUME FlowInv, NEW g \in Flow, g.popup = NoPopup, Enter(g), UNCHANGED popups
    PROVE  PopupsInv'
<1>1. PICK n \in Slot : flows[n] = NoFlow /\ Advance(n, g)
  BY DEF Enter
<1>2. \A m \in Slot : flows'[m] = IF m = n THEN g ELSE flows[m]
  BY <1>1, SlotChanged
<1>3. ASSUME NEW p \in Popup PROVE BusyOK(p)'
  BY <1>1, <1>2, PopupFacts DEF BusyOK, Runs
<1> QED
  BY <1>3, PopupFacts DEF PopupsInv

\* A flow goes on.
LEMMA FlowGoesOn ==
    ASSUME FlowInv, NEW n \in Slot, flows[n] # NoFlow, flows[n].stage # "close",
           NEW g \in Flow, g.popup = flows[n].popup, g.stage # "close", Advance(n, g),
           UNCHANGED popups
    PROVE  PopupsInv'
<1>1. \A m \in Slot : flows'[m] = IF m = n THEN g ELSE flows[m]
  BY SlotChanged
<1>2. ASSUME NEW p \in Popup PROVE BusyOK(p)'
  <2>1. \A m \in Slot : Runs(m, p)' <=> Runs(m, p)
    BY <1>1, NoFlowAssumption DEF Runs
  <2>2. \A m \in Slot : (flows'[m] # NoFlow => flows'[m].popup # p)
                            <=> (flows[m] # NoFlow => flows[m].popup # p)
    BY <1>1, NoFlowAssumption
  <2> QED
    BY <2>1, <2>2, PopupFacts DEF BusyOK
<1> QED
  BY <1>2, PopupFacts DEF PopupsInv

\* finishBusyAction: a flow ends, or only its popup remains to be closed.
LEMMA FlowReleased ==
    ASSUME FlowInv, NEW n \in Slot, flows[n] # NoFlow, flows[n].stage # "close",
           NEW g \in Flow \cup {NoFlow}, g = NoFlow \/ (g.popup = flows[n].popup /\ g.stage = "close"),
           Advance(n, g), popups' = Released(flows[n].popup)
    PROVE  PopupsInv'
<1>1. \A m \in Slot : flows'[m] = IF m = n THEN g ELSE flows[m]
  BY SlotChanged
<1>2. PICK q : q = flows[n].popup
  OBVIOUS
<1>3. /\ popups' \in [Popup -> PopupState]
      /\ \A p \in Popup : popups'[p].phase = popups[p].phase
      /\ \A p \in Popup \ {q} : popups'[p] = popups[p]
      /\ q \in Popup => ~popups'[q].busy
  BY <1>2, PopupFacts DEF Released, PopupState
<1>4. ASSUME NEW p \in Popup PROVE BusyOK(p)'
  <2>1. CASE p = q
    BY <2>1, <1>1, <1>2, <1>3, PopupFacts DEF BusyOK, Runs
  <2>2. CASE p # q
    BY <2>2, <1>1, <1>2, <1>3, PopupFacts DEF BusyOK, Runs
  <2> QED
    BY <2>1, <2>2
<1> QED
  BY <1>3, <1>4 DEF PopupsInv

\* A flow ends under a popup that is closing.
LEMMA FlowDropped ==
    ASSUME FlowInv, NEW n \in Slot, flows[n] # NoFlow, Closing(flows[n].popup), End(n),
           UNCHANGED popups
    PROVE  PopupsInv'
<1>1. \A m \in Slot : flows'[m] = IF m = n THEN NoFlow ELSE flows[m]
  BY SlotChanged DEF End
<1>2. ASSUME NEW p \in Popup PROVE BusyOK(p)'
  BY <1>1, PopupFacts DEF BusyOK, Runs, Closing
<1> QED
  BY <1>2, PopupFacts DEF PopupsInv

\* deferCloseAndResume
LEMMA PopupClosed ==
    ASSUME FlowInv, NEW n \in Slot, CloseAndResume(n)
    PROVE  PopupsInv'
<1>1. \A m \in Slot : flows'[m] = IF m = n THEN NoFlow ELSE flows[m]
  BY SlotChanged DEF End, CloseAndResume
<1>2. PICK q : q = flows[n].popup
  OBVIOUS
<1>3. /\ popups' \in [Popup -> PopupState]
      /\ \A p \in Popup \ {q} : popups'[p] = popups[p]
      /\ q \in Popup => popups'[q].phase = "closing"
  BY <1>2, PopupFacts DEF CloseAndResume, PopupState
<1>4. ASSUME NEW p \in Popup PROVE BusyOK(p)'
  BY <1>1, <1>2, <1>3, PopupFacts DEF BusyOK, Runs
<1> QED
  BY <1>3, <1>4 DEF PopupsInv

\* Every dialog either lets its flow go on or releases the popup, unless it is closing.
LEMMA DialogPopups ==
    ASSUME FlowInv, NEW n \in Slot,
           Confirm(n) \/ Cancel(n) \/ ConfirmMessage(n) \/ CancelMessage(n)
    PROVE  PopupsInv'
<1>1. PICK f : f = flows[n]
  OBVIOUS
<1>2. /\ f # NoFlow /\ f.stage \in {"confirm", "message"}
  BY <1>1 DEF Confirm, Cancel, ConfirmMessage, CancelMessage, Waiting
<1>3. f \in Flow
  BY <1>1, <1>2, RunningFlow
<1>4. ASSUME NEW stage \in {"message", "finalize", "prepare"}
      PROVE  /\ [f EXCEPT !.stage = stage] \in Flow /\ [f EXCEPT !.stage = stage].popup = f.popup
             /\ [f EXCEPT !.stage = stage].stage # "close"
  BY <1>3, <1>4 DEF Flow
<1>5. CASE Confirm(n)
  <2>1. PICK stage : stage = CASE f.op = "squash" -> "message" [] f.op = "delete" -> "finalize"
                               [] OTHER -> "prepare"
    OBVIOUS
  <2>2. stage \in {"message", "finalize", "prepare"}
    BY <2>1
  <2>3. \/ End(n) /\ popups' = Released(f.popup)
        \/ Advance(n, [f EXCEPT !.stage = stage]) /\ UNCHANGED popups
    BY <1>1, <1>5, <2>1 DEF Confirm
  <2> QED
    BY <2>2, <2>3, <1>1, <1>2, <1>4, FlowReleased, FlowGoesOn DEF End
<1>6. CASE Cancel(n)
  BY <1>1, <1>2, <1>6, FlowReleased DEF Cancel, End
<1>7. CASE ConfirmMessage(n)
  BY <1>1, <1>2, <1>4, <1>7, FlowDropped, FlowGoesOn DEF ConfirmMessage
<1>8. CASE CancelMessage(n)
  BY <1>1, <1>2, <1>8, FlowDropped, FlowReleased DEF CancelMessage, End
<1> QED
  BY <1>5, <1>6, <1>7, <1>8

\* onSuccess releases the popup, and perhaps leaves it to be closed.
LEMMA SucceedPopups ==
    ASSUME FlowInv, NEW n \in Slot, flows[n] # NoFlow, flows[n].stage # "close", Succeed(n)
    PROVE  PopupsInv'
<1>1. PICK f : f = flows[n]
  OBVIOUS
<1>2. f \in Flow
  BY <1>1, RunningFlow
<1>3. /\ [f EXCEPT !.stage = "close"] \in Flow /\ [f EXCEPT !.stage = "close"].popup = f.popup
      /\ [f EXCEPT !.stage = "close"].stage = "close"
  BY <1>2 DEF Flow
<1> QED
  BY <1>1, <1>3, FlowReleased DEF Succeed, End

\* The jobs and the callbacks.
LEMMA FlowStepPopups ==
    ASSUME FlowInv, NEW n \in Slot, FlowStep(n)
    PROVE  PopupsInv'
<1>1. PICK f : f = flows[n]
  OBVIOUS
<1>2. f # NoFlow
  BY <1>1 DEF FlowStep, RunPrepare, Abort, ApplyToEditor, EditorRefuses, RunFinalize, Outcome,
              CloseAndResume, Waiting
<1>3. f \in Flow /\ FlowOK(f)
  BY <1>1, <1>2, RunningFlow
<1>4. CASE RunPrepare(n)
  <2>1. f.op \notin {"commit", "delete"} /\ f.stage = "prepare"
    BY <1>1, <1>3, <1>4 DEF RunPrepare, Waiting, FlowOK, ArgsOK
  <2>2. PICK g \in PreparedFlows(f) \cup {[f EXCEPT !.stage = "apply", !.ok = FALSE]} : Advance(n, g)
    BY <1>1, <1>4 DEF RunPrepare
  <2>3. g \in Flow /\ g.popup = f.popup /\ g.stage = "apply"
    <3>1. CASE g = [f EXCEPT !.stage = "apply", !.ok = FALSE]
      BY <3>1, <1>3 DEF Flow
    <3>2. CASE g \in PreparedFlows(f)
      <4>1. FlowOK(g)
        BY <3>2, <2>1, <1>3, PreparedOK
      <4>2. \E c, parent, pending : g = Result(f, c, parent, pending)
        <5>1. f.op \in {"checkout", "revert", "squash", "load", "import"}
          BY <2>1, <1>3 DEF FlowOK, ArgsOK, Ops
        <5>2. CASE f.op = "checkout"
          BY <5>2, <3>2 DEF PreparedFlows, PreparedCheckout
        <5>3. CASE f.op = "revert"
          <6>1. \E c \in Blob : g = Result(f, c, refs[f.level], TRUE)
            BY <5>3, <3>2 DEF PreparedFlows, PreparedRevert
          <6> QED
            BY <6>1
        <5>4. CASE f.op = "squash"
          BY <5>4, <3>2 DEF PreparedFlows, PreparedSquash
        <5>5. CASE f.op = "load"
          BY <5>5, <3>2 DEF PreparedFlows, PreparedLoad
        <5>6. CASE f.op = "import"
          <6>1. \E c \in Blob : g = Result(f, c, refs[f.level], TRUE)
            BY <5>6, <3>2 DEF PreparedFlows, PreparedImport
          <6> QED
            BY <6>1
        <5> QED
          BY <5>1, <5>2, <5>3, <5>4, <5>5, <5>6
      <4> QED
        BY <4>1, <4>2, <1>3 DEF FlowOK, Result, Flow
    <3> QED
      BY <2>2, <3>1, <3>2
  <2> QED
    BY <2>1, <2>2, <2>3, <1>1, <1>2, <1>4, FlowGoesOn DEF RunPrepare
<1>5. CASE Abort(n)
  BY <1>1, <1>2, <1>5, FlowReleased DEF Abort, End, Waiting
<1>6. ASSUME NEW c \in Blob, EditorRefuses(n, c) PROVE PopupsInv'
  BY <1>1, <1>2, <1>6, FlowReleased DEF EditorRefuses, End, Waiting
<1>7. CASE ApplyToEditor(n)
  <2>1. f.stage = "apply"
    BY <1>1, <1>7 DEF ApplyToEditor, Waiting
  <2>2. /\ [f EXCEPT !.stage = "finalize"] \in Flow
        /\ [f EXCEPT !.stage = "finalize"].popup = f.popup
        /\ [f EXCEPT !.stage = "finalize"].stage # "close"
    BY <1>3 DEF Flow
  <2>3. \/ Advance(n, [f EXCEPT !.stage = "finalize"]) /\ UNCHANGED popups
        \/ Succeed(n)
    BY <1>1, <1>7 DEF ApplyToEditor
  <2> QED
    BY <2>1, <2>2, <2>3, <1>1, <1>2, FlowGoesOn, SucceedPopups
<1>8. CASE RunFinalize(n)
  <2>1. f.stage = "finalize"
    BY <1>1, <1>8 DEF RunFinalize, Waiting
  <2>2. PICK ok \in BOOLEAN : Advance(n, [f EXCEPT !.stage = "outcome", !.ok = ok])
    BY <1>1, <1>8 DEF RunFinalize
  <2>3. /\ [f EXCEPT !.stage = "outcome", !.ok = ok] \in Flow
        /\ [f EXCEPT !.stage = "outcome", !.ok = ok].popup = f.popup
        /\ [f EXCEPT !.stage = "outcome", !.ok = ok].stage # "close"
    BY <1>3 DEF Flow
  <2>4. UNCHANGED popups
    BY <1>8 DEF RunFinalize
  <2> QED
    BY <2>1, <2>2, <2>3, <2>4, <1>1, <1>2, FlowGoesOn
<1>9. CASE Outcome(n)
  <2>1. f.stage = "outcome"
    BY <1>1, <1>9 DEF Outcome, Waiting
  <2>2. Succeed(n) \/ (End(n) /\ popups' = Released(f.popup))
    BY <1>1, <1>9 DEF Outcome
  <2> QED
    BY <2>1, <2>2, <1>1, <1>2, SucceedPopups, FlowReleased DEF End
<1>10. CASE CloseAndResume(n)
  BY <1>10, PopupClosed
<1> QED
  BY <1>4, <1>5, <1>6, <1>7, <1>8, <1>9, <1>10 DEF FlowStep

\* The buttons.
LEMMA StartPopups ==
    ASSUME FlowInv,
           \/ \E p \in Popup : OpenPopup(p) \/ ClosePopup(p) \/ PressButton(p)
           \/ StartImport \/ StartCommit
    PROVE  PopupsInv'
<1>1. ASSUME NEW p \in Popup, PressButton(p) PROVE PopupsInv'
  <2>1. PICK op, src, args : Pressed(p, op, src, args)
    BY <1>1, PressCases
  <2>2. PICK g : g = NewFlow(p, op, "confirm", src, args, editor.content)
    OBVIOUS
  <2>3. g \in Flow
    BY <1>1, <2>1, <2>2, NewFlowOK DEF Pressed, Start, PressButton, FlowOK
  <2>4. g.popup = p /\ g.stage = "confirm" /\ Enter(g)
    BY <2>1, <2>2 DEF NewFlow, Pressed, Start
  <2>5. popups[p].phase = "open" /\ ~popups[p].busy /\ popups' = [popups EXCEPT ![p].busy = TRUE]
    BY <1>1, <2>1 DEF PressButton, Pressed, Start
  <2> QED
    BY <2>3, <2>4, <2>5, FlowStarted
<1>2. ASSUME StartImport \/ StartCommit PROVE PopupsInv'
  <2>1. PICK g : Enter(g) /\ \/ g = NewFlow(NoPopup, "import", "confirm", editor.level, <<>>, editor.content) /\ "import" \in UserOps
                             \/ g = NewFlow(NoPopup, "commit", "finalize", editor.level, <<>>, editor.content) /\ "commit" \in UserOps
    BY <1>2 DEF StartImport, StartCommit
  <2>2. editor # NoEditor /\ editor.level \in LevelKey /\ <<>> \in Seq(Nat) /\ UNCHANGED popups
    BY <1>2 DEF StartImport, StartCommit, FlowInv, FlowTypeOK
  <2>3. FlowOK(g)
    BY <2>1, <2>2, NewFlowOK DEF Ops
  <2>4. g.popup = NoPopup
    BY <2>1 DEF NewFlow
  <2> QED
    BY <2>1, <2>2, <2>3, <2>4, OtherFlowStarted DEF FlowOK
<1> QED
  BY <1>1, <1>2, PhaseChanged

-------------------------------------------------------------------------------
(***************************************************************************)
(* The invariant and what follows                                          *)
(***************************************************************************)

LEMMA FlowInvInit == Init => FlowInv
<1> SUFFICES ASSUME Init PROVE FlowInv
  OBVIOUS
<1>1. StoreInv
  BY StoreInvInit DEF Init
<1>2. \A n \in Slot : flows[n] = NoFlow
  BY DEF Init
<1>3. FlowTypeOK
  <2>1. layers = 0 /\ editor = NoEditor /\ unsaved = FALSE /\ 0 \in 0 .. MaxLayers
    BY FlowAssumption DEF Init
  <2>2. popups \in [Popup -> PopupState] /\ flows \in [Slot -> Flow \cup {NoFlow}]
    BY DEF Init, PopupState
  <2> QED
    BY <1>1, <2>1, <2>2 DEF FlowTypeOK, StoreInv, PopupState
<1>4. ASSUME NEW p \in Popup PROVE BusyOK(p)
  BY <1>2 DEF Init, BusyOK
<1> QED
  BY <1>1, <1>2, <1>3, <1>4, NoFlowAssumption DEF FlowInv

LEMMA NextFrame ==
    ASSUME FlowInv, Next
    PROVE  Frame /\ PopupsInv'
<1>1. CASE OpenStore
  <2>1. UNCHANGED flowVars /\ UNCHANGED <<commits, refs, lastId>> /\ open' = TRUE
    BY <1>1 DEF OpenStore, InitStore
  <2>2. UNCHANGED <<editor, layers>> /\ unsaved' \in BOOLEAN /\ UNCHANGED flows /\ UNCHANGED popups
    BY <2>1 DEF flowVars, FlowInv, FlowTypeOK
  <2> QED
    BY <2>1, <2>2, StoreSame, StillEditor, PopupsSame DEF Frame, FlowsChanged
<1>2. CASE \/ \E c \in Blob : EditLevel(c) \/ \E k \in LevelKey : OpenEditor(k, c)
           \/ LeaveEditor
  <2>1. UNCHANGED <<popups, flows>>
    BY <1>2 DEF EditLevel, OpenEditor, LeaveEditor
  <2> QED
    BY <1>2, <2>1, EditorFrame, PopupsSame
<1>3. CASE \/ \E p \in Popup : OpenPopup(p) \/ ClosePopup(p) \/ PressButton(p)
           \/ StartImport \/ StartCommit
  BY <1>3, StartFrame, StartPopups
<1>4. CASE \E n \in Slot : Confirm(n) \/ Cancel(n) \/ ConfirmMessage(n) \/ CancelMessage(n)
  BY <1>4, DialogFrame, DialogPopups
<1>5. CASE \E n \in Slot : FlowStep(n)
  BY <1>5, PrepareFrame, ApplyFrame, FinalizeFrame, FlowStepPopups DEF FlowStep
<1> QED
  BY <1>1, <1>2, <1>3, <1>4, <1>5 DEF Next, UserStep

\* The inductive invariant of the user's side, for any number of popups, layers and flows.
THEOREM FlowInvariant == Spec => []FlowInv
<1>1. FlowInv /\ [Next]_vars => FlowInv'
  <2> SUFFICES ASSUME FlowInv, [Next]_vars PROVE FlowInv'
    OBVIOUS
  <2>1. CASE Next
    <3>1. Frame /\ PopupsInv'
      BY <2>1, NextFrame
    <3>2. flows' \in [Slot -> Flow \cup {NoFlow}]
      BY <3>1, PopupFacts DEF Frame, FlowsChanged
    <3>3. FlowTypeOK'
      BY <3>1, <3>2 DEF Frame, PopupsInv, PopupState, FlowTypeOK, EditorTypeOK, StoreInv
    <3>4. \A f \in Flow : (\E n \in Slot : flows'[n] = f) => FlowOK(f)'
      BY <3>1, FramedStep
    <3> QED
      BY <3>1, <3>3, <3>4 DEF FlowInv, Frame, PopupsInv
  <2>2. CASE UNCHANGED vars
    <3>1. UNCHANGED storeVars /\ UNCHANGED <<editor, layers, popups, flows, unsaved>>
      BY <2>2 DEF vars, flowVars
    <3>2. Frame /\ PopupsInv'
      BY <3>1, StillStore, StillEditor, PopupsSame DEF Frame, FlowsChanged, FlowInv, FlowTypeOK
    <3>3. FlowTypeOK'
      BY <3>1, <3>2 DEF Frame, FlowInv, FlowTypeOK, StoreInv
    <3>4. \A f \in Flow : (\E n \in Slot : flows'[n] = f) => FlowOK(f)'
      BY <3>2, FramedStep
    <3> QED
      BY <3>2, <3>3, <3>4 DEF FlowInv, Frame, PopupsInv
  <2> QED
    BY <2>1, <2>2
<1> QED
  BY <1>1, FlowInvInit, PTL DEF Spec

\* Types, for the whole of the user's side.
THEOREM FlowTypeCorrect == Spec => []FlowTypeOK
<1>1. FlowInv => FlowTypeOK
  BY DEF FlowInv
<1> QED
  BY <1>1, FlowInvariant, PTL

\* tryBeginBusyAction and finishBusyAction: the flag is set exactly while one flow of the popup runs.
THEOREM BusyFlagsExact == Spec => []BusyWhileOneFlowRuns
<1>1. FlowInv => BusyWhileOneFlowRuns
  <2> SUFFICES ASSUME FlowInv, NEW p \in Popup, popups[p].phase = "open"
               PROVE  Cardinality({n \in Slot : flows[n] # NoFlow /\ flows[n].popup = p
                                                    /\ flows[n].stage # "close"})
                        = IF popups[p].busy THEN 1 ELSE 0
    BY DEF BusyWhileOneFlowRuns
  <2> DEFINE running == {n \in Slot : flows[n] # NoFlow /\ flows[n].popup = p
                                          /\ flows[n].stage # "close"}
  <2>1. /\ popups[p].busy <=> running # {}
        /\ \A m, n \in running : m = n
    BY PopupFacts DEF BusyOK, Runs
  <2> HIDE DEF running
  <2>2. CASE popups[p].busy
    <3>1. PICK n : n \in running
      BY <2>1, <2>2
    <3>2. running = {n}
      BY <2>1, <3>1
    <3> QED
      BY <2>2, <3>2, FS_Singleton DEF running
  <2>3. CASE ~popups[p].busy
    BY <2>1, <2>3, FS_EmptySet DEF running
  <2> QED
    BY <2>2, <2>3
<1> QED
  BY <1>1, FlowInvariant, PTL

\* Whatever the user leaves and opens while the worker runs, PreparedEditorFlow puts content only into
\* an editor of the flow's own level: comparing layers (editorRef) is enough.
THEOREM OwnLevelOnly == Spec => OnlyOwnLevelReplaced
<1>1. FlowInv /\ [Next]_vars
        => [\A n \in Slot : ApplyToEditor(n) => editor.level = flows[n].level]_vars
  <2> SUFFICES ASSUME FlowInv, NEW n \in Slot, ApplyToEditor(n) PROVE editor.level = flows[n].level
    OBVIOUS
  <2>1. flows[n] # NoFlow /\ editor # NoEditor /\ editor.layer = flows[n].layer
    BY DEF ApplyToEditor, Waiting, Accepts
  <2> QED
    BY <2>1, RunningFlow DEF FlowOK, LayerOK
<1> QED
  BY <1>1, FlowInvariant, PTL DEF Spec, OnlyOwnLevelReplaced

-------------------------------------------------------------------------------
(***************************************************************************)
(* One operation at a time: the editor and HEAD                            *)
(*                                                                         *)
(* EditorShowsHead speaks of moments without a flow; HeadInv says for      *)
(* every stage of a flow what makes it come true at the end.               *)
(***************************************************************************)

Settled == editor # NoEditor /\ ~unsaved => HeadShows(editor.level, editor.content)

\* A prepare that succeeded: what needs no second job is HEAD's content already.
PreparedShows(f) ==
    /\ ~f.pending => HeadShows(f.level, f.state)
    /\ f.op = "load" => HeadShows(f.src, f.state)

\* What the second job is about to write is what the editor shows.
SavingShows(f) ==
    /\ f.op \in {"delete", "squash"} => Settled
    /\ f.op # "delete" /\ editor # NoEditor /\ ~unsaved
        => editor.level = f.level /\ editor.content = f.state
    /\ f.op = "load" => HeadShows(f.src, f.state)

FlowShows(f) ==
    /\ f.stage \in {"confirm", "message", "prepare", "apply", "close"} => Settled
    /\ f.stage = "apply" /\ f.ok => PreparedShows(f)
    /\ f.stage = "finalize" => SavingShows(f)
    /\ f.stage = "outcome" /\ (f.ok <=> f.op # "delete") => Settled

HeadInv ==
    /\ (\A n \in Slot : flows[n] = NoFlow) => Settled
    /\ \A f \in Flow : (\E n \in Slot : flows[n] = f) => FlowShows(f)

\* Steps that write nothing and put nothing unsaved into the editor unnoticed.
Quiet ==
    /\ UNCHANGED <<commits, refs>>
    /\ UNCHANGED <<editor, unsaved>> \/ unsaved' = TRUE \/ editor' = NoEditor

LEMMA QuietSettled ==
    ASSUME Quiet, Settled
    PROVE  Settled'
BY DEF Quiet, Settled, HeadShows

LEMMA QuietShows ==
    ASSUME Quiet, NEW f, FlowShows(f)
    PROVE  FlowShows(f)'
<1>1. Settled => Settled'
  BY QuietSettled
<1>2. \A k, c : HeadShows(k, c) => HeadShows(k, c)'
  BY DEF Quiet, HeadShows
<1>3. PreparedShows(f) => PreparedShows(f)'
  BY <1>2 DEF PreparedShows
<1>4. SavingShows(f) => SavingShows(f)'
  BY <1>1, <1>2 DEF SavingShows, Quiet
<1> QED
  BY <1>1, <1>3, <1>4 DEF FlowShows

LEMMA QuietFlows ==
    ASSUME HeadInv, Quiet, UNCHANGED flows
    PROVE  HeadInv'
BY QuietSettled, QuietShows DEF HeadInv

\* The only flow changes.
LEMMA OnlyFlowChanged ==
    ASSUME FlowInv, MaxFlows = 1, NEW n \in Slot, NEW g \in Flow \cup {NoFlow}, Advance(n, g),
           g = NoFlow => Settled', g # NoFlow => FlowShows(g)'
    PROVE  HeadInv'
<1>1. \A m \in Slot : flows'[m] = g
  BY SlotChanged DEF Slot
<1>2. \A f \in Flow : (\E m \in Slot : flows'[m] = f) => FlowShows(f)'
  BY <1>1, NoFlowAssumption
<1>3. (\A m \in Slot : flows'[m] = NoFlow) => Settled'
  BY <1>1
<1> QED
  BY <1>2, <1>3 DEF HeadInv

LEMMA FlowEnds ==
    ASSUME FlowInv, MaxFlows = 1, NEW n \in Slot, End(n), Settled'
    PROVE  HeadInv'
BY OnlyFlowChanged DEF End

LEMMA OnlyFlow ==
    ASSUME FlowInv, HeadInv, NEW n \in Slot, flows[n] # NoFlow
    PROVE  FlowShows(flows[n]) /\ flows[n] \in Flow
BY RunningFlow DEF HeadInv

\* A flow enters: nothing was going on.
LEMMA EnterHead ==
    ASSUME FlowInv, HeadInv, MaxFlows = 1, NEW g \in Flow, Enter(g),
           Settled => FlowShows(g)'
    PROVE  HeadInv'
<1>1. PICK n \in Slot : flows[n] = NoFlow /\ Advance(n, g)
  BY DEF Enter
<1>2. Settled
  BY <1>1 DEF HeadInv, Slot
<1> QED
  BY <1>1, <1>2, OnlyFlowChanged, NoFlowAssumption

LEMMA StartHead ==
    ASSUME FlowInv, HeadInv, MaxFlows = 1,
           (\E p \in Popup : PressButton(p)) \/ StartImport \/ StartCommit
    PROVE  HeadInv'
<1>1. ASSUME NEW p \in Popup, PressButton(p) PROVE HeadInv'
  <2>1. PICK op, src, args : Pressed(p, op, src, args)
    BY <1>1, PressCases
  <2>2. PICK g : g = NewFlow(p, op, "confirm", src, args, editor.content)
    OBVIOUS
  <2>3. g \in Flow
    BY <1>1, <2>1, <2>2, NewFlowOK DEF Pressed, Start, PressButton, FlowOK
  <2>4. g.stage = "confirm" /\ Enter(g)
    BY <2>1, <2>2 DEF NewFlow, Pressed, Start
  <2>5. Quiet
    BY <2>1 DEF Pressed, Start, Quiet, storeVars
  <2>6. Settled => FlowShows(g)'
    BY <2>4, <2>5, QuietSettled DEF FlowShows
  <2> QED
    BY <2>3, <2>4, <2>6, EnterHead
<1>2. CASE StartImport
  <2>1. PICK g : g = NewFlow(NoPopup, "import", "confirm", editor.level, <<>>, editor.content)
    OBVIOUS
  <2>2. editor # NoEditor /\ editor.level \in LevelKey /\ <<>> \in Seq(Nat)
    BY <1>2 DEF StartImport, FlowInv, FlowTypeOK
  <2>3. g \in Flow
    BY <1>2, <2>1, <2>2, NewFlowOK DEF StartImport, Ops, FlowOK
  <2>4. g.stage = "confirm" /\ Enter(g)
    BY <1>2, <2>1 DEF NewFlow, StartImport
  <2>5. Quiet
    BY <1>2 DEF StartImport, Quiet, storeVars
  <2>6. Settled => FlowShows(g)'
    BY <2>4, <2>5, QuietSettled DEF FlowShows
  <2> QED
    BY <2>3, <2>4, <2>6, EnterHead
<1>3. CASE StartCommit
  <2>1. PICK g : g = NewFlow(NoPopup, "commit", "finalize", editor.level, <<>>, editor.content)
    OBVIOUS
  <2>2. editor # NoEditor /\ editor.level \in LevelKey /\ <<>> \in Seq(Nat)
    BY <1>3 DEF StartCommit, FlowInv, FlowTypeOK
  <2>3. g \in Flow
    BY <1>3, <2>1, <2>2, NewFlowOK DEF StartCommit, Ops, FlowOK
  <2>4. /\ g.stage = "finalize" /\ g.op = "commit" /\ Enter(g)
        /\ g.level = editor.level /\ g.state = editor.content
    BY <1>3, <2>1 DEF NewFlow, StartCommit
  <2>5. editor' = editor
    BY <1>3 DEF StartCommit
  <2>6. FlowShows(g)'
    BY <2>4, <2>5 DEF FlowShows, SavingShows
  <2> QED
    BY <2>3, <2>4, <2>6, EnterHead
<1> QED
  BY <1>1, <1>2, <1>3

\* The dialogs.
LEMMA DialogHead ==
    ASSUME FlowInv, HeadInv, MaxFlows = 1, NEW n \in Slot,
           Confirm(n) \/ Cancel(n) \/ ConfirmMessage(n) \/ CancelMessage(n)
    PROVE  HeadInv'
<1>1. PICK f : f = flows[n]
  OBVIOUS
<1>2. /\ f # NoFlow /\ f.stage \in {"confirm", "message"}
      /\ f.stage = "message" <=> ConfirmMessage(n) \/ CancelMessage(n)
  BY <1>1 DEF Confirm, Cancel, ConfirmMessage, CancelMessage, Waiting
<1>3. f \in Flow /\ FlowOK(f) /\ FlowShows(f)
  BY <1>1, <1>2, OnlyFlow, RunningFlow
<1>4. Quiet
  BY DEF Confirm, Cancel, ConfirmMessage, CancelMessage, Quiet, storeVars
<1>5. Settled'
  BY <1>2, <1>3, <1>4, QuietSettled DEF FlowShows
<1>6. ASSUME NEW stage \in {"message", "prepare"}
      PROVE  [f EXCEPT !.stage = stage] \in Flow /\ FlowShows([f EXCEPT !.stage = stage])'
  <2>1. [f EXCEPT !.stage = stage] \in Flow /\ [f EXCEPT !.stage = stage].stage = stage
    BY <1>3 DEF Flow
  <2> QED
    BY <2>1, <1>5 DEF FlowShows
<1>7. f.op = "delete" => /\ [f EXCEPT !.stage = "finalize"] \in Flow
                         /\ FlowShows([f EXCEPT !.stage = "finalize"])'
  <2>1. /\ [f EXCEPT !.stage = "finalize"] \in Flow
        /\ [f EXCEPT !.stage = "finalize"].stage = "finalize"
        /\ [f EXCEPT !.stage = "finalize"].op = f.op
    BY <1>3 DEF Flow
  <2> QED
    BY <2>1, <1>5 DEF FlowShows, SavingShows
<1>8. NoFlow \notin Flow
  BY NoFlowAssumption
<1>9. CASE Confirm(n)
  <2>1. \/ End(n)
        \/ f.op = "delete" /\ Advance(n, [f EXCEPT !.stage = "finalize"])
        \/ \E stage \in {"message", "prepare"} : Advance(n, [f EXCEPT !.stage = stage])
    BY <1>1, <1>9 DEF Confirm
  <2> QED
    BY <2>1, <1>5, <1>6, <1>7, <1>8, FlowEnds, OnlyFlowChanged
<1>10. CASE ConfirmMessage(n)
  BY <1>1, <1>5, <1>6, <1>8, <1>10, FlowEnds, OnlyFlowChanged DEF ConfirmMessage
<1>11. CASE Cancel(n) \/ CancelMessage(n)
  BY <1>5, <1>11, FlowEnds DEF Cancel, CancelMessage
<1> QED
  BY <1>9, <1>10, <1>11

\* The first job: what it hands over for the editor.
LEMMA PreparedHead ==
    ASSUME FlowInv, NEW f, FlowOK(f), f.op \notin {"commit", "delete"}, NEW g \in PreparedFlows(f)
    PROVE  g.stage = "apply" /\ PreparedShows(g)
<1>1. f \in Flow /\ f.op \in {"checkout", "revert", "squash", "load", "import"}
  BY DEF FlowOK, ArgsOK, Ops
<1>2. ASSUME NEW c, NEW parent, NEW pending, g = Result(f, c, parent, pending)
      PROVE  /\ g.stage = "apply" /\ g.op = f.op /\ g.level = f.level /\ g.src = f.src
             /\ g.state = c /\ g.pending = pending
  BY <1>1, <1>2 DEF Flow, Result
<1>3. CASE f.op = "checkout"
  <2>1. refs[f.level] # NoId
        /\ g = Result(f, commits[f.args[1]].delta, refs[f.level], f.args[1] # refs[f.level])
    BY <1>3 DEF PreparedFlows, PreparedCheckout
  <2> QED
    BY ZenonT(40), <2>1, <1>2, <1>3 DEF PreparedShows, HeadShows
<1>4. CASE f.op = "revert" \/ f.op = "import"
  <2>1. PICK c \in Blob : g = Result(f, c, refs[f.level], TRUE)
    BY <1>4 DEF PreparedFlows, PreparedRevert, PreparedImport
  <2> QED
    BY <2>1, <1>2, <1>4 DEF PreparedShows
<1>5. CASE f.op = "squash"
  <2>1. g = Result(f, commits[f.args[Len(f.args)]].delta, commits[f.args[1]].parent, TRUE)
    BY <1>5 DEF PreparedFlows, PreparedSquash
  <2> QED
    BY <2>1, <1>2, <1>5 DEF PreparedShows
<1>6. CASE f.op = "load"
  <2>1. refs[f.src] # NoId /\ g = Result(f, commits[refs[f.src]].delta, NoId, TRUE)
    BY <1>6 DEF PreparedFlows, PreparedLoad
  <2> QED
    BY <2>1, <1>2, <1>6 DEF PreparedShows, HeadShows
<1> QED
  BY <1>1, <1>3, <1>4, <1>5, <1>6

LEMMA PrepareHead ==
    ASSUME FlowInv, HeadInv, MaxFlows = 1, NEW n \in Slot, RunPrepare(n)
    PROVE  HeadInv'
<1>1. PICK f : f = flows[n]
  OBVIOUS
<1>2. /\ f # NoFlow /\ f \in Flow /\ FlowOK(f) /\ FlowShows(f) /\ f.stage = "prepare"
      /\ f.op \notin {"commit", "delete"}
  BY <1>1, OnlyFlow, RunningFlow DEF RunPrepare, Waiting, FlowOK, ArgsOK
<1>3. Quiet
  BY DEF RunPrepare, Quiet, storeVars
<1>4. Settled'
  BY <1>2, <1>3, QuietSettled DEF FlowShows
<1>5. PICK g \in PreparedFlows(f) \cup {[f EXCEPT !.stage = "apply", !.ok = FALSE]} : Advance(n, g)
  BY <1>1 DEF RunPrepare
<1>6. CASE g \in PreparedFlows(f)
  <2>1. g \in Flow
    BY <1>2, <1>6, PreparedOK DEF FlowOK
  <2>2. g.stage = "apply" /\ PreparedShows(g)
    BY <1>2, <1>6, PreparedHead
  <2>3. PreparedShows(g)'
    BY <2>2, <1>3 DEF PreparedShows, HeadShows, Quiet
  <2>4. FlowShows(g)'
    BY <2>2, <2>3, <1>4 DEF FlowShows
  <2> QED
    BY <2>1, <2>4, <1>5, OnlyFlowChanged, NoFlowAssumption
<1>7. CASE g = [f EXCEPT !.stage = "apply", !.ok = FALSE]
  <2>1. g \in Flow /\ g.stage = "apply" /\ g.ok = FALSE
    BY <1>2, <1>7 DEF Flow
  <2>2. FlowShows(g)'
    BY <2>1, <1>4 DEF FlowShows
  <2> QED
    BY <2>1, <2>2, <1>5, OnlyFlowChanged, NoFlowAssumption
<1> QED
  BY <1>5, <1>6, <1>7

\* onSuccess, of a flow that leaves the editor as HEAD is.
LEMMA SucceedHead ==
    ASSUME FlowInv, MaxFlows = 1, NEW n \in Slot, flows[n] # NoFlow, Succeed(n), Settled'
    PROVE  HeadInv'
<1>1. PICK f : f = flows[n]
  OBVIOUS
<1>2. f \in Flow
  BY <1>1, RunningFlow
<1>3. [f EXCEPT !.stage = "close"] \in Flow /\ [f EXCEPT !.stage = "close"].stage = "close"
  BY <1>2 DEF Flow
<1>4. FlowShows([f EXCEPT !.stage = "close"])'
  BY <1>3 DEF FlowShows
<1>5. End(n) \/ Advance(n, [f EXCEPT !.stage = "close"])
  BY <1>1 DEF Succeed
<1> QED
  BY <1>3, <1>4, <1>5, FlowEnds, OnlyFlowChanged, NoFlowAssumption

\* The editor takes the content.
LEMMA ApplyHead ==
    ASSUME FlowInv, HeadInv, MaxFlows = 1, NEW n \in Slot, ApplyToEditor(n)
    PROVE  HeadInv'
<1>1. PICK f : f = flows[n]
  OBVIOUS
<1>2. /\ f # NoFlow /\ f.stage = "apply" /\ f.ok
      /\ editor # NoEditor /\ editor.layer = f.layer
  BY <1>1 DEF ApplyToEditor, Waiting, Accepts
<1>3. f \in Flow /\ FlowOK(f) /\ FlowShows(f)
  BY <1>1, <1>2, OnlyFlow, RunningFlow
<1>4. PreparedShows(f) /\ editor.level = f.level
  BY <1>2, <1>3 DEF FlowShows, FlowOK, LayerOK
<1>5. /\ commits' = commits /\ refs' = refs
      /\ editor' = [editor EXCEPT !.content = f.state]
      /\ unsaved' = (f.op = "squash" /\ ~HeadShows(f.level, f.state))
  BY <1>1 DEF ApplyToEditor, storeVars
<1>6. editor'.level = f.level /\ editor'.content = f.state
  BY <1>2, <1>4, <1>5 DEF FlowInv, FlowTypeOK
<1>7. HeadShows(f.level, f.state) => Settled'
  BY <1>5, <1>6 DEF Settled, HeadShows
<1>8. CASE f.pending
  <2>1. PICK g : g = [f EXCEPT !.stage = "finalize"]
    OBVIOUS
  <2>2. /\ g \in Flow /\ g.stage = "finalize" /\ g.op = f.op /\ g.level = f.level
        /\ g.src = f.src /\ g.state = f.state
    BY <2>1, <1>3 DEF Flow
  <2>3. g.op # "delete"
    BY <2>2, <1>2, <1>3 DEF FlowOK, ArgsOK
  <2>4. g.op = "squash" => Settled'
    <3>1. CASE HeadShows(f.level, f.state)
      BY <3>1, <1>7
    <3>2. CASE ~HeadShows(f.level, f.state)
      BY <3>2, <2>2, <1>5 DEF Settled
    <3> QED
      BY <3>1, <3>2
  <2>5. g.op = "load" => HeadShows(g.src, g.state)'
    BY <2>2, <1>4, <1>5 DEF PreparedShows, HeadShows
  <2>6. SavingShows(g)'
    BY <2>2, <2>3, <2>4, <2>5, <1>6 DEF SavingShows
  <2>7. FlowShows(g)'
    BY <2>2, <2>6 DEF FlowShows
  <2>8. Advance(n, g)
    BY <2>1, <1>1, <1>8 DEF ApplyToEditor
  <2> QED
    BY <2>2, <2>7, <2>8, OnlyFlowChanged, NoFlowAssumption
<1>9. CASE ~f.pending
  <2>1. Settled'
    BY <1>4, <1>7, <1>9 DEF PreparedShows
  <2>2. Succeed(n)
    BY <1>1, <1>9 DEF ApplyToEditor
  <2> QED
    BY <2>1, <2>2, <1>1, <1>2, SucceedHead
<1> QED
  BY <1>8, <1>9

\* The callback that does not apply, or not all.
LEMMA AbortHead ==
    ASSUME FlowInv, HeadInv, MaxFlows = 1, NEW n \in Slot,
           Abort(n) \/ \E c \in Blob : EditorRefuses(n, c)
    PROVE  HeadInv'
<1>1. PICK f : f = flows[n]
  OBVIOUS
<1>2. f # NoFlow /\ f.stage = "apply"
  BY <1>1 DEF Abort, EditorRefuses, Waiting
<1>3. Settled
  BY <1>1, <1>2, OnlyFlow DEF FlowShows
<1>4. Quiet
  BY DEF Abort, EditorRefuses, Quiet, storeVars
<1>5. End(n)
  BY DEF Abort, EditorRefuses
<1> QED
  BY <1>3, <1>4, <1>5, QuietSettled, FlowEnds

\* The second job.
LEMMA FinalizeJobHead ==
    ASSUME FlowInv, HeadInv, MaxFlows = 1, NEW n \in Slot, RunFinalize(n)
    PROVE  HeadInv'
<1>1. PICK f : f = flows[n]
  OBVIOUS
<1>2. f # NoFlow /\ f.stage = "finalize"
  BY <1>1 DEF RunFinalize, Waiting
<1>3. f \in Flow /\ FlowOK(f) /\ FlowShows(f)
  BY <1>1, <1>2, OnlyFlow, RunningFlow
<1>4. SavingShows(f)
  BY <1>2, <1>3 DEF FlowShows
<1>5. PICK ok \in BOOLEAN : /\ IF ok THEN Finalize(f) ELSE UNCHANGED storeVars
                            /\ Advance(n, [f EXCEPT !.stage = "outcome", !.ok = ok])
  BY <1>1 DEF RunFinalize
<1>6. PICK g : g = [f EXCEPT !.stage = "outcome", !.ok = ok]
  OBVIOUS
<1>7. g \in Flow /\ g.stage = "outcome" /\ g.ok = ok /\ g.op = f.op
  BY <1>3, <1>6 DEF Flow
<1>8. editor' = editor /\ unsaved' = unsaved
  BY DEF RunFinalize
<1>9. CASE ok = TRUE
  <2>1. HeadEffect(f)
    BY <1>3, <1>5, <1>9, FinalizeEffect DEF FlowOK, FlowInv
  <2>2. ASSUME f.op # "delete" PROVE Settled'
    <3> SUFFICES ASSUME editor # NoEditor, ~unsaved PROVE HeadShows(editor.level, editor.content)'
      BY <1>8 DEF Settled
    <3>1. editor.level = f.level /\ editor.content = f.state
      BY <2>2, <1>4 DEF SavingShows
    <3>2. f.op = "squash" => HeadShows(f.level, f.state)
      BY <3>1, <1>4 DEF SavingShows, Settled
    <3>3. f.op = "load" => HeadShows(f.src, f.state)
      BY <1>4 DEF SavingShows
    <3>4. f.op \in {"commit", "import", "checkout", "revert", "squash", "load"}
      BY <2>2, <1>3 DEF FlowOK, ArgsOK, Ops
    <3>5. HeadShows(f.level, f.state)'
      BY <3>2, <3>3, <3>4, <2>1 DEF HeadEffect
    <3> QED
      BY <3>1, <3>5, <1>8 DEF HeadShows
  <2>3. FlowShows(g)'
    BY <2>2, <1>7, <1>9 DEF FlowShows
  <2> QED
    BY <2>3, <1>5, <1>6, <1>7, OnlyFlowChanged, NoFlowAssumption
<1>10. CASE ok = FALSE
  <2>1. Quiet
    BY <1>5, <1>8, <1>10 DEF Quiet, storeVars
  <2>2. f.op = "delete" => Settled'
    BY <2>1, <1>4, QuietSettled DEF SavingShows
  <2>3. FlowShows(g)'
    BY <2>2, <1>7, <1>10 DEF FlowShows
  <2> QED
    BY <2>3, <1>5, <1>6, <1>7, OnlyFlowChanged, NoFlowAssumption
<1> QED
  BY <1>9, <1>10

\* The callbacks after it.
LEMMA OutcomeHead ==
    ASSUME FlowInv, HeadInv, MaxFlows = 1, NEW n \in Slot, Outcome(n) \/ CloseAndResume(n)
    PROVE  HeadInv'
<1>1. PICK f : f = flows[n]
  OBVIOUS
<1>2. f # NoFlow
  BY <1>1 DEF Outcome, CloseAndResume, Waiting
<1>3. f \in Flow /\ FlowShows(f) /\ f.ok \in BOOLEAN /\ unsaved \in BOOLEAN
  BY <1>1, <1>2, OnlyFlow DEF Flow, FlowInv, FlowTypeOK
<1>4. CASE CloseAndResume(n)
  <2>1. Settled /\ Quiet /\ End(n)
    BY <1>1, <1>3, <1>4 DEF CloseAndResume, Waiting, FlowShows, Quiet, storeVars
  <2> QED
    BY <2>1, QuietSettled, FlowEnds
<1>5. CASE Outcome(n)
  <2>1. /\ f.stage = "outcome" /\ UNCHANGED <<commits, refs, editor>>
        /\ unsaved' = (unsaved \/ IF f.op = "delete" THEN f.ok ELSE ~f.ok)
        /\ Succeed(n) \/ End(n)
    BY <1>1, <1>5 DEF Outcome, Waiting, storeVars
  <2>2. Settled'
    <3>1. CASE f.ok <=> f.op # "delete"
      <4>1. Settled
        BY <3>1, <2>1, <1>3 DEF FlowShows
      <4>2. unsaved' = unsaved
        BY <3>1, <2>1, <1>3
      <4> QED
        BY <4>1, <4>2, <2>1, QuietSettled DEF Quiet
    <3>2. CASE ~(f.ok <=> f.op # "delete")
      <4>1. unsaved' = TRUE
        BY <3>2, <2>1, <1>3
      <4> QED
        BY <4>1 DEF Settled
    <3> QED
      BY <3>1, <3>2
  <2> QED
    BY <2>1, <2>2, <1>1, <1>2, SucceedHead, FlowEnds
<1> QED
  BY <1>4, <1>5

\* With one operation at a time the editor shows HEAD whenever none runs: commits, checkouts, reverts,
\* squashes, loads and imports all leave it so, for every number of levels, commits and popups.
THEOREM EditorAgreesWithHead ==
    ASSUME MaxFlows = 1
    PROVE  Spec => []EditorShowsHead
<1>1. Init => HeadInv
  <2> SUFFICES ASSUME Init PROVE HeadInv
    OBVIOUS
  <2>1. \A n \in Slot : flows[n] = NoFlow
    BY DEF Init
  <2>2. editor = NoEditor
    BY DEF Init
  <2> QED
    BY <2>1, <2>2, NoFlowAssumption DEF HeadInv, Settled
<1>2. FlowInv /\ HeadInv /\ [Next]_vars => HeadInv'
  <2> SUFFICES ASSUME FlowInv, HeadInv, [Next]_vars PROVE HeadInv'
    OBVIOUS
  <2>1. CASE OpenStore
    <3>1. UNCHANGED <<commits, refs, editor, unsaved, flows>>
      BY <2>1 DEF OpenStore, InitStore, flowVars
    <3> QED
      BY <3>1, QuietFlows DEF Quiet
  <2>2. CASE \/ \E c \in Blob : EditLevel(c) \/ \E k \in LevelKey : OpenEditor(k, c)
             \/ LeaveEditor \/ \E p \in Popup : OpenPopup(p) \/ ClosePopup(p)
    <3>1. Quiet /\ UNCHANGED flows
      BY <2>2 DEF EditLevel, OpenEditor, LeaveEditor, OpenPopup, ClosePopup, Quiet, storeVars
    <3> QED
      BY <3>1, QuietFlows
  <2>3. CASE (\E p \in Popup : PressButton(p)) \/ StartImport \/ StartCommit
    BY <2>3, StartHead
  <2>4. CASE \E n \in Slot : Confirm(n) \/ Cancel(n) \/ ConfirmMessage(n) \/ CancelMessage(n)
    BY <2>4, DialogHead
  <2>5. CASE \E n \in Slot : FlowStep(n)
    BY <2>5, PrepareHead, ApplyHead, AbortHead, FinalizeJobHead, OutcomeHead DEF FlowStep
  <2>6. CASE UNCHANGED vars
    <3>1. UNCHANGED <<commits, refs, editor, unsaved, flows>>
      BY <2>6 DEF vars, flowVars, storeVars
    <3> QED
      BY <3>1, QuietFlows DEF Quiet
  <2> QED
    BY <2>1, <2>2, <2>3, <2>4, <2>5, <2>6 DEF Next, UserStep
<1>3. HeadInv => EditorShowsHead
  BY DEF HeadInv, EditorShowsHead, Settled
<1> QED
  BY <1>1, <1>2, <1>3, FlowInvariant, PTL DEF Spec
===============================================================================
