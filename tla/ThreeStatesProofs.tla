-------------------------- MODULE ThreeStatesProofs --------------------------
(***************************************************************************)
(* Replaying a commit gives the committed state, a revert without          *)
(* conflicts undoes one commit and nothing else, and an import without     *)
(* conflicts has the work of both sides, whoever imports, for any set of   *)
(* level states over any keys, values and uuids.                           *)
(***************************************************************************)
EXTENDS ThreeStates, DifferProofs, SequenceTheorems

\* The inductive invariant: the result of a replay is the delta applied to the copy.
RebuildInv ==
    /\ {parent, target, head} \subseteq LevelState
    /\ done = "rebuild" => /\ result = Apply(head, Diff(parent, target))
                           /\ conflicts = Conflicts(head, Diff(parent, target))

\* GitService::reconstruct is right to replay a delta on whatever copy of the parent's state it has,
\* cached or rebuilt: the result is the committed state, and apply has no conflict to drop.
THEOREM RebuildCorrect == Spec => []RebuildGivesTarget
<1>1. Init => RebuildInv
  BY StatesAssumption DEF Init, RebuildInv
<1>2. RebuildInv /\ [Next]_vars => RebuildInv'
  <2> SUFFICES ASSUME RebuildInv, [Next]_vars PROVE RebuildInv'
    OBVIOUS
  <2>1. CASE Rebuild
    BY <2>1 DEF Rebuild, RebuildInv
  <2>2. CASE Revert
    BY <2>2 DEF Revert, RebuildInv
  <2>3. CASE Import
    BY <2>3 DEF Import, RebuildInv
  <2>4. CASE UNCHANGED vars
    BY <2>4 DEF vars, RebuildInv
  <2> QED
    BY <2>1, <2>2, <2>3, <2>4 DEF Next
<1>3. RebuildInv => RebuildGivesTarget
  BY Replay, ReplayWithoutConflicts DEF RebuildInv, RebuildGivesTarget
<1> QED
  BY <1>1, <1>2, <1>3, PTL DEF Spec

-------------------------------------------------------------------------------
\* What a revert leaves of a value x of head: b, the parent's, if the commit changed it.
Undo(a, b, x) == IF a = b THEN x ELSE b

\* One map of fields: a change that is not stale (Differ.cpp, apply) puts the parent's value back, and
\* a key that only went from missing to empty was empty in head, too.
LEMMA FieldsUndone ==
    ASSUME NEW t \in FieldMap, NEW p \in FieldMap, NEW h \in FieldMap,
           \A k \in Key : ~StaleField(h, DiffFields(t, p), k)
    PROVE  \A k \in Key :
              /\ NormFields(ApplyHeader(h, DiffFields(t, p)))[k] =
                    Undo(NormFields(t)[k], NormFields(p)[k], NormFields(h)[k])
              /\ NormFields(ApplyFields(h, DiffFields(t, p)))[k] =
                    Undo(NormFields(t)[k], NormFields(p)[k], NormFields(h)[k])
<1> SUFFICES ASSUME NEW k \in Key
             PROVE  /\ NormFields(ApplyHeader(h, DiffFields(t, p)))[k] =
                          Undo(NormFields(t)[k], NormFields(p)[k], NormFields(h)[k])
                    /\ NormFields(ApplyFields(h, DiffFields(t, p)))[k] =
                          Undo(NormFields(t)[k], NormFields(p)[k], NormFields(h)[k])
  OBVIOUS
<1>1. ApplyFields(h, DiffFields(t, p))[k] = ApplyHeader(h, DiffFields(t, p))[k]
  BY DEF ApplyFields, ApplyHeader
<1>2. NormFields(ApplyHeader(h, DiffFields(t, p)))[k] =
        Undo(NormFields(t)[k], NormFields(p)[k], NormFields(h)[k])
  <2>1. CASE t[k] = p[k]
    BY <2>1 DEF DiffFields, ApplyHeader, NormFields, Undo
  <2>2. CASE t[k] # p[k]
    <3>1. DiffFields(t, p)[k] = [before |-> ValueOf(t[k]), after |-> ValueOf(p[k])]
      BY <2>2 DEF DiffFields
    <3>2. DiffFields(t, p)[k] # Nil
      BY <3>1, DifferAssumption DEF FieldMap, FieldChange, ValueOf
    <3>3. ValueOf(h[k]) = ValueOf(t[k])
      BY <3>1, <3>2 DEF StaleField
    <3>4. ApplyHeader(h, DiffFields(t, p))[k] = IF ValueOf(p[k]) = Empty THEN Nil ELSE ValueOf(p[k])
      BY <3>1, <3>2 DEF ApplyHeader, Written
    <3> QED BY <2>2, <3>3, <3>4, DifferAssumption DEF NormFields, ValueOf, Undo, FieldMap
  <2> QED BY <2>1, <2>2
<1>3. NormFields(ApplyFields(h, DiffFields(t, p)))[k] = NormFields(ApplyHeader(h, DiffFields(t, p)))[k]
  BY <1>1 DEF NormFields
<1> QED BY <1>2, <1>3

\* The object with a uuid that apply reports no conflict about: away or back as a whole, or undone
\* field by field (Differ.cpp, apply: adds, removes, modifies).
ObjectUndone(t, p, h, r) ==
    IF t = Nil \/ p = Nil \/ h = Nil THEN r = Undo(t, p, h)
    ELSE \A k \in Key : r[k] = Undo(t[k], p[k], h[k])

\* An empty list of conflicts, read back: no field is stale, nothing added is there already, nothing
\* removed or modified is missing.
NothingStale(s, d) ==
    /\ \A k \in Key : ~StaleField(s.header, d.headerChanges, k)
    /\ d.rawHeaderChange # Nil => d.rawHeaderChange.before = s.rawHeader
    /\ \A u \in Uuid :
        /\ d.adds[u] # Nil => s.objects[u] = Nil
        /\ d.modifies[u] # Nil =>
            /\ AfterRemoves(s.objects, d)[u] # Nil
            /\ \A k \in Key : ~StaleField(AfterRemoves(s.objects, d)[u], d.modifies[u], k)

\* That is what apply (Differ.cpp) tells by reporting none.
LEMMA NoConflictsMeansNothingStale ==
    ASSUME NEW s, NEW d, Conflicts(s, d) = {}
    PROVE  NothingStale(s, d)
<1>1. ASSUME NEW k \in Key, StaleField(s.header, d.headerChanges, k) PROVE FALSE
  <2>1. <<"ModifyStale", "header", k>> \in Conflicts(s, d)
    BY <1>1 DEF Conflicts
  <2> QED BY <2>1
<1>2. ASSUME d.rawHeaderChange # Nil, d.rawHeaderChange.before # s.rawHeader PROVE FALSE
  <2>1. <<"ModifyStale", "rawHeader">> \in Conflicts(s, d)
    BY <1>2 DEF Conflicts
  <2> QED BY <2>1
<1>3. ASSUME NEW u \in Uuid, d.adds[u] # Nil, s.objects[u] # Nil PROVE FALSE
  <2>1. <<"AddAlreadyExists", u>> \in AddConflicts(s, d)
    BY <1>3 DEF AddConflicts
  <2> QED BY <2>1 DEF Conflicts
<1>4. ASSUME NEW u \in Uuid, d.modifies[u] # Nil, AfterRemoves(s.objects, d)[u] = Nil PROVE FALSE
  <2>1. <<"Missing", u>> \in Conflicts(s, d)
    BY <1>4 DEF Conflicts
  <2> QED BY <2>1
<1>5. ASSUME NEW u \in Uuid, d.modifies[u] # Nil, NEW k \in Key,
             StaleField(AfterRemoves(s.objects, d)[u], d.modifies[u], k)
      PROVE  FALSE
  <2>1. AfterRemoves(s.objects, d)[u] # Nil
    BY <1>4, <1>5
  <2>2. <<"ModifyStale", u, k>> \in Conflicts(s, d)
    BY <1>5, <2>1 DEF Conflicts
  <2> QED BY <2>2
<1> QED BY <1>1, <1>2, <1>3, <1>4, <1>5 DEF NothingStale

\* GitService::prepareRevert applies diff(target, parent) to head; without conflicts every object is
\* undone.
LEMMA ObjectsUndone ==
    ASSUME NEW p \in LevelState, NEW t \in LevelState, NEW h \in LevelState, NEW u \in Uuid,
           NothingStale(h, Diff(t, p))
    PROVE  ObjectUndone(Norm(t).objects[u], Norm(p).objects[u], Norm(h).objects[u],
                        Norm(Apply(h, Diff(t, p))).objects[u])
<1> DEFINE d == Diff(t, p)
           x == t.objects[u]
           y == p.objects[u]
           z == h.objects[u]
           r == Apply(h, d).objects[u]
           N(o) == IF o = Nil THEN Nil ELSE NormFields(o)
<1>1. /\ x = Nil \/ x \in FieldMap
      /\ y = Nil \/ y \in FieldMap
      /\ z = Nil \/ z \in FieldMap
  BY DEF LevelState, ObjectMap
<1>2. \A f \in FieldMap : f # Nil /\ NormFields(f) \in FieldMap /\ NormFields(f) # Nil
  BY DifferAssumption DEF FieldMap, NormFields
<1>3. /\ d.adds[u] = IF x = Nil THEN y ELSE Nil
      /\ u \in d.removes <=> x # Nil /\ y = Nil
      /\ d.modifies[u] = DiffObject(x, y)
  BY DEF Diff
<1>4. AfterRemoves(h.objects, d)[u] =
        IF u \in d.removes THEN Nil ELSE IF z = Nil THEN d.adds[u] ELSE z
  BY DEF AfterRemoves, AfterAdds
<1>5. r = IF AfterRemoves(h.objects, d)[u] = Nil \/ d.modifies[u] = Nil
          THEN AfterRemoves(h.objects, d)[u]
          ELSE ApplyFields(AfterRemoves(h.objects, d)[u], d.modifies[u])
  BY DEF Apply, ApplyObjects
<1>6. /\ d.adds[u] # Nil => z = Nil
      /\ d.modifies[u] # Nil => /\ AfterRemoves(h.objects, d)[u] # Nil
                                /\ \A k \in Key : ~StaleField(AfterRemoves(h.objects, d)[u], d.modifies[u], k)
  BY DEF NothingStale
<1>7. /\ Norm(t).objects[u] = N(x) /\ Norm(p).objects[u] = N(y) /\ Norm(h).objects[u] = N(z)
      /\ Norm(Apply(h, d)).objects[u] = N(r)
  BY DEF Norm
<1> SUFFICES ObjectUndone(N(x), N(y), N(z), N(r))
  BY <1>7
<1> HIDE DEF d, x, y, z, r
<1>8. CASE x = Nil \/ y = Nil
  <2>1. d.modifies[u] = Nil
    BY <1>3, <1>8 DEF DiffObject
  <2>2. r = IF x = y THEN z ELSE y
    BY <2>1, <1>3, <1>4, <1>5, <1>6, <1>8
  <2> QED BY <2>2, <1>1, <1>2, <1>8 DEF ObjectUndone, Undo
<1>9. CASE x # Nil /\ y # Nil
  <2>1. AfterRemoves(h.objects, d)[u] = z
    BY <1>3, <1>4, <1>9
  <2>2. CASE d.modifies[u] = Nil
    <3>1. x = y
      <4>1. DiffFields(x, y) = NoFieldChanges
        <5>1. DiffFields(x, y) \in FieldChanges
          BY <1>1, <1>9, DiffFieldsType
        <5> QED BY <5>1, <2>2, <1>3, <1>9, DifferAssumption DEF DiffObject
      <4>2. ASSUME NEW k \in Key, x[k] # y[k] PROVE FALSE
        <5>1. DiffFields(x, y)[k] = [before |-> ValueOf(x[k]), after |-> ValueOf(y[k])]
          BY <4>2 DEF DiffFields
        <5>2. DiffFields(x, y)[k] \in FieldChange
          BY <5>1, <1>1, <1>9, DifferAssumption DEF FieldMap, FieldChange, ValueOf
        <5> QED BY <5>2, <4>1, DifferAssumption DEF NoFieldChanges
      <4> QED BY <4>2, <1>1, <1>9 DEF FieldMap
    <3>2. r = z
      BY <2>1, <2>2, <1>5
    <3> QED BY <3>1, <3>2 DEF ObjectUndone, Undo
  <2>3. CASE d.modifies[u] # Nil
    <3>1. d.modifies[u] = DiffFields(x, y)
      BY <2>3, <1>3 DEF DiffObject
    <3>2. z # Nil /\ z \in FieldMap
      BY <2>1, <2>3, <1>1, <1>6
    <3>3. \A k \in Key : ~StaleField(z, DiffFields(x, y), k)
      BY <2>1, <2>3, <3>1, <1>6
    <3>4. r = ApplyFields(z, DiffFields(x, y))
      BY <3>1, <3>2, <2>1, <2>3, <1>5
    <3>5. r \in FieldMap
      <4>1. DiffFields(x, y) \in FieldChanges
        BY <1>1, <1>9, DiffFieldsType
      <4> QED BY <3>2, <3>4, <4>1, DifferAssumption
            DEF FieldMap, FieldChanges, FieldChange, ApplyFields, Written
    <3>6. \A k \in Key : NormFields(r)[k] = Undo(NormFields(x)[k], NormFields(y)[k], NormFields(z)[k])
      BY <3>2, <3>3, <3>4, <1>1, <1>9, FieldsUndone
    <3> QED BY <3>2, <3>5, <3>6, <1>1, <1>2, <1>9 DEF ObjectUndone
  <2> QED BY <2>2, <2>3
<1> QED BY <1>8, <1>9

\* The inductive invariant: the result of a revert is the inverse delta applied to head.
RevertInv ==
    /\ {parent, target, head} \subseteq LevelState
    /\ done = "revert" => /\ result = Apply(head, Diff(target, parent))
                          /\ conflicts = Conflicts(head, Diff(target, parent))

\* A revert that reports no conflict undoes the commit and keeps what later commits did, but to objects
\* that the commit added, for every level (GitService::prepareRevert, the promise of the History popup).
THEOREM CleanRevertIsExact == Spec => []CleanRevertUndoesOnlyTarget
<1>1. Init => RevertInv
  BY StatesAssumption DEF Init, RevertInv
<1>2. RevertInv /\ [Next]_vars => RevertInv'
  <2> SUFFICES ASSUME RevertInv, [Next]_vars PROVE RevertInv'
    OBVIOUS
  <2>1. CASE Rebuild
    BY <2>1 DEF Rebuild, RevertInv
  <2>2. CASE Revert
    BY <2>2 DEF Revert, RevertInv
  <2>3. CASE Import
    BY <2>3 DEF Import, RevertInv
  <2>4. CASE UNCHANGED vars
    BY <2>4 DEF vars, RevertInv
  <2> QED
    BY <2>1, <2>2, <2>3, <2>4 DEF Next
<1>3. RevertInv => CleanRevertUndoesOnlyTarget
  <2> SUFFICES ASSUME RevertInv, done = "revert", conflicts = {} PROVE CleanRevertUndoesOnlyTarget
    BY DEF CleanRevertUndoesOnlyTarget
  <2> DEFINE d == Diff(target, parent)
  <2>1. /\ parent \in LevelState /\ target \in LevelState /\ head \in LevelState
        /\ parent.header \in FieldMap /\ target.header \in FieldMap /\ head.header \in FieldMap
    BY DEF RevertInv, LevelState
  <2>2. result = Apply(head, d) /\ NothingStale(head, d)
    BY NoConflictsMeansNothingStale DEF RevertInv
  <2>3. Norm(result).rawHeader = Undo(Norm(target).rawHeader, Norm(parent).rawHeader, Norm(head).rawHeader)
    <3>1. target.rawHeader # parent.rawHeader => d.rawHeaderChange # Nil
      BY <2>1, DifferAssumption DEF Diff, RawChange, LevelState
    <3> QED BY <2>2, <3>1 DEF Norm, Apply, ApplyRawHeader, Diff, Undo
  <2>4. \A k \in Key : Norm(result).header[k] =
            Undo(Norm(target).header[k], Norm(parent).header[k], Norm(head).header[k])
    <3>1. \A k \in Key : ~StaleField(head.header, DiffFields(target.header, parent.header), k)
      BY <2>2 DEF NothingStale, Diff
    <3>2. result.header = ApplyHeader(head.header, DiffFields(target.header, parent.header))
      BY <2>2 DEF Apply, Diff
    <3>3. /\ Norm(result).header = NormFields(result.header)
          /\ Norm(target).header = NormFields(target.header)
          /\ Norm(parent).header = NormFields(parent.header)
          /\ Norm(head).header = NormFields(head.header)
      BY DEF Norm
    <3>4. \A k \in Key :
            NormFields(ApplyHeader(head.header, DiffFields(target.header, parent.header)))[k] =
                Undo(NormFields(target.header)[k], NormFields(parent.header)[k], NormFields(head.header)[k])
      BY <3>1, <2>1, FieldsUndone
    <3> QED BY <3>2, <3>3, <3>4
  <2>5. \A u \in Uuid : ObjectUndone(Norm(target).objects[u], Norm(parent).objects[u],
                                     Norm(head).objects[u], Norm(result).objects[u])
    BY <2>1, <2>2, ObjectsUndone
  <2> QED BY <2>3, <2>4, <2>5 DEF CleanRevertUndoesOnlyTarget, ObjectUndone, Undo
<1> QED
  BY <1>1, <1>2, <1>3, PTL DEF Spec

-------------------------------------------------------------------------------
(***************************************************************************)
(* Objects of a merge                                                      *)
(***************************************************************************)

Acc == [objects : ObjectMap, next : Nat, conflicts : Nat]

\* What the iteration at a uuid leaves there, whether it counts a conflict or not.
MergedObject(b, o, t) ==
    IF b = Nil THEN (IF o = Nil THEN t ELSE o)
    ELSE IF o = Nil THEN Nil
    ELSE IF t = Nil THEN (IF o = b THEN Nil ELSE o)
    ELSE MergedFields(b, o, t)

\* The iteration counts a conflict.
ObjectClash(b, o, t) ==
    /\ b # Nil
    /\ \/ o = Nil /\ t # Nil /\ t # b
       \/ o # Nil /\ t = Nil /\ o # b
       \/ o # Nil /\ t # Nil /\ \E k \in Key : Clash(ValueOf(b[k]), ValueOf(o[k]), ValueOf(t[k]))

\* Two versions of an added object.
TwoVersions(b, o, t) == b = Nil /\ o # Nil /\ t # Nil /\ o # t

\* What an iteration at u makes of the accumulator.
IterationEffect(acc, r, u, b, o, t) ==
    /\ r \in Acc
    /\ r.conflicts = 0 <=> acc.conflicts = 0 /\ ~ObjectClash(b, o, t)
    /\ r.next = IF TwoVersions(b, o, t) THEN acc.next + 1 ELSE acc.next
    /\ TwoVersions(b, o, t) =>
        \A w \in Uuid : r.objects[w] = IF w = acc.next THEN t ELSE acc.objects[w]
    /\ ~TwoVersions(b, o, t) =>
        /\ \A w \in Uuid \ {u} : r.objects[w] = acc.objects[w]
        /\ acc.objects[u] = o => r.objects[u] = MergedObject(b, o, t)

LEMMA KeyFinite == IsFiniteSet(Key) /\ \A S \in SUBSET Key : IsFiniteSet(S)
<1>1. KeyOrder \in Seq(Key) /\ RangeOf(KeyOrder) = Key
  BY GdHeaderAssumption
<1>2. IsFiniteSet(1 .. Len(KeyOrder)) /\ DOMAIN KeyOrder = 1 .. Len(KeyOrder)
  BY <1>1, FS_Interval
<1>3. KeyOrder \in Surjection(1 .. Len(KeyOrder), Key)
  BY <1>1, <1>2 DEF RangeOf, Surjection
<1>4. IsFiniteSet(Key)
  BY <1>2, <1>3, FS_Surjection
<1> QED
  BY <1>4, FS_Subset

LEMMA FieldClashesCount ==
    ASSUME NEW b, NEW o, NEW t
    PROVE  /\ FieldClashes(b, o, t) \in Nat
           /\ FieldClashes(b, o, t) = 0
                <=> \A k \in Key : ~Clash(ValueOf(b[k]), ValueOf(o[k]), ValueOf(t[k]))
<1> DEFINE S == {k \in Key : Clash(ValueOf(b[k]), ValueOf(o[k]), ValueOf(t[k]))}
<1>1. IsFiniteSet(S)
  BY KeyFinite
<1>2. Cardinality(S) \in Nat /\ (Cardinality(S) = 0 <=> S = {})
  <2> HIDE DEF S
  <2> QED
    BY <1>1, FS_CardinalityType, FS_EmptySet
<1>3. FieldClashes(b, o, t) = Cardinality(S)
  BY DEF FieldClashes
<1> QED
  BY <1>2, <1>3

LEMMA MergedFieldsType ==
    ASSUME NEW b \in FieldMap, NEW o \in FieldMap, NEW t \in FieldMap
    PROVE  MergedFields(b, o, t) \in FieldMap
BY DifferAssumption DEF MergedFields, MergedField, FieldMap, ValueOf, Pick

\* The next uuid of an import is above those of ours.
LEMMA NextUuidIs ==
    ASSUME NEW objects \in ObjectMap
    PROVE  /\ NextUuid(objects) \in 1 .. MaxUuid + 1
           /\ \A u \in Uuid : objects[u] # Nil => u < NextUuid(objects)
<1> DEFINE T == {n \in 1 .. MaxUuid + 1 : \A u \in Uuid : objects[u] # Nil => u < n}
<1>1. MaxUuid \in Nat /\ Uuid = 1 .. MaxUuid
  BY MergeAssumption
<1>2. MaxUuid + 1 \in T /\ T \in SUBSET Nat
  BY <1>1
<1>3. PICK n \in T : \A m \in T : n <= m
  <2> HIDE DEF T
  <2> QED
    BY <1>2, LeastNat
<1>4. n = 1 \/ objects[n - 1] # Nil
  <2> SUFFICES ASSUME n # 1, objects[n - 1] = Nil PROVE FALSE
    OBVIOUS
  <2>1. n - 1 \in 1 .. MaxUuid + 1 /\ n - 1 < n
    BY <1>1, <1>3
  <2>2. \A u \in Uuid : objects[u] # Nil => u < n - 1
    BY <1>1, <1>3
  <2>3. n - 1 \in T
    BY <2>1, <2>2
  <2> QED
    BY <1>1, <1>3, <2>1, <2>3
<1>5. \E m \in 1 .. MaxUuid + 1 : (\A u \in Uuid : objects[u] # Nil => u < m)
                                  /\ (m = 1 \/ objects[m - 1] # Nil)
  BY <1>3, <1>4
<1> QED
  BY <1>5 DEF NextUuid

\* One iteration of mergeStates3Way's loop over the ids, in all its cases.
LEMMA MergeObjectEffect ==
    ASSUME NEW acc \in Acc, NEW u \in Uuid,
           NEW b \in FieldMap \cup {Nil}, NEW o \in FieldMap \cup {Nil}, NEW t \in FieldMap \cup {Nil}
    PROVE  IterationEffect(acc, MergeObject(acc, u, b, o, t), u, b, o, t)
<1> DEFINE r == MergeObject(acc, u, b, o, t)
<1>0. /\ acc.objects \in ObjectMap /\ acc.next \in Nat /\ acc.conflicts \in Nat
      /\ acc = [objects |-> acc.objects, next |-> acc.next, conflicts |-> acc.conflicts]
  BY DEF Acc
<1>1. ASSUME NEW v \in FieldMap \cup {Nil}
      PROVE  /\ [acc EXCEPT !.objects[u] = v] \in Acc
             /\ [acc EXCEPT !.objects[u] = v].next = acc.next
             /\ [acc EXCEPT !.objects[u] = v].conflicts = acc.conflicts
             /\ [acc EXCEPT !.objects[u] = v].objects[u] = v
             /\ \A w \in Uuid \ {u} : [acc EXCEPT !.objects[u] = v].objects[w] = acc.objects[w]
  BY <1>0 DEF Acc, ObjectMap
<1>2. /\ [acc EXCEPT !.conflicts = @ + 1] \in Acc
      /\ [acc EXCEPT !.conflicts = @ + 1].next = acc.next
      /\ [acc EXCEPT !.conflicts = @ + 1].conflicts # 0
      /\ [acc EXCEPT !.conflicts = @ + 1].objects = acc.objects
  BY <1>0 DEF Acc
<1>3. CASE o = Nil /\ t = Nil
  <2>1. r = [acc EXCEPT !.objects[u] = Nil]
    BY <1>3 DEF MergeObject
  <2>2. ~TwoVersions(b, o, t) /\ ~ObjectClash(b, o, t) /\ MergedObject(b, o, t) = Nil
    BY <1>3 DEF TwoVersions, ObjectClash, MergedObject
  <2> QED
    BY <1>1, <2>1, <2>2 DEF IterationEffect
<1>4. CASE b = Nil /\ o = Nil /\ t # Nil
  <2>1. r = [acc EXCEPT !.objects[u] = t]
    BY <1>4 DEF MergeObject
  <2>2. ~TwoVersions(b, o, t) /\ ~ObjectClash(b, o, t) /\ MergedObject(b, o, t) = t
    BY <1>4 DEF TwoVersions, ObjectClash, MergedObject
  <2> QED
    BY <1>1, <2>1, <2>2 DEF IterationEffect
<1>5. CASE b = Nil /\ o # Nil /\ (t = Nil \/ o = t)
  <2>1. r = acc
    BY <1>5 DEF MergeObject, BothAdded
  <2>2. ~TwoVersions(b, o, t) /\ ~ObjectClash(b, o, t) /\ MergedObject(b, o, t) = o
    BY <1>5 DEF TwoVersions, ObjectClash, MergedObject
  <2> QED
    BY <2>1, <2>2 DEF IterationEffect
<1>6. CASE b = Nil /\ o # Nil /\ t # Nil /\ o # t
  <2>1. r = AddNext(acc, t)
    BY <1>6 DEF MergeObject, BothAdded
  <2>2. /\ AddNext(acc, t) \in Acc
        /\ AddNext(acc, t).next = acc.next + 1
        /\ AddNext(acc, t).conflicts = acc.conflicts
        /\ \A w \in Uuid : AddNext(acc, t).objects[w] = IF w = acc.next THEN t ELSE acc.objects[w]
    <3> DEFINE objects == [w \in Uuid |-> IF w = acc.next THEN t ELSE acc.objects[w]]
    <3>1. AddNext(acc, t) = [objects |-> objects, next |-> acc.next + 1, conflicts |-> acc.conflicts]
      <4>1. AddNext(acc, t) = [acc EXCEPT !.objects = objects, !.next = @ + 1]
        BY DEF AddNext
      <4> HIDE DEF objects
      <4> QED
        BY <1>0, <4>1
    <3>2. objects \in ObjectMap
      BY <1>0 DEF ObjectMap
    <3>3. \A w \in Uuid : objects[w] = IF w = acc.next THEN t ELSE acc.objects[w]
      OBVIOUS
    <3> HIDE DEF objects
    <3> QED
      BY <1>0, <3>1, <3>2, <3>3 DEF Acc
  <2>3. TwoVersions(b, o, t) /\ ~ObjectClash(b, o, t)
    BY <1>6 DEF TwoVersions, ObjectClash
  <2> QED
    BY <2>1, <2>2, <2>3 DEF IterationEffect
<1>7. CASE b # Nil /\ o = Nil /\ t # Nil
  <2>1. ~TwoVersions(b, o, t) /\ (ObjectClash(b, o, t) <=> t # b) /\ MergedObject(b, o, t) = Nil
    BY <1>7 DEF TwoVersions, ObjectClash, MergedObject
  <2>2. r = IF t = b THEN [acc EXCEPT !.objects[u] = Nil] ELSE [acc EXCEPT !.conflicts = @ + 1]
    BY <1>7 DEF MergeObject, RemovedByOurs
  <2> QED
    BY <1>1, <1>2, <1>7, <2>1, <2>2 DEF IterationEffect
<1>8. CASE b # Nil /\ o # Nil /\ t = Nil
  <2>1. /\ ~TwoVersions(b, o, t) /\ (ObjectClash(b, o, t) <=> o # b)
        /\ MergedObject(b, o, t) = IF o = b THEN Nil ELSE o
    BY <1>8 DEF TwoVersions, ObjectClash, MergedObject
  <2>2. r = IF o = b THEN [acc EXCEPT !.objects[u] = Nil] ELSE [acc EXCEPT !.conflicts = @ + 1]
    BY <1>8 DEF MergeObject
  <2> QED
    BY <1>1, <1>2, <1>8, <2>1, <2>2 DEF IterationEffect
<1>9. CASE b # Nil /\ o # Nil /\ t # Nil
  <2> DEFINE v == MergedFields(b, o, t)
             c == FieldClashes(b, o, t)
  <2>1. r = [acc EXCEPT !.objects[u] = v, !.conflicts = @ + c]
    BY <1>9 DEF MergeObject
  <2>2. v \in FieldMap
    BY <1>9, MergedFieldsType
  <2>3. c \in Nat /\ (c = 0 <=> \A k \in Key : ~Clash(ValueOf(b[k]), ValueOf(o[k]), ValueOf(t[k])))
    BY FieldClashesCount
  <2>4. ~TwoVersions(b, o, t) /\ (ObjectClash(b, o, t) <=> c # 0) /\ MergedObject(b, o, t) = v
    BY <1>9, <2>3 DEF TwoVersions, ObjectClash, MergedObject
  <2> HIDE DEF v, c
  <2>5. /\ r.objects = [acc.objects EXCEPT ![u] = v] /\ r.next = acc.next
        /\ r.conflicts = acc.conflicts + c /\ r \in Acc
    <3> DEFINE objects == [acc.objects EXCEPT ![u] = v]
    <3>1. r = [objects |-> objects, next |-> acc.next, conflicts |-> acc.conflicts + c]
      BY <1>0, <2>1
    <3>2. objects \in ObjectMap
      BY <1>0, <2>2 DEF ObjectMap
    <3>3. acc.conflicts + c \in Nat
      BY <1>0, <2>3
    <3> HIDE DEF objects, r
    <3>4. r \in Acc /\ r.objects = objects /\ r.next = acc.next /\ r.conflicts = acc.conflicts + c
      BY <1>0, <3>1, <3>2, <3>3 DEF Acc
    <3> QED
      BY <3>4 DEF objects
  <2>6. /\ r.objects[u] = v
        /\ \A w \in Uuid \ {u} : r.objects[w] = acc.objects[w]
    BY <1>0, <2>5 DEF ObjectMap
  <2>7. r.conflicts = 0 <=> acc.conflicts = 0 /\ c = 0
    BY <1>0, <2>3, <2>5
  <2> QED
    BY <2>4, <2>5, <2>6, <2>7 DEF IterationEffect
<1> QED
  BY <1>3, <1>4, <1>5, <1>6, <1>7, <1>8, <1>9

MergeLoopStep(acc, n, B, O, T) ==
    IF <<B[n], O[n], T[n]>> = <<Nil, Nil, Nil>> THEN acc ELSE MergeObject(acc, n, B[n], O[n], T[n])

\* f is the accumulator of mergeStates3Way's loop, iteration by iteration.
MergeLoop(f, B, O, T) ==
    /\ f \in [0 .. MaxUuid -> Acc]
    /\ f[0] = [objects |-> O, next |-> NextUuid(O), conflicts |-> 0]
    /\ \A n \in 1 .. MaxUuid : IterationEffect(f[n - 1], f[n], n, B[n], O[n], T[n])
    /\ \A n \in 1 .. MaxUuid : B[n] = Nil /\ O[n] = Nil /\ T[n] = Nil => f[n] = f[n - 1]
    /\ MergeObjects(B, O, T) = f[MaxUuid]

LEMMA MergeLoopStepEffect ==
    ASSUME NEW B \in ObjectMap, NEW O \in ObjectMap, NEW T \in ObjectMap, NEW acc \in Acc, NEW n \in Uuid
    PROVE  IterationEffect(acc, MergeLoopStep(acc, n, B, O, T), n, B[n], O[n], T[n])
<1>0. B[n] \in FieldMap \cup {Nil} /\ O[n] \in FieldMap \cup {Nil} /\ T[n] \in FieldMap \cup {Nil}
  BY DEF ObjectMap
<1>1. CASE <<B[n], O[n], T[n]>> = <<Nil, Nil, Nil>>
  <2>1. B[n] = Nil /\ O[n] = Nil /\ T[n] = Nil /\ MergeLoopStep(acc, n, B, O, T) = acc
    BY <1>1 DEF MergeLoopStep
  <2> QED
    BY <2>1 DEF IterationEffect, TwoVersions, ObjectClash, MergedObject
<1>2. CASE <<B[n], O[n], T[n]>> # <<Nil, Nil, Nil>>
  <2>1. MergeLoopStep(acc, n, B, O, T) = MergeObject(acc, n, B[n], O[n], T[n])
    BY <1>2 DEF MergeLoopStep
  <2> QED
    BY <1>0, <2>1, MergeObjectEffect
<1> QED
  BY <1>1, <1>2

LEMMA MergeLoopExists ==
    ASSUME NEW B \in ObjectMap, NEW O \in ObjectMap, NEW T \in ObjectMap
    PROVE  \E f : MergeLoop(f, B, O, T)
<1> DEFINE c == [objects |-> O, next |-> NextUuid(O), conflicts |-> 0]
           D == [p \in Acc \X (1 .. MaxUuid) |-> MergeLoopStep(p[1], p[2], B, O, T)]
<1>1. MaxUuid \in Nat /\ Uuid = 1 .. MaxUuid
  BY MergeAssumption
<1>2. c \in Acc
  <2>1. NextUuid(O) \in Nat
    BY <1>1, NextUuidIs
  <2> QED
    BY <2>1 DEF Acc
<1>3. \A acc \in Acc, n \in 1 .. MaxUuid :
        /\ MergeLoopStep(acc, n, B, O, T) \in Acc
        /\ IterationEffect(acc, MergeLoopStep(acc, n, B, O, T), n, B[n], O[n], T[n])
  <2> TAKE acc \in Acc, n \in 1 .. MaxUuid
  <2>1. IterationEffect(acc, MergeLoopStep(acc, n, B, O, T), n, B[n], O[n], T[n])
    BY <1>1, MergeLoopStepEffect
  <2>2. MergeLoopStep(acc, n, B, O, T) \in Acc
    BY <2>1 DEF IterationEffect
  <2> QED
    BY <2>1, <2>2
<1>4. D \in [Acc \X (1 .. MaxUuid) -> Acc] /\ \A acc \in Acc, n \in 1 .. MaxUuid :
        D[<<acc, n>>] = MergeLoopStep(acc, n, B, O, T)
  BY <1>3
<1>5. PICK g \in [0 .. MaxUuid -> Acc] : IsRecursive(g, MaxUuid, c, D)
  <2>1. D \in [Acc \X (1 .. MaxUuid) -> Acc]
    BY <1>4
  <2>2. MaxUuid \in Nat /\ c \in Acc
    BY <1>1, <1>2
  <2> HIDE DEF c, D
  <2> QED
    BY <2>1, <2>2, RecursionExists
<1>6. g = [n \in 0 .. MaxUuid |-> IF n = 0 THEN c
              ELSE IF <<B[n], O[n], T[n]>> = <<Nil, Nil, Nil>> THEN g[n - 1]
              ELSE MergeObject(g[n - 1], n, B[n], O[n], T[n])]
  <2> DEFINE h == [n \in 0 .. MaxUuid |-> IF n = 0 THEN c
                      ELSE IF <<B[n], O[n], T[n]>> = <<Nil, Nil, Nil>> THEN g[n - 1]
                      ELSE MergeObject(g[n - 1], n, B[n], O[n], T[n])]
  <2>1. \A n \in 0 .. MaxUuid : g[n] = h[n]
    <3> TAKE n \in 0 .. MaxUuid
    <3>1. CASE n = 0
      BY <3>1, <1>5 DEF IsRecursive
    <3>2. CASE n # 0
      <4>1. n \in 1 .. MaxUuid /\ n - 1 \in 0 .. MaxUuid
        BY <3>2, <1>1
      <4>1a. g[n - 1] \in Acc
        <5> HIDE DEF c, D
        <5> QED
          BY <4>1, <1>5
      <4>2. g[n] = D[<<g[n - 1], n>>]
        <5> HIDE DEF c, D
        <5> QED
          BY <3>2, <1>5 DEF IsRecursive
      <4>3. g[n] = MergeLoopStep(g[n - 1], n, B, O, T)
        BY <4>1, <4>1a, <4>2, <1>4
      <4> QED
        BY <3>2, <4>3 DEF MergeLoopStep
    <3> QED
      BY <3>1, <3>2
  <2>2. g = [n \in 0 .. MaxUuid |-> g[n]]
    BY <1>5
  <2> QED
    BY <2>1, <2>2
<1> DEFINE loop == CHOOSE loop : loop =
                [n \in 0 .. MaxUuid |->
                    IF n = 0 THEN [objects |-> O, next |-> NextUuid(O), conflicts |-> 0]
                    ELSE IF <<B[n], O[n], T[n]>> = <<Nil, Nil, Nil>> THEN loop[n - 1]
                    ELSE MergeObject(loop[n - 1], n, B[n], O[n], T[n])]
<1>7. loop = [n \in 0 .. MaxUuid |-> IF n = 0 THEN c
                ELSE IF <<B[n], O[n], T[n]>> = <<Nil, Nil, Nil>> THEN loop[n - 1]
                ELSE MergeObject(loop[n - 1], n, B[n], O[n], T[n])]
  BY <1>6
<1>8. MergeObjects(B, O, T) = loop[MaxUuid]
  BY DEF MergeObjects
<1>9. PICK f : f = loop
  OBVIOUS
<1>10. /\ f[0] = c
       /\ \A n \in 1 .. MaxUuid : f[n] = MergeLoopStep(f[n - 1], n, B, O, T)
       /\ f = [n \in 0 .. MaxUuid |-> f[n]]
  <2> HIDE DEF loop, c
  <2>1. f = [n \in 0 .. MaxUuid |-> IF n = 0 THEN c
                ELSE IF <<B[n], O[n], T[n]>> = <<Nil, Nil, Nil>> THEN f[n - 1]
                ELSE MergeObject(f[n - 1], n, B[n], O[n], T[n])]
    BY <1>7, <1>9
  <2>2. 0 \in 0 .. MaxUuid /\ \A n \in 1 .. MaxUuid : n \in 0 .. MaxUuid /\ n # 0
    BY <1>1
  <2>3. \A n \in 0 .. MaxUuid : f[n] = IF n = 0 THEN c
                ELSE IF <<B[n], O[n], T[n]>> = <<Nil, Nil, Nil>> THEN f[n - 1]
                ELSE MergeObject(f[n - 1], n, B[n], O[n], T[n])
    BY <2>1
  <2>4. f = [n \in 0 .. MaxUuid |-> f[n]]
    BY <2>1
  <2> QED
    BY <2>2, <2>3, <2>4 DEF MergeLoopStep
<1> HIDE DEF loop, c, D
<1>11. \A n \in 0 .. MaxUuid : f[n] \in Acc
  <2> DEFINE S == {n \in 0 .. MaxUuid : f[n] \in Acc}
  <2>1. 0 \in S
    BY <1>1, <1>2, <1>10
  <2>2. \A n \in 1 .. MaxUuid : n - 1 \in S => n \in S
    <3> TAKE n \in 1 .. MaxUuid
    <3> HAVE n - 1 \in S
    <3>1. n \in 0 .. MaxUuid /\ f[n - 1] \in Acc
      BY <1>1
    <3> QED
      BY <3>1, <1>3, <1>10
  <2>3. 0 .. MaxUuid \subseteq S
    <3> HIDE DEF S
    <3> QED
      BY <1>1, <2>1, <2>2, UpTo
  <2> QED
    BY <2>3
<1>12. f \in [0 .. MaxUuid -> Acc]
  BY <1>10, <1>11
<1>13. \A n \in 1 .. MaxUuid : IterationEffect(f[n - 1], f[n], n, B[n], O[n], T[n])
  <2> TAKE n \in 1 .. MaxUuid
  <2>1. f[n - 1] \in Acc
    BY <1>1, <1>11
  <2> QED
    BY <2>1, <1>3, <1>10
<1>14. \A n \in 1 .. MaxUuid : B[n] = Nil /\ O[n] = Nil /\ T[n] = Nil => f[n] = f[n - 1]
  BY <1>10 DEF MergeLoopStep
<1> QED
  BY <1>8, <1>9, <1>10, <1>12, <1>13, <1>14 DEF MergeLoop, c

\* The objects added twice at the uuids up to n, and the uuid that theirs version at u gets.
TwiceUpTo(base, ours, theirs, n) == {u \in AddedTwice(base, ours, theirs) : u <= n}
Place(base, ours, theirs, u) ==
    NextUuid(ours.objects) + Cardinality(TwiceUpTo(base, ours, theirs, u - 1))

LEMMA TwiceCount ==
    ASSUME NEW base, NEW ours, NEW theirs
    PROVE  /\ AddedTwice(base, ours, theirs) \subseteq Uuid
           /\ IsFiniteSet(AddedTwice(base, ours, theirs))
           /\ Cardinality(AddedTwice(base, ours, theirs)) \in Nat
           /\ Cardinality(TwiceUpTo(base, ours, theirs, 0)) = 0
           /\ \A n \in Int :
                /\ Cardinality(TwiceUpTo(base, ours, theirs, n)) \in Nat
                /\ Cardinality(TwiceUpTo(base, ours, theirs, n)) <= Cardinality(AddedTwice(base, ours, theirs))
                /\ Cardinality(TwiceUpTo(base, ours, theirs, n)) =
                     IF n \in AddedTwice(base, ours, theirs)
                     THEN Cardinality(TwiceUpTo(base, ours, theirs, n - 1)) + 1
                     ELSE Cardinality(TwiceUpTo(base, ours, theirs, n - 1))
           /\ \A m, n \in Int : m <= n =>
                Cardinality(TwiceUpTo(base, ours, theirs, m)) <= Cardinality(TwiceUpTo(base, ours, theirs, n))
<1> DEFINE A == AddedTwice(base, ours, theirs)
           U(n) == TwiceUpTo(base, ours, theirs, n)
<1>1. MaxUuid \in Nat /\ Uuid = 1 .. MaxUuid /\ IsFiniteSet(Uuid)
  BY MergeAssumption, FS_Interval
<1>2. A \subseteq Uuid /\ IsFiniteSet(A) /\ Cardinality(A) \in Nat
  <2>1. A \in SUBSET Uuid
    BY DEF AddedTwice
  <2> HIDE DEF A
  <2>2. IsFiniteSet(A)
    BY <1>1, <2>1, FS_Subset
  <2> QED
    BY <2>1, <2>2, FS_CardinalityType
<1>3. \A n \in Int : U(n) = {u \in A : u <= n}
  BY DEF TwiceUpTo
<1> HIDE DEF A, U
<1>4. ASSUME NEW n \in Int
      PROVE  U(n) \in SUBSET A /\ IsFiniteSet(U(n)) /\ Cardinality(U(n)) \in Nat
             /\ Cardinality(U(n)) <= Cardinality(A)
  <2>1. U(n) \in SUBSET A
    BY <1>3
  <2>2. IsFiniteSet(U(n)) /\ Cardinality(U(n)) <= Cardinality(A)
    BY <2>1, <1>2, FS_Subset
  <2> QED
    BY <2>1, <2>2, FS_CardinalityType
<1>5. ASSUME NEW n \in Int
      PROVE  Cardinality(U(n)) = IF n \in A THEN Cardinality(U(n - 1)) + 1 ELSE Cardinality(U(n - 1))
  <2>1. IsFiniteSet(U(n - 1)) /\ n - 1 \in Int
    BY <1>4
  <2>2. CASE n \in A
    <3>1. n \notin U(n - 1)
      BY <1>3, <2>1
    <3>2. U(n) = U(n - 1) \cup {n}
      <4>1. \A u \in A : u <= n <=> u <= n - 1 \/ u = n
        BY <1>1, <1>2
      <4> QED
        BY <4>1, <1>3, <2>1, <2>2
    <3> QED
      BY <3>1, <3>2, <2>1, <2>2, FS_AddElement
  <2>3. CASE n \notin A
    <3>1. \A u \in A : u <= n <=> u <= n - 1
      BY <1>1, <1>2, <2>3
    <3>2. U(n) = U(n - 1)
      BY <3>1, <1>3, <2>1
    <3> QED
      BY <3>2, <2>3
  <2> QED
    BY <2>2, <2>3
<1>6. ASSUME NEW m \in Int, NEW n \in Int, m <= n
      PROVE  Cardinality(U(m)) <= Cardinality(U(n))
  <2>1. \A u \in A : u <= m => u <= n
    BY <1>1, <1>2, <1>6
  <2>2. U(m) \in SUBSET U(n)
    BY <2>1, <1>3
  <2> QED
    BY <2>2, <1>4, FS_Subset
<1>7. U(0) = {}
  <2>1. \A u \in A : ~(u <= 0)
    BY <1>1, <1>2
  <2>2. U(0) = {u \in A : u <= 0}
    BY <1>3
  <2> QED
    BY <2>1, <2>2
<1>8. Cardinality(U(0)) = 0
  BY <1>7, FS_EmptySet
<1> QED
  BY <1>2, <1>4, <1>5, <1>6, <1>8 DEF A, U

\* Theirs versions go to the new uuids, one each.
LEMMA PlaceIsNew ==
    ASSUME NEW base, NEW ours, NEW theirs, ours.objects \in ObjectMap
    PROVE  /\ \A u \in AddedTwice(base, ours, theirs) :
                /\ Place(base, ours, theirs, u) \in NewUuids(base, ours, theirs)
                /\ ours.objects[u] # Nil /\ u < NextUuid(ours.objects)
           /\ \A u, v \in AddedTwice(base, ours, theirs) :
                u < v => Place(base, ours, theirs, u) < Place(base, ours, theirs, v)
           /\ NewUuids(base, ours, theirs) \cap AddedTwice(base, ours, theirs) = {}
<1> DEFINE A == AddedTwice(base, ours, theirs)
           C(n) == Cardinality(TwiceUpTo(base, ours, theirs, n))
           P(u) == Place(base, ours, theirs, u)
           next == NextUuid(ours.objects)
<1>1. A \subseteq Int /\ A \subseteq Uuid /\ Cardinality(A) \in Nat
  BY TwiceCount, MergeAssumption
<1>2. \A n \in Int : C(n) \in Nat /\ C(n) <= Cardinality(A)
                     /\ (n \in A => C(n) = C(n - 1) + 1)
  BY TwiceCount
<1>3. \A m, n \in Int : m <= n => C(m) <= C(n)
  BY TwiceCount
<1>4. next \in Nat /\ \A u \in Uuid : ours.objects[u] # Nil => u < next
  BY NextUuidIs, MergeAssumption
<1>5. \A u \in A : ours.objects[u] # Nil
  BY DEF AddedTwice
<1>6. NewUuids(base, ours, theirs) = next .. next + Cardinality(A) - 1
  BY DEF NewUuids
<1>7. \A u \in A : P(u) = next + C(u - 1)
  BY DEF Place
<1> HIDE DEF A, C, P, next
<1>8. \A u \in A : P(u) \in next .. next + Cardinality(A) - 1
  <2> TAKE u \in A
  <2>1. u \in Int /\ u - 1 \in Int
    BY <1>1
  <2>2. C(u) \in Nat /\ C(u - 1) \in Nat /\ C(u) <= Cardinality(A) /\ C(u) = C(u - 1) + 1
    BY <2>1, <1>2
  <2> QED
    BY <2>2, <1>1, <1>4, <1>7
<1>9. \A u, v \in A : u < v => P(u) < P(v)
  <2> TAKE u, v \in A
  <2> HAVE u < v
  <2>1. u \in Int /\ v \in Int /\ u - 1 \in Int /\ v - 1 \in Int /\ u <= v - 1
    BY <1>1
  <2>2. C(u) <= C(v - 1) /\ C(u) = C(u - 1) + 1
    BY <2>1, <1>2, <1>3
  <2>3. C(u) \in Nat /\ C(u - 1) \in Nat /\ C(v - 1) \in Nat
    BY <2>1, <1>2
  <2> QED
    BY <2>2, <2>3, <1>4, <1>7
<1>10. \A u \in A : u < next
  BY <1>1, <1>4, <1>5
<1>11. (next .. next + Cardinality(A) - 1) \cap A = {}
  BY <1>1, <1>4, <1>10
<1> QED
  BY <1>5, <1>6, <1>8, <1>9, <1>10, <1>11 DEF A, P, next

\* What the loop leaves: m is the accumulator at its end.
MergeOutcome(m, base, ours, theirs) ==
    /\ m \in Acc
    /\ m.conflicts = 0
        <=> \A u \in Uuid : ~ObjectClash(base.objects[u], ours.objects[u], theirs.objects[u])
    /\ \A u \in Uuid \ NewUuids(base, ours, theirs) :
        m.objects[u] = MergedObject(base.objects[u], ours.objects[u], theirs.objects[u])
    /\ Fits(base, ours, theirs) /\ NewUuidsFree(base, ours, theirs) =>
        \A u \in AddedTwice(base, ours, theirs) :
            m.objects[Place(base, ours, theirs, u)] = theirs.objects[u]

\* Whatever the order in which objects get new uuids, every id is merged from the three states alone.
LEMMA MergedObjects ==
    ASSUME NEW base, NEW ours, NEW theirs,
           base.objects \in ObjectMap, ours.objects \in ObjectMap, theirs.objects \in ObjectMap
    PROVE  MergeOutcome(MergeObjects(base.objects, ours.objects, theirs.objects), base, ours, theirs)
<1> DEFINE B == base.objects  O == ours.objects  T == theirs.objects
           A == AddedTwice(base, ours, theirs)
           W == NewUuids(base, ours, theirs)
           C(n) == Cardinality(TwiceUpTo(base, ours, theirs, n))
           P(u) == Place(base, ours, theirs, u)
           next == NextUuid(O)
<1>1. PICK f : MergeLoop(f, B, O, T)
  BY MergeLoopExists
<1>2. MaxUuid \in Nat /\ Uuid = 1 .. MaxUuid
  BY MergeAssumption
<1>3. A \subseteq Uuid /\ Cardinality(A) \in Nat /\ C(0) = 0
  BY TwiceCount
<1>4. \A n \in Int : C(n) \in Nat /\ C(n) <= Cardinality(A)
                     /\ C(n) = IF n \in A THEN C(n - 1) + 1 ELSE C(n - 1)
  BY TwiceCount
<1>5. /\ \A u \in A : P(u) \in W /\ P(u) = next + C(u - 1)
      /\ \A u, v \in A : u < v => P(u) < P(v)
      /\ W \cap A = {}
  BY PlaceIsNew DEF Place
<1>6. next \in Nat /\ \A u \in Uuid : O[u] # Nil => u < next
  BY NextUuidIs, <1>2
<1>7. W \subseteq Nat /\ \A w \in W : next <= w
  BY <1>3, <1>6 DEF NewUuids
<1>8. \A u \in Uuid : u \in A <=> TwoVersions(B[u], O[u], T[u])
  BY DEF AddedTwice, TwoVersions
<1>9. \A n \in 1 .. MaxUuid : IterationEffect(f[n - 1], f[n], n, B[n], O[n], T[n])
  BY <1>1 DEF MergeLoop
<1>10. f[0] = [objects |-> O, next |-> next, conflicts |-> 0]
  BY <1>1 DEF MergeLoop
<1>11. MergeObjects(base.objects, ours.objects, theirs.objects) = f[MaxUuid] /\ f[MaxUuid] \in Acc
  BY <1>1, <1>2 DEF MergeLoop
<1>12. \A n \in 1 .. MaxUuid : B[n] = Nil /\ O[n] = Nil /\ T[n] = Nil => f[n] = f[n - 1]
  BY <1>1 DEF MergeLoop
<1>13. \A u \in A : MergedObject(B[u], O[u], T[u]) = O[u]
  BY DEF AddedTwice, MergedObject
<1>14. (Fits(base, ours, theirs) => W \subseteq Uuid)
       /\ (NewUuidsFree(base, ours, theirs) => \A w \in W : B[w] = Nil /\ T[w] = Nil)
  BY DEF Fits, NewUuidsFree
<1> HIDE DEF B, O, T, A, W, C, P, next
<1>15. \A n \in 0 .. MaxUuid : f[n].next = next + C(n)
  <2> DEFINE S == {n \in 0 .. MaxUuid : f[n].next = next + C(n)}
  <2>1. 0 \in S
    BY <1>2, <1>3, <1>6, <1>10
  <2>2. \A n \in 1 .. MaxUuid : n - 1 \in S => n \in S
    <3> TAKE n \in 1 .. MaxUuid
    <3> HAVE n - 1 \in S
    <3>1. n \in Uuid /\ n \in Int /\ n - 1 \in Int /\ n \in 0 .. MaxUuid
      BY <1>2
    <3>2. f[n - 1].next = next + C(n - 1) /\ C(n - 1) \in Nat
      BY <3>1, <1>4
    <3>3. f[n].next = IF n \in A THEN f[n - 1].next + 1 ELSE f[n - 1].next
      BY <1>8, <1>9, <3>1 DEF IterationEffect
    <3>4. C(n) = IF n \in A THEN C(n - 1) + 1 ELSE C(n - 1)
      BY <1>4, <3>1
    <3>5. f[n].next = next + C(n)
      BY <3>2, <3>3, <3>4, <1>6
    <3> QED
      BY <3>1, <3>5
  <2>3. 0 .. MaxUuid \subseteq S
    <3> HIDE DEF S
    <3> QED
      BY <1>2, <2>1, <2>2, UpTo
  <2> QED
    BY <2>3
<1>16. \A n \in A : f[n - 1].next = P(n) /\ P(n) \in W
  <2> TAKE n \in A
  <2>1. n - 1 \in 0 .. MaxUuid
    BY <1>2, <1>3
  <2> QED
    BY <2>1, <1>5, <1>15
<1>17. f[MaxUuid].conflicts = 0 <=> \A u \in Uuid : ~ObjectClash(B[u], O[u], T[u])
  <2> DEFINE S == {n \in 0 .. MaxUuid :
                     f[n].conflicts = 0 <=> \A u \in 1 .. n : ~ObjectClash(B[u], O[u], T[u])}
  <2>1. 0 \in S
    BY <1>2, <1>10
  <2>2. \A n \in 1 .. MaxUuid : n - 1 \in S => n \in S
    <3> TAKE n \in 1 .. MaxUuid
    <3> HAVE n - 1 \in S
    <3>1. n \in 0 .. MaxUuid /\ 1 .. n = (1 .. n - 1) \cup {n}
      BY <1>2
    <3>2. f[n - 1].conflicts = 0 <=> \A u \in 1 .. n - 1 : ~ObjectClash(B[u], O[u], T[u])
      OBVIOUS
    <3>3. f[n].conflicts = 0 <=> f[n - 1].conflicts = 0 /\ ~ObjectClash(B[n], O[n], T[n])
      BY <1>9 DEF IterationEffect
    <3> QED
      BY <3>1, <3>2, <3>3
  <2>3. 0 .. MaxUuid \subseteq S
    <3> HIDE DEF S
    <3> QED
      BY <1>2, <2>1, <2>2, UpTo
  <2>4. MaxUuid \in S
    BY <1>2, <2>3
  <2> QED
    BY <1>2, <2>4
<1>18. \A u \in Uuid \ W : f[MaxUuid].objects[u] = MergedObject(B[u], O[u], T[u])
  <2> TAKE u \in Uuid \ W
  <2> DEFINE S == {n \in 0 .. MaxUuid :
                     f[n].objects[u] = IF u <= n THEN MergedObject(B[u], O[u], T[u]) ELSE O[u]}
  <2>0. u \in 1 .. MaxUuid /\ u \in Int
    BY <1>2
  <2>1. 0 \in S
    BY <1>2, <1>10, <2>0
  <2>2. \A n \in 1 .. MaxUuid : n - 1 \in S => n \in S
    <3> TAKE n \in 1 .. MaxUuid
    <3> HAVE n - 1 \in S
    <3>1. n \in 0 .. MaxUuid /\ n \in Uuid
      BY <1>2
    <3>2. f[n - 1].objects[u] = IF u <= n - 1 THEN MergedObject(B[u], O[u], T[u]) ELSE O[u]
      OBVIOUS
    <3>3. CASE n \in A
      <4>1. f[n].objects[u] = f[n - 1].objects[u]
        BY <3>1, <3>3, <1>8, <1>9, <1>16 DEF IterationEffect
      <4>2. u = n => MergedObject(B[u], O[u], T[u]) = O[u]
        BY <3>3, <1>13
      <4>3. u <= n <=> u <= n - 1 \/ u = n
        BY <2>0, <1>2
      <4>4. f[n].objects[u] = IF u <= n THEN MergedObject(B[u], O[u], T[u]) ELSE O[u]
        BY <4>1, <4>2, <4>3, <3>2
      <4> QED
        BY <4>4, <3>1
    <3>4. CASE n \notin A /\ u # n
      <4>1. f[n].objects[u] = f[n - 1].objects[u]
        BY <3>1, <3>4, <1>8, <1>9 DEF IterationEffect
      <4>3. u <= n <=> u <= n - 1
        BY <2>0, <1>2, <3>4
      <4>4. f[n].objects[u] = IF u <= n THEN MergedObject(B[u], O[u], T[u]) ELSE O[u]
        BY <4>1, <4>3, <3>2
      <4> QED
        BY <4>4, <3>1
    <3>5. CASE n \notin A /\ u = n
      <4>1. ~(u <= n - 1) /\ u <= n
        BY <3>5, <2>0
      <4>2. f[n - 1].objects[n] = O[n]
        BY <4>1, <3>2, <3>5
      <4>3. f[n].objects[n] = MergedObject(B[n], O[n], T[n])
        BY <4>2, <3>1, <3>5, <1>8, <1>9 DEF IterationEffect
      <4> QED
        BY <4>1, <4>3, <3>1, <3>5
    <3> QED
      BY <3>3, <3>4, <3>5
  <2>3. 0 .. MaxUuid \subseteq S
    <3> HIDE DEF S
    <3> QED
      BY <1>2, <2>1, <2>2, UpTo
  <2>4. MaxUuid \in S /\ u <= MaxUuid
    BY <1>2, <2>0, <2>3
  <2> QED
    BY <2>4
<1>19. ASSUME Fits(base, ours, theirs), NewUuidsFree(base, ours, theirs), NEW u \in A
       PROVE  f[MaxUuid].objects[P(u)] = T[u]
  <2> DEFINE S == {n \in 0 .. MaxUuid : u <= n => f[n].objects[P(u)] = T[u]}
  <2>0. u \in 1 .. MaxUuid /\ u \in Int /\ P(u) \in W /\ P(u) \in Uuid
    BY <1>2, <1>3, <1>5, <1>14, <1>19
  <2>1. 0 \in S
    BY <1>2, <2>0
  <2>2. \A n \in 1 .. MaxUuid : n - 1 \in S => n \in S
    <3> TAKE n \in 1 .. MaxUuid
    <3> HAVE n - 1 \in S
    <3> SUFFICES ASSUME u <= n PROVE f[n].objects[P(u)] = T[u]
      BY <1>2
    <3>1. n \in 0 .. MaxUuid /\ n \in Uuid
      BY <1>2
    <3>2. CASE n = u
      BY <3>1, <3>2, <2>0, <1>8, <1>9, <1>16 DEF IterationEffect
    <3>3. CASE n # u /\ n \in A
      <4>1. u <= n - 1 /\ u < n
        BY <3>3, <2>0
      <4>2. P(u) < P(n) /\ P(u) \in Nat /\ P(n) \in Nat
        BY <4>1, <3>3, <1>5, <1>7
      <4>3. P(u) # f[n - 1].next
        BY <4>2, <3>3, <1>16
      <4>4. f[n].objects[P(u)] = f[n - 1].objects[P(u)]
        BY <4>3, <3>1, <3>3, <2>0, <1>8, <1>9 DEF IterationEffect
      <4> QED
        BY <4>1, <4>4
    <3>4. CASE n \notin A
      <4>1. u <= n - 1
        BY <3>4, <2>0
      <4>2. CASE n = P(u)
        <5>1. B[n] = Nil /\ T[n] = Nil
          BY <4>2, <2>0, <1>14, <1>19
        <5>2. O[n] = Nil
          BY <4>2, <2>0, <3>1, <1>6, <1>7
        <5>3. f[n] = f[n - 1]
          BY <5>1, <5>2, <1>12
        <5> QED
          BY <4>1, <5>3
      <4>3. CASE n # P(u)
        <5>1. f[n].objects[P(u)] = f[n - 1].objects[P(u)]
          BY <4>3, <3>1, <3>4, <2>0, <1>8, <1>9, ZenonT(30) DEF IterationEffect
        <5> QED
          BY <4>1, <5>1
      <4> QED
        BY <4>2, <4>3
    <3> QED
      BY <3>2, <3>3, <3>4
  <2>3. 0 .. MaxUuid \subseteq S
    <3> HIDE DEF S
    <3> QED
      BY <1>2, <2>1, <2>2, UpTo
  <2>4. MaxUuid \in S /\ u <= MaxUuid
    BY <1>2, <2>0, <2>3
  <2> QED
    BY <2>4
<1> QED
  BY <1>11, <1>17, <1>18, <1>19 DEF MergeOutcome, B, O, T, A, W, P

-------------------------------------------------------------------------------
(***************************************************************************)
(* Conflicts                                                               *)
(***************************************************************************)

\* The colours can be read on all sides, and no channel was changed in two ways.
ColorsAgree(b, o, t) ==
    /\ Colors(b) # Malformed /\ Colors(o) # Malformed /\ Colors(t) # Malformed
    /\ \A c \in Channel : ~Clash(RecordAt(Colors(b), c), RecordAt(Colors(o), c), RecordAt(Colors(t), c))

LEMMA ColorClashes ==
    ASSUME NEW b, NEW o, NEW t
    PROVE  /\ MergeColors(b, o, t).conflicts \in Nat
           /\ MergeColors(b, o, t).conflicts = 0 <=> ColorsAgree(b, o, t)
<1> DEFINE B == Colors(b)  O == Colors(o)  T == Colors(t)
           S == {c \in Channel : Clash(RecordAt(B, c), RecordAt(O, c), RecordAt(T, c))}
<1>1. CASE B = Malformed \/ O = Malformed \/ T = Malformed
  <2>1. MergeColors(b, o, t).conflicts = 1
    BY <1>1 DEF MergeColors
  <2> QED
    BY <1>1, <2>1 DEF ColorsAgree
<1>2. CASE ~(B = Malformed \/ O = Malformed \/ T = Malformed)
  <2>1. MergeColors(b, o, t).conflicts = IF Clash(B, O, T) THEN Cardinality(S) ELSE 0
    BY <1>2 DEF MergeColors
  <2>2. ~Clash(B, O, T) => S = {}
    BY DEF Clash
  <2>3. IsFiniteSet(S)
    BY GdHeaderAssumption, FS_Subset
  <2>4. ColorsAgree(b, o, t) <=> S = {}
    BY <1>2 DEF ColorsAgree
  <2> HIDE DEF B, O, T, S
  <2>5. Cardinality(S) \in Nat /\ (Cardinality(S) = 0 <=> S = {})
    BY <2>3, FS_CardinalityType, FS_EmptySet
  <2> QED
    BY <2>1, <2>2, <2>4, <2>5
<1> QED
  BY <1>1, <1>2

\* No setting was changed in two ways.
HeadersAgree(base, ours, theirs) ==
    /\ \A k \in Key \ {ColorKey} : ~Clash(ValueIn(base, k), ValueIn(ours, k), ValueIn(theirs, k))
    /\ ColorsAgree(ValueIn(base, ColorKey), ValueIn(ours, ColorKey), ValueIn(theirs, ColorKey))

RawHeadersAgree(b, o, t) ==
    IF Parses(b) /\ Parses(o) /\ Parses(t) THEN HeadersAgree(b, o, t) ELSE ~Clash(b, o, t)

LEMMA RawHeaderClashes ==
    ASSUME NEW b, NEW o, NEW t
    PROVE  /\ MergedRawHeader(b, o, t).conflicts \in Nat
           /\ MergedRawHeader(b, o, t).conflicts = 0 <=> RawHeadersAgree(b, o, t)
<1>1. CASE Parses(b) /\ Parses(o) /\ Parses(t)
  <2> DEFINE S == {k \in Key \ {ColorKey} : Clash(ValueIn(b, k), ValueIn(o, k), ValueIn(t, k))}
             m == MergeColors(ValueIn(b, ColorKey), ValueIn(o, ColorKey), ValueIn(t, ColorKey)).conflicts
  <2>1. MergedRawHeader(b, o, t).conflicts = Cardinality(S) + m
    BY <1>1 DEF MergedRawHeader, MergeHeaders3Way, HeaderClashes
  <2>2. S \in SUBSET Key
    OBVIOUS
  <2>3. m \in Nat
        /\ (m = 0 <=> ColorsAgree(ValueIn(b, ColorKey), ValueIn(o, ColorKey), ValueIn(t, ColorKey)))
    BY ColorClashes
  <2>4. RawHeadersAgree(b, o, t) <=> S = {} /\ m = 0
    BY <1>1, <2>3 DEF RawHeadersAgree, HeadersAgree
  <2> HIDE DEF S, m
  <2>5. Cardinality(S) \in Nat /\ (Cardinality(S) = 0 <=> S = {})
    BY <2>2, KeyFinite, FS_CardinalityType, FS_EmptySet
  <2> QED
    BY <2>1, <2>3, <2>4, <2>5
<1>2. CASE ~(Parses(b) /\ Parses(o) /\ Parses(t))
  <2>1. MergedRawHeader(b, o, t).conflicts = IF Clash(b, o, t) THEN 1 ELSE 0
    BY <1>2 DEF MergedRawHeader
  <2> QED
    BY <1>2, <2>1 DEF RawHeadersAgree
<1> QED
  BY <1>1, <1>2

\* The three states merge without conflicts.
StatesAgree(base, ours, theirs) ==
    /\ \A k \in Key : ~Clash(ValueOf(base.header[k]), ValueOf(ours.header[k]), ValueOf(theirs.header[k]))
    /\ RawHeadersAgree(base.rawHeader, ours.rawHeader, theirs.rawHeader)
    /\ \A u \in Uuid : ~ObjectClash(base.objects[u], ours.objects[u], theirs.objects[u])

\* The conflict count of mergeStates3Way is zero just when nothing was changed in two ways.
LEMMA MergeClashes ==
    ASSUME NEW base, NEW ours, NEW theirs,
           base.objects \in ObjectMap, ours.objects \in ObjectMap, theirs.objects \in ObjectMap
    PROVE  /\ MergeStates3Way(base, ours, theirs).conflicts \in Nat
           /\ MergeStates3Way(base, ours, theirs).conflicts = 0 <=> StatesAgree(base, ours, theirs)
<1> DEFINE f == FieldClashes(base.header, ours.header, theirs.header)
           r == MergedRawHeader(base.rawHeader, ours.rawHeader, theirs.rawHeader).conflicts
           m == MergeObjects(base.objects, ours.objects, theirs.objects).conflicts
<1>1. MergeStates3Way(base, ours, theirs).conflicts = f + r + m
  BY DEF MergeStates3Way
<1>2. f \in Nat /\ (f = 0 <=> \A k \in Key :
            ~Clash(ValueOf(base.header[k]), ValueOf(ours.header[k]), ValueOf(theirs.header[k])))
  BY FieldClashesCount
<1>3. r \in Nat /\ (r = 0 <=> RawHeadersAgree(base.rawHeader, ours.rawHeader, theirs.rawHeader))
  BY RawHeaderClashes
<1>4. m \in Nat /\ (m = 0 <=> \A u \in Uuid :
            ~ObjectClash(base.objects[u], ours.objects[u], theirs.objects[u]))
  BY MergedObjects DEF MergeOutcome, Acc
<1> HIDE DEF f, r, m
<1>5. f + r + m \in Nat /\ (f + r + m = 0 <=> f = 0 /\ r = 0 /\ m = 0)
  BY <1>2, <1>3, <1>4
<1> QED
  BY <1>1, <1>2, <1>3, <1>4, <1>5 DEF StatesAgree

-------------------------------------------------------------------------------
(***************************************************************************)
(* Texts of headers                                                        *)
(***************************************************************************)

LEMMA AppendRange ==
    ASSUME NEW T, NEW q \in Seq(T), NEW e \in T
    PROVE  /\ Append(q, e) \in Seq(T)
           /\ RangeOf(Append(q, e)) = RangeOf(q) \cup {e}
           /\ Distinct(q) /\ e \notin RangeOf(q) => Distinct(Append(q, e))
<1> DEFINE a == Append(q, e)
<1>1. /\ a \in Seq(T) /\ Len(q) \in Nat /\ DOMAIN q = 1 .. Len(q) /\ DOMAIN a = 1 .. Len(q) + 1
      /\ a[Len(q) + 1] = e /\ \A n \in 1 .. Len(q) : a[n] = q[n]
  OBVIOUS
<1> HIDE DEF a
<1>2. \A n \in 1 .. Len(q) + 1 : n \in 1 .. Len(q) \/ n = Len(q) + 1
  BY <1>1
<1>3. 1 .. Len(q) \subseteq 1 .. Len(q) + 1 /\ Len(q) + 1 \in 1 .. Len(q) + 1
      /\ Len(q) + 1 \notin 1 .. Len(q)
  BY <1>1
<1>4. RangeOf(a) = RangeOf(q) \cup {e}
  BY <1>1, <1>2, <1>3 DEF RangeOf
<1>5. ASSUME Distinct(q), e \notin RangeOf(q), NEW m \in DOMAIN a, NEW n \in DOMAIN a, a[m] = a[n]
      PROVE  m = n
  <2>1. \A i \in 1 .. Len(q) : a[i] # e
    BY <1>1, <1>5 DEF RangeOf
  <2> QED
    BY <2>1, <1>1, <1>2, <1>5 DEF Distinct
<1> QED
  BY <1>1, <1>4, <1>5 DEF a, Distinct

LEMMA ConcatRange ==
    ASSUME NEW T, NEW p \in Seq(T), NEW q \in Seq(T)
    PROVE  /\ p \o q \in Seq(T)
           /\ RangeOf(p \o q) = RangeOf(p) \cup RangeOf(q)
           /\ Distinct(p) /\ Distinct(q) /\ RangeOf(p) \cap RangeOf(q) = {} => Distinct(p \o q)
<1> DEFINE a == p \o q
           l == Len(p)
<1>1. /\ a \in Seq(T) /\ l \in Nat /\ Len(q) \in Nat /\ DOMAIN p = 1 .. l /\ DOMAIN q = 1 .. Len(q)
      /\ DOMAIN a = 1 .. l + Len(q)
      /\ \A n \in 1 .. l : a[n] = p[n]
      /\ \A n \in 1 .. l + Len(q) : n > l => a[n] = q[n - l]
  OBVIOUS
<1>2. \A n \in 1 .. Len(q) : n + l \in 1 .. l + Len(q) /\ n + l > l /\ n + l - l = n
  BY <1>1
<1>3. \A n \in 1 .. l + Len(q) : n \in 1 .. l \/ (n > l /\ n - l \in 1 .. Len(q))
  BY <1>1
<1>4. 1 .. l \subseteq 1 .. l + Len(q)
  BY <1>1
<1> HIDE DEF a, l
<1>5. RangeOf(a) = RangeOf(p) \cup RangeOf(q)
  <2>1. ASSUME NEW x \in RangeOf(a) PROVE x \in RangeOf(p) \cup RangeOf(q)
    <3>1. PICK n \in 1 .. l + Len(q) : x = a[n]
      BY <1>1, <2>1 DEF RangeOf
    <3> QED
      BY <3>1, <1>1, <1>3 DEF RangeOf
  <2>2. ASSUME NEW x \in RangeOf(p) PROVE x \in RangeOf(a)
    BY <2>2, <1>1, <1>4 DEF RangeOf
  <2>3. ASSUME NEW x \in RangeOf(q) PROVE x \in RangeOf(a)
    <3>1. PICK n \in 1 .. Len(q) : x = q[n]
      BY <1>1, <2>3 DEF RangeOf
    <3>2. x = a[n + l] /\ n + l \in DOMAIN a
      BY <3>1, <1>1, <1>2
    <3> QED
      BY <3>2 DEF RangeOf
  <2> QED
    BY <2>1, <2>2, <2>3
<1>6. ASSUME Distinct(p), Distinct(q), RangeOf(p) \cap RangeOf(q) = {},
             NEW m \in DOMAIN a, NEW n \in DOMAIN a, a[m] = a[n]
      PROVE  m = n
  <2>1. \A i \in 1 .. l : a[i] \in RangeOf(p)
    BY <1>1 DEF RangeOf
  <2>2. \A i \in 1 .. l + Len(q) : i > l => a[i] \in RangeOf(q)
    BY <1>1, <1>3 DEF RangeOf
  <2>3. CASE m \in 1 .. l /\ n \in 1 .. l
    BY <2>3, <1>1, <1>6 DEF Distinct
  <2>4. CASE m > l /\ n > l
    <3>1. m - l \in DOMAIN q /\ n - l \in DOMAIN q /\ q[m - l] = q[n - l]
      BY <2>4, <1>1, <1>3, <1>6
    <3>2. m - l = n - l
      BY <3>1, <1>6 DEF Distinct
    <3> QED
      BY <3>2, <1>1
  <2> QED
    BY <2>1, <2>2, <2>3, <2>4, <1>1, <1>3, <1>6
<1> QED
  BY <1>1, <1>5, <1>6 DEF a, Distinct

\* Selected keeps the elements of S, and no element twice that was there once.
LEMMA SelectedIs ==
    ASSUME NEW T, NEW s \in Seq(T), NEW S
    PROVE  /\ Selected(s, S) \in Seq(T)
           /\ RangeOf(Selected(s, S)) = RangeOf(s) \cap S
           /\ Distinct(s) => Distinct(Selected(s, S))
<1> DEFINE N == Len(s)
           V == Seq(T)
           Step(q, n) == IF s[n] \in S THEN Append(q, s[n]) ELSE q
           D == [p \in V \X (1 .. N) |-> Step(p[1], p[2])]
<1>1. N \in Nat /\ DOMAIN s = 1 .. N /\ <<>> \in V /\ \A n \in 1 .. N : s[n] \in T
  OBVIOUS
<1>2. \A q \in V, n \in 1 .. N : Step(q, n) \in V
  BY <1>1
<1> HIDE DEF V
<1>3. D \in [V \X (1 .. N) -> V] /\ \A q \in V, n \in 1 .. N : D[<<q, n>>] = Step(q, n)
  <2> HIDE DEF Step
  <2> QED
    BY <1>2
<1>4. PICK g \in [0 .. N -> V] : IsRecursive(g, N, <<>>, D)
  <2>1. D \in [V \X (1 .. N) -> V] /\ N \in Nat /\ <<>> \in V
    BY <1>1, <1>3
  <2> HIDE DEF D, N
  <2> QED
    BY <2>1, RecursionExists
<1>5. g = [n \in 0 .. N |-> IF n = 0 THEN <<>> ELSE IF s[n] \in S THEN Append(g[n - 1], s[n]) ELSE g[n - 1]]
  <2> DEFINE h == [n \in 0 .. N |-> IF n = 0 THEN <<>>
                                    ELSE IF s[n] \in S THEN Append(g[n - 1], s[n]) ELSE g[n - 1]]
  <2>1. \A n \in 0 .. N : g[n] = h[n]
    <3> TAKE n \in 0 .. N
    <3>1. CASE n = 0
      <4> HIDE DEF D
      <4> QED
        BY <3>1, <1>4 DEF IsRecursive
    <3>2. CASE n # 0
      <4>1. n \in 1 .. N /\ n - 1 \in 0 .. N
        BY <3>2, <1>1
      <4>2. g[n - 1] \in V
        BY <4>1, <1>4
      <4>3. g[n] = D[<<g[n - 1], n>>]
        <5> HIDE DEF D
        <5> QED
          BY <3>2, <1>4 DEF IsRecursive
      <4>4. g[n] = Step(g[n - 1], n)
        <5> HIDE DEF D, Step
        <5> QED
          BY <4>1, <4>2, <4>3, <1>3
      <4> QED
        BY <3>2, <4>4
    <3> QED
      BY <3>1, <3>2
  <2>2. g = [n \in 0 .. N |-> g[n]]
    BY <1>4
  <2> QED
    BY <2>1, <2>2
<1> DEFINE loop == CHOOSE loop : loop =
                [n \in 0 .. N |-> IF n = 0 THEN <<>>
                                  ELSE IF s[n] \in S THEN Append(loop[n - 1], s[n]) ELSE loop[n - 1]]
<1>6. loop = [n \in 0 .. N |-> IF n = 0 THEN <<>>
                               ELSE IF s[n] \in S THEN Append(loop[n - 1], s[n]) ELSE loop[n - 1]]
  BY <1>5
<1>7. Selected(s, S) = loop[N]
  BY DEF Selected
<1>8. PICK f : f = loop
  OBVIOUS
<1>9. f[0] = <<>> /\ \A n \in 1 .. N : f[n] = Step(f[n - 1], n)
  <2> HIDE DEF loop
  <2>1. f = [n \in 0 .. N |-> IF n = 0 THEN <<>>
                              ELSE IF s[n] \in S THEN Append(f[n - 1], s[n]) ELSE f[n - 1]]
    BY <1>6, <1>8
  <2>2. 0 \in 0 .. N /\ \A n \in 1 .. N : n \in 0 .. N /\ n # 0
    BY <1>1
  <2>3. \A n \in 0 .. N : f[n] = IF n = 0 THEN <<>>
                                 ELSE IF s[n] \in S THEN Append(f[n - 1], s[n]) ELSE f[n - 1]
    BY <2>1
  <2> QED
    BY <2>2, <2>3
<1> HIDE DEF loop, D
<1> DEFINE upTo(n) == {s[i] : i \in 1 .. n}
           good(n) == /\ f[n] \in V
                      /\ RangeOf(f[n]) = upTo(n) \cap S
                      /\ Distinct(s) => Distinct(f[n])
           G == {n \in 0 .. N : good(n)}
<1>10. 0 \in G
  <2>1. upTo(0) = {} /\ RangeOf(<<>>) = {} /\ Distinct(<<>>)
    BY DEF RangeOf, Distinct
  <2> QED
    BY <2>1, <1>1, <1>9
<1>11. \A n \in 1 .. N : n - 1 \in G => n \in G
  <2> TAKE n \in 1 .. N
  <2> HAVE n - 1 \in G
  <2>1. good(n - 1) /\ n \in 0 .. N
    BY <1>1
  <2>2. upTo(n) = upTo(n - 1) \cup {s[n]}
    <3>1. 1 .. n = (1 .. n - 1) \cup {n}
      BY <1>1
    <3> QED
      BY <3>1
  <2>3. CASE s[n] \notin S
    <3>1. f[n] = f[n - 1]
      BY <2>3, <1>9
    <3>2. upTo(n) \cap S = upTo(n - 1) \cap S
      <4> HIDE DEF upTo
      <4> QED
        BY <2>2, <2>3
    <3> HIDE DEF upTo
    <3> QED
      BY <3>1, <3>2, <2>1
  <2>4. CASE s[n] \in S
    <3>1. f[n] = Append(f[n - 1], s[n])
      BY <2>4, <1>9
    <3>2. f[n - 1] \in V /\ s[n] \in T
      BY <2>1, <1>1
    <3>3. Distinct(s) => s[n] \notin upTo(n - 1)
      <4> SUFFICES ASSUME Distinct(s), NEW i \in 1 .. n - 1, s[i] = s[n] PROVE FALSE
        OBVIOUS
      <4>1. i \in DOMAIN s /\ n \in DOMAIN s /\ i # n
        BY <1>1
      <4> QED
        BY <4>1 DEF Distinct
    <3>4. upTo(n) \cap S = (upTo(n - 1) \cap S) \cup {s[n]}
      <4> HIDE DEF upTo
      <4> QED
        BY <2>2, <2>4
    <3> HIDE DEF upTo
    <3>5. /\ f[n] \in V /\ RangeOf(f[n]) = RangeOf(f[n - 1]) \cup {s[n]}
          /\ Distinct(f[n - 1]) /\ s[n] \notin RangeOf(f[n - 1]) => Distinct(f[n])
      BY <3>1, <3>2, AppendRange DEF V
    <3> QED
      BY <3>3, <3>4, <3>5, <2>1
  <2> QED
    BY <2>3, <2>4
<1>12. good(N)
  <2>1. N \in Nat
    BY <1>1
  <2> HIDE DEF G, N
  <2>2. 0 .. N \subseteq G
    BY <2>1, <1>10, <1>11, UpTo
  <2>3. N \in G
    BY <2>1, <2>2
  <2> QED
    BY <2>3 DEF G
<1>13. upTo(N) = RangeOf(s)
  BY <1>1 DEF RangeOf
<1> QED
  <2> HIDE DEF upTo, N
  <2> QED
    BY <1>7, <1>8, <1>12, <1>13 DEF V

\* A text has the fields it is made of.
LEMMA TextOfIs ==
    ASSUME NEW ks \in Seq(Key), Distinct(ks), NEW v, \A k \in RangeOf(ks) : v[k] \in Str
    PROVE  /\ TextOf(ks, v) \in Text
           /\ Distinct(KeysOf(TextOf(ks, v)))
           /\ \A k \in Key : ValueIn(TextOf(ks, v), k) = IF k \in RangeOf(ks) THEN v[k] ELSE Nil
           /\ TextOf(ks, v) = NoText <=> RangeOf(ks) = {}
<1> DEFINE kv == [n \in DOMAIN ks |-> <<ks[n], v[ks[n]]>>]
<1>1. Len(ks) \in Nat /\ DOMAIN ks = 1 .. Len(ks) /\ \A n \in DOMAIN ks : ks[n] \in Key
  OBVIOUS
<1>2. \A n \in DOMAIN ks : ks[n] \in RangeOf(ks) /\ v[ks[n]] \in Str
  BY DEF RangeOf
<1>3. /\ DOMAIN kv = DOMAIN ks
      /\ \A n \in DOMAIN ks : kv[n] = <<ks[n], v[ks[n]]>> /\ kv[n][1] = ks[n] /\ kv[n][2] = v[ks[n]]
  OBVIOUS
<1>4. kv \in Seq(Key \X Str) /\ Len(kv) = Len(ks)
  BY <1>1, <1>2
<1>5. TextOf(ks, v) = [kv |-> kv, odd |-> FALSE]
  BY DEF TextOf
<1> HIDE DEF kv
<1>6. TextOf(ks, v).kv = kv /\ TextOf(ks, v) \in Text
  BY <1>4, <1>5 DEF Text
<1>7. KeysOf(TextOf(ks, v)) = ks
  <2>1. KeysOf(TextOf(ks, v)) = [n \in DOMAIN ks |-> ks[n]]
    BY <1>3, <1>6 DEF KeysOf
  <2> QED
    BY <2>1, <1>1
<1>8. ASSUME NEW k \in Key
      PROVE  ValueIn(TextOf(ks, v), k) = IF k \in RangeOf(ks) THEN v[k] ELSE Nil
  <2>1. CASE k \in RangeOf(ks)
    <3>1. \E n \in DOMAIN kv : kv[n][1] = k
      BY <2>1, <1>3 DEF RangeOf
    <3>2. ValueIn(TextOf(ks, v), k) = kv[CHOOSE n \in DOMAIN kv : kv[n][1] = k][2]
      BY <3>1, <1>6 DEF ValueIn
    <3>3. PICK n \in DOMAIN kv : n = (CHOOSE m \in DOMAIN kv : kv[m][1] = k) /\ kv[n][1] = k
      BY <3>1
    <3> QED
      BY <2>1, <3>2, <3>3, <1>3
  <2>2. CASE k \notin RangeOf(ks)
    <3>1. ~\E n \in DOMAIN kv : kv[n][1] = k
      BY <2>2, <1>3 DEF RangeOf
    <3> QED
      BY <2>2, <3>1, <1>6 DEF ValueIn
  <2> QED
    BY <2>1, <2>2
<1>9. TextOf(ks, v) = NoText <=> RangeOf(ks) = {}
  <2>1. TextOf(ks, v) = NoText <=> kv = <<>>
    <3>1. kv = <<>> => TextOf(ks, v) = NoText
      BY <1>5 DEF NoText
    <3>2. NoText.kv = <<>>
      BY DEF NoText
    <3>3. TextOf(ks, v) = NoText => kv = <<>>
      BY <3>2, <1>6
    <3> QED
      BY <3>1, <3>3
  <2>2. kv = <<>> <=> Len(ks) = 0
    BY <1>4
  <2>3. Len(ks) = 0 <=> RangeOf(ks) = {}
    <3>1. Len(ks) = 0 => RangeOf(ks) = {}
      BY <1>1 DEF RangeOf
    <3>2. Len(ks) # 0 => 1 \in DOMAIN ks
      BY <1>1
    <3> QED
      BY <3>1, <3>2 DEF RangeOf
  <2> QED
    BY <2>1, <2>2, <2>3
<1> QED
  BY <1>6, <1>7, <1>8, <1>9

\* What parseLevelString reads from a text is what parseHeader reads, up to an empty value at the end.
LEMMA FieldsOfIs ==
    ASSUME NEW text \in Text, Distinct(KeysOf(text))
    PROVE  /\ \A k \in Key :
                /\ ValueIn(text, k) \in Str \cup {Nil}
                /\ FieldsOf(text)[k] \in Str \cup {Nil}
                /\ ValueOf(FieldsOf(text)[k]) = ValueOf(ValueIn(text, k))
           /\ ~EndsEmpty(text) => \A k \in Key : FieldsOf(text)[k] = ValueIn(text, k)
           /\ FieldsOf(text) \in FieldMap
<1> DEFINE tv == text.kv
           kv == PairsOf(text)
           L == Len(tv)
           At(k) == {n \in DOMAIN kv : kv[n][1] = k}
<1>1. tv \in Seq(Key \X Str) /\ L \in Nat /\ DOMAIN tv = 1 .. L
  BY DEF Text
<1>2. \A n \in DOMAIN tv : tv[n] \in Key \X Str /\ tv[n][1] \in Key /\ tv[n][2] \in Str
  BY <1>1
<1>3. \A m, n \in DOMAIN tv : tv[m][1] = tv[n][1] => m = n
  BY DEF Distinct, KeysOf
<1>4. kv = IF EndsEmpty(text) THEN SubSeq(tv, 1, L - 1) ELSE tv
  BY DEF PairsOf
<1>5. EndsEmpty(text) => L >= 1 /\ tv[L][2] = Empty
  <2>1. EndsEmpty(text) => tv # <<>> /\ tv[L][2] = Empty
    BY DEF EndsEmpty
  <2> QED
    BY <2>1, <1>1
<1>6. /\ DOMAIN kv \subseteq DOMAIN tv
      /\ \A n \in DOMAIN kv : kv[n] = tv[n]
      /\ \A n \in DOMAIN tv : n \in DOMAIN kv \/ (EndsEmpty(text) /\ n = L)
  <2>1. CASE EndsEmpty(text)
    <3>1. kv = SubSeq(tv, 1, L - 1) /\ L >= 1
      BY <2>1, <1>4, <1>5
    <3>2. DOMAIN kv = 1 .. L - 1 /\ \A n \in 1 .. L - 1 : kv[n] = tv[n]
      BY <3>1, <1>1
    <3> QED
      BY <2>1, <3>2, <1>1
  <2>2. CASE ~EndsEmpty(text)
    BY <2>2, <1>4
  <2> QED
    BY <2>1, <2>2
<1>7. FieldsOf(text) = [k \in Key |-> IF At(k) = {} THEN Nil
                                      ELSE kv[CHOOSE n \in At(k) : \A m \in At(k) : n <= m][2]]
  BY DEF FieldsOf
<1> HIDE DEF tv, kv, L
<1>8. ASSUME NEW k \in Key
      PROVE  /\ ValueIn(text, k) \in Str \cup {Nil}
             /\ FieldsOf(text)[k] \in Str \cup {Nil}
             /\ ValueOf(FieldsOf(text)[k]) = ValueOf(ValueIn(text, k))
             /\ ~EndsEmpty(text) => FieldsOf(text)[k] = ValueIn(text, k)
  <2>1. CASE ~\E n \in DOMAIN tv : tv[n][1] = k
    <3>1. ValueIn(text, k) = Nil
      BY <2>1 DEF ValueIn, tv
    <3>2. At(k) = {}
      BY <2>1, <1>6
    <3>3. FieldsOf(text)[k] = Nil
      BY <3>2, <1>7
    <3> QED
      BY <3>1, <3>3
  <2>2. CASE \E n \in DOMAIN tv : tv[n][1] = k
    <3>1. PICK n \in DOMAIN tv : n = (CHOOSE m \in DOMAIN tv : tv[m][1] = k) /\ tv[n][1] = k
      BY <2>2
    <3>2. ValueIn(text, k) = tv[n][2]
      BY <2>2, <3>1 DEF ValueIn, tv
    <3>3. CASE n \in DOMAIN kv
      <4>1. At(k) = {n}
        BY <3>1, <3>3, <1>3, <1>6
      <4>2. n \in Nat
        BY <1>1
      <4>3. (CHOOSE i \in At(k) : \A m \in At(k) : i <= m) = n
        <5> HIDE DEF At
        <5>1. \E i \in At(k) : \A m \in At(k) : i <= m
          BY <4>1, <4>2
        <5> QED
          BY <4>1, <5>1
      <4>4. FieldsOf(text)[k] = kv[n][2]
        <5>1. At(k) # {}
          BY <4>1
        <5> HIDE DEF At
        <5> QED
          BY <4>3, <5>1, <1>7
      <4> QED
        BY <4>4, <3>2, <3>3, <1>2, <1>6
    <3>4. CASE n \notin DOMAIN kv
      <4>1. EndsEmpty(text) /\ n = L /\ tv[n][2] = Empty
        BY <3>1, <3>4, <1>5, <1>6 DEF tv, L
      <4>2. At(k) = {}
        BY <3>1, <3>4, <1>3, <1>6
      <4>3. FieldsOf(text)[k] = Nil
        BY <4>2, <1>7
      <4> QED
        BY <4>1, <4>3, <3>2, DifferAssumption DEF ValueOf
    <3> QED
      BY <3>3, <3>4
  <2> QED
    BY <2>1, <2>2
<1>9. FieldsOf(text) \in FieldMap
  <2>1. FieldsOf(text) = [k \in Key |-> FieldsOf(text)[k]]
    BY <1>7
  <2> QED
    BY <2>1, <1>8 DEF FieldMap
<1> QED
  BY <1>8, <1>9

\* The records of a value that can be read, or is missing, are records of texts.
LEMMA ColorsAre ==
    ASSUME NEW v \in Str \cup {Nil}, Colors(v) # Malformed
    PROVE  /\ Colors(v) = Nil \/ (Colors(v) \in [Channel -> Record] /\ Colors(v) = ChannelsOf[v] /\ v \in Str)
           /\ Colors(v) = Nil <=> v = Nil
           /\ \A c \in Channel : /\ RecordAt(Colors(v), c) \in Record
                                 /\ \E w \in Readable : ChannelsOf[w][c] = RecordAt(Colors(v), c)
<1>1. Nil \notin Str /\ Empty \in Readable /\ \A c \in Channel : ChannelsOf[Empty][c] = Nil
  BY DifferAssumption, ChannelsAssumption
<1>2. \A w \in Readable : \A c \in Channel : ChannelsOf[w][c] \in Record
  BY DEF Record
<1>3. CASE v = Nil
  <2>1. Colors(v) = Nil /\ \A c \in Channel : RecordAt(Colors(v), c) = Nil
    BY <1>3 DEF Colors, RecordAt
  <2> QED
    BY <2>1, <1>1, <1>2, <1>3
<1>4. CASE v \in Str
  <2>1. v # Nil /\ Colors(v) = ChannelsOf[v] /\ v \in Readable
    BY <1>1, <1>4 DEF Colors, Readable
  <2>2. ChannelsOf[v] # Nil /\ ChannelsOf[v] \in [Channel -> Record]
    BY <1>4, <2>1, ChannelsAssumption
  <2>3. \A c \in Channel : RecordAt(Colors(v), c) = ChannelsOf[v][c]
    BY <2>1, <2>2 DEF RecordAt
  <2> QED
    BY <2>1, <2>2, <2>3, <1>2, <1>4
<1> QED
  BY <1>3, <1>4

\* y is the merged value of three colour values that can be read.
ColorsMerged(y, b, o, t) ==
    /\ y \in Str \cup {Nil}
    /\ Colors(y) # Malformed
    /\ Colors(y) = MergedChannels(Colors(b), Colors(o), Colors(t))
    /\ \A c \in Channel : RecordAt(Colors(y), c) =
            Pick(RecordAt(Colors(b), c), RecordAt(Colors(o), c), RecordAt(Colors(t), c))

\* serializeChannels gives a text that reads as the merged channels, channel by channel one of the three.
LEMMA MergedColors ==
    ASSUME NEW b \in Str \cup {Nil}, NEW o \in Str \cup {Nil}, NEW t \in Str \cup {Nil},
           Colors(b) # Malformed, Colors(o) # Malformed, Colors(t) # Malformed
    PROVE  /\ MergeColors(b, o, t).value = ChannelText(MergedChannels(Colors(b), Colors(o), Colors(t)))
           /\ ColorsMerged(MergeColors(b, o, t).value, b, o, t)
<1> DEFINE B == Colors(b)  O == Colors(o)  T == Colors(t)
           m == MergedChannels(B, O, T)
           y == MergeColors(b, o, t).value
<1>1. y = ChannelText(m)
  BY DEF MergeColors
<1>2. Malformed # Nil /\ Nil \notin Str
  BY GdHeaderAssumption, DifferAssumption
<1>3. CASE ~Clash(B, O, T)
  <2>1. m = Pick(B, O, T)
    BY <1>3 DEF MergedChannels
  <2>2. PICK x \in {o, t} : m = Colors(x)
    BY <2>1 DEF Pick
  <2>3. x \in Str \cup {Nil} /\ Colors(x) # Malformed
    OBVIOUS
  <2>4. y \in Str \cup {Nil} /\ Colors(y) = m
    <3>1. CASE x = Nil
      <4>1. m = Nil
        BY <3>1, <2>2 DEF Colors
      <4> QED
        BY <4>1, <1>1 DEF ChannelText, Colors
    <3>2. CASE x # Nil
      <4>1. x \in Str /\ m = ChannelsOf[x] /\ m # Nil
        BY <3>2, <2>2, <2>3, ChannelsAssumption DEF Colors
      <4>2. y = CHOOSE v \in Str : ChannelsOf[v] = m
        BY <4>1, <1>1 DEF ChannelText
      <4>3. y \in Str /\ ChannelsOf[y] = m
        BY <4>1, <4>2
      <4> QED
        BY <4>3, <1>2 DEF Colors
    <3> QED
      BY <3>1, <3>2
  <2>5. \A c \in Channel : RecordAt(m, c) = Pick(RecordAt(B, c), RecordAt(O, c), RecordAt(T, c))
    <3> HIDE DEF B, O, T, m
    <3>1. m = IF O = B THEN T ELSE O
      BY <2>1 DEF Pick
    <3>2. O = T \/ O = B \/ T = B
      BY <1>3 DEF Clash
    <3> QED
      BY <3>1, <3>2 DEF Pick
  <2> QED
    BY <1>1, <2>2, <2>3, <2>4, <2>5 DEF ColorsMerged
<1>4. CASE Clash(B, O, T)
  <2>1. m = [c \in Channel |-> Pick(RecordAt(B, c), RecordAt(O, c), RecordAt(T, c))]
    BY <1>4 DEF MergedChannels
  <2>2. \A c \in Channel : \E v \in Readable : ChannelsOf[v][c] = m[c] /\ m[c] \in Record
    BY <2>1, ColorsAre DEF Pick
  <2>3. m \in [Channel -> Record]
    BY <2>1, <2>2
  <2> HIDE DEF m
  <2>4. m # Malformed /\ \E v \in Str : ChannelsOf[v] = m
    BY <2>2, <2>3, ChannelsAssumption
  <2>5. m # Nil
    BY <2>4, ChannelsAssumption
  <2>6. y = CHOOSE v \in Str : ChannelsOf[v] = m
    BY <1>1, <2>5 DEF ChannelText
  <2>7. y \in Str /\ ChannelsOf[y] = m
    BY <2>4, <2>6
  <2>8. Colors(y) = m
    BY <2>7, <1>2 DEF Colors
  <2>9. \A c \in Channel : RecordAt(m, c) = m[c]
    BY <2>5 DEF RecordAt
  <2> HIDE DEF B, O, T, y
  <2>10. \A c \in Channel : m[c] = Pick(RecordAt(B, c), RecordAt(O, c), RecordAt(T, c))
    BY <2>1
  <2> QED
    BY <1>1, <2>4, <2>7, <2>8, <2>9, <2>10 DEF ColorsMerged, m, y, B, O, T
<1> QED
  BY <1>3, <1>4

LEMMA MergedValueIs ==
    ASSUME NEW k, NEW b \in Str \cup {Nil}, NEW o \in Str \cup {Nil}, NEW t \in Str \cup {Nil}
    PROVE  /\ MergedValue(k, b, o, t) \in Str \cup {Nil}
           /\ MergedValue(k, Nil, Nil, Nil) = Nil
<1>1. CASE k = ColorKey
  <2>1. MergedValue(k, b, o, t) = MergeColors(b, o, t).value
    BY <1>1 DEF MergedValue
  <2>2. Colors(b) = Malformed \/ Colors(o) = Malformed \/ Colors(t) = Malformed
            => MergedValue(k, b, o, t) = o
    BY <2>1 DEF MergeColors
  <2>3. ~(Colors(b) = Malformed \/ Colors(o) = Malformed \/ Colors(t) = Malformed)
            => MergedValue(k, b, o, t) \in Str \cup {Nil}
    BY <2>1, MergedColors DEF ColorsMerged
  <2>4. Colors(Nil) = Nil /\ Nil # Malformed
    BY GdHeaderAssumption DEF Colors
  <2>5. MergeColors(Nil, Nil, Nil).value = ChannelText(MergedChannels(Nil, Nil, Nil))
    BY <2>4 DEF MergeColors
  <2>6. MergedValue(k, Nil, Nil, Nil) = Nil
    BY <2>5, <1>1 DEF MergedValue, MergedChannels, Clash, Pick, ChannelText
  <2> QED
    BY <2>2, <2>3, <2>6
<1>2. CASE k # ColorKey
  BY <1>2 DEF MergedValue, Pick
<1> QED
  BY <1>1, <1>2

\* text has these values, and none of its keys twice.
TextHas(text, values) ==
    /\ text \in Text
    /\ Distinct(KeysOf(text))
    /\ \A k \in Key : ValueIn(text, k) = values[k] /\ values[k] \in Str \cup {Nil}
    /\ text = NoText <=> \A k \in Key : values[k] = Nil

LEMMA KeysOfIs ==
    ASSUME NEW text \in Text
    PROVE  /\ KeysOf(text) \in Seq(Key)
           /\ \A k \in Key : /\ ValueIn(text, k) \in Str \cup {Nil}
                             /\ k \notin RangeOf(KeysOf(text)) => ValueIn(text, k) = Nil
<1> DEFINE tv == text.kv
<1>1. tv \in Seq(Key \X Str)
  BY DEF Text
<1>2. KeysOf(text) = [n \in DOMAIN tv |-> tv[n][1]]
  BY DEF KeysOf
<1> HIDE DEF tv
<1>3. Len(tv) \in Nat /\ DOMAIN tv = 1 .. Len(tv) /\ \A n \in DOMAIN tv : tv[n] \in Key \X Str
  BY <1>1
<1>4. \A n \in DOMAIN tv : tv[n][1] \in Key /\ tv[n][2] \in Str
  BY <1>3
<1>5. KeysOf(text) \in Seq(Key) /\ DOMAIN KeysOf(text) = DOMAIN tv
      /\ \A n \in DOMAIN tv : KeysOf(text)[n] = tv[n][1]
  BY <1>2, <1>3, <1>4
<1>6. ASSUME NEW k \in Key
      PROVE  /\ ValueIn(text, k) \in Str \cup {Nil}
             /\ k \notin RangeOf(KeysOf(text)) => ValueIn(text, k) = Nil
  <2>1. CASE \E n \in DOMAIN tv : tv[n][1] = k
    <3>1. PICK n \in DOMAIN tv : n = (CHOOSE m \in DOMAIN tv : tv[m][1] = k) /\ tv[n][1] = k
      BY <2>1
    <3>2. ValueIn(text, k) = tv[n][2]
      BY <2>1, <3>1 DEF ValueIn, tv
    <3>3. k \in RangeOf(KeysOf(text))
      BY <3>1, <1>5 DEF RangeOf
    <3> QED
      BY <3>2, <3>3, <1>4
  <2>2. CASE ~\E n \in DOMAIN tv : tv[n][1] = k
    BY <2>2 DEF ValueIn, tv
  <2> QED
    BY <2>1, <2>2
<1> QED
  BY <1>5, <1>6

\* mergeHeaders3Way writes each key with a merged value, once.
LEMMA MergedText ==
    ASSUME NEW b \in Text, NEW o \in Text, NEW t \in Text,
           Distinct(KeysOf(b)), Distinct(KeysOf(o)), Distinct(KeysOf(t))
    PROVE  TextHas(MergeHeaders3Way(b, o, t).text, MergedValues(b, o, t))
<1> DEFINE B == KeysOf(b)  O == KeysOf(o)  T == KeysOf(t)
           v == MergedValues(b, o, t)
           new == Selected(T, Key \ RangeOf(O))
           old == Selected(B, Key \ (RangeOf(O) \cup RangeOf(T)))
           keys == MergedKeys(b, o, t)
           kept == Selected(keys, {k \in Key : v[k] # Nil})
<1>1. B \in Seq(Key) /\ O \in Seq(Key) /\ T \in Seq(Key)
  BY KeysOfIs
<1>2. RangeOf(B) \subseteq Key /\ RangeOf(O) \subseteq Key /\ RangeOf(T) \subseteq Key
  BY <1>1 DEF RangeOf
<1>3. \A k \in Key : v[k] = MergedValue(k, ValueIn(b, k), ValueIn(o, k), ValueIn(t, k))
  BY DEF MergedValues
<1>4. \A k \in Key : v[k] \in Str \cup {Nil}
  <2> TAKE k \in Key
  <2>1. ValueIn(b, k) \in Str \cup {Nil} /\ ValueIn(o, k) \in Str \cup {Nil} /\ ValueIn(t, k) \in Str \cup {Nil}
    BY KeysOfIs
  <2> QED
    BY <2>1, <1>3, MergedValueIs
<1>5. \A k \in Key : v[k] # Nil => k \in RangeOf(B) \cup RangeOf(O) \cup RangeOf(T)
  <2> SUFFICES ASSUME NEW k \in Key, k \notin RangeOf(B) \cup RangeOf(O) \cup RangeOf(T) PROVE v[k] = Nil
    OBVIOUS
  <2>1. ValueIn(b, k) = Nil /\ ValueIn(o, k) = Nil /\ ValueIn(t, k) = Nil
    BY KeysOfIs
  <2> QED
    BY <2>1, <1>3, MergedValueIs
<1>6. new \in Seq(Key) /\ RangeOf(new) = RangeOf(T) \cap (Key \ RangeOf(O)) /\ Distinct(new)
  BY <1>1, SelectedIs
<1>7. old \in Seq(Key) /\ RangeOf(old) = RangeOf(B) \cap (Key \ (RangeOf(O) \cup RangeOf(T))) /\ Distinct(old)
  BY <1>1, SelectedIs
<1>8. keys = O \o new \o old
  BY DEF MergedKeys
<1>9. MergeHeaders3Way(b, o, t).text = TextOf(kept, v)
  BY DEF MergeHeaders3Way
<1>10. Distinct(O)
  OBVIOUS
<1> HIDE DEF B, O, T, v, new, old, keys
<1>11. O \o new \in Seq(Key) /\ RangeOf(O \o new) = RangeOf(O) \cup RangeOf(new) /\ Distinct(O \o new)
  <2>1. RangeOf(O) \cap RangeOf(new) = {}
    BY <1>6
  <2> QED
    BY <2>1, <1>1, <1>6, <1>10, ConcatRange
<1>12. keys \in Seq(Key) /\ RangeOf(keys) = RangeOf(O) \cup RangeOf(new) \cup RangeOf(old) /\ Distinct(keys)
  <2>1. PICK q \in Seq(Key) : q = O \o new /\ RangeOf(q) = RangeOf(O) \cup RangeOf(new) /\ Distinct(q)
    BY <1>11
  <2>2. RangeOf(q) \cap RangeOf(old) = {}
    BY <1>6, <1>7, <2>1
  <2>3. /\ q \o old \in Seq(Key) /\ RangeOf(q \o old) = RangeOf(q) \cup RangeOf(old)
        /\ Distinct(q \o old)
    <3>1. Distinct(q) /\ old \in Seq(Key) /\ Distinct(old)
      BY <2>1, <1>7
    <3> QED
      BY <3>1, <2>2, ConcatRange
  <2>4. keys = q \o old
    BY <2>1, <1>8
  <2> QED
    BY <2>1, <2>3, <2>4
<1>13. kept \in Seq(Key) /\ RangeOf(kept) = RangeOf(keys) \cap {k \in Key : v[k] # Nil} /\ Distinct(kept)
  BY <1>12, SelectedIs
<1> HIDE DEF kept
<1>14. RangeOf(kept) = {k \in Key : v[k] # Nil}
  BY <1>2, <1>5, <1>6, <1>7, <1>12, <1>13
<1>15. \A k \in RangeOf(kept) : v[k] \in Str
  BY <1>4, <1>14
<1>16. /\ TextOf(kept, v) \in Text
       /\ Distinct(KeysOf(TextOf(kept, v)))
       /\ \A k \in Key : ValueIn(TextOf(kept, v), k) = IF k \in RangeOf(kept) THEN v[k] ELSE Nil
       /\ TextOf(kept, v) = NoText <=> RangeOf(kept) = {}
  BY <1>13, <1>15, TextOfIs
<1> QED
  BY <1>4, <1>9, <1>14, <1>16 DEF TextHas, v

\* serializeFields writes the fields.
LEMMA SerializedText ==
    ASSUME NEW fields \in FieldMap
    PROVE  TextHas(SerializeFields(fields), fields)
<1> DEFINE S == {k \in Key : fields[k] # Nil}
           ks == Selected(KeyOrder, S)
<1>1. KeyOrder \in Seq(Key) /\ Distinct(KeyOrder) /\ RangeOf(KeyOrder) = Key
  BY GdHeaderAssumption
<1>2. ks \in Seq(Key) /\ RangeOf(ks) = RangeOf(KeyOrder) \cap S /\ Distinct(ks)
  <2> HIDE DEF S
  <2> QED
    BY <1>1, SelectedIs
<1>3. RangeOf(ks) = S
  BY <1>1, <1>2
<1>4. \A k \in Key : fields[k] \in Str \cup {Nil}
  BY DEF FieldMap
<1>5. SerializeFields(fields) = TextOf(ks, fields)
  BY DEF SerializeFields
<1> HIDE DEF ks
<1>6. /\ TextOf(ks, fields) \in Text
      /\ Distinct(KeysOf(TextOf(ks, fields)))
      /\ \A k \in Key : ValueIn(TextOf(ks, fields), k) = IF k \in RangeOf(ks) THEN fields[k] ELSE Nil
      /\ TextOf(ks, fields) = NoText <=> RangeOf(ks) = {}
  BY <1>2, <1>3, <1>4, TextOfIs
<1> QED
  BY <1>3, <1>4, <1>5, <1>6 DEF TextHas

-------------------------------------------------------------------------------
(***************************************************************************)
(* Imports without conflicts: the objects                                  *)
(***************************************************************************)

NormValue(v) == IF v = Empty THEN Nil ELSE v
NormObject(x) == IF x = Nil THEN Nil ELSE NormFields(x)

LEMMA NormValues ==
    ASSUME NEW v \in Str \cup {Nil}, NEW w \in Str \cup {Nil}
    PROVE  ValueOf(v) = ValueOf(w) <=> NormValue(v) = NormValue(w)
BY DifferAssumption DEF ValueOf, NormValue

\* Without a clash the merged value is one of the three, a missing key and an empty value being one.
LEMMA MergedFieldIs ==
    ASSUME NEW b \in Str \cup {Nil}, NEW o \in Str \cup {Nil}, NEW t \in Str \cup {Nil},
           ~Clash(ValueOf(b), ValueOf(o), ValueOf(t))
    PROVE  NormValue(MergedField(b, o, t)) = Pick(NormValue(b), NormValue(o), NormValue(t))
<1>1. MergedField(b, o, t) = IF Pick(ValueOf(b), ValueOf(o), ValueOf(t)) = Empty THEN Nil
                             ELSE Pick(ValueOf(b), ValueOf(o), ValueOf(t))
  BY DEF MergedField
<1>2. NormValue(b) = NormValue(o) <=> ValueOf(b) = ValueOf(o)
  BY NormValues
<1>3. \A v \in Str \cup {Nil} : NormValue(IF ValueOf(v) = Empty THEN Nil ELSE ValueOf(v)) = NormValue(v)
  BY DifferAssumption DEF ValueOf, NormValue
<1>4. CASE ValueOf(o) = ValueOf(b)
  <2>1. MergedField(b, o, t) = IF ValueOf(t) = Empty THEN Nil ELSE ValueOf(t)
    BY <1>1, <1>4 DEF Pick
  <2>2. NormValue(MergedField(b, o, t)) = NormValue(t)
    BY <2>1, <1>3
  <2> QED
    BY <2>2, <1>2, <1>4 DEF Pick
<1>5. CASE ValueOf(o) # ValueOf(b)
  <2>1. MergedField(b, o, t) = IF ValueOf(o) = Empty THEN Nil ELSE ValueOf(o)
    BY <1>1, <1>5 DEF Pick
  <2>2. NormValue(MergedField(b, o, t)) = NormValue(o)
    BY <2>1, <1>3
  <2> QED
    BY <2>2, <1>2, <1>5 DEF Pick
<1> QED
  BY <1>4, <1>5

LEMMA NormFieldsAre ==
    ASSUME NEW f \in FieldMap
    PROVE  /\ \A k \in Key : NormFields(f)[k] = NormValue(f[k]) /\ f[k] \in Str \cup {Nil}
           /\ NormFields(f) \in FieldMap /\ NormFields(f) # Nil /\ f # Nil
BY DifferAssumption DEF NormFields, NormValue, FieldMap

\* Without a clash the merged fields are, field by field, one of the three.
LEMMA MergedFieldsAre ==
    ASSUME NEW b \in FieldMap, NEW o \in FieldMap, NEW t \in FieldMap,
           \A k \in Key : ~Clash(ValueOf(b[k]), ValueOf(o[k]), ValueOf(t[k]))
    PROVE  /\ MergedFields(b, o, t) \in FieldMap
           /\ \A k \in Key : NormFields(MergedFields(b, o, t))[k] =
                Pick(NormFields(b)[k], NormFields(o)[k], NormFields(t)[k])
           /\ \A k \in Key :
                ~Clash(NormFields(b)[k], NormFields(o)[k], NormFields(t)[k])
<1>1. MergedFields(b, o, t) \in FieldMap
  BY MergedFieldsType
<1>2. ASSUME NEW k \in Key
      PROVE  /\ NormFields(MergedFields(b, o, t))[k] =
                  Pick(NormFields(b)[k], NormFields(o)[k], NormFields(t)[k])
             /\ ~Clash(NormFields(b)[k], NormFields(o)[k], NormFields(t)[k])
  <2>1. b[k] \in Str \cup {Nil} /\ o[k] \in Str \cup {Nil} /\ t[k] \in Str \cup {Nil}
    BY NormFieldsAre
  <2>2. MergedFields(b, o, t)[k] = MergedField(b[k], o[k], t[k])
    BY DEF MergedFields
  <2>3. NormFields(b)[k] = NormValue(b[k]) /\ NormFields(o)[k] = NormValue(o[k])
        /\ NormFields(t)[k] = NormValue(t[k])
    BY NormFieldsAre
  <2>4. NormFields(MergedFields(b, o, t))[k] = NormValue(MergedField(b[k], o[k], t[k]))
    BY <1>1, <2>2, NormFieldsAre
  <2>5. NormValue(MergedField(b[k], o[k], t[k])) =
            Pick(NormValue(b[k]), NormValue(o[k]), NormValue(t[k]))
    BY <2>1, MergedFieldIs
  <2>6. ~Clash(NormValue(b[k]), NormValue(o[k]), NormValue(t[k]))
    <3>1. (NormValue(o[k]) = NormValue(t[k]) <=> ValueOf(o[k]) = ValueOf(t[k]))
          /\ (NormValue(o[k]) = NormValue(b[k]) <=> ValueOf(o[k]) = ValueOf(b[k]))
          /\ (NormValue(t[k]) = NormValue(b[k]) <=> ValueOf(t[k]) = ValueOf(b[k]))
      BY <2>1, NormValues
    <3> QED
      BY <3>1 DEF Clash
  <2> QED
    BY <2>3, <2>4, <2>5, <2>6
<1> QED
  BY <1>1, <1>2

\* One object, merged without a clash and not in two versions.
LEMMA MergedObjectIs ==
    ASSUME NEW b \in FieldMap \cup {Nil}, NEW o \in FieldMap \cup {Nil}, NEW t \in FieldMap \cup {Nil},
           ~ObjectClash(b, o, t)
    PROVE  /\ MergedObject(b, o, t) \in FieldMap \cup {Nil}
           /\ ObjectArrives(NormObject(b), NormObject(o), NormObject(MergedObject(b, o, t)))
           /\ ~TwoVersions(b, o, t) =>
                ObjectArrives(NormObject(b), NormObject(t), NormObject(MergedObject(b, o, t)))
           /\ o = b /\ t = b => NormObject(MergedObject(b, o, t)) = NormObject(b)
<1> DEFINE m == MergedObject(b, o, t)
           N(x) == NormObject(x)
<1>1. \A x \in FieldMap \cup {Nil} : (N(x) = Nil <=> x = Nil) /\ (x # Nil => N(x) = NormFields(x))
  BY NormFieldsAre DEF NormObject
<1>2. CASE b = Nil
  <2>1. m = IF o = Nil THEN t ELSE o
    BY <1>2 DEF MergedObject
  <2>2. ~TwoVersions(b, o, t) => o = Nil \/ t = Nil \/ o = t
    BY <1>2 DEF TwoVersions
  <2> HIDE DEF m, N
  <2> QED
    BY <1>1, <1>2, <2>1, <2>2 DEF ObjectArrives, m, N
<1>3. CASE b # Nil /\ (o = Nil \/ t = Nil)
  <2>1. m = Nil /\ (o = Nil \/ o = b) /\ (t = Nil \/ t = b)
    BY <1>3 DEF MergedObject, ObjectClash
  <2>2. ~(o = b /\ t = b)
    BY <1>3
  <2> HIDE DEF m, N
  <2> QED
    BY <1>1, <1>3, <2>1, <2>2 DEF ObjectArrives, m, N
<1>4. CASE b # Nil /\ o # Nil /\ t # Nil
  <2>1. b \in FieldMap /\ o \in FieldMap /\ t \in FieldMap
    BY <1>4
  <2>2. m = MergedFields(b, o, t)
    BY <1>4 DEF MergedObject
  <2>3. \A k \in Key : ~Clash(ValueOf(b[k]), ValueOf(o[k]), ValueOf(t[k]))
    BY <1>4 DEF ObjectClash
  <2>4. /\ m \in FieldMap
        /\ \A k \in Key : /\ NormFields(m)[k] = Pick(NormFields(b)[k], NormFields(o)[k], NormFields(t)[k])
                          /\ ~Clash(NormFields(b)[k], NormFields(o)[k], NormFields(t)[k])
    BY <2>1, <2>2, <2>3, MergedFieldsAre
  <2>5. m # Nil /\ N(b) = NormFields(b) /\ N(o) = NormFields(o) /\ N(t) = NormFields(t) /\ N(m) = NormFields(m)
        /\ N(b) # Nil /\ N(o) # Nil /\ N(t) # Nil /\ N(m) # Nil
    BY <1>1, <1>4, <2>4, NormFieldsAre
  <2>6. \A k \in Key : /\ Arrives(NormFields(b)[k], NormFields(o)[k], NormFields(m)[k])
                       /\ Arrives(NormFields(b)[k], NormFields(t)[k], NormFields(m)[k])
    BY <2>4 DEF Arrives, Pick, Clash
  <2>7. o = b /\ t = b => N(m) = N(b)
    <3> SUFFICES ASSUME o = b, t = b PROVE NormFields(m) = NormFields(b)
      BY <2>5
    <3>1. \A k \in Key : NormFields(m)[k] = NormFields(b)[k]
      BY <2>4 DEF Pick
    <3>2. NormFields(m) \in FieldMap /\ NormFields(b) \in FieldMap
      BY <2>1, <2>4, NormFieldsAre
    <3> QED
      BY <3>1, <3>2 DEF FieldMap
  <2> HIDE DEF m, N
  <2> QED
    BY <2>4, <2>5, <2>6, <2>7 DEF ObjectArrives, m, N
<1> QED
  BY <1>2, <1>3, <1>4

\* r has the objects of a merge without conflicts, whose new uuids are free.
CleanMerge(r, base, ours, theirs) ==
    /\ base.objects \in ObjectMap /\ ours.objects \in ObjectMap /\ theirs.objects \in ObjectMap
    /\ r.objects = MergeObjects(base.objects, ours.objects, theirs.objects).objects
    /\ \A u \in Uuid : ~ObjectClash(base.objects[u], ours.objects[u], theirs.objects[u])
    /\ Fits(base, ours, theirs) /\ NewUuidsFree(base, ours, theirs)

\* Where the objects of a merge come from.
LEMMA CleanMergeObjects ==
    ASSUME NEW r, NEW base, NEW ours, NEW theirs, CleanMerge(r, base, ours, theirs)
    PROVE  /\ r.objects \in ObjectMap
           /\ \A u \in Uuid : u \notin NewUuids(base, ours, theirs) =>
                r.objects[u] = MergedObject(base.objects[u], ours.objects[u], theirs.objects[u])
           /\ \A u \in NewUuids(base, ours, theirs) :
                u \in Uuid /\ base.objects[u] = Nil /\ ours.objects[u] = Nil /\ theirs.objects[u] = Nil
           /\ \A u \in AddedTwice(base, ours, theirs) :
                /\ Place(base, ours, theirs, u) \in NewUuids(base, ours, theirs)
                /\ r.objects[Place(base, ours, theirs, u)] = theirs.objects[u]
<1> DEFINE W == NewUuids(base, ours, theirs)
           next == NextUuid(ours.objects)
<1>1. MergeOutcome(MergeObjects(base.objects, ours.objects, theirs.objects), base, ours, theirs)
  BY MergedObjects DEF CleanMerge
<1>2. r.objects \in ObjectMap
  BY <1>1 DEF MergeOutcome, CleanMerge, Acc
<1>3. \A u \in Uuid : u \notin W =>
        r.objects[u] = MergedObject(base.objects[u], ours.objects[u], theirs.objects[u])
  BY <1>1 DEF MergeOutcome, CleanMerge
<1>4. \A u \in W : u \in Uuid /\ base.objects[u] = Nil /\ theirs.objects[u] = Nil
  BY DEF CleanMerge, Fits, NewUuidsFree
<1>5. next \in Nat /\ \A u \in Uuid : ours.objects[u] # Nil => u < next
  BY NextUuidIs, MergeAssumption DEF CleanMerge
<1>6. \A u \in W : u \in Nat /\ next <= u
  <2>1. W = next .. next + Cardinality(AddedTwice(base, ours, theirs)) - 1
    BY DEF NewUuids
  <2>2. Cardinality(AddedTwice(base, ours, theirs)) \in Nat
    BY TwiceCount
  <2> HIDE DEF W, next
  <2> QED
    BY <2>1, <2>2, <1>5
<1>7. \A u \in W : ours.objects[u] = Nil
  <2> HIDE DEF W, next
  <2> QED
    BY <1>4, <1>5, <1>6
<1>8. \A u \in AddedTwice(base, ours, theirs) :
        /\ Place(base, ours, theirs, u) \in W
        /\ r.objects[Place(base, ours, theirs, u)] = theirs.objects[u]
  BY <1>1, PlaceIsNew DEF MergeOutcome, CleanMerge
<1> QED
  BY <1>2, <1>3, <1>4, <1>7, <1>8

LEMMA NormObjectsAre ==
    ASSUME NEW s
    PROVE  \A u \in Uuid : Norm(s).objects[u] = NormObject(s.objects[u])
BY DEF Norm, NormObject

\* The objects of both sides are kept, and what nobody touched.
LEMMA ObjectsKept ==
    ASSUME NEW r, NEW base, NEW ours, NEW theirs, CleanMerge(r, base, ours, theirs)
    PROVE  /\ SideKept(Norm(base), Norm(ours), Norm(r))
           /\ SideKept(Norm(base), Norm(theirs), Norm(r))
           /\ \A u \in Uuid : ours.objects[u] = base.objects[u] /\ theirs.objects[u] = base.objects[u]
                => Norm(r).objects[u] = Norm(base).objects[u] \/ u \in NewUuids(base, ours, theirs)
<1> DEFINE W == NewUuids(base, ours, theirs)
           A == AddedTwice(base, ours, theirs)
           P(u) == Place(base, ours, theirs, u)
           B(u) == base.objects[u]
           O(u) == ours.objects[u]
           T(u) == theirs.objects[u]
           R(u) == r.objects[u]
           N(x) == NormObject(x)
<1>1. \A u \in Uuid : B(u) \in FieldMap \cup {Nil} /\ O(u) \in FieldMap \cup {Nil} /\ T(u) \in FieldMap \cup {Nil}
                      /\ ~ObjectClash(B(u), O(u), T(u))
  BY DEF CleanMerge, ObjectMap
<1>2. /\ \A u \in Uuid : u \notin W => R(u) = MergedObject(B(u), O(u), T(u))
      /\ \A u \in W : u \in Uuid /\ B(u) = Nil /\ O(u) = Nil /\ T(u) = Nil
      /\ \A u \in A : P(u) \in W /\ R(P(u)) = T(u)
  BY CleanMergeObjects
<1>3. \A u \in Uuid : u \in A <=> TwoVersions(B(u), O(u), T(u))
  BY DEF AddedTwice, TwoVersions
<1>4. N(Nil) = Nil
  BY DEF NormObject
<1>5. \A u \in Uuid : /\ Norm(base).objects[u] = N(B(u)) /\ Norm(ours).objects[u] = N(O(u))
                      /\ Norm(theirs).objects[u] = N(T(u)) /\ Norm(r).objects[u] = N(R(u))
  BY NormObjectsAre
<1>6. \A u \in Uuid : u \notin W =>
        /\ ObjectArrives(N(B(u)), N(O(u)), N(R(u)))
        /\ u \notin A => ObjectArrives(N(B(u)), N(T(u)), N(R(u)))
        /\ O(u) = B(u) /\ T(u) = B(u) => N(R(u)) = N(B(u))
  <2> TAKE u \in Uuid
  <2> HAVE u \notin W
  <2>1. R(u) = MergedObject(B(u), O(u), T(u)) /\ (u \in A <=> TwoVersions(B(u), O(u), T(u)))
    BY <1>2, <1>3
  <2> HIDE DEF N
  <2> QED
    BY <1>1, <2>1, MergedObjectIs DEF N
<1> HIDE DEF W, A, P, B, O, T, R, N
<1>7. SideKept(Norm(base), Norm(ours), Norm(r))
  <2> SUFFICES ASSUME NEW u \in Uuid
               PROVE  /\ N(B(u)) # Nil /\ N(O(u)) = Nil => N(R(u)) = Nil
                      /\ N(B(u)) # Nil /\ N(O(u)) # Nil /\ N(O(u)) # N(B(u)) =>
                            N(R(u)) # Nil /\ \A k \in Key : Arrives(N(B(u))[k], N(O(u))[k], N(R(u))[k])
                      /\ N(B(u)) = Nil /\ N(O(u)) # Nil => N(R(u)) = N(O(u))
    BY <1>5 DEF SideKept
  <2>1. CASE u \notin W
    BY <2>1, <1>6 DEF ObjectArrives
  <2>2. CASE u \in W
    BY <2>2, <1>2, <1>4
  <2> QED
    BY <2>1, <2>2
<1>8. SideKept(Norm(base), Norm(theirs), Norm(r))
  <2> SUFFICES ASSUME NEW u \in Uuid
               PROVE  /\ N(B(u)) # Nil /\ N(T(u)) = Nil => N(R(u)) = Nil
                      /\ N(B(u)) # Nil /\ N(T(u)) # Nil /\ N(T(u)) # N(B(u)) =>
                            N(R(u)) # Nil /\ \A k \in Key : Arrives(N(B(u))[k], N(T(u))[k], N(R(u))[k])
                      /\ N(B(u)) = Nil /\ N(T(u)) # Nil => \E w \in Uuid : N(R(w)) = N(T(u))
    BY <1>5 DEF SideKept
  <2>1. CASE u \notin W /\ u \notin A
    BY <2>1, <1>6 DEF ObjectArrives
  <2>2. CASE u \in W
    BY <2>2, <1>2, <1>4
  <2>3. CASE u \in A
    <3>1. P(u) \in Uuid /\ N(R(P(u))) = N(T(u))
      BY <2>3, <1>2
    <3>2. B(u) = Nil
      BY <2>3, <1>3 DEF TwoVersions
    <3> QED
      BY <3>1, <3>2, <1>4
  <2> QED
    BY <2>1, <2>2, <2>3
<1>9. \A u \in Uuid : O(u) = B(u) /\ T(u) = B(u)
        => Norm(r).objects[u] = Norm(base).objects[u] \/ u \in W
  BY <1>5, <1>6
<1> QED
  BY <1>7, <1>8, <1>9 DEF O, B, T, W

-------------------------------------------------------------------------------
(***************************************************************************)
(* Imports without conflicts: the header                                   *)
(***************************************************************************)

\* What the level gets of a header: its text if that is kept, else its fields.
LEMMA WrittenIs ==
    ASSUME NEW s, s.rawHeader \in Text, s.header \in FieldMap
    PROVE  /\ s.rawHeader # EmptyRaw => WrittenHeader(s) = s.rawHeader
           /\ s.rawHeader # EmptyRaw /\ Distinct(KeysOf(s.rawHeader)) => \A k \in Key :
                /\ HeaderFields(s)[k] = NormValue(ValueIn(s.rawHeader, k))
                /\ FieldsOf(WrittenHeader(s))[k] \in Str \cup {Nil}
                /\ NormValue(FieldsOf(WrittenHeader(s))[k]) = NormValue(ValueIn(s.rawHeader, k))
           /\ s.rawHeader = EmptyRaw => \A k \in Key :
                /\ HeaderFields(s)[k] = NormValue(s.header[k])
                /\ FieldsOf(WrittenHeader(s))[k] \in Str \cup {Nil}
                /\ NormValue(FieldsOf(WrittenHeader(s))[k]) = NormValue(s.header[k])
<1> DEFINE w == WrittenHeader(s)
<1>1. w = IF s.rawHeader # EmptyRaw THEN s.rawHeader ELSE SerializeFields(s.header)
  BY DEF WrittenHeader
<1>2. ASSUME w \in Text, Distinct(KeysOf(w)), NEW k \in Key
      PROVE  /\ HeaderFields(s)[k] = NormValue(ValueIn(w, k))
             /\ FieldsOf(w)[k] \in Str \cup {Nil}
             /\ NormValue(FieldsOf(w)[k]) = NormValue(ValueIn(w, k))
  <2>1. /\ FieldsOf(w) \in FieldMap /\ FieldsOf(w)[k] \in Str \cup {Nil} /\ ValueIn(w, k) \in Str \cup {Nil}
        /\ ValueOf(FieldsOf(w)[k]) = ValueOf(ValueIn(w, k))
    BY <1>2, FieldsOfIs
  <2>2. NormValue(FieldsOf(w)[k]) = NormValue(ValueIn(w, k))
    BY <2>1, NormValues
  <2>3. HeaderFields(s)[k] = NormValue(FieldsOf(w)[k])
    BY <2>1, NormFieldsAre DEF HeaderFields
  <2> QED
    BY <2>1, <2>2, <2>3
<1>3. ASSUME s.rawHeader = EmptyRaw
      PROVE  w \in Text /\ Distinct(KeysOf(w)) /\ \A k \in Key : ValueIn(w, k) = s.header[k]
  BY <1>1, <1>3, SerializedText DEF TextHas
<1>4. s.rawHeader # EmptyRaw => w = s.rawHeader
  BY <1>1
<1> HIDE DEF w
<1>5. ASSUME s.rawHeader = EmptyRaw, NEW k \in Key
      PROVE  /\ HeaderFields(s)[k] = NormValue(s.header[k])
             /\ FieldsOf(w)[k] \in Str \cup {Nil}
             /\ NormValue(FieldsOf(w)[k]) = NormValue(s.header[k])
  BY <1>2, <1>3, <1>5
<1>6. ASSUME s.rawHeader # EmptyRaw, Distinct(KeysOf(s.rawHeader)), NEW k \in Key
      PROVE  /\ HeaderFields(s)[k] = NormValue(ValueIn(s.rawHeader, k))
             /\ FieldsOf(w)[k] \in Str \cup {Nil}
             /\ NormValue(FieldsOf(w)[k]) = NormValue(ValueIn(s.rawHeader, k))
  BY <1>2, <1>4, <1>6
<1> QED
  BY <1>4, <1>5, <1>6 DEF w

\* The merged text of a raw header.
LEMMA MergedRawText ==
    ASSUME NEW b \in Text, NEW o \in Text, NEW t \in Text
    PROVE  /\ MergedRawHeader(b, o, t).text \in Text
           /\ Parses(b) /\ Parses(o) /\ Parses(t) =>
                TextHas(MergedRawHeader(b, o, t).text, MergedValues(b, o, t))
           /\ ~(Parses(b) /\ Parses(o) /\ Parses(t)) => MergedRawHeader(b, o, t).text = Pick(b, o, t)
<1>1. CASE Parses(b) /\ Parses(o) /\ Parses(t)
  <2>1. MergedRawHeader(b, o, t).text = MergeHeaders3Way(b, o, t).text
    BY <1>1 DEF MergedRawHeader
  <2>2. Distinct(KeysOf(b)) /\ Distinct(KeysOf(o)) /\ Distinct(KeysOf(t))
    BY <1>1 DEF Parses
  <2>3. TextHas(MergeHeaders3Way(b, o, t).text, MergedValues(b, o, t))
    BY <2>2, MergedText
  <2> QED
    BY <1>1, <2>1, <2>3 DEF TextHas
<1>2. CASE ~(Parses(b) /\ Parses(o) /\ Parses(t))
  <2>1. MergedRawHeader(b, o, t).text = Pick(b, o, t)
    BY <1>2 DEF MergedRawHeader
  <2> QED
    BY <1>2, <2>1 DEF Pick
<1> QED
  BY <1>1, <1>2

LEMMA ParsedIs ==
    ASSUME NEW text \in Text, Parses(text)
    PROVE  /\ Distinct(KeysOf(text))
           /\ \A k \in Key : FieldsOf(text)[k] = ValueIn(text, k) /\ ValueIn(text, k) \in Str \cup {Nil}
           /\ FieldsOf(text) \in FieldMap
BY FieldsOfIs DEF Parses

LEMMA NoTextParses ==
    /\ NoText \in Text /\ Parses(NoText)
    /\ \A k \in Key : ValueIn(NoText, k) = Nil
<1>1. NoText.kv = <<>> /\ NoText.odd = FALSE /\ DOMAIN NoText.kv = {}
  BY DEF NoText
<1>2. NoText \in Text
  BY DEF NoText, Text
<1>3. ~EndsEmpty(NoText)
  BY <1>1 DEF EndsEmpty
<1>4. Distinct(KeysOf(NoText))
  BY <1>1 DEF Distinct, KeysOf
<1>5. Parses(NoText)
  BY <1>1, <1>3, <1>4 DEF Parses
<1> QED
  BY <1>1, <1>2, <1>5 DEF ValueIn

\* An empty colour value has the channels of a missing one: none.
LEMMA NormRecords ==
    ASSUME NEW v \in Str \cup {Nil}, Colors(v) # Malformed
    PROVE  /\ Colors(NormValue(v)) # Malformed
           /\ \A c \in Channel : RecordAt(Colors(NormValue(v)), c) = RecordAt(Colors(v), c)
<1>1. CASE v # Empty
  BY <1>1 DEF NormValue
<1>2. CASE v = Empty
  <2>1. NormValue(v) = Nil /\ Colors(Nil) = Nil /\ Malformed # Nil
    BY <1>2, GdHeaderAssumption DEF NormValue, Colors
  <2>2. Colors(v) = ChannelsOf[Empty] /\ ChannelsOf[Empty] # Nil /\ \A c \in Channel : ChannelsOf[Empty][c] = Nil
    BY <1>2, DifferAssumption, ChannelsAssumption DEF Colors
  <2> QED
    BY <2>1, <2>2 DEF RecordAt
<1> QED
  BY <1>1, <1>2

\* r has the header that mergeStates3Way makes of three levels as they are read.
MergedHeader(r, base, ours, theirs) ==
    /\ {base, ours, theirs} \subseteq LevelState
    /\ HeaderIsRead(base) /\ HeaderIsRead(ours) /\ HeaderIsRead(theirs)
    /\ r.rawHeader = MergedRawHeader(base.rawHeader, ours.rawHeader, theirs.rawHeader).text
    /\ r.header = MergedFields(base.header, ours.header, theirs.header)

\* The fields of the header merge without a clash.
HeaderFieldsAgree(base, ours, theirs) ==
    \A k \in Key : ~Clash(ValueOf(base.header[k]), ValueOf(ours.header[k]), ValueOf(theirs.header[k]))

LEMMA HeaderTypes ==
    ASSUME NEW r, NEW base, NEW ours, NEW theirs, MergedHeader(r, base, ours, theirs)
    PROVE  /\ base.rawHeader \in Text /\ ours.rawHeader \in Text /\ theirs.rawHeader \in Text
           /\ base.header \in FieldMap /\ ours.header \in FieldMap /\ theirs.header \in FieldMap
           /\ r.rawHeader \in Text /\ r.header \in FieldMap
<1>1. base \in LevelState /\ ours \in LevelState /\ theirs \in LevelState
  BY DEF MergedHeader
<1>2. RawText \subseteq Text
  BY GdHeaderAssumption
<1>3. /\ base.rawHeader \in Text /\ ours.rawHeader \in Text /\ theirs.rawHeader \in Text
      /\ base.header \in FieldMap /\ ours.header \in FieldMap /\ theirs.header \in FieldMap
  BY <1>1, <1>2 DEF LevelState
<1> QED
  BY <1>3, MergedRawText, MergedFieldsType DEF MergedHeader

\* The map of a level whose text parses.
LEMMA ReadHeader ==
    ASSUME NEW s \in LevelState, HeaderIsRead(s), s.rawHeader # EmptyRaw, Parses(s.rawHeader), NEW k \in Key
    PROVE  /\ NormFields(s.header)[k] = NormValue(ValueIn(s.rawHeader, k))
           /\ HeaderFields(s)[k] = NormValue(ValueIn(s.rawHeader, k))
           /\ ValueIn(s.rawHeader, k) \in Str \cup {Nil}
<1>1. s.rawHeader \in Text /\ s.header \in FieldMap
  BY GdHeaderAssumption DEF LevelState
<1>2. /\ Distinct(KeysOf(s.rawHeader)) /\ FieldsOf(s.rawHeader) \in FieldMap
      /\ FieldsOf(s.rawHeader)[k] = ValueIn(s.rawHeader, k) /\ ValueIn(s.rawHeader, k) \in Str \cup {Nil}
  BY <1>1, ParsedIs
<1>3. NormFields(s.header)[k] = NormFields(FieldsOf(s.rawHeader))[k]
  BY DEF HeaderIsRead
<1>4. NormFields(FieldsOf(s.rawHeader))[k] = NormValue(ValueIn(s.rawHeader, k))
  BY <1>2, NormFieldsAre
<1>5. HeaderFields(s)[k] = NormValue(ValueIn(s.rawHeader, k))
  BY <1>1, <1>2, WrittenIs
<1> QED
  BY <1>2, <1>3, <1>4, <1>5

\* The merged colours have the channels of a side that changed them, if the other did not or did the same.
LEMMA ColorsKept ==
    ASSUME NEW b \in Str \cup {Nil}, NEW o \in Str \cup {Nil}, NEW t \in Str \cup {Nil},
           ColorsAgree(b, o, t), ~Clash(NormValue(b), NormValue(o), NormValue(t))
    PROVE  \A x \in {o, t} : NormValue(x) # NormValue(b) =>
              SameSetting(ColorKey, NormValue(MergeColors(b, o, t).value), NormValue(x))
<1> DEFINE y == MergeColors(b, o, t).value
           rec(v, c) == RecordAt(Colors(v), c)
<1>1. Colors(b) # Malformed /\ Colors(o) # Malformed /\ Colors(t) # Malformed
  BY DEF ColorsAgree
<1>2. ColorsMerged(y, b, o, t)
  BY <1>1, MergedColors
<1>3. y \in Str \cup {Nil} /\ Colors(y) # Malformed
      /\ \A c \in Channel : rec(y, c) = Pick(rec(b, c), rec(o, c), rec(t, c))
  BY <1>2 DEF ColorsMerged
<1>4. \A v \in {b, o, t, y} : Colors(NormValue(v)) # Malformed /\ \A c \in Channel : rec(NormValue(v), c) = rec(v, c)
  BY <1>1, <1>3, NormRecords
<1>5. \A v, w \in {b, o, t} : NormValue(v) = NormValue(w) => \A c \in Channel : rec(v, c) = rec(w, c)
  <2> TAKE v, w \in {b, o, t}
  <2> HAVE NormValue(v) = NormValue(w)
  <2> TAKE c \in Channel
  <2>1. rec(v, c) = rec(NormValue(v), c) /\ rec(w, c) = rec(NormValue(w), c)
    BY <1>4
  <2> QED
    BY <2>1
<1> HIDE DEF y, rec
<1>6. ASSUME NEW x \in {o, t}, NormValue(x) # NormValue(b)
      PROVE  \A c \in Channel : rec(y, c) = rec(x, c)
  <2> TAKE c \in Channel
  <2>1. rec(y, c) = IF rec(o, c) = rec(b, c) THEN rec(t, c) ELSE rec(o, c)
    BY <1>3 DEF Pick
  <2>2. NormValue(o) = NormValue(t) \/ NormValue(o) = NormValue(b) \/ NormValue(t) = NormValue(b)
    BY DEF Clash
  <2>3. rec(o, c) = rec(t, c) \/ (x = t /\ rec(o, c) = rec(b, c)) \/ (x = o /\ rec(t, c) = rec(b, c))
    BY <2>2, <1>5, <1>6
  <2> QED
    BY <2>1, <2>3
<1>7. ASSUME NEW x \in {o, t}, NormValue(x) # NormValue(b)
      PROVE  SameSetting(ColorKey, NormValue(y), NormValue(x))
  <2>1. \A c \in Channel : rec(NormValue(y), c) = rec(NormValue(x), c)
    BY <1>4, <1>6, <1>7
  <2>2. Colors(NormValue(y)) # Malformed /\ Colors(NormValue(x)) # Malformed
    BY <1>4
  <2> QED
    BY <2>1, <2>2 DEF SameSetting, rec
<1> QED
  BY <1>7 DEF y

\* The map of the merged header, up to empty values.
LEMMA MergedHeaderFields ==
    ASSUME NEW r, NEW base, NEW ours, NEW theirs, MergedHeader(r, base, ours, theirs),
           HeaderFieldsAgree(base, ours, theirs)
    PROVE  \A k \in Key :
              /\ NormFields(r.header)[k] =
                    Pick(NormFields(base.header)[k], NormFields(ours.header)[k], NormFields(theirs.header)[k])
              /\ ~Clash(NormFields(base.header)[k], NormFields(ours.header)[k], NormFields(theirs.header)[k])
<1>1. r.header = MergedFields(base.header, ours.header, theirs.header)
  BY DEF MergedHeader
<1>2. \A k \in Key : ~Clash(ValueOf(base.header[k]), ValueOf(ours.header[k]), ValueOf(theirs.header[k]))
  BY DEF HeaderFieldsAgree
<1>3. base.header \in FieldMap /\ ours.header \in FieldMap /\ theirs.header \in FieldMap
  BY HeaderTypes
<1> DEFINE x == base.header  y == ours.header  z == theirs.header
<1>4. x \in FieldMap /\ y \in FieldMap /\ z \in FieldMap
      /\ \A k \in Key : ~Clash(ValueOf(x[k]), ValueOf(y[k]), ValueOf(z[k]))
  BY <1>2, <1>3
<1> HIDE DEF x, y, z
<1>5. /\ MergedFields(x, y, z) \in FieldMap
      /\ \A k \in Key : NormFields(MergedFields(x, y, z))[k] = Pick(NormFields(x)[k], NormFields(y)[k], NormFields(z)[k])
      /\ \A k \in Key : ~Clash(NormFields(x)[k], NormFields(y)[k], NormFields(z)[k])
  BY <1>4, MergedFieldsAre
<1> QED
  BY <1>1, <1>5 DEF x, y, z

\* Without conflicts, and with all texts kept or none, the header has the changes of both sides.
LEMMA HeaderKept ==
    ASSUME NEW r, NEW base, NEW ours, NEW theirs, MergedHeader(r, base, ours, theirs),
           HeaderFieldsAgree(base, ours, theirs),
           RawHeadersAgree(base.rawHeader, ours.rawHeader, theirs.rawHeader),
           \A s, t \in {base, ours, theirs} : (s.rawHeader = EmptyRaw) = (t.rawHeader = EmptyRaw)
    PROVE  \A side \in {ours, theirs}, k \in Key :
              HeaderFields(side)[k] # HeaderFields(base)[k] =>
                  SameSetting(k, HeaderFields(r)[k], HeaderFields(side)[k])
<1> DEFINE b == base.rawHeader  o == ours.rawHeader  t == theirs.rawHeader
           F(s, k) == NormFields(s.header)[k]
<1>1. /\ b \in Text /\ o \in Text /\ t \in Text /\ r.rawHeader \in Text /\ r.header \in FieldMap
      /\ base.header \in FieldMap /\ ours.header \in FieldMap /\ theirs.header \in FieldMap
  BY HeaderTypes
<1>2. \A k \in Key : F(r, k) = Pick(F(base, k), F(ours, k), F(theirs, k))
                     /\ ~Clash(F(base, k), F(ours, k), F(theirs, k))
  BY MergedHeaderFields
<1>3. EmptyRaw = NoText
  BY GdHeaderAssumption
<1>4. \A k \in Key : \A side \in {ours, theirs} : F(side, k) # F(base, k) => F(r, k) = F(side, k)
  <2> HIDE DEF F
  <2> QED
    BY <1>2 DEF Pick, Clash
<1>5. \A s \in {base, ours, theirs, r} : s.rawHeader = EmptyRaw => \A k \in Key : HeaderFields(s)[k] = F(s, k)
  <2> TAKE s \in {base, ours, theirs, r}
  <2> HAVE s.rawHeader = EmptyRaw
  <2> TAKE k \in Key
  <2>1. s.rawHeader \in Text /\ s.header \in FieldMap
    BY <1>1
  <2> QED
    BY <2>1, WrittenIs, NormFieldsAre
<1>6. CASE b = EmptyRaw
  <2>1. b = NoText /\ o = NoText /\ t = NoText
    BY <1>3, <1>6
  <2>2. TextHas(r.rawHeader, MergedValues(b, o, t))
    BY <2>1, <1>1, NoTextParses, MergedRawText DEF MergedHeader
  <2>3. \A k \in Key : MergedValues(b, o, t)[k] = MergedValue(k, Nil, Nil, Nil)
    BY <2>1, NoTextParses DEF MergedValues
  <2>4. \A k \in Key : MergedValues(b, o, t)[k] = Nil
    BY <2>3, MergedValueIs
  <2>5. r.rawHeader = EmptyRaw
    BY <2>2, <2>4, <1>3 DEF TextHas
  <2>6. \A s \in {base, ours, theirs, r} : \A k \in Key : HeaderFields(s)[k] = F(s, k)
    BY <2>1, <2>5, <1>3, <1>5
  <2> HIDE DEF F
  <2> QED
    BY <2>6, <1>4 DEF SameSetting
<1>7. CASE b # EmptyRaw /\ Parses(b) /\ Parses(o) /\ Parses(t)
  <2> DEFINE V(x, k) == ValueIn(x, k)
             v == MergedValues(b, o, t)
  <2>1. o # EmptyRaw /\ t # EmptyRaw
    BY <1>7
  <2>2. \A k \in Key :
          /\ HeaderFields(base)[k] = NormValue(V(b, k)) /\ F(base, k) = NormValue(V(b, k))
          /\ HeaderFields(ours)[k] = NormValue(V(o, k)) /\ F(ours, k) = NormValue(V(o, k))
          /\ HeaderFields(theirs)[k] = NormValue(V(t, k)) /\ F(theirs, k) = NormValue(V(t, k))
          /\ V(b, k) \in Str \cup {Nil} /\ V(o, k) \in Str \cup {Nil} /\ V(t, k) \in Str \cup {Nil}
    BY <1>7, <2>1, ReadHeader DEF MergedHeader
  <2>3. TextHas(r.rawHeader, v)
    BY <1>1, <1>7, MergedRawText DEF MergedHeader
  <2>4. HeadersAgree(b, o, t)
    BY <1>7 DEF RawHeadersAgree
  <2>5. CASE r.rawHeader = EmptyRaw
    <3>1. \A k \in Key : HeaderFields(r)[k] = F(r, k)
      BY <1>5, <2>5
    <3> HIDE DEF F, V
    <3> QED
      BY <3>1, <2>2, <1>4 DEF SameSetting
  <2>6. CASE r.rawHeader # EmptyRaw
    <3>1. \A k \in Key : HeaderFields(r)[k] = NormValue(v[k])
      BY <2>3, <2>6, <1>1, WrittenIs DEF TextHas
    <3>2. \A k \in Key : v[k] = MergedValue(k, V(b, k), V(o, k), V(t, k))
      BY DEF MergedValues
    <3>3. ASSUME NEW k \in Key, k # ColorKey, NEW x \in {V(o, k), V(t, k)}, NormValue(x) # NormValue(V(b, k))
          PROVE  v[k] = x
      <4>1. v[k] = Pick(V(b, k), V(o, k), V(t, k))
        BY <3>2, <3>3 DEF MergedValue
      <4>2. ~Clash(V(b, k), V(o, k), V(t, k))
        BY <3>3, <2>4 DEF HeadersAgree
      <4>3. x # V(b, k)
        BY <3>3
      <4> QED
        BY <3>3, <4>1, <4>2, <4>3 DEF Pick, Clash
    <3>4. ASSUME NEW k \in Key, k = ColorKey, NEW x \in {V(o, k), V(t, k)}, NormValue(x) # NormValue(V(b, k))
          PROVE  SameSetting(k, NormValue(v[k]), NormValue(x))
      <4>1. v[k] = MergeColors(V(b, k), V(o, k), V(t, k)).value
        BY <3>2, <3>4 DEF MergedValue
      <4>2. ColorsAgree(V(b, k), V(o, k), V(t, k))
        BY <3>4, <2>4 DEF HeadersAgree
      <4>3. ~Clash(NormValue(V(b, k)), NormValue(V(o, k)), NormValue(V(t, k)))
        BY <1>2, <2>2
      <4>4. V(b, k) \in Str \cup {Nil} /\ V(o, k) \in Str \cup {Nil} /\ V(t, k) \in Str \cup {Nil}
        BY <2>2
      <4> HIDE DEF V, v
      <4> QED
        BY <3>4, <4>1, <4>2, <4>3, <4>4, ColorsKept
    <3> HIDE DEF F, V, v
    <3>5. ASSUME NEW k \in Key, NEW x \in {V(o, k), V(t, k)}, NormValue(x) # NormValue(V(b, k))
          PROVE  SameSetting(k, NormValue(v[k]), NormValue(x))
      BY <3>3, <3>4, <3>5 DEF SameSetting
    <3>6. \A side \in {ours, theirs}, k \in Key :
            \E x \in {V(o, k), V(t, k)} : HeaderFields(side)[k] = NormValue(x)
      BY <2>2
    <3> QED
      BY <3>1, <3>5, <3>6, <2>2
  <2> QED
    BY <2>5, <2>6
<1>8. CASE b # EmptyRaw /\ ~(Parses(b) /\ Parses(o) /\ Parses(t))
  <2>1. o # EmptyRaw /\ t # EmptyRaw
    BY <1>8
  <2>2. r.rawHeader = Pick(b, o, t)
    BY <1>1, <1>8, MergedRawText DEF MergedHeader
  <2>3. ~Clash(b, o, t)
    BY <1>8 DEF RawHeadersAgree
  <2>4. \A s \in {base, ours, theirs, r} : WrittenHeader(s) = s.rawHeader
    <3>1. \A s \in {base, ours, theirs, r} : s.rawHeader # EmptyRaw
      BY <1>8, <2>1, <2>2 DEF Pick
    <3> QED
      BY <3>1 DEF WrittenHeader
  <2>5. \A s, z \in {base, ours, theirs, r} : s.rawHeader = z.rawHeader => HeaderFields(s) = HeaderFields(z)
    BY <2>4 DEF HeaderFields
  <2>6. ASSUME NEW side \in {ours, theirs}, NEW k \in Key, HeaderFields(side)[k] # HeaderFields(base)[k]
        PROVE  HeaderFields(r)[k] = HeaderFields(side)[k]
    <3>1. side.rawHeader # b
      BY <2>5, <2>6
    <3>2. r.rawHeader = side.rawHeader
      BY <3>1, <2>2, <2>3 DEF Pick, Clash
    <3> QED
      BY <3>2, <2>5
  <2> QED
    BY <2>6 DEF SameSetting
<1> QED
  BY <1>6, <1>7, <1>8

-------------------------------------------------------------------------------
(***************************************************************************)
(* The invariant of imports                                                *)
(***************************************************************************)

\* The inductive invariant: an import is the merge of the three states, whose new uuids fit.
ImportInv ==
    /\ {parent, target, head} \subseteq LevelState
    /\ HeaderIsRead(parent) /\ HeaderIsRead(target) /\ HeaderIsRead(head)
    /\ done = "import" =>
        /\ Fits(parent, head, target)
        /\ result = MergeStates3Way(parent, head, target).state
        /\ clashes = MergeStates3Way(parent, head, target).conflicts

LEMMA ImportInvariant == Spec => []ImportInv
<1>1. Init => ImportInv
  BY StatesAssumption DEF Init, ImportInv
<1>2. ImportInv /\ [Next]_vars => ImportInv'
  <2> SUFFICES ASSUME ImportInv, [Next]_vars PROVE ImportInv'
    OBVIOUS
  <2> USE DEF HeaderIsRead
  <2>1. CASE Rebuild
    BY <2>1 DEF Rebuild, ImportInv
  <2>2. CASE Revert
    BY <2>2 DEF Revert, ImportInv
  <2>3. CASE Import
    BY <2>3 DEF Import, ImportInv
  <2>4. CASE UNCHANGED vars
    BY <2>4 DEF vars, ImportInv
  <2> QED
    BY <2>1, <2>2, <2>3, <2>4 DEF Next
<1> QED
  BY <1>1, <1>2, PTL DEF Spec

LEMMA MergedState ==
    ASSUME NEW base, NEW ours, NEW theirs
    PROVE  LET s == MergeStates3Way(base, ours, theirs).state
           IN  /\ s.rawHeader = MergedRawHeader(base.rawHeader, ours.rawHeader, theirs.rawHeader).text
               /\ s.header = MergedFields(base.header, ours.header, theirs.header)
               /\ s.objects = MergeObjects(base.objects, ours.objects, theirs.objects).objects
BY DEF MergeStates3Way

\* A clean import is a merge without clashes, of the header and of the objects.
LEMMA CleanImportIs ==
    ASSUME ImportInv, CleanImport
    PROVE  /\ StatesAgree(parent, head, target)
           /\ HeaderFieldsAgree(parent, head, target)
           /\ MergedHeader(result, parent, head, target)
           /\ CleanMerge(result, parent, head, target)
<1>1. done = "import" /\ clashes = 0 /\ NewUuidsFree(parent, head, target)
  BY DEF CleanImport
<1>2. /\ Fits(parent, head, target)
      /\ result = MergeStates3Way(parent, head, target).state
      /\ MergeStates3Way(parent, head, target).conflicts = 0
  BY <1>1 DEF ImportInv
<1>3. parent.objects \in ObjectMap /\ head.objects \in ObjectMap /\ target.objects \in ObjectMap
  BY DEF ImportInv, LevelState
<1>4. StatesAgree(parent, head, target)
  BY <1>2, <1>3, MergeClashes
<1>5. /\ result.rawHeader = MergedRawHeader(parent.rawHeader, head.rawHeader, target.rawHeader).text
      /\ result.header = MergedFields(parent.header, head.header, target.header)
      /\ result.objects = MergeObjects(parent.objects, head.objects, target.objects).objects
  BY <1>2, MergedState
<1>6. MergedHeader(result, parent, head, target)
  BY <1>5 DEF MergedHeader, ImportInv
<1>7. CleanMerge(result, parent, head, target)
  BY <1>1, <1>2, <1>3, <1>4, <1>5 DEF CleanMerge, StatesAgree
<1> QED
  BY <1>4, <1>6, <1>7 DEF HeaderFieldsAgree, StatesAgree

\* A merge that reports no conflict may be trusted blindly (the import goes on without asking): for any
\* level states, the work of both sides is in the result and nothing else changed.
THEOREM CleanImportCorrect == Spec => []CleanImportKeepsBothSides
<1>1. ImportInv => CleanImportKeepsBothSides
  <2> SUFFICES ASSUME ImportInv, CleanImport
               PROVE  /\ SideKept(Norm(parent), Norm(head), Norm(result))
                      /\ SideKept(Norm(parent), Norm(target), Norm(result))
                      /\ \A u \in Uuid :
                            head.objects[u] = parent.objects[u] /\ target.objects[u] = parent.objects[u]
                            => Norm(result).objects[u] = Norm(parent).objects[u]
                               \/ u \in NewUuids(parent, head, target)
                      /\ SameHeaderForm => \A side \in {head, target}, k \in Key :
                            HeaderFields(side)[k] # HeaderFields(parent)[k] =>
                                SameSetting(k, HeaderFields(result)[k], HeaderFields(side)[k])
    BY DEF CleanImportKeepsBothSides
  <2>1. /\ SideKept(Norm(parent), Norm(head), Norm(result))
        /\ SideKept(Norm(parent), Norm(target), Norm(result))
        /\ \A u \in Uuid :
              head.objects[u] = parent.objects[u] /\ target.objects[u] = parent.objects[u]
              => Norm(result).objects[u] = Norm(parent).objects[u] \/ u \in NewUuids(parent, head, target)
    BY CleanImportIs, ObjectsKept
  <2>2. ASSUME SameHeaderForm
        PROVE  \A side \in {head, target}, k \in Key :
                  HeaderFields(side)[k] # HeaderFields(parent)[k] =>
                      SameSetting(k, HeaderFields(result)[k], HeaderFields(side)[k])
    <3>1. MergedHeader(result, parent, head, target) /\ HeaderFieldsAgree(parent, head, target)
          /\ RawHeadersAgree(parent.rawHeader, head.rawHeader, target.rawHeader)
      BY CleanImportIs DEF StatesAgree
    <3>2. \A s, t \in {parent, head, target} : (s.rawHeader = EmptyRaw) = (t.rawHeader = EmptyRaw)
      BY <2>2 DEF SameHeaderForm
    <3> QED
      BY <3>1, <3>2, HeaderKept
  <2> QED
    BY <2>1, <2>2
<1> QED
  BY <1>1, ImportInvariant, PTL

\* Whatever is merged, with conflicts or not, the result is a level: the texts of mergeHeaders3Way are
\* texts, and new objects stay among the uuids.
THEOREM ThreeStatesTypes == Spec => []TypeOK
<1>1. Init => TypeOK
  <2> SUFFICES ASSUME Init PROVE TypeOK
    OBVIOUS
  <2>1. EmptyState \in LevelState /\ LevelState \subseteq Level
    BY EmptyStateType, GdHeaderAssumption DEF LevelState, Level
  <2> QED
    BY <2>1, StatesAssumption DEF Init, TypeOK
<1>2. TypeOK /\ ImportInv /\ ImportInv' /\ [Next]_vars => TypeOK'
  <2> SUFFICES ASSUME TypeOK, ImportInv, ImportInv', [Next]_vars PROVE TypeOK'
    OBVIOUS
  <2>1. parent \in LevelState /\ target \in LevelState /\ head \in LevelState
    BY DEF TypeOK
  <2>2. LevelState \subseteq Level
    BY GdHeaderAssumption DEF LevelState, Level
  <2>3. CASE Rebuild
    <3>1. Apply(head, Diff(parent, target)) \in LevelState
      BY <2>1, DiffType, ApplyType
    <3> QED
      BY <2>2, <2>3, <3>1 DEF Rebuild, TypeOK
  <2>4. CASE Revert
    <3>1. Apply(head, Diff(target, parent)) \in LevelState
      BY <2>1, DiffType, ApplyType
    <3> QED
      BY <2>2, <2>4, <3>1 DEF Revert, TypeOK
  <2>5. CASE Import
    <3> DEFINE m == MergeStates3Way(parent, head, target)
    <3>1. result' = m.state /\ clashes' = m.conflicts
      BY <2>5 DEF Import
    <3>2. parent.objects \in ObjectMap /\ head.objects \in ObjectMap /\ target.objects \in ObjectMap
      BY <2>1 DEF LevelState
    <3>3. m.conflicts \in Nat
      BY <3>2, MergeClashes
    <3>4. m.state = [rawHeader |-> m.state.rawHeader, header |-> m.state.header, objects |-> m.state.objects]
      BY DEF MergeStates3Way
    <3>5. m.state.rawHeader \in Text /\ m.state.header \in FieldMap
      <4>1. MergedHeader(m.state, parent, head, target)
        BY MergedState DEF MergedHeader, ImportInv
      <4> HIDE DEF m
      <4> QED
        BY <4>1, HeaderTypes
    <3>6. m.state.objects \in ObjectMap
      <4>1. m.state.objects = MergeObjects(parent.objects, head.objects, target.objects).objects
        BY MergedState
      <4>2. MergeObjects(parent.objects, head.objects, target.objects) \in Acc
        BY <3>2, MergedObjects DEF MergeOutcome
      <4> QED
        BY <4>1, <4>2 DEF Acc
    <3> HIDE DEF m
    <3>7. m.state \in Level
      BY <3>4, <3>5, <3>6 DEF Level
    <3> QED
      BY <2>5, <3>1, <3>3, <3>7 DEF Import, TypeOK
  <2>6. CASE UNCHANGED vars
    BY <2>6 DEF vars, TypeOK
  <2> QED
    BY <2>3, <2>4, <2>5, <2>6 DEF Next
<1> QED
  BY <1>1, <1>2, ImportInvariant, PTL DEF Spec

-------------------------------------------------------------------------------
(***************************************************************************)
(* Settings that one side changed                                          *)
(***************************************************************************)

LEMMA SameRecords ==
    ASSUME NEW v \in Str \cup {Nil}, NEW w \in Str \cup {Nil}, NormValue(v) = NormValue(w),
           Colors(v) # Malformed
    PROVE  Colors(w) # Malformed /\ \A c \in Channel : RecordAt(Colors(w), c) = RecordAt(Colors(v), c)
<1>1. Colors(Nil) = Nil /\ Nil # Malformed
  BY GdHeaderAssumption DEF Colors
<1>2. Colors(Empty) # Malformed
  BY DifferAssumption, ChannelsAssumption DEF Colors, Readable
<1>3. Colors(w) # Malformed
  BY <1>1, <1>2 DEF NormValue
<1> QED
  BY <1>3, NormRecords

\* The plain settings that only one side changed, in a merge of three texts that parse.
LEMMA OneSidedSettings ==
    ASSUME NEW r, NEW base, NEW ours, NEW theirs, MergedHeader(r, base, ours, theirs),
           \A s \in {base, ours, theirs} : s.rawHeader # EmptyRaw /\ Parses(s.rawHeader),
           NEW one \in {ours, theirs}, NEW other \in {ours, theirs}, one # other,
           NEW k \in Key, k # ColorKey, ValueIn(other.rawHeader, k) = ValueIn(base.rawHeader, k)
    PROVE  ValueOf(FieldsOf(WrittenHeader(r))[k]) = ValueOf(ValueIn(one.rawHeader, k))
<1> DEFINE b == ValueIn(base.rawHeader, k)  o == ValueIn(ours.rawHeader, k)  t == ValueIn(theirs.rawHeader, k)
           x == ValueIn(one.rawHeader, k)
           w == FieldsOf(WrittenHeader(r))[k]
           v == MergedValues(base.rawHeader, ours.rawHeader, theirs.rawHeader)
<1>1. /\ base.rawHeader \in Text /\ ours.rawHeader \in Text /\ theirs.rawHeader \in Text
      /\ base.header \in FieldMap /\ ours.header \in FieldMap /\ theirs.header \in FieldMap
      /\ r.rawHeader \in Text /\ r.header \in FieldMap
  BY HeaderTypes
<1>2. base \in LevelState /\ ours \in LevelState /\ theirs \in LevelState
      /\ HeaderIsRead(base) /\ HeaderIsRead(ours) /\ HeaderIsRead(theirs)
  BY DEF MergedHeader
<1>3. /\ b \in Str \cup {Nil} /\ o \in Str \cup {Nil} /\ t \in Str \cup {Nil}
      /\ NormFields(base.header)[k] = NormValue(b)
      /\ NormFields(ours.header)[k] = NormValue(o)
      /\ NormFields(theirs.header)[k] = NormValue(t)
  BY <1>2, ReadHeader
<1>4. (x = t /\ o = b) \/ (x = o /\ t = b)
  OBVIOUS
<1>5. TextHas(r.rawHeader, v)
  BY <1>1, MergedRawText DEF MergedHeader
<1>6. v[k] = Pick(b, o, t)
  BY DEF MergedValues, MergedValue
<1>7. v[k] = x
  <2> HIDE DEF b, o, t, x, v
  <2> QED
    BY <1>4, <1>6 DEF Pick
<1>8. x \in Str \cup {Nil}
  BY <1>3, <1>4
<1>9. CASE r.rawHeader # EmptyRaw
  <2>1. w \in Str \cup {Nil} /\ NormValue(w) = NormValue(v[k])
    BY <1>1, <1>5, <1>9, WrittenIs DEF TextHas
  <2> HIDE DEF w, v, x
  <2>2. ValueOf(w) = ValueOf(x)
    BY <2>1, <1>7, <1>8, NormValues
  <2> QED
    BY <2>2 DEF w, x
<1>10. CASE r.rawHeader = EmptyRaw
  <2>1. r.rawHeader = NoText
    BY <1>10, GdHeaderAssumption
  <2>2. x = Nil
    BY <2>1, <1>5, <1>7 DEF TextHas
  <2>3. w \in Str \cup {Nil} /\ NormValue(w) = NormValue(r.header[k])
    BY <1>1, <1>10, WrittenIs
  <2> DEFINE B == base.header[k]  O == ours.header[k]  T == theirs.header[k]
  <2>4. /\ B \in Str \cup {Nil} /\ O \in Str \cup {Nil} /\ T \in Str \cup {Nil}
        /\ NormValue(B) = NormValue(b) /\ NormValue(O) = NormValue(o) /\ NormValue(T) = NormValue(t)
    BY <1>1, <1>3, NormFieldsAre
  <2>5. r.header[k] = MergedField(B, O, T)
    BY DEF MergedHeader, MergedFields
  <2>6. (x = t /\ NormValue(O) = NormValue(B)) \/ (x = o /\ NormValue(T) = NormValue(B))
    BY <1>4, <2>4
  <2> HIDE DEF b, o, t, x, w, v, B, O, T
  <2>7. ~Clash(ValueOf(B), ValueOf(O), ValueOf(T))
    <3>1. (NormValue(O) = NormValue(B) => ValueOf(O) = ValueOf(B))
          /\ (NormValue(T) = NormValue(B) => ValueOf(T) = ValueOf(B))
      BY <2>4, NormValues
    <3> QED
      BY <2>6, <3>1 DEF Clash
  <2>8. NormValue(MergedField(B, O, T)) = Pick(NormValue(B), NormValue(O), NormValue(T))
    BY <2>4, <2>7, MergedFieldIs
  <2>9. NormValue(w) = NormValue(x)
    BY <2>3, <2>4, <2>5, <2>6, <2>8 DEF Pick
  <2>10. ValueOf(w) = ValueOf(x)
    BY <2>3, <2>9, <1>8, NormValues
  <2> QED
    BY <2>10 DEF w, x
<1> QED
  BY <1>9, <1>10

\* The channels that only one side changed.
LEMMA OneSidedChannels ==
    ASSUME NEW r, NEW base, NEW ours, NEW theirs, MergedHeader(r, base, ours, theirs),
           \A s \in {base, ours, theirs} : s.rawHeader # EmptyRaw /\ Parses(s.rawHeader)
                /\ Colors(ValueIn(s.rawHeader, ColorKey)) # Malformed,
           r.rawHeader # EmptyRaw,
           NEW one \in {ours, theirs}, NEW other \in {ours, theirs}, one # other, NEW c \in Channel,
           RecordAt(Colors(ValueIn(other.rawHeader, ColorKey)), c) =
                RecordAt(Colors(ValueIn(base.rawHeader, ColorKey)), c)
    PROVE  RecordAt(Colors(FieldsOf(WrittenHeader(r))[ColorKey]), c) =
                RecordAt(Colors(ValueIn(one.rawHeader, ColorKey)), c)
<1> DEFINE b == ValueIn(base.rawHeader, ColorKey)
           o == ValueIn(ours.rawHeader, ColorKey)
           t == ValueIn(theirs.rawHeader, ColorKey)
           w == FieldsOf(WrittenHeader(r))[ColorKey]
           y == MergedValues(base.rawHeader, ours.rawHeader, theirs.rawHeader)[ColorKey]
           rec(x) == RecordAt(Colors(x), c)
<1>1. /\ base.rawHeader \in Text /\ ours.rawHeader \in Text /\ theirs.rawHeader \in Text
      /\ r.rawHeader \in Text /\ r.header \in FieldMap
  BY HeaderTypes
<1>2. ColorKey \in Key
  BY ColorKeyAssumption
<1>3. b \in Str \cup {Nil} /\ o \in Str \cup {Nil} /\ t \in Str \cup {Nil}
  BY <1>1, <1>2, KeysOfIs
<1>4. y = MergeColors(b, o, t).value
  BY <1>2 DEF MergedValues, MergedValue
<1>5. Colors(b) # Malformed /\ Colors(o) # Malformed /\ Colors(t) # Malformed
  OBVIOUS
<1>6. ColorsMerged(y, b, o, t)
  <2> HIDE DEF b, o, t, y
  <2> QED
    BY <1>3, <1>4, <1>5, MergedColors
<1>7. y \in Str \cup {Nil} /\ Colors(y) # Malformed /\ rec(y) = Pick(rec(b), rec(o), rec(t))
  BY <1>6 DEF ColorsMerged
<1>8. TextHas(r.rawHeader, MergedValues(base.rawHeader, ours.rawHeader, theirs.rawHeader))
  BY <1>1, MergedRawText DEF MergedHeader
<1>9. w \in Str \cup {Nil} /\ NormValue(w) = NormValue(y)
  BY <1>1, <1>2, <1>8, WrittenIs DEF TextHas
<1>10. rec(w) = rec(y)
  <2> HIDE DEF w, y
  <2> QED
    BY <1>7, <1>9, SameRecords
<1>11. LET x == ValueIn(one.rawHeader, ColorKey)
       IN  (x = t /\ rec(o) = rec(b)) \/ (x = o /\ rec(t) = rec(b))
  OBVIOUS
<1> QED
  BY <1>7, <1>10, <1>11 DEF Pick

\* mergeHeaders3Way loses no setting and no channel that one side changed and the other left alone, in
\* any three headers and whatever else is in conflict.
THEOREM OneSidedChangesCorrect == Spec => []OneSidedHeaderChangesArrive
<1>1. ImportInv => OneSidedHeaderChangesArrive
  <2> SUFFICES ASSUME ImportInv, done = "import",
                      \A s \in {parent, head, target} : s.rawHeader # EmptyRaw /\ Parses(s.rawHeader),
                      NEW one \in {head, target}, NEW other \in {head, target}
               PROVE  /\ \A k \in Key \ {ColorKey} :
                            FieldsOf(other.rawHeader)[k] = FieldsOf(parent.rawHeader)[k] =>
                                ValueOf(FieldsOf(WrittenHeader(result))[k]) = ValueOf(FieldsOf(one.rawHeader)[k])
                                \/ one = other
                      /\ /\ Colors(FieldsOf(parent.rawHeader)[ColorKey]) # Malformed
                         /\ Colors(FieldsOf(head.rawHeader)[ColorKey]) # Malformed
                         /\ Colors(FieldsOf(target.rawHeader)[ColorKey]) # Malformed
                         /\ result.rawHeader # EmptyRaw
                         => \A c \in Channel :
                              RecordAt(Colors(FieldsOf(other.rawHeader)[ColorKey]), c) =
                                RecordAt(Colors(FieldsOf(parent.rawHeader)[ColorKey]), c) =>
                              \/ RecordAt(Colors(FieldsOf(WrittenHeader(result))[ColorKey]), c) =
                                   RecordAt(Colors(FieldsOf(one.rawHeader)[ColorKey]), c)
                              \/ one = other
    BY DEF OneSidedHeaderChangesArrive
  <2>1. MergedHeader(result, parent, head, target)
    BY MergedState DEF MergedHeader, ImportInv
  <2>2. \A s \in {parent, head, target} : s.rawHeader \in Text
    BY <2>1, HeaderTypes
  <2>3. \A s \in {parent, head, target} : \A k \in Key : FieldsOf(s.rawHeader)[k] = ValueIn(s.rawHeader, k)
    BY <2>2, ParsedIs
  <2>4. ColorKey \in Key
    BY ColorKeyAssumption
  <2>5. ASSUME NEW k \in Key \ {ColorKey}, FieldsOf(other.rawHeader)[k] = FieldsOf(parent.rawHeader)[k],
               one # other
        PROVE  ValueOf(FieldsOf(WrittenHeader(result))[k]) = ValueOf(FieldsOf(one.rawHeader)[k])
    <3>1. ValueIn(other.rawHeader, k) = ValueIn(parent.rawHeader, k)
      BY <2>3, <2>5
    <3>2. ValueOf(FieldsOf(WrittenHeader(result))[k]) = ValueOf(ValueIn(one.rawHeader, k))
      BY <2>1, <2>5, <3>1, OneSidedSettings
    <3> QED
      BY <2>3, <3>2
  <2>6. ASSUME Colors(FieldsOf(parent.rawHeader)[ColorKey]) # Malformed,
               Colors(FieldsOf(head.rawHeader)[ColorKey]) # Malformed,
               Colors(FieldsOf(target.rawHeader)[ColorKey]) # Malformed,
               result.rawHeader # EmptyRaw, NEW c \in Channel, one # other,
               RecordAt(Colors(FieldsOf(other.rawHeader)[ColorKey]), c) =
                  RecordAt(Colors(FieldsOf(parent.rawHeader)[ColorKey]), c)
        PROVE  RecordAt(Colors(FieldsOf(WrittenHeader(result))[ColorKey]), c) =
                  RecordAt(Colors(FieldsOf(one.rawHeader)[ColorKey]), c)
    <3>1. \A s \in {parent, head, target} : s.rawHeader # EmptyRaw /\ Parses(s.rawHeader)
                /\ Colors(ValueIn(s.rawHeader, ColorKey)) # Malformed
      BY <2>3, <2>4, <2>6
    <3>2. RecordAt(Colors(ValueIn(other.rawHeader, ColorKey)), c) =
                RecordAt(Colors(ValueIn(parent.rawHeader, ColorKey)), c)
      BY <2>3, <2>4, <2>6
    <3>3. RecordAt(Colors(FieldsOf(WrittenHeader(result))[ColorKey]), c) =
                RecordAt(Colors(ValueIn(one.rawHeader, ColorKey)), c)
      BY <2>1, <2>6, <3>1, <3>2, OneSidedChannels
    <3> QED
      BY <2>3, <2>4, <3>3
  <2> QED
    BY <2>5, <2>6
<1> QED
  BY <1>1, ImportInvariant, PTL

-------------------------------------------------------------------------------
(***************************************************************************)
(* Who imports whom                                                        *)
(***************************************************************************)

\* Where no two changes clash, the sides can be exchanged.
LEMMA PickEither ==
    ASSUME NEW b, NEW o, NEW t
    PROVE  /\ Clash(b, o, t) <=> Clash(b, t, o)
           /\ ~Clash(b, o, t) => Pick(b, o, t) = Pick(b, t, o)
BY DEF Pick, Clash

LEMMA ColorsEither ==
    ASSUME NEW b \in Str \cup {Nil}, NEW o \in Str \cup {Nil}, NEW t \in Str \cup {Nil}, ColorsAgree(b, o, t)
    PROVE  ColorsAgree(b, t, o) /\ MergeColors(b, o, t).value = MergeColors(b, t, o).value
<1> DEFINE B == Colors(b)  O == Colors(o)  T == Colors(t)
<1>1. /\ B # Malformed /\ O # Malformed /\ T # Malformed
      /\ \A c \in Channel : ~Clash(RecordAt(B, c), RecordAt(O, c), RecordAt(T, c))
  BY DEF ColorsAgree
<1>2. \A c \in Channel : ~Clash(RecordAt(B, c), RecordAt(T, c), RecordAt(O, c))
  BY <1>1, PickEither
<1>3. ColorsAgree(b, t, o)
  BY <1>1, <1>2 DEF ColorsAgree
<1>4. /\ MergeColors(b, o, t).value = ChannelText(MergedChannels(B, O, T))
      /\ MergeColors(b, t, o).value = ChannelText(MergedChannels(B, T, O))
  BY <1>1, MergedColors
<1>5. MergedChannels(B, O, T) = MergedChannels(B, T, O)
  <2> HIDE DEF B, O, T
  <2>1. CASE Clash(B, O, T)
    <3>1. Clash(B, T, O)
      BY <2>1, PickEither
    <3>2. \A c \in Channel : Pick(RecordAt(B, c), RecordAt(O, c), RecordAt(T, c))
                             = Pick(RecordAt(B, c), RecordAt(T, c), RecordAt(O, c))
      BY <1>1, PickEither
    <3> QED
      BY <2>1, <3>1, <3>2 DEF MergedChannels
  <2>2. CASE ~Clash(B, O, T)
    BY <2>2, PickEither DEF MergedChannels
  <2> QED
    BY <2>1, <2>2
<1> QED
  BY <1>3, <1>4, <1>5

LEMMA ObjectEither ==
    ASSUME NEW b \in FieldMap \cup {Nil}, NEW o \in FieldMap \cup {Nil}, NEW t \in FieldMap \cup {Nil},
           ~ObjectClash(b, o, t)
    PROVE  /\ ~ObjectClash(b, t, o)
           /\ ~TwoVersions(b, o, t) => NormObject(MergedObject(b, o, t)) = NormObject(MergedObject(b, t, o))
<1>1. ~ObjectClash(b, t, o)
  BY DEF ObjectClash, Clash
<1>2. CASE b = Nil
  BY <1>1, <1>2 DEF MergedObject, TwoVersions
<1>3. CASE b # Nil /\ (o = Nil \/ t = Nil)
  BY <1>1, <1>3 DEF MergedObject, ObjectClash
<1>4. CASE b # Nil /\ o # Nil /\ t # Nil
  <2> DEFINE m == MergedFields(b, o, t)  n == MergedFields(b, t, o)
  <2>1. b \in FieldMap /\ o \in FieldMap /\ t \in FieldMap
    BY <1>4
  <2>2. \A k \in Key : ~Clash(ValueOf(b[k]), ValueOf(o[k]), ValueOf(t[k]))
    BY <1>4 DEF ObjectClash
  <2>3. \A k \in Key : ~Clash(ValueOf(b[k]), ValueOf(t[k]), ValueOf(o[k]))
    BY <1>1, <1>4 DEF ObjectClash
  <2>4. /\ m \in FieldMap
        /\ \A k \in Key : /\ NormFields(m)[k] = Pick(NormFields(b)[k], NormFields(o)[k], NormFields(t)[k])
                          /\ ~Clash(NormFields(b)[k], NormFields(o)[k], NormFields(t)[k])
    BY <2>1, <2>2, MergedFieldsAre
  <2>5. /\ n \in FieldMap
        /\ \A k \in Key : NormFields(n)[k] = Pick(NormFields(b)[k], NormFields(t)[k], NormFields(o)[k])
    BY <2>1, <2>3, MergedFieldsAre
  <2>6. MergedObject(b, o, t) = m /\ MergedObject(b, t, o) = n
    BY <1>4 DEF MergedObject
  <2> HIDE DEF m, n
  <2>7. \A k \in Key : NormFields(m)[k] = NormFields(n)[k]
    BY <2>4, <2>5, PickEither
  <2>8. NormFields(m) \in FieldMap /\ NormFields(n) \in FieldMap /\ m # Nil /\ n # Nil
    BY <2>4, <2>5, NormFieldsAre
  <2>9. NormFields(m) = NormFields(n)
    BY <2>7, <2>8 DEF FieldMap
  <2> QED
    BY <1>1, <2>6, <2>8, <2>9 DEF NormObject
<1> QED
  BY <1>2, <1>3, <1>4

\* What merges without conflicts does so the other way round.
LEMMA StatesAgreeEither ==
    ASSUME NEW base \in LevelState, NEW ours \in LevelState, NEW theirs \in LevelState,
           StatesAgree(base, ours, theirs)
    PROVE  StatesAgree(base, theirs, ours)
<1>1. \A k \in Key : ~Clash(ValueOf(base.header[k]), ValueOf(theirs.header[k]), ValueOf(ours.header[k]))
  BY PickEither DEF StatesAgree
<1>2. \A u \in Uuid : ~ObjectClash(base.objects[u], theirs.objects[u], ours.objects[u])
  <2>1. \A u \in Uuid : /\ base.objects[u] \in FieldMap \cup {Nil} /\ ours.objects[u] \in FieldMap \cup {Nil}
                        /\ theirs.objects[u] \in FieldMap \cup {Nil}
    BY DEF LevelState, ObjectMap
  <2>2. \A u \in Uuid : ~ObjectClash(base.objects[u], ours.objects[u], theirs.objects[u])
    BY DEF StatesAgree
  <2> QED
    BY <2>1, <2>2, ObjectEither
<1>3. RawHeadersAgree(base.rawHeader, theirs.rawHeader, ours.rawHeader)
  <2> DEFINE b == base.rawHeader  o == ours.rawHeader  t == theirs.rawHeader
  <2>1. b \in Text /\ o \in Text /\ t \in Text
    BY GdHeaderAssumption DEF LevelState
  <2>2. RawHeadersAgree(b, o, t)
    BY DEF StatesAgree
  <2>3. ValueIn(b, ColorKey) \in Str \cup {Nil} /\ ValueIn(o, ColorKey) \in Str \cup {Nil}
        /\ ValueIn(t, ColorKey) \in Str \cup {Nil}
    BY <2>1, KeysOfIs, ColorKeyAssumption
  <2> HIDE DEF b, o, t
  <2>4. HeadersAgree(b, o, t) => HeadersAgree(b, t, o)
    BY <2>3, PickEither, ColorsEither DEF HeadersAgree
  <2>5. RawHeadersAgree(b, t, o)
    BY <2>2, <2>4, PickEither DEF RawHeadersAgree
  <2> QED
    BY <2>5 DEF b, o, t
<1> QED
  BY <1>1, <1>2, <1>3 DEF StatesAgree

\* The header that is written, after a merge one way and the other.
LEMMA HeaderEither ==
    ASSUME NEW r, NEW q, NEW base, NEW ours, NEW theirs,
           MergedHeader(r, base, ours, theirs), MergedHeader(q, base, theirs, ours),
           StatesAgree(base, ours, theirs), StatesAgree(base, theirs, ours)
    PROVE  HeaderFields(q) = HeaderFields(r)
<1> DEFINE b == base.rawHeader  o == ours.rawHeader  t == theirs.rawHeader
           F(s, k) == NormFields(s.header)[k]
<1>1. /\ b \in Text /\ o \in Text /\ t \in Text
      /\ r.rawHeader \in Text /\ r.header \in FieldMap /\ q.rawHeader \in Text /\ q.header \in FieldMap
  BY HeaderTypes
<1>2. HeaderFieldsAgree(base, ours, theirs) /\ HeaderFieldsAgree(base, theirs, ours)
      /\ RawHeadersAgree(b, o, t)
  BY DEF StatesAgree, HeaderFieldsAgree
<1>3. \A k \in Key : F(r, k) = F(q, k)
  <2>1. \A k \in Key : /\ F(r, k) = Pick(F(base, k), F(ours, k), F(theirs, k))
                       /\ ~Clash(F(base, k), F(ours, k), F(theirs, k))
    BY <1>2, MergedHeaderFields
  <2>2. \A k \in Key : F(q, k) = Pick(F(base, k), F(theirs, k), F(ours, k))
    BY <1>2, MergedHeaderFields
  <2> HIDE DEF F
  <2> QED
    BY <2>1, <2>2, PickEither
<1>4. r.rawHeader = EmptyRaw /\ q.rawHeader = EmptyRaw => \A k \in Key : HeaderFields(r)[k] = HeaderFields(q)[k]
  <2> HAVE r.rawHeader = EmptyRaw /\ q.rawHeader = EmptyRaw
  <2>1. \A k \in Key : HeaderFields(r)[k] = F(r, k) /\ HeaderFields(q)[k] = F(q, k)
    BY <1>1, WrittenIs, NormFieldsAre
  <2> HIDE DEF F
  <2> QED
    BY <2>1, <1>3
<1>5. CASE Parses(b) /\ Parses(o) /\ Parses(t)
  <2> DEFINE v == MergedValues(b, o, t)  w == MergedValues(b, t, o)
  <2>1. TextHas(r.rawHeader, v) /\ TextHas(q.rawHeader, w)
    BY <1>1, <1>5, MergedRawText DEF MergedHeader
  <2>2. HeadersAgree(b, o, t)
    BY <1>2, <1>5 DEF RawHeadersAgree
  <2>3. \A k \in Key : ValueIn(b, k) \in Str \cup {Nil} /\ ValueIn(o, k) \in Str \cup {Nil}
                       /\ ValueIn(t, k) \in Str \cup {Nil}
    BY <1>1, KeysOfIs
  <2>4. \A k \in Key : v[k] = w[k]
    <3> TAKE k \in Key
    <3> DEFINE x == ValueIn(b, k)  y == ValueIn(o, k)  z == ValueIn(t, k)
    <3>1. v[k] = MergedValue(k, x, y, z) /\ w[k] = MergedValue(k, x, z, y)
      BY DEF MergedValues
    <3>2. CASE k = ColorKey
      <4>1. ColorsAgree(x, y, z)
        BY <2>2, <3>2 DEF HeadersAgree
      <4>2. MergeColors(x, y, z).value = MergeColors(x, z, y).value
        BY <2>3, <4>1, ColorsEither
      <4> QED
        BY <3>1, <3>2, <4>2 DEF MergedValue
    <3>3. CASE k # ColorKey
      <4>1. ~Clash(x, y, z)
        BY <2>2, <3>3 DEF HeadersAgree
      <4>2. Pick(x, y, z) = Pick(x, z, y)
        BY <4>1, PickEither
      <4> QED
        BY <3>1, <3>3, <4>2 DEF MergedValue
    <3> QED
      BY <3>2, <3>3
  <2>5. r.rawHeader = EmptyRaw <=> q.rawHeader = EmptyRaw
    BY <2>1, <2>4, GdHeaderAssumption DEF TextHas
  <2>6. r.rawHeader # EmptyRaw => \A k \in Key : HeaderFields(r)[k] = HeaderFields(q)[k]
    <3> HAVE r.rawHeader # EmptyRaw
    <3>1. \A k \in Key : ValueIn(r.rawHeader, k) = ValueIn(q.rawHeader, k)
      BY <2>1, <2>4 DEF TextHas
    <3>2. Distinct(KeysOf(r.rawHeader)) /\ Distinct(KeysOf(q.rawHeader))
      BY <2>1 DEF TextHas
    <3>3. \A k \in Key : HeaderFields(r)[k] = NormValue(ValueIn(r.rawHeader, k))
      BY <1>1, <3>2, WrittenIs
    <3>4. \A k \in Key : HeaderFields(q)[k] = NormValue(ValueIn(q.rawHeader, k))
      BY <1>1, <2>5, <3>2, WrittenIs
    <3> QED
      BY <3>1, <3>3, <3>4
  <2> QED
    BY <1>4, <2>5, <2>6 DEF HeaderFields, NormFields
<1>6. CASE ~(Parses(b) /\ Parses(o) /\ Parses(t))
  <2>1. r.rawHeader = Pick(b, o, t) /\ q.rawHeader = Pick(b, t, o)
    BY <1>1, <1>6, MergedRawText DEF MergedHeader
  <2>2. ~Clash(b, o, t)
    BY <1>2, <1>6 DEF RawHeadersAgree
  <2>3. r.rawHeader = q.rawHeader
    BY <2>1, <2>2, PickEither
  <2>4. r.rawHeader # EmptyRaw => HeaderFields(r) = HeaderFields(q)
    BY <2>3 DEF HeaderFields, WrittenHeader
  <2> QED
    BY <1>4, <2>3, <2>4 DEF HeaderFields, NormFields
<1> QED
  BY <1>5, <1>6

\* The new uuids are those that the objects added twice get, one each.
LEMMA NewUuidsGiven ==
    ASSUME NEW base, NEW ours, NEW theirs, ours.objects \in ObjectMap
    PROVE  \A w \in NewUuids(base, ours, theirs) :
              \E u \in AddedTwice(base, ours, theirs) : Place(base, ours, theirs, u) = w
<1> DEFINE A == AddedTwice(base, ours, theirs)
           W == NewUuids(base, ours, theirs)
           P == [u \in A |-> Place(base, ours, theirs, u)]
           next == NextUuid(ours.objects)
<1>1. IsFiniteSet(A) /\ Cardinality(A) \in Nat /\ A \subseteq Uuid /\ Uuid \subseteq Nat
  BY TwiceCount, MergeAssumption
<1>2. next \in Nat
  BY NextUuidIs, MergeAssumption
<1>3. W = next .. next + Cardinality(A) - 1
  BY DEF NewUuids
<1>4. IsFiniteSet(W) /\ Cardinality(W) = Cardinality(A)
  <2> HIDE DEF A, W, next
  <2>1. next + Cardinality(A) - 1 \in Int /\ next \in Int
    BY <1>1, <1>2
  <2>2. /\ IsFiniteSet(W)
        /\ Cardinality(W) = IF next > next + Cardinality(A) - 1 THEN 0 ELSE (next + Cardinality(A) - 1) - next + 1
    BY <1>3, <2>1, FS_Interval
  <2> QED
    BY <1>1, <1>2, <2>2
<1>5. P \in [A -> W]
  BY PlaceIsNew
<1>6. \A u, v \in A : u < v => P[u] < P[v]
  BY PlaceIsNew
<1>7. \A u \in W : u \in Nat
  <2> HIDE DEF A, W, next
  <2> QED
    BY <1>1, <1>2, <1>3
<1> HIDE DEF A, W, P
<1>8. \A u, v \in A : P[u] = P[v] => u = v
  <2> SUFFICES ASSUME NEW u \in A, NEW v \in A, P[u] = P[v], u # v PROVE FALSE
    OBVIOUS
  <2>1. u \in Nat /\ v \in Nat /\ P[u] \in Nat /\ P[v] \in Nat
    BY <1>1, <1>5, <1>7
  <2> QED
    BY <1>6, <2>1
<1>9. P \in Injection(A, W)
  BY <1>5, <1>8 DEF Injection, IsInjective
<1>10. P \in Surjection(A, W)
  BY <1>4, <1>9, FS_Injection
<1>11. \A w \in W : \E u \in A : P[u] = w
  BY <1>10 DEF Surjection
<1> QED
  BY <1>11 DEF A, W, P

\* Where a level has an object.
UuidsOf(s, f) == {u \in Uuid : Norm(s).objects[u] = f}

\* Every object of one merge is in the other, as often at least: those added twice have changed places.
LEMMA NotMoreObjects ==
    ASSUME NEW r, NEW q, NEW base, NEW ours, NEW theirs,
           CleanMerge(r, base, ours, theirs), CleanMerge(q, base, theirs, ours), NEW f, f # Nil
    PROVE  /\ IsFiniteSet(UuidsOf(r, f)) /\ IsFiniteSet(UuidsOf(q, f))
           /\ Cardinality(UuidsOf(r, f)) <= Cardinality(UuidsOf(q, f))
<1> DEFINE A == AddedTwice(base, ours, theirs)
           W == NewUuids(base, ours, theirs)
           X == NewUuids(base, theirs, ours)
           B(u) == base.objects[u]
           O(u) == ours.objects[u]
           T(u) == theirs.objects[u]
           R(u) == r.objects[u]
           Q(u) == q.objects[u]
           N(x) == NormObject(x)
           S == {u \in Uuid : Norm(r).objects[u] = f}
           Z == {u \in Uuid : Norm(q).objects[u] = f}
           V(u) == Place(base, ours, theirs, u)
           Y(u) == Place(base, theirs, ours, u)
<1>1. AddedTwice(base, theirs, ours) = A /\ A \subseteq Uuid
  BY DEF AddedTwice
<1>2. \A u \in Uuid : B(u) \in FieldMap \cup {Nil} /\ O(u) \in FieldMap \cup {Nil} /\ T(u) \in FieldMap \cup {Nil}
  BY DEF CleanMerge, ObjectMap
<1>3. /\ \A u \in Uuid : u \notin W => R(u) = MergedObject(B(u), O(u), T(u))
      /\ \A u \in W : u \in Uuid /\ B(u) = Nil /\ O(u) = Nil /\ T(u) = Nil
      /\ \A u \in A : V(u) \in W /\ R(V(u)) = T(u)
  BY CleanMergeObjects
<1>4. /\ \A u \in Uuid : u \notin X => Q(u) = MergedObject(B(u), T(u), O(u))
      /\ \A u \in X : u \in Uuid /\ B(u) = Nil /\ O(u) = Nil /\ T(u) = Nil
      /\ \A u \in A : Y(u) \in X /\ Q(Y(u)) = O(u)
  BY <1>1, CleanMergeObjects
<1>5. \A w \in W : \E u \in A : V(u) = w
  BY NewUuidsGiven DEF CleanMerge
<1>6. \A u, v \in A : Y(u) = Y(v) => u = v
  <2>1. \A u, v \in A : u < v => Y(u) < Y(v)
    BY <1>1, PlaceIsNew DEF CleanMerge
  <2>2. \A u \in A : u \in Nat /\ Y(u) \in Nat
    BY <1>1, <1>4, MergeAssumption
  <2> HIDE DEF A, Y
  <2> QED
    BY <2>1, <2>2
<1>7. \A u \in A : B(u) = Nil /\ O(u) # Nil /\ T(u) # Nil
  BY DEF AddedTwice
<1>8. \A u \in Uuid : u \notin A => ~TwoVersions(B(u), O(u), T(u))
  BY DEF AddedTwice, TwoVersions
<1>9. \A u \in Uuid : u \notin A => N(MergedObject(B(u), O(u), T(u))) = N(MergedObject(B(u), T(u), O(u)))
  BY <1>2, <1>8, ObjectEither DEF CleanMerge
<1>10. \A u \in Uuid : Norm(r).objects[u] = N(R(u)) /\ Norm(q).objects[u] = N(Q(u))
  BY NormObjectsAre
<1>11. N(Nil) = Nil /\ MergedObject(Nil, Nil, Nil) = Nil
  BY DEF NormObject, MergedObject
<1>12. \A u \in A : /\ MergedObject(B(u), O(u), T(u)) = O(u) /\ MergedObject(B(u), T(u), O(u)) = T(u)
                    /\ u \notin W /\ u \notin X /\ u \in Uuid
  BY <1>1, <1>3, <1>4, <1>7 DEF MergedObject
<1>13. S = {u \in Uuid : N(R(u)) = f} /\ Z = {u \in Uuid : N(Q(u)) = f}
  BY <1>10
<1>14. IsFiniteSet(S) /\ IsFiniteSet(Z)
  <2>1. IsFiniteSet(Uuid)
    BY MergeAssumption, FS_Interval
  <2> QED
    BY <2>1, FS_Subset
<1> HIDE DEF A, W, X, B, O, T, R, Q, N, S, Z, V, Y
<1> DEFINE back(w) == CHOOSE u \in A : V(u) = w
           g == [u \in S |-> IF u \in A THEN Y(u) ELSE IF u \in W THEN back(u) ELSE u]
<1>15. \A w \in W : back(w) \in A /\ V(back(w)) = w
  BY <1>5
<1>16. ASSUME NEW u \in S, u \in A PROVE g[u] = Y(u) /\ g[u] \in X /\ g[u] \in Z
  BY <1>16, <1>3, <1>4, <1>12, <1>13
<1>17. ASSUME NEW u \in S, u \in W PROVE g[u] = back(u) /\ g[u] \in A /\ g[u] \in Z
  <2>1. u \notin A /\ back(u) \in A /\ V(back(u)) = u
    BY <1>12, <1>15, <1>17
  <2>2. R(u) = T(back(u)) /\ Q(back(u)) = T(back(u))
    BY <1>3, <1>4, <1>12, <2>1
  <2> QED
    BY <1>12, <1>13, <1>17, <2>1, <2>2
<1>18. ASSUME NEW u \in S, u \notin A, u \notin W PROVE g[u] = u /\ u \notin X /\ u \in Z
  <2>1. u \in Uuid /\ N(R(u)) = f /\ R(u) = MergedObject(B(u), O(u), T(u))
    BY <1>3, <1>13, <1>18
  <2>2. u \notin X
    BY <1>4, <1>11, <2>1
  <2>3. N(Q(u)) = f
    BY <1>4, <1>9, <1>18, <2>1, <2>2
  <2> QED
    BY <1>13, <1>18, <2>1, <2>2, <2>3
<1>19. g \in [S -> Z]
  BY <1>16, <1>17, <1>18
<1>20. X \cap A = {}
  BY <1>12
<1>21. ASSUME NEW u \in S, NEW v \in S, g[u] = g[v] PROVE u = v
  <2>1. CASE u \in A
    <3>1. g[v] \in X
      BY <1>16, <1>21, <2>1
    <3>2. v \in A
      BY <1>17, <1>18, <1>20, <3>1
    <3> QED
      BY <1>6, <1>16, <1>21, <2>1, <3>2
  <2>2. CASE u \in W
    <3>1. g[v] \in A
      BY <1>17, <1>21, <2>2
    <3>2. v \in W
      BY <1>16, <1>18, <1>20, <3>1
    <3> QED
      BY <1>15, <1>17, <1>21, <2>2, <3>2
  <2>3. CASE u \notin A /\ u \notin W
    <3>1. g[u] = u /\ u \notin X
      BY <1>18, <2>3
    <3>2. v \notin A /\ v \notin W
      BY <1>16, <1>17, <1>21, <2>3, <3>1
    <3> QED
      BY <1>18, <1>21, <3>1, <3>2
  <2> QED
    BY <2>1, <2>2, <2>3
<1> HIDE DEF g
<1>22. g \in Injection(S, Z)
  BY <1>19, <1>21 DEF Injection, IsInjective
<1>23. Cardinality(S) <= Cardinality(Z)
  BY <1>14, <1>22, FS_Injection
<1> QED
  BY <1>14, <1>23 DEF S, Z, UuidsOf

\* Two authors who import each other's level end with the same level, if nothing clashed: which of them
\* was "ours" to mergeStates3Way shows only in the uuids of what both had added.
THEOREM ImportSymmetric == Spec => []ImportIsSymmetric
<1>1. ImportInv => ImportIsSymmetric
  <2> DEFINE other == MergeStates3Way(parent, target, head)
  <2> SUFFICES ASSUME ImportInv, CleanImport, Fits(parent, target, head), NewUuidsFree(parent, target, head)
               PROVE  /\ other.conflicts = 0
                      /\ SameObjects(Norm(other.state), Norm(result))
                      /\ HeaderFields(other.state) = HeaderFields(result)
    BY DEF ImportIsSymmetric
  <2> DEFINE q == other.state
  <2>1. /\ StatesAgree(parent, head, target)
        /\ MergedHeader(result, parent, head, target) /\ CleanMerge(result, parent, head, target)
    BY CleanImportIs
  <2>2. parent \in LevelState /\ head \in LevelState /\ target \in LevelState
    BY DEF ImportInv
  <2>3. StatesAgree(parent, target, head)
    BY <2>1, <2>2, StatesAgreeEither
  <2>4. parent.objects \in ObjectMap /\ head.objects \in ObjectMap /\ target.objects \in ObjectMap
    BY <2>2 DEF LevelState
  <2>5. other.conflicts = 0
    BY <2>3, <2>4, MergeClashes
  <2>6. MergedHeader(q, parent, target, head)
    BY MergedState DEF MergedHeader, ImportInv
  <2>7. CleanMerge(q, parent, target, head)
    BY <2>3, <2>4, MergedState DEF CleanMerge, StatesAgree
  <2> HIDE DEF q, other
  <2>8. HeaderFields(q) = HeaderFields(result)
    BY <2>1, <2>3, <2>6, HeaderEither
  <2>9. ASSUME NEW f, f # Nil PROVE Cardinality(UuidsOf(q, f)) = Cardinality(UuidsOf(result, f))
    <3>1. /\ IsFiniteSet(UuidsOf(q, f)) /\ IsFiniteSet(UuidsOf(result, f))
          /\ Cardinality(UuidsOf(q, f)) <= Cardinality(UuidsOf(result, f))
      BY <2>1, <2>7, <2>9, NotMoreObjects
    <3>2. Cardinality(UuidsOf(result, f)) <= Cardinality(UuidsOf(q, f))
      BY <2>1, <2>7, <2>9, NotMoreObjects
    <3>3. Cardinality(UuidsOf(q, f)) \in Nat /\ Cardinality(UuidsOf(result, f)) \in Nat
      BY <3>1, FS_CardinalityType
    <3> QED
      BY <3>1, <3>2, <3>3
  <2>10. SameObjects(Norm(q), Norm(result))
    BY <2>9 DEF SameObjects, UuidsOf
  <2> QED
    BY <2>5, <2>8, <2>10 DEF q
<1> QED
  BY <1>1, ImportInvariant, PTL

-------------------------------------------------------------------------------
(***************************************************************************)
(* Importing the merged level                                              *)
(***************************************************************************)

\* Merged again with one of the sides, a merged value stays.
LEMMA PickAgain ==
    ASSUME NEW b, NEW o, NEW t, ~Clash(b, o, t)
    PROVE  ~Clash(b, t, Pick(b, o, t)) /\ Pick(b, t, Pick(b, o, t)) = Pick(b, o, t)
BY DEF Pick, Clash

LEMMA FieldsAgain ==
    ASSUME NEW b \in FieldMap, NEW o \in FieldMap, NEW t \in FieldMap,
           \A k \in Key : ~Clash(ValueOf(b[k]), ValueOf(o[k]), ValueOf(t[k]))
    PROVE  /\ MergedFields(b, o, t) \in FieldMap
           /\ \A k \in Key : ~Clash(ValueOf(b[k]), ValueOf(t[k]), ValueOf(MergedFields(b, o, t)[k]))
           /\ MergedFields(b, t, MergedFields(b, o, t)) \in FieldMap
           /\ NormFields(MergedFields(b, t, MergedFields(b, o, t))) = NormFields(MergedFields(b, o, t))
<1> DEFINE m == MergedFields(b, o, t)  n == MergedFields(b, t, m)
           N(x, k) == NormFields(x)[k]
<1>1. m \in FieldMap
      /\ \A k \in Key : N(m, k) = Pick(N(b, k), N(o, k), N(t, k)) /\ ~Clash(N(b, k), N(o, k), N(t, k))
  BY MergedFieldsAre
<1> HIDE DEF m
<1>2. \A k \in Key : ~Clash(N(b, k), N(t, k), N(m, k)) /\ Pick(N(b, k), N(t, k), N(m, k)) = N(m, k)
  <2> TAKE k \in Key
  <2> DEFINE x == N(b, k)  y == N(o, k)  z == N(t, k)
  <2>1. ~Clash(x, y, z) /\ N(m, k) = Pick(x, y, z)
    BY <1>1
  <2> HIDE DEF x, y, z
  <2>2. ~Clash(x, z, Pick(x, y, z)) /\ Pick(x, z, Pick(x, y, z)) = Pick(x, y, z)
    BY <2>1, PickAgain
  <2> QED
    BY <2>1, <2>2 DEF x, y, z
<1>3. \A k \in Key : ~Clash(ValueOf(b[k]), ValueOf(t[k]), ValueOf(m[k]))
  <2> TAKE k \in Key
  <2>1. b[k] \in Str \cup {Nil} /\ t[k] \in Str \cup {Nil} /\ m[k] \in Str \cup {Nil}
        /\ N(b, k) = NormValue(b[k]) /\ N(t, k) = NormValue(t[k]) /\ N(m, k) = NormValue(m[k])
    BY <1>1, NormFieldsAre
  <2>2. /\ ValueOf(b[k]) = ValueOf(t[k]) <=> N(b, k) = N(t, k)
        /\ ValueOf(b[k]) = ValueOf(m[k]) <=> N(b, k) = N(m, k)
        /\ ValueOf(t[k]) = ValueOf(m[k]) <=> N(t, k) = N(m, k)
    <3> HIDE DEF N
    <3> QED
      BY <2>1, NormValues
  <2>3. N(t, k) = N(m, k) \/ N(b, k) = N(t, k) \/ N(b, k) = N(m, k)
    <3> HIDE DEF N
    <3> QED
      BY <1>2 DEF Clash
  <2> QED
    BY <2>2, <2>3 DEF Clash
<1>4. n \in FieldMap /\ \A k \in Key : N(n, k) = Pick(N(b, k), N(t, k), N(m, k))
  BY <1>1, <1>3, MergedFieldsAre
<1> HIDE DEF n
<1>5. NormFields(n) \in FieldMap /\ NormFields(m) \in FieldMap
  BY <1>1, <1>4, NormFieldsAre
<1>6. NormFields(n) = NormFields(m)
  BY <1>2, <1>4, <1>5 DEF FieldMap
<1> QED
  BY <1>1, <1>3, <1>4, <1>6 DEF m, n

LEMMA ObjectAgain ==
    ASSUME NEW b \in FieldMap \cup {Nil}, NEW o \in FieldMap \cup {Nil}, NEW t \in FieldMap \cup {Nil},
           ~ObjectClash(b, o, t), ~TwoVersions(b, o, t)
    PROVE  /\ ~ObjectClash(b, t, MergedObject(b, o, t))
           /\ ~TwoVersions(b, t, MergedObject(b, o, t))
           /\ NormObject(MergedObject(b, t, MergedObject(b, o, t))) = NormObject(MergedObject(b, o, t))
<1> DEFINE m == MergedObject(b, o, t)
<1>1. CASE b = Nil
  <2>1. m = IF o = Nil THEN t ELSE o
    BY <1>1 DEF MergedObject
  <2>2. o = Nil \/ t = Nil \/ o = t
    BY <1>1 DEF TwoVersions
  <2> HIDE DEF m
  <2>3. MergedObject(b, t, m) = m
    BY <1>1, <2>1, <2>2 DEF MergedObject
  <2>4. ~ObjectClash(b, t, m) /\ ~TwoVersions(b, t, m)
    BY <1>1, <2>1, <2>2 DEF ObjectClash, TwoVersions
  <2> QED
    BY <2>3, <2>4 DEF m
<1>2. CASE b # Nil /\ (o = Nil \/ t = Nil)
  <2>1. m = Nil /\ (t = Nil \/ t = b)
    BY <1>2 DEF MergedObject, ObjectClash
  <2> HIDE DEF m
  <2>2. MergedObject(b, t, m) = m
    BY <1>2, <2>1 DEF MergedObject
  <2>3. ~ObjectClash(b, t, m) /\ ~TwoVersions(b, t, m)
    BY <1>2, <2>1 DEF ObjectClash, TwoVersions
  <2> QED
    BY <2>2, <2>3 DEF m
<1>3. CASE b # Nil /\ o # Nil /\ t # Nil
  <2>1. b \in FieldMap /\ o \in FieldMap /\ t \in FieldMap
    BY <1>3
  <2>2. m = MergedFields(b, o, t)
    BY <1>3 DEF MergedObject
  <2>3. \A k \in Key : ~Clash(ValueOf(b[k]), ValueOf(o[k]), ValueOf(t[k]))
    BY <1>3 DEF ObjectClash
  <2> HIDE DEF m
  <2>4. /\ m \in FieldMap /\ MergedFields(b, t, m) \in FieldMap
        /\ \A k \in Key : ~Clash(ValueOf(b[k]), ValueOf(t[k]), ValueOf(m[k]))
        /\ NormFields(MergedFields(b, t, m)) = NormFields(m)
    BY <2>1, <2>2, <2>3, FieldsAgain
  <2>5. m # Nil /\ MergedFields(b, t, m) # Nil
    BY <2>4, NormFieldsAre
  <2>6. MergedObject(b, t, m) = MergedFields(b, t, m)
    BY <1>3, <2>5 DEF MergedObject
  <2>7. ~ObjectClash(b, t, m) /\ ~TwoVersions(b, t, m)
    BY <1>3, <2>4, <2>5 DEF ObjectClash, TwoVersions
  <2>8. NormObject(MergedObject(b, t, m)) = NormObject(m)
    BY <2>4, <2>5, <2>6 DEF NormObject
  <2> QED
    BY <2>7, <2>8 DEF m
<1> QED
  BY <1>1, <1>2, <1>3

LEMMA ColorsAgain ==
    ASSUME NEW b \in Str \cup {Nil}, NEW o \in Str \cup {Nil}, NEW t \in Str \cup {Nil}, ColorsAgree(b, o, t)
    PROVE  /\ ColorsAgree(b, t, MergeColors(b, o, t).value)
           /\ MergeColors(b, t, MergeColors(b, o, t).value).value = MergeColors(b, o, t).value
<1> DEFINE y == MergeColors(b, o, t).value
           B == Colors(b)  O == Colors(o)  T == Colors(t)  R == Colors(y)
           At(X, c) == RecordAt(X, c)
<1>1. /\ B # Malformed /\ O # Malformed /\ T # Malformed
      /\ \A c \in Channel : ~Clash(At(B, c), At(O, c), At(T, c))
  BY DEF ColorsAgree
<1>2. /\ y = ChannelText(MergedChannels(B, O, T))
      /\ y \in Str \cup {Nil} /\ R # Malformed
      /\ R = MergedChannels(B, O, T)
      /\ \A c \in Channel : At(R, c) = Pick(At(B, c), At(O, c), At(T, c))
  <2>1. y = ChannelText(MergedChannels(B, O, T)) /\ ColorsMerged(y, b, o, t)
    BY <1>1, MergedColors
  <2> QED
    BY <2>1 DEF ColorsMerged
<1>3. \A X \in {B, O, T, R} : X = Nil \/ X \in [Channel -> Record]
  BY <1>1, <1>2, ColorsAre
<1>4. \A X : X # Nil => \A c \in Channel : At(X, c) = X[c]
  BY DEF RecordAt
<1> HIDE DEF y, B, O, T, R, At
<1>5. \A c \in Channel : ~Clash(At(B, c), At(T, c), At(R, c)) /\ Pick(At(B, c), At(T, c), At(R, c)) = At(R, c)
  BY <1>1, <1>2, PickAgain
<1>6. ColorsAgree(b, t, y)
  BY <1>1, <1>2, <1>5 DEF ColorsAgree, B, T, R, At
<1>7. MergedChannels(B, T, R) = R
  <2>1. CASE ~Clash(B, O, T)
    <3>1. R = Pick(B, O, T)
      BY <1>2, <2>1 DEF MergedChannels
    <3>2. ~Clash(B, T, R) /\ Pick(B, T, R) = R
      BY <2>1, <3>1, PickAgain
    <3> QED
      BY <3>2 DEF MergedChannels
  <2>2. CASE Clash(B, O, T)
    <3>1. R = [c \in Channel |-> Pick(At(B, c), At(O, c), At(T, c))]
      BY <1>2, <2>2 DEF MergedChannels, At
    <3>2. Clash(B, T, R) => MergedChannels(B, T, R) = R
      <4> HAVE Clash(B, T, R)
      <4>1. MergedChannels(B, T, R) = [c \in Channel |-> Pick(At(B, c), At(T, c), At(R, c))]
        BY DEF MergedChannels, At
      <4>2. \A c \in Channel : Pick(At(B, c), At(T, c), At(R, c)) = Pick(At(B, c), At(O, c), At(T, c))
        BY <1>2, <1>5
      <4> QED
        BY <4>1, <4>2, <3>1
    <3>3. R # B
      <4> SUFFICES ASSUME R = B PROVE FALSE
        OBVIOUS
      <4>1. \A c \in Channel : At(B, c) = Pick(At(B, c), At(O, c), At(T, c))
        BY <1>2
      <4>2. \A c \in Channel : At(O, c) = At(B, c) /\ At(T, c) = At(B, c)
        BY <4>1 DEF Pick
      <4>3. B # Nil => O = Nil /\ T = Nil
        <5> HAVE B # Nil
        <5>1. B \in [Channel -> Record]
          BY <1>3
        <5>2. ASSUME NEW X \in {O, T}, X # Nil PROVE X = B
          <6>1. X \in [Channel -> Record]
            BY <1>3, <5>2
          <6>2. \A c \in Channel : X[c] = B[c]
            BY <1>4, <4>2, <5>2
          <6> QED
            BY <5>1, <6>1, <6>2
        <5> QED
          BY <5>2, <2>2 DEF Clash
      <4>4. B # Nil
        <5> SUFFICES ASSUME B = Nil PROVE FALSE
          OBVIOUS
        <5>1. O # Nil /\ T # Nil /\ O # T
          BY <2>2 DEF Clash
        <5>2. O \in [Channel -> Record] /\ T \in [Channel -> Record]
          BY <1>3, <5>1
        <5>3. \A c \in Channel : O[c] = T[c]
          BY <1>4, <4>2, <5>1
        <5> QED
          BY <5>1, <5>2, <5>3
      <4> QED
        BY <4>3, <4>4, <2>2 DEF Clash
    <3>4. ~Clash(B, T, R) => Pick(B, T, R) = R
      BY <3>3, <2>2 DEF Clash, Pick
    <3> QED
      BY <3>2, <3>4 DEF MergedChannels
  <2> QED
    BY <2>1, <2>2
<1>8. MergeColors(b, t, y).value = ChannelText(MergedChannels(B, T, R))
  BY <1>1, <1>2, MergedColors DEF B, T, R
<1> QED
  BY <1>2, <1>6, <1>7, <1>8 DEF y

\* q has the header of r merged into theirs, r that of a merge without conflicts.
MergedHeaderAgain(q, r, base, theirs) ==
    /\ q.rawHeader = MergedRawHeader(base.rawHeader, theirs.rawHeader, r.rawHeader).text
    /\ q.header = MergedFields(base.header, theirs.header, r.header)

LEMMA HeaderAgain ==
    ASSUME NEW q, NEW r, NEW base, NEW ours, NEW theirs,
           MergedHeader(r, base, ours, theirs), StatesAgree(base, ours, theirs),
           Parses(r.rawHeader), MergedHeaderAgain(q, r, base, theirs)
    PROVE  /\ HeaderFieldsAgree(base, theirs, r)
           /\ RawHeadersAgree(base.rawHeader, theirs.rawHeader, r.rawHeader)
           /\ HeaderFields(q) = HeaderFields(r)
<1> DEFINE b == base.rawHeader  o == ours.rawHeader  t == theirs.rawHeader  x == r.rawHeader
<1>1. /\ b \in Text /\ o \in Text /\ t \in Text /\ x \in Text /\ r.header \in FieldMap
      /\ base.header \in FieldMap /\ ours.header \in FieldMap /\ theirs.header \in FieldMap
  BY HeaderTypes
<1>2. RawHeadersAgree(b, o, t)
      /\ \A k \in Key : ~Clash(ValueOf(base.header[k]), ValueOf(ours.header[k]), ValueOf(theirs.header[k]))
  BY DEF StatesAgree
<1>3. r.header = MergedFields(base.header, ours.header, theirs.header)
      /\ q.header = MergedFields(base.header, theirs.header, r.header)
      /\ q.rawHeader = MergedRawHeader(b, t, x).text
  BY DEF MergedHeader, MergedHeaderAgain
<1>4. /\ \A k \in Key : ~Clash(ValueOf(base.header[k]), ValueOf(theirs.header[k]), ValueOf(r.header[k]))
      /\ q.header \in FieldMap /\ NormFields(q.header) = NormFields(r.header)
  <2> DEFINE f == base.header  g == ours.header  h == theirs.header
  <2>1. f \in FieldMap /\ g \in FieldMap /\ h \in FieldMap
        /\ \A k \in Key : ~Clash(ValueOf(f[k]), ValueOf(g[k]), ValueOf(h[k]))
    BY <1>1, <1>2
  <2> HIDE DEF f, g, h
  <2>2. /\ MergedFields(f, g, h) \in FieldMap
        /\ \A k \in Key : ~Clash(ValueOf(f[k]), ValueOf(h[k]), ValueOf(MergedFields(f, g, h)[k]))
        /\ MergedFields(f, h, MergedFields(f, g, h)) \in FieldMap
        /\ NormFields(MergedFields(f, h, MergedFields(f, g, h))) = NormFields(MergedFields(f, g, h))
    BY <2>1, FieldsAgain
  <2> QED
    BY <2>2, <1>3 DEF f, g, h
<1>5. q.rawHeader \in Text
  BY <1>1, <1>3, MergedRawText
<1>6. x = EmptyRaw /\ q.rawHeader = EmptyRaw => HeaderFields(q) = HeaderFields(r)
  <2> HAVE x = EmptyRaw /\ q.rawHeader = EmptyRaw
  <2>1. \A k \in Key : HeaderFields(r)[k] = NormValue(r.header[k])
    BY <1>1, WrittenIs
  <2>2. \A k \in Key : HeaderFields(q)[k] = NormValue(q.header[k])
    BY <1>4, <1>5, WrittenIs
  <2>3. \A k \in Key : NormFields(r.header)[k] = NormValue(r.header[k]) /\ NormFields(q.header)[k] = NormValue(q.header[k])
    BY <1>1, <1>4, NormFieldsAre
  <2>4. \A k \in Key : HeaderFields(r)[k] = HeaderFields(q)[k]
    BY <2>1, <2>2, <2>3, <1>4
  <2> QED
    BY <2>4 DEF HeaderFields, NormFields
<1>7. CASE Parses(b) /\ Parses(o) /\ Parses(t)
  <2> DEFINE v == MergedValues(b, o, t)  w == MergedValues(b, t, x)
  <2>1. TextHas(x, v)
    BY <1>1, <1>7, MergedRawText DEF MergedHeader
  <2>2. TextHas(q.rawHeader, w)
    BY <1>1, <1>3, <1>7, MergedRawText
  <2>3. HeadersAgree(b, o, t)
    BY <1>2, <1>7 DEF RawHeadersAgree
  <2>4. \A k \in Key : ValueIn(b, k) \in Str \cup {Nil} /\ ValueIn(o, k) \in Str \cup {Nil}
                       /\ ValueIn(t, k) \in Str \cup {Nil} /\ ValueIn(x, k) = v[k]
    BY <1>1, <2>1, KeysOfIs DEF TextHas
  <2>5. ASSUME NEW k \in Key, k # ColorKey
        PROVE  ~Clash(ValueIn(b, k), ValueIn(t, k), ValueIn(x, k)) /\ w[k] = v[k]
    <3> DEFINE f == ValueIn(b, k)  g == ValueIn(o, k)  h == ValueIn(t, k)
    <3>1. ~Clash(f, g, h)
      BY <2>3, <2>5 DEF HeadersAgree
    <3>2. v[k] = Pick(f, g, h) /\ w[k] = Pick(f, h, v[k])
      BY <2>4, <2>5 DEF MergedValues, MergedValue
    <3>3. ValueIn(x, k) = v[k]
      BY <2>4
    <3> HIDE DEF f, g, h, v, w
    <3>4. ~Clash(f, h, Pick(f, g, h)) /\ Pick(f, h, Pick(f, g, h)) = Pick(f, g, h)
      BY <3>1, PickAgain
    <3> QED
      BY <3>2, <3>3, <3>4 DEF f, h
  <2>6. /\ ColorsAgree(ValueIn(b, ColorKey), ValueIn(t, ColorKey), ValueIn(x, ColorKey))
        /\ w[ColorKey] = v[ColorKey]
    <3> DEFINE f == ValueIn(b, ColorKey)  g == ValueIn(o, ColorKey)  h == ValueIn(t, ColorKey)
    <3>1. ColorsAgree(f, g, h)
      BY <2>3 DEF HeadersAgree
    <3>2. f \in Str \cup {Nil} /\ g \in Str \cup {Nil} /\ h \in Str \cup {Nil} /\ ValueIn(x, ColorKey) = v[ColorKey]
      BY <2>4, ColorKeyAssumption
    <3>3. v[ColorKey] = MergeColors(f, g, h).value /\ w[ColorKey] = MergeColors(f, h, v[ColorKey]).value
      BY <3>2, ColorKeyAssumption DEF MergedValues, MergedValue
    <3> HIDE DEF f, g, h, v, w
    <3>4. /\ ColorsAgree(f, h, MergeColors(f, g, h).value)
          /\ MergeColors(f, h, MergeColors(f, g, h).value).value = MergeColors(f, g, h).value
      BY <3>1, <3>2, ColorsAgain
    <3> QED
      BY <3>2, <3>3, <3>4 DEF f, h
  <2>7. \A k \in Key : w[k] = v[k]
    BY <2>5, <2>6
  <2>8. RawHeadersAgree(b, t, x)
    BY <1>7, <2>5, <2>6 DEF RawHeadersAgree, HeadersAgree
  <2>9. x = EmptyRaw <=> q.rawHeader = EmptyRaw
    BY <2>1, <2>2, <2>7, GdHeaderAssumption DEF TextHas
  <2>10. x # EmptyRaw => HeaderFields(q) = HeaderFields(r)
    <3> HAVE x # EmptyRaw
    <3>1. /\ Distinct(KeysOf(x)) /\ Distinct(KeysOf(q.rawHeader))
          /\ \A k \in Key : ValueIn(x, k) = ValueIn(q.rawHeader, k)
      BY <2>1, <2>2, <2>7 DEF TextHas
    <3>2. \A k \in Key : HeaderFields(r)[k] = NormValue(ValueIn(x, k))
      BY <1>1, <3>1, WrittenIs
    <3>3. \A k \in Key : HeaderFields(q)[k] = NormValue(ValueIn(q.rawHeader, k))
      BY <1>4, <1>5, <2>9, <3>1, WrittenIs
    <3>4. \A k \in Key : HeaderFields(r)[k] = HeaderFields(q)[k]
      BY <3>1, <3>2, <3>3
    <3> QED
      BY <3>4 DEF HeaderFields, NormFields
  <2> QED
    BY <1>4, <1>6, <2>8, <2>9, <2>10 DEF HeaderFieldsAgree
<1>8. CASE ~(Parses(b) /\ Parses(o) /\ Parses(t))
  <2>1. x = Pick(b, o, t)
    BY <1>1, <1>8, MergedRawText DEF MergedHeader
  <2>2. ~Clash(b, o, t)
    BY <1>2, <1>8 DEF RawHeadersAgree
  <2>3. ~Clash(b, t, x) /\ Pick(b, t, x) = x
    BY <2>1, <2>2, PickAgain
  <2>4. ~(Parses(b) /\ Parses(t) /\ Parses(x))
    BY <1>8, <2>1, <2>2 DEF Pick, Clash
  <2>5. q.rawHeader = x
    BY <1>1, <1>3, <2>3, <2>4, MergedRawText
  <2>6. RawHeadersAgree(b, t, x)
    BY <2>3, <2>4 DEF RawHeadersAgree
  <2>7. x # EmptyRaw => HeaderFields(q) = HeaderFields(r)
    BY <2>5 DEF HeaderFields, WrittenHeader
  <2> QED
    BY <1>4, <1>6, <2>5, <2>6, <2>7 DEF HeaderFieldsAgree
<1> QED
  BY <1>7, <1>8

\* A file that goes back and forth does no harm: who imports the level that his own was merged into gets
\* just this level, and is told of no conflict.
THEOREM ImportBack == Spec => []ImportBackAgrees
<1>1. ImportInv => ImportBackAgrees
  <2> DEFINE back == MergeStates3Way(parent, target, result)
  <2> SUFFICES ASSUME ImportInv, CleanImport, AddedTwice(parent, head, target) = {}, Parses(result.rawHeader)
               PROVE  /\ back.conflicts = 0
                      /\ Norm(back.state).objects = Norm(result).objects
                      /\ HeaderFields(back.state) = HeaderFields(result)
    BY DEF ImportBackAgrees
  <2> DEFINE q == back.state
             B(u) == parent.objects[u]
             O(u) == head.objects[u]
             T(u) == target.objects[u]
             R(u) == result.objects[u]
  <2>1. /\ StatesAgree(parent, head, target)
        /\ MergedHeader(result, parent, head, target) /\ CleanMerge(result, parent, head, target)
    BY CleanImportIs
  <2>2. parent.objects \in ObjectMap /\ head.objects \in ObjectMap /\ target.objects \in ObjectMap
    BY DEF ImportInv, LevelState
  <2>3. result.objects \in ObjectMap
        /\ \A u \in Uuid : u \notin NewUuids(parent, head, target) => R(u) = MergedObject(B(u), O(u), T(u))
    BY <2>1, CleanMergeObjects
  <2>4. \A s, t, z : AddedTwice(s, t, z) = {} /\ t.objects \in ObjectMap => NewUuids(s, t, z) = {}
    <3> SUFFICES ASSUME NEW s, NEW t, NEW z, AddedTwice(s, t, z) = {}, t.objects \in ObjectMap
                 PROVE  NewUuids(s, t, z) = {}
      OBVIOUS
    <3> QED
      BY NewUuidsGiven
  <2>5. \A u \in Uuid : R(u) = MergedObject(B(u), O(u), T(u))
    BY <2>2, <2>3, <2>4
  <2>6. \A u \in Uuid : /\ B(u) \in FieldMap \cup {Nil} /\ O(u) \in FieldMap \cup {Nil} /\ T(u) \in FieldMap \cup {Nil}
                        /\ ~ObjectClash(B(u), O(u), T(u)) /\ ~TwoVersions(B(u), O(u), T(u))
    <3>1. \A u \in Uuid : ~TwoVersions(B(u), O(u), T(u))
      BY DEF AddedTwice, TwoVersions
    <3>2. \A u \in Uuid : ~ObjectClash(B(u), O(u), T(u))
      BY <2>1 DEF StatesAgree
    <3> QED
      BY <2>2, <3>1, <3>2 DEF ObjectMap
  <2>7. \A u \in Uuid : /\ ~ObjectClash(B(u), T(u), R(u)) /\ ~TwoVersions(B(u), T(u), R(u))
                        /\ NormObject(MergedObject(B(u), T(u), R(u))) = NormObject(R(u))
    <3> HIDE DEF B, O, T, R
    <3> QED
      BY <2>5, <2>6, ObjectAgain
  <2>8. AddedTwice(parent, target, result) = {}
    BY <2>7 DEF AddedTwice, TwoVersions
  <2>9. NewUuids(parent, target, result) = {}
    BY <2>2, <2>4, <2>8
  <2>10. MergeOutcome(MergeObjects(parent.objects, target.objects, result.objects), parent, target, result)
    BY <2>2, <2>3, MergedObjects
  <2>11. \A u \in Uuid : q.objects[u] = MergedObject(B(u), T(u), R(u))
    BY <2>9, <2>10, MergedState DEF MergeOutcome
  <2>12. MergedHeaderAgain(q, result, parent, target)
    BY MergedState DEF MergedHeaderAgain
  <2>13. back.conflicts = 0 <=> StatesAgree(parent, target, result)
    BY <2>2, <2>3, MergeClashes
  <2> HIDE DEF back, q
  <2>14. /\ HeaderFieldsAgree(parent, target, result)
         /\ RawHeadersAgree(parent.rawHeader, target.rawHeader, result.rawHeader)
         /\ HeaderFields(q) = HeaderFields(result)
    BY <2>1, <2>12, HeaderAgain
  <2>15. back.conflicts = 0
    BY <2>7, <2>13, <2>14 DEF StatesAgree, HeaderFieldsAgree
  <2>16. \A u \in Uuid : Norm(q).objects[u] = Norm(result).objects[u]
    BY <2>7, <2>11, NormObjectsAre
  <2>17. Norm(q).objects = Norm(result).objects
    BY <2>16 DEF Norm
  <2> QED
    BY <2>14, <2>15, <2>17 DEF q
<1> QED
  BY <1>1, ImportInvariant, PTL
===============================================================================
