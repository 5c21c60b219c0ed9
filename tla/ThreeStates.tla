----------------------------- MODULE ThreeStates -----------------------------
(***************************************************************************)
(* diff, apply and the three-way merge as the service uses them on three   *)
(* states of one level.  parent and target are the states before and after *)
(* some commit, head is the newest state: Rebuild replays the commit,      *)
(* Revert undoes it on top of head.  For Import, parent is the root that   *)
(* two authors share, head is one's own level and target is the other's.   *)
(***************************************************************************)
EXTENDS Merge

CONSTANT States     \* the level states considered

\* As LevelParser.cpp leaves it, and apply with it: where the text of the header is kept, the map is
\* what the text reads as.
HeaderIsRead(s) == s.rawHeader # EmptyRaw => NormFields(s.header) = NormFields(FieldsOf(s.rawHeader))

ASSUME StatesAssumption == States \subseteq LevelState /\ \A s \in States : HeaderIsRead(s)
ASSUME ColorKeyAssumption == ColorKey \in Key

VARIABLES parent, target, head,
          done,      \* "none", or the operation that ran
          result, conflicts,
          clashes    \* conflictCount of the merge

vars == <<parent, target, head, done, result, conflicts, clashes>>

Init ==
    /\ parent \in States /\ target \in States /\ head \in States
    /\ done = "none" /\ result = EmptyState /\ conflicts = {} /\ clashes = 0

\* One iteration of the loop of GitService::reconstruct on the commit that led from parent to
\* target.  What is applied to is head here: a rebuilt or cached copy of the parent's state.
Rebuild ==
    /\ done = "none" /\ done' = "rebuild"
    /\ result' = Apply(head, Diff(parent, target))
    /\ conflicts' = Conflicts(head, Diff(parent, target))
    /\ UNCHANGED <<parent, target, head, clashes>>

\* GitService::prepareRevert: diff(target, parent) applied to head.
Revert ==
    /\ done = "none" /\ done' = "revert"
    /\ result' = Apply(head, Diff(target, parent))
    /\ conflicts' = Conflicts(head, Diff(target, parent))
    /\ UNCHANGED <<parent, target, head, clashes>>

\* prepareImportManyFromGdge, for one file: target is merged into head.
Import ==
    /\ done = "none" /\ done' = "import"
    /\ Fits(parent, head, target)
    /\ LET merge == MergeStates3Way(parent, head, target)
       IN  result' = merge.state /\ clashes' = merge.conflicts
    /\ UNCHANGED <<parent, target, head, conflicts>>

Next == Rebuild \/ Revert \/ Import

Spec == Init /\ [][Next]_vars

-------------------------------------------------------------------------------
TypeOK ==
    /\ {parent, target, head} \subseteq LevelState
    /\ result \in Level
    /\ done \in {"none", "rebuild", "revert", "import"}
    /\ clashes \in Nat

\* Replaying a commit gives back the committed state: applying the stored delta to any copy of the
\* parent's state, be it the exact one or one in which missing keys and empty strings are exchanged
\* (a cached state against a rebuilt one), gives the target's state up to the same exchange, and
\* apply (Differ.cpp) reports no conflict.
RebuildGivesTarget ==
    done = "rebuild" /\ SameState(head, parent) => SameState(result, target) /\ conflicts = {}

\* The object that the commit p -> t added was changed after it.
MovedOn(p, t, h, u) == p.objects[u] = Nil /\ t.objects[u] # Nil /\ h.objects[u] \notin {Nil, t.objects[u]}

\* A revert without conflicts undoes the target commit and nothing else (HistoryFlows: "Undo just the
\* changes from commit ... Later commits are preserved"): what the commit changed is back at its
\* parent's value, what it did not change is as in head, field by field.  Nothing is claimed of an
\* object that the commit added and a later one changed: apply removes it without looking at its fields
\* and without a conflict (Differ.cpp:91), although docs/source/diff.md:21 says that conflicts come up when
\* an object "has moved on from the version the change expected".
CleanRevertUndoesOnlyTarget ==
    done = "revert" /\ conflicts = {} =>
        LET p == Norm(parent)  t == Norm(target)  h == Norm(head)  r == Norm(result)
            Undone(a, b, x, y) == y = IF a = b THEN x ELSE b
        IN  /\ Undone(t.rawHeader, p.rawHeader, h.rawHeader, r.rawHeader)
            /\ \A k \in Key : Undone(t.header[k], p.header[k], h.header[k], r.header[k])
            /\ \A u \in {u \in Uuid : ~MovedOn(p, t, h, u)} :
                IF t.objects[u] = Nil \/ p.objects[u] = Nil \/ h.objects[u] = Nil
                THEN Undone(t.objects[u], p.objects[u], h.objects[u], r.objects[u])
                ELSE \A k \in Key :
                        Undone(t.objects[u][k], p.objects[u][k], h.objects[u][k], r.objects[u][k])

-------------------------------------------------------------------------------
(***************************************************************************)
(* Imports                                                                 *)
(***************************************************************************)

\* The import reported no conflict, and no object went to a uuid that is in use.
CleanImport ==
    done = "import" /\ clashes = 0 /\ NewUuidsFree(parent, head, target)

\* The same setting: for the colours, the same channels.
SameSetting(k, v, w) ==
    \/ v = w
    \/ /\ k = ColorKey /\ Colors(v) # Malformed /\ Colors(w) # Malformed
       /\ \A c \in Channel : RecordAt(Colors(v), c) = RecordAt(Colors(w), c)

HeaderFields(s) == NormFields(FieldsOf(WrittenHeader(s)))

\* The texts are all kept, or none is: the header goes the same way on all sides.
SameHeaderForm == \A s, t \in {parent, head, target} :
    (s.rawHeader = EmptyRaw) = (t.rawHeader = EmptyRaw)

\* What side did to the objects of b is in r: changed fields, removed objects, and added ones, those
\* at some uuid.
SideKept(b, side, r) ==
    \A u \in Uuid :
        LET x == side.objects[u]  y == r.objects[u]  z == b.objects[u]
        IN  CASE z # Nil /\ x = Nil -> y = Nil
              [] z # Nil /\ x # Nil /\ x # z -> y # Nil /\ \A k \in Key : Arrives(z[k], x[k], y[k])
              [] z = Nil /\ x # Nil -> \E w \in Uuid : r.objects[w] = x
              [] OTHER -> TRUE

\* mergeStates3Way without conflicts loses nothing of either side and leaves alone what neither side
\* touched: every changed field, removed object and header key of ours and of theirs is in the
\* result, and every added object is there in the version of each side that added it.
CleanImportKeepsBothSides ==
    CleanImport =>
        LET b == Norm(parent)  r == Norm(result)
        IN  /\ SideKept(b, Norm(head), r) /\ SideKept(b, Norm(target), r)
            /\ \A u \in Uuid : head.objects[u] = parent.objects[u] /\ target.objects[u] = parent.objects[u]
                    => r.objects[u] = b.objects[u] \/ u \in NewUuids(parent, head, target)
            /\ SameHeaderForm => \A side \in {head, target}, k \in Key :
                    HeaderFields(side)[k] # HeaderFields(parent)[k] =>
                        SameSetting(k, HeaderFields(result)[k], HeaderFields(side)[k])

\* It does not matter who imports whom: without conflicts both authors get the same objects and the
\* same header, and if one sees no conflict the other sees none.
ImportIsSymmetric ==
    CleanImport /\ Fits(parent, target, head) /\ NewUuidsFree(parent, target, head) =>
        LET other == MergeStates3Way(parent, target, head)
        IN  /\ other.conflicts = 0
            /\ SameObjects(Norm(other.state), Norm(result))
            /\ HeaderFields(other.state) = HeaderFields(result)

\* The other author, importing the merged level, gets the merged level, without conflicts: a file that
\* goes back and forth does no harm.  Not so if both had added an object in two versions, or if the
\* merged header does not parse any more.
ImportBackAgrees ==
    CleanImport /\ AddedTwice(parent, head, target) = {} /\ Parses(result.rawHeader) =>
        LET back == MergeStates3Way(parent, target, result)
        IN  /\ back.conflicts = 0
            /\ Norm(back.state).objects = Norm(result).objects
            /\ HeaderFields(back.state) = HeaderFields(result)

\* A setting or a colour channel that only one side changed has that side's value in the header that
\* goes to the level, whatever conflicts there are besides (GdHeader.cpp, mergeHeaders3Way).  The
\* channels only if some setting is left: an empty text gives way to the map, where two texts of the
\* same channels are two values.
OneSidedHeaderChangesArrive ==
    LET value(s, k) == FieldsOf(s.rawHeader)[k]
        written(k) == FieldsOf(WrittenHeader(result))[k]
        readable(s) == Colors(value(s, ColorKey)) # Malformed
        record(s, c) == RecordAt(Colors(value(s, ColorKey)), c)
    IN  /\ done = "import"
        /\ \A s \in {parent, head, target} : s.rawHeader # EmptyRaw /\ Parses(s.rawHeader)
        => \A one, other \in {head, target} :
            /\ \A k \in Key \ {ColorKey} :
                value(other, k) = value(parent, k) => ValueOf(written(k)) = ValueOf(value(one, k))
                    \/ one = other
            /\ readable(parent) /\ readable(head) /\ readable(target) /\ result.rawHeader # EmptyRaw =>
                \A c \in Channel : record(other, c) = record(parent, c) =>
                    RecordAt(Colors(written(ColorKey)), c) = record(one, c) \/ one = other
===============================================================================
