----------------------------- MODULE DifferProofs -----------------------------
(***************************************************************************)
(* What diff and apply guarantee for every set of keys, values and uuids,  *)
(* and the induction that proofs about loops over level states need.       *)
(***************************************************************************)
EXTENDS Differ, FiniteSetTheorems, WellFoundedInduction, TLAPS

\* The default LevelState is a level state, and normalising it changes nothing.
LEMMA EmptyStateType == EmptyState \in LevelState /\ Norm(EmptyState) = EmptyState
BY DifferAssumption DEF EmptyState, LevelState, FieldMap, ObjectMap, NoFields, Norm, NormFields

\* Normalising yields a level state and is idempotent.
LEMMA NormType ==
    ASSUME NEW s \in LevelState
    PROVE  Norm(s) \in LevelState /\ Norm(Norm(s)) = Norm(s)
<1>1. \A f \in FieldMap : NormFields(f) \in FieldMap /\ NormFields(NormFields(f)) = NormFields(f)
  BY DifferAssumption DEF FieldMap, NormFields
<1>2. s.header \in FieldMap /\ s.rawHeader \in RawText /\ s.objects \in ObjectMap
  BY DEF LevelState
<1>3. \A u \in Uuid : s.objects[u] = Nil \/ s.objects[u] \in FieldMap
  BY <1>2 DEF ObjectMap
<1>4. Norm(s) \in LevelState
  BY <1>1, <1>2, <1>3 DEF Norm, LevelState, ObjectMap
<1>5. Norm(Norm(s)) = Norm(s)
  <2>1. Norm(Norm(s)).objects = Norm(s).objects
    BY <1>1, <1>3, DifferAssumption DEF Norm
  <2> QED BY <1>1, <1>2, <2>1 DEF Norm
<1> QED BY <1>4, <1>5

\* diff produces a well-formed delta (Differ.cpp, diff).
LEMMA DiffFieldsType ==
    ASSUME NEW a \in FieldMap, NEW b \in FieldMap
    PROVE  DiffFields(a, b) \in FieldChanges
BY DifferAssumption DEF DiffFields, FieldMap, FieldChanges, FieldChange, ValueOf

\* The same for whole states.
LEMMA DiffType ==
    ASSUME NEW a \in LevelState, NEW b \in LevelState
    PROVE  Diff(a, b) \in Delta
<1>1. /\ a.header \in FieldMap /\ a.rawHeader \in RawText /\ a.objects \in ObjectMap
      /\ b.header \in FieldMap /\ b.rawHeader \in RawText /\ b.objects \in ObjectMap
  BY DEF LevelState
<1>2. Diff(a, b).headerChanges \in FieldChanges
  BY <1>1, DiffFieldsType DEF Diff
<1>3. Diff(a, b).rawHeaderChange \in RawChange \cup {Nil}
  BY <1>1 DEF Diff, RawChange
<1>4. Diff(a, b).adds \in ObjectMap
  BY <1>1 DEF Diff, ObjectMap
<1>5. Diff(a, b).modifies \in [Uuid -> FieldChanges \cup {Nil}]
  <2>1. \A u \in Uuid : DiffObject(a.objects[u], b.objects[u]) \in FieldChanges \cup {Nil}
    BY <1>1, DiffFieldsType DEF ObjectMap, DiffObject
  <2> QED BY <2>1 DEF Diff
<1> QED BY <1>2, <1>3, <1>4, <1>5 DEF Diff, Delta

\* apply turns a level state and a delta into a level state (Differ.cpp, apply).
LEMMA ApplyType ==
    ASSUME NEW s \in LevelState, NEW d \in Delta
    PROVE  Apply(s, d) \in LevelState
<1>1. /\ s.header \in FieldMap /\ s.rawHeader \in RawText /\ s.objects \in ObjectMap
      /\ d.headerChanges \in FieldChanges /\ d.rawHeaderChange \in RawChange \cup {Nil}
      /\ d.adds \in ObjectMap /\ d.modifies \in [Uuid -> FieldChanges \cup {Nil}]
  BY DEF LevelState, Delta
<1>2. \A f \in FieldMap, c \in FieldChanges :
        ApplyHeader(f, c) \in FieldMap /\ ApplyFields(f, c) \in FieldMap
  BY DifferAssumption DEF FieldMap, FieldChanges, FieldChange, ApplyHeader, ApplyFields, Written
<1>3. AfterRemoves(s.objects, d) \in ObjectMap
  BY <1>1 DEF AfterRemoves, AfterAdds, ObjectMap
<1>4. ApplyObjects(s.objects, d) \in ObjectMap
  BY <1>1, <1>2, <1>3 DEF ApplyObjects, ObjectMap
<1>5. (IF d.rawHeaderChange = Nil THEN s.rawHeader ELSE d.rawHeaderChange.after) \in RawText
  BY <1>1, DifferAssumption DEF RawChange
<1> QED BY <1>1, <1>2, <1>4, <1>5 DEF Apply, ApplyRawHeader, LevelState

\* Replaying a delta does not tell apart two states that differ only in missing keys against empty
\* strings: apply reads the "before" of a change through the same exchange (Differ.cpp, apply).
THEOREM ApplyCongruent ==
    ASSUME NEW s \in LevelState, NEW t \in LevelState, NEW d \in Delta, SameState(s, t)
    PROVE  SameState(Apply(s, d), Apply(t, d))
<1>1. /\ s.header \in FieldMap /\ s.objects \in ObjectMap
      /\ t.header \in FieldMap /\ t.objects \in ObjectMap
      /\ d.headerChanges \in FieldChanges
      /\ d.adds \in ObjectMap /\ d.modifies \in [Uuid -> FieldChanges \cup {Nil}]
  BY DEF LevelState, Delta
<1>2. /\ s.rawHeader = t.rawHeader
      /\ NormFields(s.header) = NormFields(t.header)
      /\ Norm(s).objects = Norm(t).objects
  BY DEF SameState, Norm
<1>3. ASSUME NEW f \in FieldMap, NEW g \in FieldMap, NEW c \in FieldChanges,
             NormFields(f) = NormFields(g)
      PROVE  /\ NormFields(ApplyHeader(f, c)) = NormFields(ApplyHeader(g, c))
             /\ NormFields(ApplyFields(f, c)) = NormFields(ApplyFields(g, c))
  <2>1. \A k \in Key : f[k] = g[k] \/ (f[k] \in {Nil, Empty} /\ g[k] \in {Nil, Empty})
    <3>1. \A k \in Key : NormFields(f)[k] = NormFields(g)[k]
      BY <1>3
    <3> QED BY <3>1 DEF NormFields
  <2>2. \A k \in Key : ValueOf(f[k]) = ValueOf(g[k])
    BY <2>1 DEF ValueOf
  <2>3. \A k \in Key : StaleField(f, c, k) = StaleField(g, c, k)
    BY <2>2 DEF StaleField
  <2> QED BY <2>1, <2>3 DEF NormFields, ApplyHeader, ApplyFields
<1>4. \A u \in Uuid : \/ s.objects[u] = Nil /\ t.objects[u] = Nil
                      \/ /\ s.objects[u] \in FieldMap /\ t.objects[u] \in FieldMap
                         /\ NormFields(s.objects[u]) = NormFields(t.objects[u])
  <2>1. \A u \in Uuid : Norm(s).objects[u] = Norm(t).objects[u]
    BY <1>2
  <2>2. \A f \in FieldMap : NormFields(f) \in FieldMap
    BY DifferAssumption DEF FieldMap, NormFields
  <2> QED BY <2>1, <2>2, <1>1, DifferAssumption DEF Norm, ObjectMap
<1>5. \A u \in Uuid :
        LET x == AfterRemoves(s.objects, d)[u]  y == AfterRemoves(t.objects, d)[u]
        IN  \/ x = Nil /\ y = Nil
            \/ x \in FieldMap /\ y \in FieldMap /\ NormFields(x) = NormFields(y)
  BY <1>1, <1>4, DifferAssumption DEF AfterRemoves, AfterAdds, ObjectMap
<1>6. Norm(Apply(s, d)).objects = Norm(Apply(t, d)).objects
  <2> SUFFICES ASSUME NEW u \in Uuid
               PROVE  Norm(Apply(s, d)).objects[u] = Norm(Apply(t, d)).objects[u]
    BY DEF Norm
  <2> DEFINE x == AfterRemoves(s.objects, d)[u]
             y == AfterRemoves(t.objects, d)[u]
             m == d.modifies[u]
             N(o) == IF o = Nil THEN Nil ELSE NormFields(o)
             A(o) == IF o = Nil \/ m = Nil THEN o ELSE ApplyFields(o, m)
  <2>1. Norm(Apply(s, d)).objects[u] = N(A(x)) /\ Norm(Apply(t, d)).objects[u] = N(A(y))
    BY DEF Norm, Apply, ApplyObjects
  <2>2. m = Nil \/ m \in FieldChanges
    BY <1>1
  <2>3. \A f \in FieldMap, c \in FieldChanges : ApplyFields(f, c) # Nil
    <3>1. \A f \in FieldMap, c \in FieldChanges : ApplyFields(f, c) \in FieldMap
      BY DifferAssumption DEF FieldMap, FieldChanges, FieldChange, ApplyFields, Written
    <3> QED BY <3>1, DifferAssumption
  <2>4. \/ x = Nil /\ y = Nil
        \/ x \in FieldMap /\ y \in FieldMap /\ NormFields(x) = NormFields(y)
    BY <1>5
  <2> HIDE DEF x, y, m
  <2>5. N(A(x)) = N(A(y))
    BY <2>2, <2>3, <2>4, <1>3, DifferAssumption
  <2> QED BY <2>1, <2>5
<1>7. NormFields(Apply(s, d).header) = NormFields(Apply(t, d).header)
  BY <1>1, <1>2, <1>3 DEF Apply
<1>8. Apply(s, d).rawHeader = Apply(t, d).rawHeader
  BY <1>2 DEF Apply, ApplyRawHeader
<1> QED BY <1>6, <1>7, <1>8 DEF SameState, Norm

\* The delta stored by a commit leads from its parent's state to its own state, up to missing keys
\* against empty strings (Differ.cpp, diff and apply together).
THEOREM RoundTrip ==
    ASSUME NEW a \in LevelState, NEW b \in LevelState
    PROVE  SameState(Apply(a, Diff(a, b)), b)
<1> DEFINE d == Diff(a, b)
           r == Apply(a, d)
<1>1. /\ a.header \in FieldMap /\ a.rawHeader \in RawText /\ a.objects \in ObjectMap
      /\ b.header \in FieldMap /\ b.rawHeader \in RawText /\ b.objects \in ObjectMap
  BY DEF LevelState
<1>2. ASSUME NEW f \in FieldMap, NEW g \in FieldMap
      PROVE  /\ NormFields(ApplyHeader(f, DiffFields(f, g))) = NormFields(g)
             /\ NormFields(ApplyFields(f, DiffFields(f, g))) = NormFields(g)
             /\ DiffFields(f, g) = NoFieldChanges => f = g
  <2>1. \A k \in Key : f[k] # g[k] => /\ DiffFields(f, g)[k] # Nil
                                      /\ DiffFields(f, g)[k].before = ValueOf(f[k])
                                      /\ DiffFields(f, g)[k].after = ValueOf(g[k])
    BY DifferAssumption DEF DiffFields, FieldMap, FieldChange, ValueOf
  <2>2. \A k \in Key : f[k] = g[k] => DiffFields(f, g)[k] = Nil
    BY DEF DiffFields
  <2>3. \A k \in Key : ~StaleField(f, DiffFields(f, g), k)
    BY <2>1, <2>2 DEF StaleField
  <2>4. \A k \in Key : f[k] # g[k] => Written(DiffFields(f, g)[k]) = IF g[k] \in {Nil, Empty} THEN Nil ELSE g[k]
    BY <2>1, DifferAssumption DEF Written, ValueOf
  <2>5. DiffFields(f, g) = NoFieldChanges => f = g
    BY <2>1 DEF NoFieldChanges, FieldMap
  <2> QED BY <2>1, <2>2, <2>3, <2>4, <2>5, DifferAssumption DEF NormFields, ApplyHeader, ApplyFields
<1>3. NormFields(r.header) = NormFields(b.header)
  BY <1>1, <1>2 DEF Apply, Diff
<1>4. r.rawHeader = b.rawHeader
  BY <1>1, DifferAssumption DEF Apply, ApplyRawHeader, Diff, RawChange
<1>5. Norm(r).objects = Norm(b).objects
  <2> SUFFICES ASSUME NEW u \in Uuid
               PROVE  Norm(r).objects[u] = Norm(b).objects[u]
    BY DEF Norm
  <2> DEFINE x == a.objects[u]
             y == b.objects[u]
             N(o) == IF o = Nil THEN Nil ELSE NormFields(o)
             z == IF x = Nil THEN y ELSE IF y = Nil THEN Nil ELSE x
  <2>1. x \in FieldMap \cup {Nil} /\ y \in FieldMap \cup {Nil}
    BY <1>1 DEF ObjectMap
  <2>2. AfterRemoves(a.objects, d)[u] = z
    BY DifferAssumption DEF AfterRemoves, AfterAdds, Diff
  <2>3. d.modifies[u] = DiffObject(x, y)
    BY DEF Diff
  <2>4. r.objects[u] = IF z = Nil \/ DiffObject(x, y) = Nil THEN z ELSE ApplyFields(z, DiffObject(x, y))
    BY <2>2, <2>3 DEF Apply, ApplyObjects
  <2>5. \A f \in FieldMap, c \in FieldChanges : ApplyFields(f, c) # Nil
    <3>1. \A f \in FieldMap, c \in FieldChanges : ApplyFields(f, c) \in FieldMap
      BY DifferAssumption DEF FieldMap, FieldChanges, FieldChange, ApplyFields, Written
    <3> QED BY <3>1, DifferAssumption
  <2>6. N(r.objects[u]) = N(y)
    <3>1. CASE x = Nil \/ y = Nil
      BY <3>1, <2>4 DEF DiffObject
    <3>2. CASE x \in FieldMap /\ y \in FieldMap
      <4>1. DiffFields(x, y) \in FieldChanges
        BY <3>2, DiffFieldsType
      <4>2. x # Nil /\ y # Nil
        BY <3>2, DifferAssumption
      <4>3. CASE DiffFields(x, y) = NoFieldChanges
        BY <4>2, <4>3, <3>2, <2>4, <1>2 DEF DiffObject
      <4>4. CASE DiffFields(x, y) # NoFieldChanges
        <5>1. r.objects[u] = ApplyFields(x, DiffFields(x, y))
          BY <4>1, <4>2, <4>4, <2>4, DifferAssumption DEF DiffObject
        <5> QED BY <5>1, <4>1, <4>2, <2>5, <3>2, <1>2
      <4> QED BY <4>3, <4>4
    <3> QED BY <2>1, <3>1, <3>2
  <2> QED BY <2>6 DEF Norm
<1> QED BY <1>3, <1>4, <1>5 DEF SameState, Norm

\* A delta computed from one copy of a state may be replayed on another copy: the cached and the
\* rebuilt state of a commit are interchangeable in GitService::reconstruct.
THEOREM Replay ==
    ASSUME NEW a \in LevelState, NEW b \in LevelState, NEW s \in LevelState, SameState(s, a)
    PROVE  SameState(Apply(s, Diff(a, b)), b)
<1>1. SameState(Apply(s, Diff(a, b)), Apply(a, Diff(a, b)))
  BY DiffType, ApplyCongruent
<1> QED BY <1>1, RoundTrip DEF SameState

\* Replaying a commit's delta on any copy of its parent's state reports no conflict (Differ.cpp,
\* apply): the conflicts of a revert are about later commits only.
THEOREM ReplayWithoutConflicts ==
    ASSUME NEW a \in LevelState, NEW b \in LevelState, NEW s \in LevelState, SameState(s, a)
    PROVE  Conflicts(s, Diff(a, b)) = {}
<1> DEFINE d == Diff(a, b)
<1>1. /\ a.header \in FieldMap /\ a.objects \in ObjectMap
      /\ b.header \in FieldMap /\ b.objects \in ObjectMap
      /\ s.header \in FieldMap /\ s.objects \in ObjectMap
  BY DEF LevelState
<1>2. /\ s.rawHeader = a.rawHeader
      /\ NormFields(s.header) = NormFields(a.header)
      /\ Norm(s).objects = Norm(a).objects
  BY DEF SameState, Norm
<1>3. ASSUME NEW f \in FieldMap, NEW g \in FieldMap, NEW h \in FieldMap,
             NormFields(f) = NormFields(g)
      PROVE  \A k \in Key : ~StaleField(f, DiffFields(g, h), k)
  <2>1. \A k \in Key : NormFields(f)[k] = NormFields(g)[k]
    BY <1>3
  <2>2. \A k \in Key : ValueOf(f[k]) = ValueOf(g[k])
    BY <2>1 DEF NormFields, ValueOf
  <2>3. \A k \in Key : DiffFields(g, h)[k] # Nil => DiffFields(g, h)[k].before = ValueOf(g[k])
    BY DEF DiffFields
  <2> QED BY <2>2, <2>3 DEF StaleField
<1>4. \A u \in Uuid : \/ s.objects[u] = Nil /\ a.objects[u] = Nil
                      \/ /\ s.objects[u] \in FieldMap /\ a.objects[u] \in FieldMap
                         /\ s.objects[u] # Nil /\ a.objects[u] # Nil
                         /\ NormFields(s.objects[u]) = NormFields(a.objects[u])
  <2>1. \A u \in Uuid : Norm(s).objects[u] = Norm(a).objects[u]
    BY <1>2
  <2>2. \A f \in FieldMap : NormFields(f) \in FieldMap
    BY DifferAssumption DEF FieldMap, NormFields
  <2> QED BY <2>1, <2>2, <1>1, DifferAssumption DEF Norm, ObjectMap
<1>5. \A k \in Key : ~StaleField(s.header, d.headerChanges, k)
  BY <1>1, <1>2, <1>3 DEF Diff
<1>6. d.rawHeaderChange # Nil => d.rawHeaderChange.before = s.rawHeader
  BY <1>2 DEF Diff
<1>7. ASSUME NEW u \in Uuid
      PROVE  /\ ~(d.adds[u] # Nil /\ s.objects[u] # Nil)
             /\ u \in d.removes => AfterAdds(s.objects, d)[u] # Nil
             /\ d.modifies[u] # Nil =>
                    /\ AfterRemoves(s.objects, d)[u] # Nil
                    /\ \A k \in Key : ~StaleField(AfterRemoves(s.objects, d)[u], d.modifies[u], k)
  <2>1. /\ d.adds[u] = IF a.objects[u] = Nil THEN b.objects[u] ELSE Nil
        /\ u \in d.removes <=> a.objects[u] # Nil /\ b.objects[u] = Nil
        /\ d.modifies[u] = DiffObject(a.objects[u], b.objects[u])
    BY DEF Diff
  <2>2. /\ AfterAdds(s.objects, d)[u] = IF s.objects[u] = Nil THEN d.adds[u] ELSE s.objects[u]
        /\ AfterRemoves(s.objects, d)[u] = IF u \in d.removes THEN Nil
                                           ELSE AfterAdds(s.objects, d)[u]
    BY DEF AfterRemoves, AfterAdds
  <2> HIDE DEF d
  <2>3. d.modifies[u] # Nil => /\ a.objects[u] # Nil /\ b.objects[u] # Nil
                               /\ d.modifies[u] = DiffFields(a.objects[u], b.objects[u])
    BY <2>1 DEF DiffObject
  <2>4. d.modifies[u] # Nil => /\ AfterRemoves(s.objects, d)[u] = s.objects[u]
                               /\ s.objects[u] \in FieldMap /\ a.objects[u] \in FieldMap
                               /\ b.objects[u] \in FieldMap /\ s.objects[u] # Nil
                               /\ NormFields(s.objects[u]) = NormFields(a.objects[u])
    BY <2>1, <2>2, <2>3, <1>1, <1>4 DEF ObjectMap
  <2>5. d.modifies[u] # Nil =>
            \A k \in Key : ~StaleField(s.objects[u], DiffFields(a.objects[u], b.objects[u]), k)
    BY <2>4, <1>3
  <2> QED BY <2>1, <2>2, <2>3, <2>4, <2>5, <1>4
<1>8. d.removes \subseteq Uuid
  BY DEF Diff
<1> HIDE DEF d
<1>9. Conflicts(s, d) = {}
  BY <1>5, <1>6, <1>7, <1>8 DEF Conflicts, AddConflicts
<1> QED BY <1>9 DEF d

-------------------------------------------------------------------------------
(***************************************************************************)
(* Loops                                                                   *)
(***************************************************************************)

\* A set of numbers that is not empty has a least one.
LEMMA LeastNat ==
    ASSUME NEW T \in SUBSET Nat, T # {}
    PROVE  \E n \in T : \A m \in T : n <= m
<1> DEFINE R == StrictSubsetOrdering(Nat)
           F == FiniteSubsetsOf(Nat)
           below == {0 .. n : n \in T}
<1>1. \A n \in T : IsFiniteSet(0 .. n) /\ 0 .. n \in SUBSET Nat
  BY FS_Interval
<1>2. below \subseteq F /\ below # {}
  BY <1>1 DEF FiniteSubsetsOf
<1>3. IsWellFoundedOn(R, F)
  BY FS_StrictSubsetOrderingWellFounded
<1> HIDE DEF R, F, below
<1>4. PICK x \in below : \A y \in below : <<y, x>> \notin R
  BY <1>2, <1>3, WFMin
<1>5. PICK n \in T : x = 0 .. n
  BY DEF below
<1>6. ASSUME NEW m \in T, m < n
      PROVE  FALSE
  <2>1. 0 .. m \subseteq 0 .. n /\ 0 .. m # 0 .. n /\ 0 .. m \in SUBSET Nat /\ 0 .. n \in SUBSET Nat
    BY <1>1, <1>6
  <2>2. <<0 .. m, 0 .. n>> \in R
    BY <2>1 DEF R, StrictSubsetOrdering
  <2> QED
    BY <2>2, <1>4, <1>5 DEF below
<1> QED
  BY <1>6

\* Induction up to N, for a set.
LEMMA UpTo ==
    ASSUME NEW N \in Nat, NEW S, 0 \in S, \A n \in 1 .. N : n - 1 \in S => n \in S
    PROVE  0 .. N \subseteq S
<1> DEFINE T == {n \in 0 .. N : n \notin S}
<1>1. SUFFICES ASSUME T # {} PROVE FALSE
  OBVIOUS
<1>2. PICK n \in T : \A m \in T : n <= m
  <2>1. T \in SUBSET Nat
    OBVIOUS
  <2> HIDE DEF T
  <2> QED
    BY <1>1, <2>1, LeastNat
<1>3. n \in 1 .. N /\ n - 1 \in 0 .. N /\ n - 1 < n
  BY <1>2
<1>4. n - 1 \in S
  BY <1>2, <1>3
<1> QED
  BY <1>2, <1>3, <1>4

\* g is defined by recursion on 0 .. N: it is c at 0 and D[g[i - 1], i] at i.
IsRecursive(g, N, c, D) == g = [i \in 0 .. N |-> IF i = 0 THEN c ELSE D[<<g[i - 1], i>>]]

\* There is such a function.
LEMMA RecursionExists ==
    ASSUME NEW N \in Nat, NEW V, NEW c \in V, NEW D \in [V \X (1 .. N) -> V]
    PROVE  \E g \in [0 .. N -> V] : IsRecursive(g, N, c, D)
<1> DEFINE good(n, g) == g \in [0 .. n -> V] /\ g[0] = c /\ \A i \in 1 .. n : g[i] = D[<<g[i - 1], i>>]
           S == {n \in 0 .. N : \E g : good(n, g)}
<1>1. 0 \in S
  <2>1. PICK g : g = [i \in 0 .. 0 |-> c]
    OBVIOUS
  <2>2. good(0, g)
    BY <2>1
  <2>3. 0 \in 0 .. N
    OBVIOUS
  <2> HIDE DEF good
  <2> QED
    BY <2>2, <2>3
<1>2. ASSUME NEW n \in 1 .. N, n - 1 \in S
      PROVE  n \in S
  <2>1. PICK g : good(n - 1, g)
    BY <1>2
  <2>2. n \in Nat /\ n - 1 \in 0 .. n - 1 /\ n \notin 0 .. n - 1 /\ n # 0
    OBVIOUS
  <2> DEFINE h == [i \in 0 .. n |-> IF i = n THEN D[<<g[n - 1], n>>] ELSE g[i]]
  <2>3. g[n - 1] \in V /\ D[<<g[n - 1], n>>] \in V
    BY <2>1, <2>2
  <2>4. \A i \in 0 .. n : i # n => i \in 0 .. n - 1
    OBVIOUS
  <2>5. h \in [0 .. n -> V]
    BY <2>1, <2>3, <2>4
  <2>6. \A i \in 1 .. n : h[i] = D[<<h[i - 1], i>>]
    <3> TAKE i \in 1 .. n
    <3>1. i \in 0 .. n /\ i - 1 \in 0 .. n /\ i - 1 # n
      OBVIOUS
    <3>2. CASE i = n
      BY <3>1, <3>2
    <3>3. CASE i # n
      <4>1. i \in 1 .. n - 1
        BY <3>3
      <4> QED
        BY <4>1, <3>1, <3>3, <2>1
    <3> QED
      BY <3>2, <3>3
  <2>7. h[0] = c
    BY <2>1, <2>2
  <2> HIDE DEF h
  <2> QED
    BY <2>5, <2>6, <2>7
<1>3. N \in S
  <2> HIDE DEF S
  <2>1. 0 .. N \subseteq S
    BY <1>1, <1>2, UpTo
  <2> QED
    BY <2>1
<1>4. PICK g : good(N, g)
  BY <1>3
<1> DEFINE rhs == [i \in 0 .. N |-> IF i = 0 THEN c ELSE D[<<g[i - 1], i>>]]
<1>5. g = rhs
  <2>1. \A i \in 0 .. N : g[i] = rhs[i]
    <3> TAKE i \in 0 .. N
    <3>1. i = 0 \/ i \in 1 .. N
      OBVIOUS
    <3> QED
      BY <3>1, <1>4
  <2>2. g = [i \in 0 .. N |-> g[i]]
    BY <1>4
  <2> QED
    BY <2>1, <2>2
<1> QED
  BY <1>4, <1>5 DEF IsRecursive
===============================================================================
