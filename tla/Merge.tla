-------------------------------- MODULE Merge --------------------------------
(***************************************************************************)
(* mergeStates3Way of src/service/MergeService.cpp: the level of another   *)
(* author (theirs) is merged into one's own (ours), relative to the state  *)
(* that both began with (base).                                            *)
(***************************************************************************)
EXTENDS GdHeader

CONSTANT MaxUuid    \* bound of the model on uuids, 2^64 - 1 in the code

ASSUME MergeAssumption == MaxUuid \in Nat /\ Uuid = 1 .. MaxUuid

\* mergeFieldMap: a missing key reads as the empty string, and an empty value erases the key.  In a
\* conflict ours stays as it is.
MergedField(b, o, t) ==
    LET v == Pick(ValueOf(b), ValueOf(o), ValueOf(t))
    IN  IF Clash(ValueOf(b), ValueOf(o), ValueOf(t)) THEN o ELSE IF v = Empty THEN Nil ELSE v

MergedFields(b, o, t) == [k \in Key |-> MergedField(b[k], o[k], t[k])]
FieldClashes(b, o, t) ==
    Cardinality({k \in Key : Clash(ValueOf(b[k]), ValueOf(o[k]), ValueOf(t[k]))})

\* The raw header: merged by key if all three parse, else taken whole.
MergedRawHeader(b, o, t) ==
    IF Parses(b) /\ Parses(o) /\ Parses(t) THEN MergeHeaders3Way(b, o, t)
    ELSE [text |-> Pick(b, o, t), conflicts |-> IF Clash(b, o, t) THEN 1 ELSE 0]

\* nextUuid: above every uuid of ours, and of ours only.
NextUuid(objects) ==
    CHOOSE n \in 1 .. MaxUuid + 1 :
        /\ \A u \in Uuid : objects[u] # Nil => u < n
        /\ n = 1 \/ objects[n - 1] # Nil

AddNext(acc, t) ==
    [acc EXCEPT !.objects = [u \in Uuid |-> IF u = acc.next THEN t ELSE acc.objects[u]],
                !.next = @ + 1]

\* Mutant: an object that both sides added is taken from theirs.
BothAdded_Theirs(acc, u, o, t) == [acc EXCEPT !.objects[u] = t]
\* Mutant: the two versions are not compared.
BothAdded_Always(acc, u, o, t) == AddNext(acc, t)

\* An object that both sides have and the base has not: two versions become two objects.
BothAdded(acc, u, o, t) ==
    IF o = t THEN acc ELSE AddNext(acc, t)

\* Mutant: an object that ours removed counts as a conflict although theirs left it alone.
RemovedByOurs_Conflict(acc, u, b, t) == [acc EXCEPT !.conflicts = @ + 1]

\* Theirs still has the object: it stays away if theirs did not change it.
RemovedByOurs(acc, u, b, t) ==
    IF t = b THEN [acc EXCEPT !.objects[u] = Nil] ELSE [acc EXCEPT !.conflicts = @ + 1]

\* One iteration of the loop over the ids.
MergeObject(acc, u, b, o, t) ==
    CASE o = Nil /\ t = Nil -> [acc EXCEPT !.objects[u] = Nil]
      [] b = Nil /\ o = Nil /\ t # Nil -> [acc EXCEPT !.objects[u] = t]
      [] b = Nil /\ o # Nil /\ t = Nil -> acc
      [] b = Nil /\ o # Nil /\ t # Nil -> BothAdded(acc, u, o, t)
      [] b # Nil /\ o = Nil /\ t # Nil -> RemovedByOurs(acc, u, b, t)
      [] b # Nil /\ o # Nil /\ t = Nil ->
            IF o = b THEN [acc EXCEPT !.objects[u] = Nil] ELSE [acc EXCEPT !.conflicts = @ + 1]
      [] b # Nil /\ o # Nil /\ t # Nil ->
            [acc EXCEPT !.objects[u] = MergedFields(b, o, t), !.conflicts = @ + FieldClashes(b, o, t)]

\* The loop over the ids of the three states, in ascending order.
MergeObjects(base, ours, theirs) ==
    LET at(u) == <<base[u], ours[u], theirs[u]>>
        loop[n \in 0 .. MaxUuid] ==
            IF n = 0 THEN [objects |-> ours, next |-> NextUuid(ours), conflicts |-> 0]
            ELSE IF at(n) = <<Nil, Nil, Nil>> THEN loop[n - 1]
            ELSE MergeObject(loop[n - 1], n, base[n], ours[n], theirs[n])
    IN  loop[MaxUuid]

MergeStates3Way(base, ours, theirs) ==
    LET raw == MergedRawHeader(base.rawHeader, ours.rawHeader, theirs.rawHeader)
        merged == MergeObjects(base.objects, ours.objects, theirs.objects)
    IN  [state |-> [rawHeader |-> raw.text,
                    header |-> MergedFields(base.header, ours.header, theirs.header),
                    objects |-> merged.objects],
         conflicts |-> FieldClashes(base.header, ours.header, theirs.header)
                       + raw.conflicts + merged.conflicts]

-------------------------------------------------------------------------------
(***************************************************************************)
(* What the properties say about a merge                                   *)
(***************************************************************************)

\* The uuids at which both sides added an object, in two versions.
AddedTwice(base, ours, theirs) ==
    {u \in Uuid : /\ base.objects[u] = Nil /\ ours.objects[u] # Nil /\ theirs.objects[u] # Nil
                  /\ ours.objects[u] # theirs.objects[u]}

\* The uuids that theirs versions of these objects get.
NewUuids(base, ours, theirs) ==
    LET next == NextUuid(ours.objects)
    IN  next .. next + Cardinality(AddedTwice(base, ours, theirs)) - 1

\* Bound of the model: all of them are below MaxUuid.
Fits(base, ours, theirs) == NewUuids(base, ours, theirs) \subseteq Uuid

\* The value x of a side, changed since the base b, is the value y of the result.
Arrives(b, x, y) == x # b => y = x

\* So for an object: y is removed or added as x was, or has every field that x changed.
ObjectArrives(b, x, y) ==
    /\ b # Nil /\ x = Nil => y = Nil
    /\ b # Nil /\ x # Nil /\ x # b => y # Nil /\ \A k \in Key : Arrives(b[k], x[k], y[k])
    /\ b = Nil /\ x # Nil => y = x

\* None of the new uuids is one that an object of the base or of theirs has.
NewUuidsFree(base, ours, theirs) ==
    \A u \in NewUuids(base, ours, theirs) : base.objects[u] = Nil /\ theirs.objects[u] = Nil

\* The same objects, whatever their uuids.
SameObjects(s, t) ==
    \A f \in ({s.objects[u] : u \in Uuid} \cup {t.objects[u] : u \in Uuid}) \ {Nil} :
        Cardinality({u \in Uuid : s.objects[u] = f}) = Cardinality({u \in Uuid : t.objects[u] = f})
===============================================================================
