-------------------------------- MODULE Differ --------------------------------
(***************************************************************************)
(* diff and apply of src/diff: a commit stores the difference between two  *)
(* level states, and history is rebuilt by applying the differences again. *)
(*                                                                         *)
(* A map of the code (FieldMap, objects) is a total function whose value   *)
(* is Nil where the map has no entry.  The empty string is a value of its  *)
(* own: the code confuses it with a missing key in some places and tells   *)
(* the two apart in others, which is what SameState is about.              *)
(* dumpDelta and parseDelta keep every component of a delta, empty strings *)
(* and absent raw header change included, so the stored blob is the delta. *)
(***************************************************************************)

CONSTANTS
    Key,      \* field keys of headers and objects
    Str,      \* field values
    Empty,    \* the empty string
    RawText,  \* texts of the level's header chunk
    EmptyRaw, \* the empty text
    Uuid,     \* object identities
    Nil       \* no entry, no object, no change

FieldMap == [Key -> Str \cup {Nil}]
ObjectMap == [Uuid -> FieldMap \cup {Nil}]
LevelState == [rawHeader : RawText, header : FieldMap, objects : ObjectMap]

FieldChange == [before : Str, after : Str]
RawChange == [before : RawText, after : RawText]
FieldChanges == [Key -> FieldChange \cup {Nil}]

\* removes lists whole objects in the code; apply only reads their uuids.
Delta == [headerChanges : FieldChanges,
          rawHeaderChange : RawChange \cup {Nil},
          adds : ObjectMap,
          removes : SUBSET Uuid,
          modifies : [Uuid -> FieldChanges \cup {Nil}]]

ASSUME DifferAssumption ==
    /\ Empty \in Str
    /\ Nil \notin Str
    /\ Nil \notin FieldMap
    /\ EmptyRaw \in RawText
    /\ Nil \notin RawText
    /\ Nil \notin FieldChange
    /\ Nil \notin RawChange
    /\ Nil \notin FieldChanges

NoFields == [k \in Key |-> Nil]
NoFieldChanges == [k \in Key |-> Nil]

\* A default-constructed LevelState.
EmptyState == [rawHeader |-> EmptyRaw, header |-> NoFields, objects |-> [u \in Uuid |-> Nil]]

-------------------------------------------------------------------------------
(***************************************************************************)
(* diff                                                                    *)
(***************************************************************************)

\* A missing key reads as the empty string.
ValueOf(v) == IF v = Nil THEN Empty ELSE v

DiffFields(a, b) ==
    [k \in Key |-> IF a[k] = b[k] THEN Nil
                   ELSE [before |-> ValueOf(a[k]), after |-> ValueOf(b[k])]]

DiffObject(a, b) ==
    IF a = Nil \/ b = Nil \/ DiffFields(a, b) = NoFieldChanges THEN Nil ELSE DiffFields(a, b)

Diff(prev, next) ==
    [headerChanges |-> DiffFields(prev.header, next.header),
     rawHeaderChange |-> IF prev.rawHeader = next.rawHeader THEN Nil
                         ELSE [before |-> prev.rawHeader, after |-> next.rawHeader],
     adds |-> [u \in Uuid |-> IF prev.objects[u] = Nil THEN next.objects[u] ELSE Nil],
     removes |-> {u \in Uuid : prev.objects[u] # Nil /\ next.objects[u] = Nil},
     modifies |-> [u \in Uuid |-> DiffObject(prev.objects[u], next.objects[u])]]

-------------------------------------------------------------------------------
(***************************************************************************)
(* apply                                                                   *)
(***************************************************************************)

\* What a change leaves in the map: an empty "after" erases the key.
Written(change) == IF change.after = Empty THEN Nil ELSE change.after

\* Header changes are applied even when stale.
ApplyHeader(header, changes) ==
    [k \in Key |-> IF changes[k] = Nil THEN header[k] ELSE Written(changes[k])]

\* Mutant: a missing key is not read as the empty string.
StaleField_MissingKey(fields, changes, k) ==
    changes[k] # Nil /\ fields[k] # changes[k].before

StaleField(fields, changes, k) ==
    changes[k] # Nil /\ ValueOf(fields[k]) # changes[k].before

\* Object changes are skipped, one field at a time, when stale.
ApplyFields(fields, changes) ==
    [k \in Key |-> IF changes[k] = Nil \/ StaleField(fields, changes, k)
                   THEN fields[k] ELSE Written(changes[k])]

\* Adds, then removes, then modifies.
AfterAdds(objects, d) ==
    [u \in Uuid |-> IF objects[u] = Nil THEN d.adds[u] ELSE objects[u]]
AfterRemoves(objects, d) ==
    [u \in Uuid |-> IF u \in d.removes THEN Nil ELSE AfterAdds(objects, d)[u]]
ApplyObjects(objects, d) ==
    [u \in Uuid |-> IF AfterRemoves(objects, d)[u] = Nil \/ d.modifies[u] = Nil
                    THEN AfterRemoves(objects, d)[u]
                    ELSE ApplyFields(AfterRemoves(objects, d)[u], d.modifies[u])]

\* Mutant: the optional change is read without asking whether there is one.
ApplyRawHeader_Unchecked(rawHeader, change) == IF change = Nil THEN Nil ELSE change.after
ApplyRawHeader(rawHeader, change) == IF change = Nil THEN rawHeader ELSE change.after

Apply(base, d) ==
    [rawHeader |-> ApplyRawHeader(base.rawHeader, d.rawHeaderChange),
     header |-> ApplyHeader(base.header, d.headerChanges),
     objects |-> ApplyObjects(base.objects, d)]

\* Mutant: an add that finds the object there already is not reported.
AddConflicts_Unreported(base, d) == {}
AddConflicts(base, d) ==
    {<<"AddAlreadyExists", u>> : u \in {u \in Uuid : d.adds[u] # Nil /\ base.objects[u] # Nil}}

\* The conflicts apply reports, each with what it is about.
Conflicts(base, d) ==
    {<<"ModifyStale", "header", k>> : k \in {k \in Key : StaleField(base.header, d.headerChanges, k)}}
    \cup (IF d.rawHeaderChange # Nil /\ d.rawHeaderChange.before # base.rawHeader
          THEN {<<"ModifyStale", "rawHeader">>} ELSE {})
    \cup AddConflicts(base, d)
    \cup {<<"Missing", u>> : u \in {u \in d.removes : AfterAdds(base.objects, d)[u] = Nil}}
    \cup {<<"Missing", u>> :
            u \in {u \in Uuid : d.modifies[u] # Nil /\ AfterRemoves(base.objects, d)[u] = Nil}}
    \cup UNION {{<<"ModifyStale", u, k>> : k \in
                   {k \in Key : StaleField(AfterRemoves(base.objects, d)[u], d.modifies[u], k)}} :
            u \in {u \in Uuid : d.modifies[u] # Nil /\ AfterRemoves(base.objects, d)[u] # Nil}}

-------------------------------------------------------------------------------
(***************************************************************************)
(* States up to "a missing key is an empty string".                        *)
(***************************************************************************)

NormFields(fields) == [k \in Key |-> IF fields[k] = Empty THEN Nil ELSE fields[k]]

Norm(s) ==
    [rawHeader |-> s.rawHeader,
     header |-> NormFields(s.header),
     objects |-> [u \in Uuid |-> IF s.objects[u] = Nil THEN Nil ELSE NormFields(s.objects[u])]]

SameState(s, t) == Norm(s) = Norm(t)
===============================================================================
