---------------------------- MODULE MCGitService ----------------------------
(***************************************************************************)
(* Level states for model checking the service: one object with one field. *)
(***************************************************************************)
EXTENDS GitService

AnyDelta == Delta

\* The level with its one object, whose field has the value v or, for Nil, is missing.
WithObject(u, v) == [EmptyState EXCEPT !.objects[u] = [k \in Key |-> v]]

\* An object with an empty field, and one with a field of value "a".
TwoStates == {WithObject(u, v) : u \in Uuid, v \in Str}
=============================================================================
