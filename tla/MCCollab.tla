------------------------------- MODULE MCCollab -------------------------------
(***************************************************************************)
(* Authors whose objects have one field, with one of two values, and whose *)
(* headers are empty.                                                      *)
(***************************************************************************)
EXTENDS Collab, TLC

Versions == {[k \in Key |-> v] : v \in Str \ {Empty}}
Values == Permutations(Str \ {Empty})
TheNoText == [kv |-> <<>>, odd |-> FALSE]
Texts == {TheNoText}
Keys == <<"k">>
NoChannels == [v \in Str |-> IF v = Empty THEN [c \in Channel |-> Nil] ELSE Malformed]

Levels == {[EmptyState EXCEPT !.objects = o] : o \in [Uuid -> Versions \cup {Nil}]}
Packages == [rootHash : {HashLevelState(s) : s \in Levels}, head : Levels]
===============================================================================
