------------------------------ MODULE MCMatcher ------------------------------
(***************************************************************************)
(* Objects around the corner of four cells, with a threshold of two units, *)
(* and among them some with the same fingerprint.                          *)
(***************************************************************************)
EXTENDS Matcher

Obj(t, x, y, p, o) == [type |-> t, x |-> x, y |-> y, pose |-> p, other |-> o]
Around ==
    {Obj("a", x, y, 1, 1) : x \in {-4, -1, 3}, y \in {0}}
    \cup {Obj("a", -1, -3, 1, 1), Obj("a", 0, 0, 1, 1), Obj("a", 0, 0, 2, 1), Obj("a", 0, 0, 1, 2),
          Obj("b", 0, 0, 1, 1)}
=============================================================================
