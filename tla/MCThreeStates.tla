---------------------------- MODULE MCThreeStates ----------------------------
(***************************************************************************)
(* Triples of level states: two uuids (and two more for objects that both  *)
(* sides added) with a field that is missing, empty or has one of two      *)
(* values; header texts with a setting and the colours, in and out of      *)
(* order, with a key twice, with a token left over.                        *)
(***************************************************************************)
EXTENDS ThreeStates

K == "k1"
C == "kS38"
Keys == <<K, C>>

Strings == {"", "a", "b", "1r", "1s", "2r", "1r2r", "2r1r", "1s2r"}

\* Two channels; "a" and "b" are no channel texts, and two texts read as the same channels.
ChannelTexts ==
    [v \in Strings |->
        CASE v \in {"a", "b"} -> Malformed
          [] OTHER -> [c \in Channel |->
                CASE c = 1 /\ v \in {"1r", "1r2r", "2r1r"} -> "r"
                  [] c = 1 /\ v \in {"1s", "1s2r"} -> "s"
                  [] c = 2 /\ v \in {"2r", "1r2r", "2r1r", "1s2r"} -> "r"
                  [] OTHER -> Nil]]

Pairs(n) == [1 .. n -> {K, C} \X Strings]
Texts == [kv : UNION {Pairs(n) : n \in 0 .. 2}, odd : BOOLEAN]
TheNoText == [kv |-> <<>>, odd |-> FALSE]

Even(kv) == [kv |-> kv, odd |-> FALSE]

Chunks ==
    {Even(<<>>), Even(<<<<K, "a">>, <<K, "b">>>>), [kv |-> <<<<K, "a">>>>, odd |-> TRUE]}
    \cup {Even(<<<<K, v>>>>) : v \in {"", "a", "b"}}
    \cup {Even(<<<<K, v>>, <<C, "1r">>>>) : v \in {"", "a", "b"}}
    \cup {Even(<<<<C, "1r">>, <<K, v>>>>) : v \in {"", "a", "b"}}
    \cup {Even(<<<<C, v>>, <<K, "a">>>>) : v \in {"", "1s", "2r", "1r2r", "2r1r", "b"}}

OneField(v) == [NoFields EXCEPT ![K] = v]
SomeObjects == {Nil} \cup {OneField(v) : v \in {Nil, "", "a", "b"}}

SomeStates ==
    {ParseHeaderChunk(t) : t \in Chunks}
    \cup {[EmptyState EXCEPT !.objects[1] = o, !.objects[2] = p] : o, p \in SomeObjects}
===============================================================================
