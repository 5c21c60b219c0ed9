-------------------------------- MODULE Matcher --------------------------------
(***************************************************************************)
(* Object identity: assignUuids of src/identity/Matcher.cpp.  The level as *)
(* the editor has it names no uuids; each of its objects gets the uuid of  *)
(* an object of HEAD that looks the same, or of one that is near, or a new *)
(* one.  One action is one iteration of the loop.                          *)
(*                                                                         *)
(* Coordinates are counted in halves, since the fingerprint rounds them.   *)
(* Those that do not fit an int, which the code's casts leave undefined,   *)
(* are not modelled.                                                       *)
(***************************************************************************)
EXTENDS Integers, Sequences, FiniteSets

CONSTANTS
    Objects,      \* objects: type, x, y, pose (rotation and groups) and other fields
    MaxUuid,      \* bound of the model on the uuids of HEAD
    MaxIncoming,  \* bound of the model on the objects in the editor
    Threshold     \* kSpatialThreshold, in halves

ASSUME MatcherAssumption ==
    /\ \A o \in Objects : {o.x, o.y} \subseteq Int
    /\ {MaxUuid, MaxIncoming} \subseteq Nat
    /\ Threshold \in Nat \ {0}

VARIABLES
    previous,     \* uuid -> object, of HEAD
    incoming,     \* the objects of the editor, in the order of their placeholders
    next,         \* index of the object that the loop is at
    rebuilt       \* uuid -> object; the uuids claimed are those in its domain

vars == <<previous, incoming, next, rebuilt>>

Init ==
    /\ previous \in UNION {[S -> Objects] : S \in SUBSET (1 .. MaxUuid)}
    /\ incoming \in UNION {[1 .. n -> Objects] : n \in 0 .. MaxIncoming}
    /\ next = 1
    /\ rebuilt = [u \in {} |-> {}]

\* previous is written in the order of its uuids by serializeLevelString.
WrittenLevel ==
    [n \in 1 .. Cardinality(DOMAIN previous) |->
        previous[CHOOSE u \in DOMAIN previous : Cardinality({v \in DOMAIN previous : v <= u}) = n]]

-------------------------------------------------------------------------------
Claimed == DOMAIN rebuilt

\* std::lround: halves go away from zero.
Round(h) == IF h >= 0 THEN (h + 1) \div 2 ELSE -((1 - h) \div 2)

FingerprintOf(o) == <<o.type, Round(o.x), Round(o.y), o.pose>>

\* Mutant: the cells are half as wide as the threshold.
SpatialCellOf_Half(o) == <<o.type, o.x \div (Threshold \div 2), o.y \div (Threshold \div 2)>>
SpatialCellOf(o) == <<o.type, o.x \div Threshold, o.y \div Threshold>>

DistanceSquared(a, b) == (a.x - b.x) * (a.x - b.x) + (a.y - b.y) * (a.y - b.y)

\* The candidate that pop_front of the bucket brings, claimed ones passed over: the least uuid.
InBucket(o) == {u \in DOMAIN previous \ Claimed : FingerprintOf(previous[u]) = FingerprintOf(o)}

\* Mutant: pop_back.
FromBucket_Last(o) == CHOOSE u \in InBucket(o) : \A v \in InBucket(o) : v <= u
FromBucket(o) == CHOOSE u \in InBucket(o) : \A v \in InBucket(o) : u <= v

\* The candidates in the nine cells around the object's.
InGrid(o) ==
    LET center == SpatialCellOf(o)
    IN  {u \in DOMAIN previous \ Claimed :
            /\ \E dx, dy \in -1 .. 1 :
                SpatialCellOf(previous[u]) = <<center[1], center[2] + dx, center[3] + dy>>
            /\ DistanceSquared(previous[u], o) < Threshold * Threshold}

\* The order in which the loops meet the candidates: by column, by row, by uuid.
ScannedBefore(u, v) ==
    LET a == SpatialCellOf(previous[u])
        b == SpatialCellOf(previous[v])
    IN  \/ a[2] < b[2]
        \/ a[2] = b[2] /\ a[3] < b[3]
        \/ a[2] = b[2] /\ a[3] = b[3] /\ u < v

\* The nearest; the first that is met of several.
FromGrid(o) ==
    LET d(u) == DistanceSquared(previous[u], o)
    IN  CHOOSE u \in InGrid(o) : \A v \in InGrid(o) \ {u} :
            d(u) < d(v) \/ (d(u) = d(v) /\ ScannedBefore(u, v))

\* freshUuid draws from 2^64 values: one that no object has.
FreshUuid(n) == MaxUuid + n

\* Mutant: the grid is searched only if there is no bucket.
Matched_NoFallback(o) ==
    IF InBucket(o) # {} THEN FromBucket(o)
    ELSE IF InGrid(o) # {} /\ \A u \in DOMAIN previous : FingerprintOf(previous[u]) # FingerprintOf(o)
    THEN FromGrid(o) ELSE FreshUuid(next)

\* Mutant: an object in the grid is taken although it is claimed.
Matched_Claimed(o) ==
    LET near == {u \in DOMAIN previous : /\ previous[u].type = o.type
                                         /\ DistanceSquared(previous[u], o) < Threshold * Threshold}
    IN  IF InBucket(o) # {} THEN FromBucket(o)
        ELSE IF near # {} THEN CHOOSE u \in near : TRUE ELSE FreshUuid(next)

Matched(o) ==
    IF InBucket(o) # {} THEN FromBucket(o)
    ELSE IF InGrid(o) # {} THEN FromGrid(o) ELSE FreshUuid(next)

\* unordered_map::emplace
Emplace(u, o) == [v \in Claimed \cup {u} |-> IF v \in Claimed THEN rebuilt[v] ELSE o]

AssignNext ==
    /\ DOMAIN previous # {} /\ next <= Len(incoming)
    /\ LET o == incoming[next]
       IN  rebuilt' = Emplace(Matched(o), o)
    /\ next' = next + 1
    /\ UNCHANGED <<previous, incoming>>

\* HEAD has no objects.
AssignFreshUuids ==
    /\ DOMAIN previous = {} /\ next <= Len(incoming)
    /\ rebuilt' = [u \in {FreshUuid(n) : n \in DOMAIN incoming} |-> incoming[u - MaxUuid]]
    /\ next' = Len(incoming) + 1
    /\ UNCHANGED <<previous, incoming>>

Next == AssignNext \/ AssignFreshUuids

Spec == Init /\ [][Next]_vars
-------------------------------------------------------------------------------
(***************************************************************************)
(* Properties                                                              *)
(***************************************************************************)

Count(S, o) == Cardinality({i \in DOMAIN S : S[i] = o})

\* No object is lost or doubled on the way: the level that is committed has every object of the editor
\* as often as the editor, since no uuid is handed out twice (emplace would drop the second object).
NoObjectLost ==
    \A o \in Objects : Count(rebuilt, o) = Count(SubSeq(incoming, 1, next - 1), o)

\* The search in nine cells finds what a search of the whole level would: the nearest object of the
\* same type that nobody claimed, wherever cell borders run and on both sides of zero.
GridFindsNearest ==
    next <= Len(incoming) =>
        LET o == incoming[next]
            near == {u \in DOMAIN previous \ Claimed :
                        /\ previous[u].type = o.type
                        /\ DistanceSquared(previous[u], o) < Threshold * Threshold}
        IN  /\ InGrid(o) = near
            /\ near # {} => \A u \in near :
                DistanceSquared(previous[FromGrid(o)], o) <= DistanceSquared(previous[u], o)

Done == next > Len(incoming)

\* A level that was checked out and is committed as it is gives an empty delta:
\* every object has its uuid again, also if several have the same fingerprint.
UnchangedLevelKeepsUuids == Done /\ incoming = WrittenLevel => rebuilt = previous

\* An edit shows as an object added and another removed only if there was nothing to match: an object
\* that got a new uuid is not near an object of its type, in HEAD, whose uuid nobody got, and does not
\* look like one.
AddAndRemoveOnlyIfFar ==
    Done => \A f \in Claimed \ DOMAIN previous, u \in DOMAIN previous \ Claimed :
        /\ rebuilt[f].type = previous[u].type
            => DistanceSquared(rebuilt[f], previous[u]) >= Threshold * Threshold
        /\ FingerprintOf(rebuilt[f]) # FingerprintOf(previous[u])
===============================================================================
