----------------------------- MODULE MatcherProofs -----------------------------
(***************************************************************************)
(* Proofs about assignUuids, for any set of objects, any coordinates, any  *)
(* threshold and levels of any size.                                       *)
(*                                                                         *)
(* MatcherInv is inductive: a uuid that the loop hands out comes from      *)
(* previous or is the fresh one of its object, so none is claimed twice;   *)
(* and what is claimed stays claimed, so an object that found nothing near *)
(* has nothing near at the end.                                            *)
(***************************************************************************)
EXTENDS Matcher, FiniteSetTheorems, FunctionTheorems, SequenceTheorems, WellFoundedInduction, TLAPS

\* The objects of HEAD that nobody claimed and that are near o, wherever they are.
Near(o) == {u \in DOMAIN previous \ Claimed :
                /\ previous[u].type = o.type
                /\ DistanceSquared(previous[u], o) < Threshold * Threshold}

TypeInv ==
    /\ DOMAIN previous \subseteq 1 .. MaxUuid
    /\ previous \in [DOMAIN previous -> Objects]
    /\ incoming \in Seq(Objects)
    /\ next \in 1 .. Len(incoming) + 1
    /\ Claimed \subseteq DOMAIN previous \cup {FreshUuid(n) : n \in 1 .. next - 1}
    /\ rebuilt \in [Claimed -> Objects]

\* The uuids of the copies of an object, and their places in the editor's list.
UuidsOf(o) == {u \in Claimed : rebuilt[u] = o}
PlacesOf(o) == {i \in 1 .. next - 1 : incoming[i] = o}

CountInv ==
    \A o \in Objects :
        /\ IsFiniteSet(UuidsOf(o)) /\ IsFiniteSet(PlacesOf(o))
        /\ Cardinality(UuidsOf(o)) = Cardinality(PlacesOf(o))

FarInv ==
    \A f \in Claimed \ DOMAIN previous, u \in DOMAIN previous \ Claimed :
        /\ rebuilt[f].type = previous[u].type
            => DistanceSquared(rebuilt[f], previous[u]) >= Threshold * Threshold
        /\ FingerprintOf(rebuilt[f]) # FingerprintOf(previous[u])

MatcherInv == TypeInv /\ CountInv /\ FarInv

-------------------------------------------------------------------------------
(***************************************************************************)
(* Arithmetic of the grid                                                  *)
(***************************************************************************)

\* A point nearer than T is nearer than T in each coordinate.
LEMMA SquareBound ==
    ASSUME NEW a \in Int, NEW b \in Int, NEW T \in Nat \ {0}, a * a + b * b < T * T
    PROVE  a < T /\ -a < T
<1>1. b * b >= 0
  OBVIOUS
<1>2. a * a < T * T
  BY <1>1
<1>3. ASSUME a >= T PROVE FALSE
  <2>1. a * a >= T * a
    BY <1>3
  <2>2. T * a >= T * T
    BY <1>3
  <2> QED BY <1>2, <2>1, <2>2
<1>4. ASSUME -a >= T PROVE FALSE
  <2>1. (-a) * (-a) >= T * (-a)
    BY <1>4
  <2>2. T * (-a) >= T * T
    BY <1>4
  <2>3. (-a) * (-a) = a * a
    OBVIOUS
  <2> QED BY <1>2, <2>1, <2>2, <2>3
<1> QED BY <1>3, <1>4

\* A cell holds T coordinates, also left of zero (std::floor of a quotient).
LEMMA DivBound ==
    ASSUME NEW x \in Int, NEW T \in Nat \ {0}
    PROVE  x \div T \in Int /\ T * (x \div T) <= x /\ x < T * (x \div T) + T
OBVIOUS

\* Coordinates nearer than T are in the same cell or in cells next to each other.
LEMMA CellsNear ==
    ASSUME NEW x \in Int, NEW y \in Int, NEW T \in Nat \ {0}, x - y < T, y - x < T
    PROVE  \E d \in -1 .. 1 : x \div T = y \div T + d
<1>1. PICK p : p = x \div T
  OBVIOUS
<1>2. PICK q : q = y \div T
  OBVIOUS
<1>3. /\ p \in Int /\ T * p <= x /\ x < T * p + T
      /\ q \in Int /\ T * q <= y /\ y < T * q + T
  BY <1>1, <1>2, DivBound
<1>4. T * p \in Int /\ T * q \in Int
  BY <1>3
<1>5. ASSUME NEW a \in Int, NEW b \in Int, a >= b + 2 PROVE T * a >= T * b + 2 * T
  BY <1>5
<1>6. p <= q + 1
  BY <1>3, <1>4, <1>5
<1>7. q <= p + 1
  BY <1>3, <1>4, <1>5
<1>8. p - q \in -1 .. 1 /\ p = q + (p - q)
  BY <1>3, <1>6, <1>7
<1> QED
  BY <1>1, <1>2, <1>8

LEMMA DistanceType ==
    ASSUME NEW a \in Objects, NEW b \in Objects
    PROVE  /\ a.x \in Int /\ a.y \in Int /\ b.x \in Int /\ b.y \in Int
           /\ DistanceSquared(a, b) \in Nat /\ DistanceSquared(a, b) = DistanceSquared(b, a)
<1>1. a.x \in Int /\ a.y \in Int /\ b.x \in Int /\ b.y \in Int
  BY MatcherAssumption
<1>2. \A z \in Int : z * z \in Nat /\ z * z = (-z) * (-z)
  OBVIOUS
<1>3. /\ a.x - b.x \in Int /\ a.y - b.y \in Int
      /\ b.x - a.x = -(a.x - b.x) /\ b.y - a.y = -(a.y - b.y)
  BY <1>1
<1> QED
  BY <1>1, <1>2, <1>3 DEF DistanceSquared

\* The nine cells hold exactly what is near (Matcher.cpp, the two loops over dx and dy).
LEMMA GridIsNear ==
    ASSUME TypeInv, NEW o \in Objects
    PROVE  InGrid(o) = Near(o)
<1> DEFINE T == Threshold
<1>1. T \in Nat \ {0} /\ o.x \in Int /\ o.y \in Int
  BY MatcherAssumption
<1>2. SpatialCellOf(o) = <<o.type, o.x \div T, o.y \div T>>
  BY DEF SpatialCellOf
<1>3. ASSUME NEW u \in DOMAIN previous
      PROVE  /\ previous[u] \in Objects /\ previous[u].x \in Int /\ previous[u].y \in Int
             /\ SpatialCellOf(previous[u]) =
                    <<previous[u].type, previous[u].x \div T, previous[u].y \div T>>
  BY <1>3, MatcherAssumption DEF TypeInv, SpatialCellOf
<1>4. ASSUME NEW u \in Near(o) PROVE u \in InGrid(o)
  <2>1. PICK p : p = previous[u]
    OBVIOUS
  <2>2. /\ p \in Objects /\ p.x \in Int /\ p.y \in Int /\ p.type = o.type
        /\ (p.x - o.x) * (p.x - o.x) + (p.y - o.y) * (p.y - o.y) < T * T
    BY <2>1, <1>3, <1>4 DEF Near, DistanceSquared
  <2>3. p.x - o.x < T /\ -(p.x - o.x) < T
    <3>1. p.x - o.x \in Int /\ p.y - o.y \in Int
      BY <2>2, <1>1
    <3> QED
      BY <3>1, <2>2, <1>1, SquareBound
  <2>4. p.y - o.y < T /\ -(p.y - o.y) < T
    <3>1. p.x - o.x \in Int /\ p.y - o.y \in Int
      BY <2>2, <1>1
    <3>2. (p.y - o.y) * (p.y - o.y) + (p.x - o.x) * (p.x - o.x) < T * T
      <4>1. \A a, b \in Int : a + b = b + a
        OBVIOUS
      <4>2. (p.y - o.y) * (p.y - o.y) \in Int /\ (p.x - o.x) * (p.x - o.x) \in Int
        BY <3>1
      <4> QED BY <4>1, <4>2, <2>2
    <3> QED
      BY <3>1, <3>2, <1>1, SquareBound
  <2>5. p.x - o.x < T /\ o.x - p.x < T /\ p.y - o.y < T /\ o.y - p.y < T
    BY <2>2, <2>3, <2>4, <1>1
  <2>6. PICK dx \in -1 .. 1 : p.x \div T = o.x \div T + dx
    BY <2>2, <2>5, <1>1, CellsNear
  <2>7. PICK dy \in -1 .. 1 : p.y \div T = o.y \div T + dy
    BY <2>2, <2>5, <1>1, CellsNear
  <2>8. u \in DOMAIN previous \ Claimed /\ DistanceSquared(previous[u], o) < T * T
    BY <1>4 DEF Near
  <2>9. SpatialCellOf(previous[u]) = <<o.type, o.x \div T + dx, o.y \div T + dy>>
    BY <2>1, <2>2, <2>6, <2>7, <2>8, <1>3
  <2> QED
    BY <2>8, <2>9, <1>2 DEF InGrid
<1>5. ASSUME NEW u \in InGrid(o) PROVE u \in Near(o)
  BY <1>2, <1>3, <1>5 DEF InGrid, Near
<1> QED
  BY <1>4, <1>5

-------------------------------------------------------------------------------
(***************************************************************************)
(* The choices of the code exist                                           *)
(***************************************************************************)

\* A set of natural numbers has a least element.
LEMMA LeastNat ==
    ASSUME NEW T \in SUBSET Nat, T # {}
    PROVE  \E n \in T : \A m \in T : n <= m
<1> DEFINE R == StrictSubsetOrdering(Nat)
           F == FiniteSubsetsOf(Nat)
           below == {0 .. n : n \in T}
<1>1. \A n \in T : IsFiniteSet(0 .. n) /\ 0 .. n \in SUBSET Nat
  BY FS_Interval
<1>2. below \subseteq F /\ below # {}
  BY <1>1 DEF FiniteSubsetsOf
<1>3. IsWellFoundedOn(R, F)
  BY FS_StrictSubsetOrderingWellFounded
<1> HIDE DEF R, F, below
<1>4. PICK x \in below : \A y \in below : <<y, x>> \notin R
  BY <1>2, <1>3, WFMin
<1>5. PICK n \in T : x = 0 .. n
  BY DEF below
<1>6. ASSUME NEW m \in T, m < n
      PROVE  FALSE
  <2>1. 0 .. m \subseteq 0 .. n /\ 0 .. m # 0 .. n /\ 0 .. m \in SUBSET Nat /\ 0 .. n \in SUBSET Nat
    BY <1>1, <1>6
  <2>2. <<0 .. m, 0 .. n>> \in R
    BY <2>1 DEF R, StrictSubsetOrdering
  <2> QED
    BY <2>2, <1>4, <1>5 DEF below
<1> QED
  BY <1>6

\* A number of every element, and one of them with the least.
LEMMA LeastBy ==
    ASSUME NEW S, S # {}, NEW f \in [S -> Nat]
    PROVE  \E u \in S : \A v \in S : f[u] <= f[v]
<1>1. {f[u] : u \in S} \in SUBSET Nat /\ {f[u] : u \in S} # {}
  OBVIOUS
<1>2. PICK n \in {f[u] : u \in S} : \A m \in {f[u] : u \in S} : n <= m
  BY <1>1, LeastNat
<1> QED
  BY <1>2

\* pop_front of a bucket brings an object of the bucket, with the least uuid.
LEMMA BucketHasFirst ==
    ASSUME TypeInv, NEW o, InBucket(o) # {}
    PROVE  FromBucket(o) \in InBucket(o) /\ \A v \in InBucket(o) : FromBucket(o) <= v
<1>1. InBucket(o) \in SUBSET Nat
  BY MatcherAssumption DEF InBucket, TypeInv
<1>2. \E u \in InBucket(o) : \A v \in InBucket(o) : u <= v
  BY <1>1, LeastNat
<1> QED
  BY <1>2 DEF FromBucket

\* The loops over the grid bring an object of the grid, and none is nearer.
LEMMA GridHasNearest ==
    ASSUME TypeInv, NEW o \in Objects, InGrid(o) # {}
    PROVE  /\ FromGrid(o) \in InGrid(o)
           /\ \A v \in InGrid(o) :
                DistanceSquared(previous[FromGrid(o)], o) <= DistanceSquared(previous[v], o)
<1> DEFINE S == InGrid(o)
           cell(v) == SpatialCellOf(previous[v])
           center == SpatialCellOf(o)
           d(v) == DistanceSquared(previous[v], o)
<1>1. S \subseteq DOMAIN previous /\ \A v \in S : v \in Nat /\ previous[v] \in Objects
  BY MatcherAssumption DEF InGrid, TypeInv
<1>2. \A v \in S : d(v) \in Nat
  BY <1>1, DistanceType
<1>3. center[2] \in Int /\ center[3] \in Int
  <2>1. center = <<o.type, o.x \div Threshold, o.y \div Threshold>>
    BY DEF SpatialCellOf
  <2> QED
    BY <2>1, MatcherAssumption
<1>4. ASSUME NEW v \in S
      PROVE  \E dx, dy \in -1 .. 1 : cell(v)[2] = center[2] + dx /\ cell(v)[3] = center[3] + dy
  <2>1. \E dx, dy \in -1 .. 1 : cell(v) = <<center[1], center[2] + dx, center[3] + dy>>
    BY <1>4 DEF InGrid
  <2> QED
    BY <2>1
<1>5. \A v \in S : /\ cell(v)[2] \in Int /\ cell(v)[2] - center[2] + 1 \in Nat
                   /\ cell(v)[3] \in Int /\ cell(v)[3] - center[3] + 1 \in Nat
  <2> SUFFICES ASSUME NEW v \in S
               PROVE  /\ cell(v)[2] \in Int /\ cell(v)[2] - center[2] + 1 \in Nat
                      /\ cell(v)[3] \in Int /\ cell(v)[3] - center[3] + 1 \in Nat
    OBVIOUS
  <2>1. PICK dx, dy \in -1 .. 1 : cell(v)[2] = center[2] + dx /\ cell(v)[3] = center[3] + dy
    BY <1>4
  <2> HIDE DEF cell, center
  <2> QED
    BY <2>1, <1>3
<1> HIDE DEF S, cell, center, d
<1>6. PICK a \in S : \A v \in S : d(a) <= d(v)
  <2>1. PICK f : f = [v \in S |-> d(v)]
    OBVIOUS
  <2>2. f \in [S -> Nat] /\ S # {} /\ \A v \in S : f[v] = d(v)
    BY <2>1, <1>2 DEF S
  <2>3. PICK u \in S : \A v \in S : f[u] <= f[v]
    BY <2>2, LeastBy
  <2> QED
    BY <2>2, <2>3
<1> DEFINE S1 == {v \in S : d(v) = d(a)}
<1>7. PICK b \in S1 : \A v \in S1 : cell(b)[2] <= cell(v)[2]
  <2>1. PICK f : f = [v \in S1 |-> cell(v)[2] - center[2] + 1]
    OBVIOUS
  <2>2. f \in [S1 -> Nat] /\ S1 # {} /\ \A v \in S1 : f[v] = cell(v)[2] - center[2] + 1
    BY <2>1, <1>5
  <2>3. PICK u \in S1 : \A v \in S1 : f[u] <= f[v]
    BY <2>2, LeastBy
  <2>4. \A v \in S1 : cell(u)[2] - center[2] + 1 <= cell(v)[2] - center[2] + 1
    BY <2>2, <2>3
  <2> QED
    BY <2>4, <1>3, <1>5
<1> DEFINE S2 == {v \in S1 : cell(v)[2] = cell(b)[2]}
<1>8. PICK c \in S2 : \A v \in S2 : cell(c)[3] <= cell(v)[3]
  <2>1. PICK f : f = [v \in S2 |-> cell(v)[3] - center[3] + 1]
    OBVIOUS
  <2>2. f \in [S2 -> Nat] /\ S2 # {} /\ \A v \in S2 : f[v] = cell(v)[3] - center[3] + 1
    BY <2>1, <1>5
  <2>3. PICK u \in S2 : \A v \in S2 : f[u] <= f[v]
    BY <2>2, LeastBy
  <2>4. \A v \in S2 : cell(u)[3] - center[3] + 1 <= cell(v)[3] - center[3] + 1
    BY <2>2, <2>3
  <2> QED
    BY <2>4, <1>3, <1>5
<1> DEFINE S3 == {v \in S2 : cell(v)[3] = cell(c)[3]}
<1>9. PICK u \in S3 : \A v \in S3 : u <= v
  <2>1. S3 \in SUBSET Nat /\ S3 # {}
    BY <1>1
  <2> QED
    BY <2>1, LeastNat
<1>10. \A v \in S \ {u} :
         \/ d(u) < d(v)
         \/ /\ d(u) = d(v)
            /\ \/ cell(u)[2] < cell(v)[2]
               \/ cell(u)[2] = cell(v)[2] /\ cell(u)[3] < cell(v)[3]
               \/ cell(u)[2] = cell(v)[2] /\ cell(u)[3] = cell(v)[3] /\ u < v
  <2> SUFFICES ASSUME NEW v \in S \ {u}, ~(d(u) < d(v))
               PROVE  /\ d(u) = d(v)
                      /\ \/ cell(u)[2] < cell(v)[2]
                         \/ cell(u)[2] = cell(v)[2] /\ cell(u)[3] < cell(v)[3]
                         \/ cell(u)[2] = cell(v)[2] /\ cell(u)[3] = cell(v)[3] /\ u < v
    OBVIOUS
  <2>1. d(u) = d(a) /\ d(v) = d(a)
    BY <1>2, <1>6, <1>9
  <2>2. v \in S1 /\ u \in S1 /\ cell(u)[2] = cell(b)[2] /\ cell(b)[2] <= cell(v)[2]
    BY <2>1, <1>7, <1>9
  <2>3. cell(u)[2] = cell(v)[2] => v \in S2 /\ cell(u)[3] = cell(c)[3] /\ cell(c)[3] <= cell(v)[3]
    BY <2>2, <1>8, <1>9
  <2>4. cell(u)[2] = cell(v)[2] /\ cell(u)[3] = cell(v)[3] => u <= v
    BY <2>3, <1>9
  <2> QED
    BY <2>1, <2>2, <2>3, <2>4, <1>1, <1>5
<1>11. u \in InGrid(o) /\ \A v \in InGrid(o) \ {u} :
          \/ DistanceSquared(previous[u], o) < DistanceSquared(previous[v], o)
          \/ DistanceSquared(previous[u], o) = DistanceSquared(previous[v], o) /\ ScannedBefore(u, v)
  BY <1>9, <1>10 DEF S, d, cell, ScannedBefore
<1>12. FromGrid(o) \in InGrid(o) /\ \A v \in InGrid(o) \ {FromGrid(o)} :
          \/ DistanceSquared(previous[FromGrid(o)], o) < DistanceSquared(previous[v], o)
          \/ DistanceSquared(previous[FromGrid(o)], o) = DistanceSquared(previous[v], o)
  BY <1>11 DEF FromGrid
<1> QED
  BY <1>2, <1>12 DEF S, d

-------------------------------------------------------------------------------
(***************************************************************************)
(* One iteration of the loop                                               *)
(***************************************************************************)

\* The uuid that an object gets is nobody's yet; it is new only if nothing was there to match.
LEMMA MatchedIsFree ==
    ASSUME TypeInv, next <= Len(incoming), NEW o \in Objects
    PROVE  /\ Matched(o) \notin Claimed
           /\ Matched(o) \in DOMAIN previous \cup {FreshUuid(next)}
           /\ Matched(o) \notin DOMAIN previous => InBucket(o) = {} /\ Near(o) = {}
<1>1. CASE InBucket(o) # {}
  <2>1. FromBucket(o) \in DOMAIN previous \ Claimed
    BY <1>1, BucketHasFirst DEF InBucket
  <2> QED
    BY <1>1, <2>1 DEF Matched
<1>2. CASE InBucket(o) = {} /\ InGrid(o) # {}
  <2>1. FromGrid(o) \in DOMAIN previous \ Claimed
    BY <1>2, GridHasNearest DEF InGrid
  <2> QED
    BY <1>2, <2>1 DEF Matched
<1>3. CASE InBucket(o) = {} /\ InGrid(o) = {}
  <2>1. Matched(o) = FreshUuid(next) /\ Near(o) = {}
    BY <1>3, GridIsNear DEF Matched
  <2>2. MaxUuid \in Nat /\ next \in Nat \ {0}
    BY MatcherAssumption DEF TypeInv
  <2>3. FreshUuid(next) \notin DOMAIN previous
    BY <2>2 DEF FreshUuid, TypeInv
  <2>4. FreshUuid(next) \notin {FreshUuid(n) : n \in 1 .. next - 1}
    BY <2>2 DEF FreshUuid
  <2>5. FreshUuid(next) \notin Claimed
    BY <2>3, <2>4 DEF TypeInv
  <2> QED
    BY <1>3, <2>1, <2>5
<1> QED
  BY <1>1, <1>2, <1>3

\* What an iteration does: one more uuid is claimed, for the object that the loop is at.
AssignEffect(m, o) ==
    /\ o = incoming[next] /\ o \in Objects /\ m = Matched(o)
    /\ m \notin Claimed /\ m \in DOMAIN previous \cup {FreshUuid(next)}
    /\ m \notin DOMAIN previous => InBucket(o) = {} /\ Near(o) = {}
    /\ Claimed' = Claimed \cup {m}
    /\ rebuilt'[m] = o /\ \A v \in Claimed : rebuilt'[v] = rebuilt[v]
    /\ rebuilt' \in [Claimed' -> Objects]
    /\ next' = next + 1 /\ next \in 1 .. Len(incoming)
    /\ previous' = previous /\ incoming' = incoming

LEMMA AssignNextEffect ==
    ASSUME TypeInv, AssignNext
    PROVE  \E m, o : AssignEffect(m, o)
<1>1. PICK o : o = incoming[next]
  OBVIOUS
<1>2. next \in 1 .. Len(incoming) /\ o \in Objects
  BY <1>1 DEF TypeInv, AssignNext
<1>3. PICK m : m = Matched(o)
  OBVIOUS
<1>4. /\ m \notin Claimed /\ m \in DOMAIN previous \cup {FreshUuid(next)}
      /\ m \notin DOMAIN previous => InBucket(o) = {} /\ Near(o) = {}
  BY <1>2, <1>3, MatchedIsFree DEF AssignNext
<1>5. rebuilt' = [v \in Claimed \cup {m} |-> IF v \in Claimed THEN rebuilt[v] ELSE o]
  BY <1>1, <1>3 DEF AssignNext, Emplace
<1>6. Claimed' = Claimed \cup {m}
  BY <1>5 DEF Claimed
<1>7. \A v \in Claimed : rebuilt[v] \in Objects
  BY DEF TypeInv
<1>8. rebuilt' \in [Claimed' -> Objects]
  BY <1>2, <1>5, <1>6, <1>7
<1>9. rebuilt'[m] = o /\ \A v \in Claimed : rebuilt'[v] = rebuilt[v]
  BY <1>4, <1>5
<1>10. next' = next + 1 /\ previous' = previous /\ incoming' = incoming
  BY DEF AssignNext
<1> QED
  BY <1>1, <1>2, <1>3, <1>4, <1>6, <1>8, <1>9, <1>10 DEF AssignEffect

LEMMA AssignNextType ==
    ASSUME TypeInv, NEW m, NEW o, AssignEffect(m, o)
    PROVE  TypeInv'
<1>1. next' \in 1 .. Len(incoming) + 1
  BY DEF AssignEffect, TypeInv
<1>2. Claimed' \subseteq DOMAIN previous \cup {FreshUuid(n) : n \in 1 .. next' - 1}
  <2>1. \A n \in 1 .. next : n \in 1 .. next' - 1
    BY DEF AssignEffect, TypeInv
  <2>2. \A n \in 1 .. next - 1 : n \in 1 .. next
    BY DEF TypeInv
  <2>3. next \in 1 .. next
    BY DEF TypeInv
  <2> QED
    BY <2>1, <2>2, <2>3 DEF AssignEffect, TypeInv
<1>3. TypeInv' = /\ DOMAIN previous' \subseteq 1 .. MaxUuid
                 /\ previous' \in [DOMAIN previous' -> Objects]
                 /\ incoming' \in Seq(Objects)
                 /\ next' \in 1 .. Len(incoming') + 1
                 /\ Claimed' \subseteq DOMAIN previous' \cup {FreshUuid(n) : n \in 1 .. next' - 1}
                 /\ rebuilt' \in [Claimed' -> Objects]
  BY DEF TypeInv, FreshUuid
<1> QED
  BY <1>1, <1>2, <1>3 DEF AssignEffect, TypeInv

\* One more copy of the object in the level, one more place in the editor's list.
LEMMA AssignNextCount ==
    ASSUME TypeInv, CountInv, NEW m, NEW o, AssignEffect(m, o)
    PROVE  CountInv'
<1>1. next \in Nat /\ next' - 1 = next /\ incoming' = incoming
  BY DEF AssignEffect, TypeInv
<1> SUFFICES ASSUME NEW p \in Objects
             PROVE  /\ IsFiniteSet(UuidsOf(p)') /\ IsFiniteSet(PlacesOf(p)')
                    /\ Cardinality(UuidsOf(p)') = Cardinality(PlacesOf(p)')
  BY DEF CountInv
<1>2. UuidsOf(p)' = {u \in Claimed' : rebuilt'[u] = p} /\ PlacesOf(p)' = {i \in 1 .. next : incoming[i] = p}
  BY <1>1 DEF UuidsOf, PlacesOf
<1>3. /\ IsFiniteSet(UuidsOf(p)) /\ IsFiniteSet(PlacesOf(p))
      /\ Cardinality(UuidsOf(p)) = Cardinality(PlacesOf(p))
  BY DEF CountInv
<1>4. CASE p = o
  <2>1. UuidsOf(p)' = UuidsOf(p) \cup {m} /\ m \notin UuidsOf(p)
    BY <1>2, <1>4 DEF AssignEffect, UuidsOf
  <2>2. PlacesOf(p)' = PlacesOf(p) \cup {next} /\ next \notin PlacesOf(p)
    <3>1. 1 .. next = (1 .. next - 1) \cup {next} /\ next \notin 1 .. next - 1
      BY DEF AssignEffect, TypeInv
    <3> QED
      BY <3>1, <1>2, <1>4 DEF AssignEffect, PlacesOf
  <2>3. IsFiniteSet(UuidsOf(p)') /\ Cardinality(UuidsOf(p)') = Cardinality(UuidsOf(p)) + 1
    BY <2>1, <1>3, FS_AddElement
  <2>4. IsFiniteSet(PlacesOf(p)') /\ Cardinality(PlacesOf(p)') = Cardinality(PlacesOf(p)) + 1
    BY <2>2, <1>3, FS_AddElement
  <2> QED
    BY <2>3, <2>4, <1>3
<1>5. CASE p # o
  <2>1. UuidsOf(p)' = UuidsOf(p)
    BY <1>2, <1>5 DEF AssignEffect, UuidsOf
  <2>2. PlacesOf(p)' = PlacesOf(p)
    <3>1. 1 .. next = (1 .. next - 1) \cup {next}
      BY DEF AssignEffect, TypeInv
    <3> QED
      BY <3>1, <1>2, <1>5 DEF AssignEffect, PlacesOf
  <2> QED
    BY <2>1, <2>2, <1>3
<1> QED
  BY <1>4, <1>5

\* An object that found nothing has nothing later: what is claimed stays claimed.
LEMMA AssignNextFar ==
    ASSUME TypeInv, FarInv, NEW m, NEW o, AssignEffect(m, o)
    PROVE  FarInv'
<1> SUFFICES ASSUME NEW f \in Claimed' \ DOMAIN previous, NEW u \in DOMAIN previous \ Claimed'
             PROVE  /\ rebuilt'[f].type = previous[u].type
                        => DistanceSquared(rebuilt'[f], previous[u]) >= Threshold * Threshold
                    /\ FingerprintOf(rebuilt'[f]) # FingerprintOf(previous[u])
  <2>1. previous' = previous
    BY DEF AssignEffect
  <2> QED
    BY <2>1 DEF FarInv, DistanceSquared, FingerprintOf, Round
<1>1. u \in DOMAIN previous \ Claimed /\ previous[u] \in Objects
  BY DEF AssignEffect, TypeInv
<1>2. CASE f \in Claimed
  BY <1>1, <1>2 DEF AssignEffect, FarInv
<1>3. CASE f \notin Claimed
  <2>1. f = m /\ rebuilt'[f] = o /\ o \in Objects /\ InBucket(o) = {} /\ Near(o) = {}
    BY <1>3 DEF AssignEffect
  <2>2. FingerprintOf(o) # FingerprintOf(previous[u])
    BY <2>1, <1>1 DEF InBucket
  <2>3. o.type = previous[u].type => ~(DistanceSquared(previous[u], o) < Threshold * Threshold)
    BY <2>1, <1>1 DEF Near
  <2>4. /\ DistanceSquared(previous[u], o) \in Nat
        /\ DistanceSquared(previous[u], o) = DistanceSquared(o, previous[u])
    BY <2>1, <1>1, DistanceType
  <2>5. Threshold * Threshold \in Nat
    BY MatcherAssumption
  <2> QED
    BY <2>1, <2>2, <2>3, <2>4, <2>5
<1> QED
  BY <1>2, <1>3

-------------------------------------------------------------------------------
(***************************************************************************)
(* An empty HEAD                                                           *)
(***************************************************************************)

LEMMA AssignFreshUuidsInv ==
    ASSUME TypeInv, AssignFreshUuids
    PROVE  MatcherInv'
<1> DEFINE N == Len(incoming)
<1>1. /\ N \in Nat /\ DOMAIN incoming = 1 .. N /\ \A i \in 1 .. N : incoming[i] \in Objects
      /\ MaxUuid \in Nat
  BY MatcherAssumption DEF TypeInv
<1>2. /\ previous' = previous /\ incoming' = incoming /\ DOMAIN previous = {}
      /\ next' = N + 1 /\ next' - 1 = N
      /\ rebuilt' = [u \in {FreshUuid(n) : n \in 1 .. N} |-> incoming[u - MaxUuid]]
  BY <1>1 DEF AssignFreshUuids
<1> HIDE DEF N
<1>3. Claimed' = {FreshUuid(n) : n \in 1 .. N}
  BY <1>2 DEF Claimed
<1>4. \A n \in 1 .. N : FreshUuid(n) - MaxUuid = n
  BY <1>1 DEF FreshUuid
<1>5. \A n \in 1 .. N : FreshUuid(n) \in Claimed' /\ rebuilt'[FreshUuid(n)] = incoming[n]
  BY <1>2, <1>3, <1>4
<1>6. rebuilt' \in [Claimed' -> Objects]
  <2>1. \A u \in Claimed' : incoming[u - MaxUuid] \in Objects
    BY <1>1, <1>3, <1>4
  <2> QED
    BY <2>1, <1>2, <1>3
<1>7. TypeInv'
  <2>1. TypeInv' = /\ DOMAIN previous' \subseteq 1 .. MaxUuid
                   /\ previous' \in [DOMAIN previous' -> Objects]
                   /\ incoming' \in Seq(Objects)
                   /\ next' \in 1 .. Len(incoming') + 1
                   /\ Claimed' \subseteq DOMAIN previous' \cup {FreshUuid(n) : n \in 1 .. next' - 1}
                   /\ rebuilt' \in [Claimed' -> Objects]
    BY DEF TypeInv, FreshUuid
  <2>2. next' \in 1 .. Len(incoming') + 1
    BY <1>1, <1>2 DEF N
  <2> QED
    BY <2>1, <2>2, <1>2, <1>3, <1>6 DEF TypeInv
<1>8. CountInv'
  <2> SUFFICES ASSUME NEW p \in Objects
               PROVE  /\ IsFiniteSet(UuidsOf(p)') /\ IsFiniteSet(PlacesOf(p)')
                      /\ Cardinality(UuidsOf(p)') = Cardinality(PlacesOf(p)')
    BY DEF CountInv
  <2>1. PICK P : P = PlacesOf(p)'
    OBVIOUS
  <2>2. PICK U : U = UuidsOf(p)'
    OBVIOUS
  <2>3. P = {i \in 1 .. N : incoming[i] = p}
    BY <2>1, <1>2 DEF PlacesOf
  <2>4. U = {u \in Claimed' : rebuilt'[u] = p}
    BY <2>2 DEF UuidsOf
  <2>5. P \subseteq 1 .. N /\ IsFiniteSet(1 .. N)
    BY <2>3, <1>1, FS_Interval
  <2>6. IsFiniteSet(P)
    BY <2>5, FS_Subset
  <2>7. \A i \in P : FreshUuid(i) \in U
    BY <2>3, <2>4, <1>5
  <2>8. \A u \in U : \E i \in P : FreshUuid(i) = u
    BY <2>3, <2>4, <1>3, <1>5
  <2>9. \A i, j \in P : FreshUuid(i) = FreshUuid(j) => i = j
    BY <2>5, <1>4
  <2>10. PICK f : f = [i \in P |-> FreshUuid(i)]
    OBVIOUS
  <2>11. f \in Injection(P, U) /\ f \in Surjection(P, U)
    BY <2>7, <2>8, <2>9, <2>10 DEF Injection, IsInjective, Surjection
  <2>12. ExistsBijection(P, U)
    BY <2>11 DEF ExistsBijection, Bijection
  <2>13. IsFiniteSet(U) /\ Cardinality(U) = Cardinality(P)
    BY <2>6, <2>12, FS_Bijection
  <2> QED
    BY <2>1, <2>2, <2>6, <2>13
<1>9. FarInv'
  BY <1>2 DEF FarInv
<1> QED
  BY <1>7, <1>8, <1>9 DEF MatcherInv

-------------------------------------------------------------------------------
(***************************************************************************)
(* The invariant and what follows from it                                  *)
(***************************************************************************)

LEMMA MatcherInitially == Init => MatcherInv
<1> SUFFICES ASSUME Init PROVE MatcherInv
  OBVIOUS
<1>1. PICK S \in SUBSET (1 .. MaxUuid) : previous \in [S -> Objects]
  BY DEF Init
<1>2. DOMAIN previous = S
  BY <1>1
<1>3. incoming \in Seq(Objects) /\ Len(incoming) \in Nat
  <2>1. PICK n \in 0 .. MaxIncoming : incoming \in [1 .. n -> Objects]
    BY DEF Init
  <2>2. n \in Nat
    BY <2>1, MatcherAssumption
  <2> QED
    BY <2>1, <2>2
<1>4. next = 1 /\ rebuilt = [u \in {} |-> {}] /\ Claimed = {}
  BY DEF Init, Claimed
<1>5. rebuilt \in [Claimed -> Objects]
  BY <1>4
<1>6. TypeInv
  BY <1>1, <1>2, <1>3, <1>4, <1>5 DEF TypeInv
<1>7. \A o : UuidsOf(o) = {} /\ PlacesOf(o) = {}
  BY <1>4 DEF UuidsOf, PlacesOf
<1>8. CountInv
  BY <1>7, FS_EmptySet DEF CountInv
<1>9. FarInv
  BY <1>4 DEF FarInv
<1> QED
  BY <1>6, <1>8, <1>9 DEF MatcherInv

LEMMA MatcherStep == MatcherInv /\ [Next]_vars => MatcherInv'
<1> SUFFICES ASSUME MatcherInv, [Next]_vars PROVE MatcherInv'
  OBVIOUS
<1>1. CASE AssignNext
  <2>1. PICK m, o : AssignEffect(m, o)
    BY <1>1, AssignNextEffect DEF MatcherInv
  <2> QED
    BY <2>1, AssignNextType, AssignNextCount, AssignNextFar DEF MatcherInv
<1>2. CASE AssignFreshUuids
  BY <1>2, AssignFreshUuidsInv DEF MatcherInv
<1>3. CASE UNCHANGED vars
  <2>1. /\ previous' = previous /\ incoming' = incoming /\ next' = next /\ rebuilt' = rebuilt
        /\ Claimed' = Claimed
    BY <1>3 DEF vars, Claimed
  <2>2. TypeInv'
    BY <2>1 DEF MatcherInv, TypeInv, FreshUuid
  <2>3. \A o : UuidsOf(o)' = UuidsOf(o) /\ PlacesOf(o)' = PlacesOf(o)
    BY <2>1 DEF UuidsOf, PlacesOf
  <2>4. CountInv'
    BY <2>3 DEF MatcherInv, CountInv
  <2>5. FarInv'
    BY <2>1 DEF MatcherInv, FarInv, FingerprintOf, Round, DistanceSquared
  <2> QED
    BY <2>2, <2>4, <2>5 DEF MatcherInv
<1> QED
  BY <1>1, <1>2, <1>3 DEF Next

\* assignUuids keeps MatcherInv in every iteration.
THEOREM MatcherInvariant == Spec => []MatcherInv
BY MatcherInitially, MatcherStep, PTL DEF Spec

\* The level that is committed has every object of the editor as often as the editor: no uuid is
\* handed out twice, so emplace never drops an object.
THEOREM NothingIsLost == Spec => []NoObjectLost
<1>1. MatcherInv => NoObjectLost
  <2> SUFFICES ASSUME MatcherInv, NEW o \in Objects
               PROVE  Count(rebuilt, o) = Count(SubSeq(incoming, 1, next - 1), o)
    BY DEF NoObjectLost
  <2>1. next - 1 \in Nat /\ \A i \in 1 .. next - 1 : incoming[i] \in Objects
    BY DEF MatcherInv, TypeInv
  <2>2. PICK s : s = SubSeq(incoming, 1, next - 1)
    OBVIOUS
  <2>3. /\ s \in Seq(Objects)
        /\ Len(s) = IF 1 <= next - 1 THEN (next - 1) - 1 + 1 ELSE 0
        /\ \A i \in 1 .. (next - 1) - 1 + 1 : s[i] = incoming[1 + i - 1]
    BY <2>1, <2>2, SubSeqProperties
  <2>4. DOMAIN s = 1 .. next - 1 /\ \A i \in 1 .. next - 1 : s[i] = incoming[i]
    BY <2>1, <2>3
  <2>5. {i \in DOMAIN s : s[i] = o} = PlacesOf(o)
    BY <2>4 DEF PlacesOf
  <2>6. {u \in DOMAIN rebuilt : rebuilt[u] = o} = UuidsOf(o)
    BY DEF UuidsOf, Claimed
  <2> QED
    BY <2>2, <2>5, <2>6 DEF Count, MatcherInv, CountInv
<1> QED
  BY <1>1, MatcherInvariant, PTL

\* The nine cells bring what a search of the whole level would, whatever the coordinates and the
\* threshold: the nearest object of the type that nobody claimed.
THEOREM NearestIsFound == Spec => []GridFindsNearest
<1>1. MatcherInv => GridFindsNearest
  <2> SUFFICES ASSUME MatcherInv, next <= Len(incoming) PROVE GridFindsNearest
    BY DEF GridFindsNearest
  <2>1. PICK o : o = incoming[next]
    OBVIOUS
  <2>2. TypeInv /\ o \in Objects
    BY <2>1 DEF MatcherInv, TypeInv
  <2>3. InGrid(o) = Near(o)
    BY <2>2, GridIsNear
  <2>4. Near(o) # {} => \A u \in Near(o) :
            DistanceSquared(previous[FromGrid(o)], o) <= DistanceSquared(previous[u], o)
    BY <2>2, <2>3, GridHasNearest
  <2> QED
    BY <2>1, <2>3, <2>4 DEF GridFindsNearest, Near
<1> QED
  BY <1>1, MatcherInvariant, PTL

\* An object is added and another removed only if the two have nothing to do with each other.
THEOREM AddedMeansFar == Spec => []AddAndRemoveOnlyIfFar
<1>1. MatcherInv => AddAndRemoveOnlyIfFar
  BY DEF MatcherInv, FarInv, AddAndRemoveOnlyIfFar
<1> QED
  BY <1>1, MatcherInvariant, PTL

-------------------------------------------------------------------------------
(***************************************************************************)
(* The level as it was checked out                                         *)
(***************************************************************************)

\* The place of an object of HEAD in the level that is written.
Rank(u) == Cardinality({v \in DOMAIN previous : v <= u})

\* Places are 1, 2, ... in the order of the uuids, and none is left out.
LEMMA RankIsPlace ==
    ASSUME TypeInv
    PROVE  /\ Cardinality(DOMAIN previous) \in Nat
           /\ \A u \in DOMAIN previous : u \in Nat /\ Rank(u) \in 1 .. Cardinality(DOMAIN previous)
           /\ \A u, v \in DOMAIN previous : u < v => Rank(u) < Rank(v)
           /\ \A n \in 1 .. Cardinality(DOMAIN previous) : \E u \in DOMAIN previous : Rank(u) = n
<1> DEFINE D == DOMAIN previous
           upTo(u) == {v \in D : v <= u}
<1>1. D \subseteq 1 .. MaxUuid /\ IsFiniteSet(1 .. MaxUuid) /\ \A u \in D : u \in Nat
  <2>1. MaxUuid \in Nat /\ D \subseteq 1 .. MaxUuid
    BY MatcherAssumption DEF TypeInv
  <2>2. IsFiniteSet(1 .. MaxUuid)
    BY <2>1, FS_Interval
  <2> QED
    BY <2>1, <2>2
<1>2. IsFiniteSet(D) /\ Cardinality(D) \in Nat
  BY <1>1, FS_Subset, FS_CardinalityType
<1> HIDE DEF D
<1>3. \A u \in D : upTo(u) \subseteq D /\ u \in upTo(u)
  BY <1>1
<1>4. \A u \in D : IsFiniteSet(upTo(u)) /\ Cardinality(upTo(u)) <= Cardinality(D)
  BY <1>2, <1>3, FS_Subset
<1>5. \A u \in D : Cardinality(upTo(u)) \in Nat /\ Cardinality(upTo(u)) # 0
  BY <1>3, <1>4, FS_CardinalityType, FS_EmptySet
<1>6. \A u \in D : Rank(u) = Cardinality(upTo(u))
  BY DEF Rank, D
<1>7. \A u \in D : Rank(u) \in 1 .. Cardinality(D)
  <2> SUFFICES ASSUME NEW u \in D PROVE Rank(u) \in 1 .. Cardinality(D)
    OBVIOUS
  <2>1. PICK k : k = Cardinality(upTo(u))
    OBVIOUS
  <2>2. k \in Nat /\ k # 0 /\ k <= Cardinality(D) /\ Rank(u) = k
    BY <2>1, <1>4, <1>5, <1>6
  <2> QED
    BY <2>2, <1>2
<1>8. ASSUME NEW u \in D, NEW v \in D, u < v
      PROVE  Rank(u) < Rank(v)
  <2>1. upTo(u) \subseteq upTo(v) /\ v \in upTo(v) /\ v \notin upTo(u)
    <3>1. u \in Nat /\ v \in Nat
      BY <1>1
    <3>2. \A w \in D : w \in Nat /\ (w <= u => w <= v)
      BY <3>1, <1>1, <1>8
    <3>3. ~(v <= u) /\ v <= v
      BY <3>1, <1>8
    <3> QED
      BY <3>2, <3>3
  <2>2. Cardinality(upTo(u)) <= Cardinality(upTo(v)) /\ Cardinality(upTo(u)) # Cardinality(upTo(v))
    BY <2>1, <1>4, FS_Subset
  <2> QED
    BY <2>2, <1>5, <1>6
<1>9. \A u, v \in D : Rank(u) = Rank(v) => u = v
  <2> SUFFICES ASSUME NEW u \in D, NEW v \in D, u # v PROVE Rank(u) # Rank(v)
    OBVIOUS
  <2>1. u < v \/ v < u
    BY <1>1
  <2> QED
    BY <2>1, <1>7, <1>8
<1>10. PICK f : f = [u \in D |-> Rank(u)]
  OBVIOUS
<1>11. f \in Injection(D, 1 .. Cardinality(D))
  BY <1>7, <1>9, <1>10 DEF Injection, IsInjective
<1>12. IsFiniteSet(1 .. Cardinality(D)) /\ Cardinality(1 .. Cardinality(D)) = Cardinality(D)
  BY <1>2, FS_Interval
<1>13. f \in Surjection(D, 1 .. Cardinality(D))
  BY <1>11, <1>12, FS_Injection
<1>14. \A n \in 1 .. Cardinality(D) : \E u \in D : Rank(u) = n
  BY <1>10, <1>13 DEF Surjection
<1> QED
  BY <1>1, <1>2, <1>7, <1>8, <1>14 DEF D

LEMMA WrittenInOrder ==
    ASSUME TypeInv, incoming = WrittenLevel
    PROVE  /\ Len(incoming) = Cardinality(DOMAIN previous)
           /\ \A u \in DOMAIN previous : incoming[Rank(u)] = previous[u]
<1> DEFINE D == DOMAIN previous
           at(n) == CHOOSE u \in D : Rank(u) = n
<1>1. /\ Cardinality(D) \in Nat
      /\ \A u \in D : u \in Nat /\ Rank(u) \in 1 .. Cardinality(D)
      /\ \A u, v \in D : u < v => Rank(u) < Rank(v)
  BY RankIsPlace
<1>2. incoming = [n \in 1 .. Cardinality(D) |-> previous[at(n)]]
  BY DEF WrittenLevel, Rank
<1>3. Len(incoming) = Cardinality(D)
  <2>1. DOMAIN incoming = 1 .. Len(incoming) /\ Len(incoming) \in Nat
    BY DEF TypeInv
  <2>2. DOMAIN incoming = 1 .. Cardinality(D)
    BY <1>2
  <2> QED
    BY <2>1, <2>2, <1>1
<1> HIDE DEF D
<1>4. ASSUME NEW u \in D PROVE at(Rank(u)) = u
  <2>1. at(Rank(u)) \in D /\ Rank(at(Rank(u))) = Rank(u)
    OBVIOUS
  <2> HIDE DEF at
  <2> QED
    BY <2>1, <1>1
<1> HIDE DEF at
<1>5. \A u \in D : incoming[Rank(u)] = previous[u]
  BY <1>1, <1>2, <1>4
<1> QED
  BY <1>3, <1>5 DEF D

\* So far every object has its own uuid again, if the level is the one that was written.
OwnUuidsInv ==
    incoming = WrittenLevel =>
        /\ Claimed = {u \in DOMAIN previous : Rank(u) < next}
        /\ \A u \in Claimed : rebuilt[u] = previous[u]

\* The bucket brings the object itself: those of the same fingerprint that are written before it
\* are claimed, and the others have greater uuids.
LEMMA OwnUuidMatched ==
    ASSUME TypeInv, OwnUuidsInv, incoming = WrittenLevel, NEW m, NEW o, AssignEffect(m, o)
    PROVE  m \in DOMAIN previous /\ Rank(m) = next /\ o = previous[m]
<1>1. /\ \A u \in DOMAIN previous : u \in Nat /\ Rank(u) \in 1 .. Cardinality(DOMAIN previous)
      /\ \A u, v \in DOMAIN previous : u < v => Rank(u) < Rank(v)
      /\ \A n \in 1 .. Cardinality(DOMAIN previous) : \E u \in DOMAIN previous : Rank(u) = n
      /\ Cardinality(DOMAIN previous) \in Nat
  BY RankIsPlace
<1>2. /\ Len(incoming) = Cardinality(DOMAIN previous)
      /\ \A u \in DOMAIN previous : incoming[Rank(u)] = previous[u]
  BY WrittenInOrder
<1>3. PICK a \in DOMAIN previous : Rank(a) = next
  BY <1>1, <1>2 DEF AssignEffect
<1>4. o = previous[a]
  BY <1>2, <1>3 DEF AssignEffect
<1>5. next \in Nat /\ Claimed = {u \in DOMAIN previous : Rank(u) < next}
  BY DEF TypeInv, OwnUuidsInv
<1>6. a \in InBucket(o)
  BY <1>3, <1>4, <1>5 DEF InBucket
<1>7. \A v \in InBucket(o) : v \in DOMAIN previous /\ ~(Rank(v) < next)
  BY <1>5 DEF InBucket
<1>8. \A v \in InBucket(o) : a <= v
  BY <1>1, <1>3, <1>7
<1>9. FromBucket(o) \in InBucket(o) /\ FromBucket(o) <= a
  BY <1>6, BucketHasFirst
<1>10. FromBucket(o) = a
  BY <1>1, <1>7, <1>8, <1>9
<1>11. m = a
  BY <1>6, <1>10 DEF AssignEffect, Matched
<1> QED
  BY <1>3, <1>4, <1>11

LEMMA OwnUuidsStep ==
    ASSUME TypeInv, OwnUuidsInv, [Next]_vars
    PROVE  OwnUuidsInv'
<1>1. incoming' = incoming /\ previous' = previous /\ WrittenLevel' = WrittenLevel
  <2>1. incoming' = incoming /\ previous' = previous
    BY DEF Next, AssignNext, AssignFreshUuids, vars
  <2> QED
    BY <2>1 DEF WrittenLevel
<1>2. \A u : Rank(u)' = Rank(u)
  BY <1>1 DEF Rank
<1> SUFFICES ASSUME incoming = WrittenLevel
             PROVE  /\ Claimed' = {u \in DOMAIN previous : Rank(u) < next'}
                    /\ \A u \in Claimed' : rebuilt'[u] = previous[u]
  BY <1>1, <1>2 DEF OwnUuidsInv
<1>3. Claimed = {u \in DOMAIN previous : Rank(u) < next} /\ \A u \in Claimed : rebuilt[u] = previous[u]
  BY DEF OwnUuidsInv
<1>4. /\ \A u \in DOMAIN previous : u \in Nat /\ Rank(u) \in 1 .. Cardinality(DOMAIN previous)
      /\ \A u, v \in DOMAIN previous : u < v => Rank(u) < Rank(v)
      /\ Cardinality(DOMAIN previous) \in Nat
  BY RankIsPlace
<1>5. CASE AssignNext
  <2>1. PICK m, o : AssignEffect(m, o)
    BY <1>5, AssignNextEffect
  <2>2. m \in DOMAIN previous /\ Rank(m) = next /\ o = previous[m]
    BY <2>1, OwnUuidMatched
  <2>3. \A u \in DOMAIN previous : Rank(u) < next + 1 <=> Rank(u) < next \/ u = m
    BY <2>2, <1>4 DEF TypeInv
  <2> QED
    BY <2>1, <2>2, <2>3, <1>3 DEF AssignEffect
<1>6. CASE AssignFreshUuids
  <2>1. DOMAIN previous = {} /\ next \in Nat \ {0} /\ next <= Len(incoming)
    BY <1>6 DEF AssignFreshUuids, TypeInv
  <2>2. Len(incoming) = 0
    BY <2>1, WrittenInOrder, FS_EmptySet
  <2> QED
    BY <2>1, <2>2
<1>7. CASE UNCHANGED vars
  BY <1>3, <1>7 DEF vars, Claimed
<1> QED
  BY <1>5, <1>6, <1>7 DEF Next

\* A level that was checked out and is committed as it is gives an empty delta, whatever objects
\* it has and however many look the same.
THEOREM UnchangedMeansEmptyDelta == Spec => []UnchangedLevelKeepsUuids
<1>1. Init => OwnUuidsInv
  <2> SUFFICES ASSUME Init PROVE OwnUuidsInv
    OBVIOUS
  <2>1. TypeInv /\ next = 1 /\ Claimed = {}
    BY MatcherInitially DEF MatcherInv, Init, Claimed
  <2>2. \A u \in DOMAIN previous : ~(Rank(u) < 1)
    BY <2>1, RankIsPlace
  <2> QED
    BY <2>1, <2>2 DEF OwnUuidsInv
<1>2. MatcherInv /\ OwnUuidsInv /\ [Next]_vars => OwnUuidsInv'
  BY OwnUuidsStep DEF MatcherInv
<1>3. MatcherInv /\ OwnUuidsInv => UnchangedLevelKeepsUuids
  <2> SUFFICES ASSUME MatcherInv, OwnUuidsInv, next > Len(incoming), incoming = WrittenLevel
               PROVE  rebuilt = previous
    BY DEF UnchangedLevelKeepsUuids, Done
  <2>1. TypeInv /\ next \in Nat /\ previous \in [DOMAIN previous -> Objects] /\ rebuilt \in [Claimed -> Objects]
    BY DEF MatcherInv, TypeInv
  <2>2. Len(incoming) = Cardinality(DOMAIN previous)
    BY <2>1, WrittenInOrder
  <2>3. \A u \in DOMAIN previous : Rank(u) < next
    BY <2>1, <2>2, RankIsPlace
  <2>4. Claimed = DOMAIN previous /\ \A u \in Claimed : rebuilt[u] = previous[u]
    BY <2>3 DEF OwnUuidsInv
  <2> QED
    BY <2>1, <2>4
<1> QED
  BY <1>1, <1>2, <1>3, MatcherInvariant, PTL DEF Spec
===============================================================================
