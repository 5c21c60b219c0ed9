--------------------------- MODULE CommitStoreProofs ---------------------------
(***************************************************************************)
(* Proofs about the commit store, for any number of levels, ids and rows.  *)
(*                                                                         *)
(* HeadInOwnLevel and EveryLevelDeletable are not inductive: a HEAD stays  *)
(* in its level only because no row moves between levels, and a level can  *)
(* be deleted only because no reference crosses levels.  StoreInv adds the *)
(* foreign keys and the latter.                                            *)
(*                                                                         *)
(* The second half is about the opening of the database, for any number of *)
(* interrupted openings and of versions: DatabaseInv says, for each        *)
(* statement, what an opening that stops there leaves behind.              *)
(***************************************************************************)
EXTENDS CommitDatabase, FiniteSetTheorems, SequenceTheorems, TLAPS

\* What a row refers to, if anything, is a row of its level.
RefersWithinLevel(rows, i, id) == id # NoId => id \in DOMAIN rows /\ rows[id].level = rows[i].level

ReferencesInOwnLevel(rows) ==
    \A i \in DOMAIN rows :
        RefersWithinLevel(rows, i, rows[i].parent) /\ RefersWithinLevel(rows, i, rows[i].reverts)

HeadsInOwnLevel(rows, heads) ==
    \A k \in LevelKey : heads[k] # NoId => heads[k] \in DOMAIN rows /\ rows[heads[k]].level = k

StoreInv ==
    /\ StoreTypeOK
    /\ ForeignKeysHold(commits, refs)
    /\ ReferencesInOwnLevel(commits)
    /\ HeadsInOwnLevel(commits, refs)

\* The number of rows of a level is a number: there are only finitely many.
LEMMA RowsOfFinite ==
    ASSUME StoreTypeOK, NEW k
    PROVE  Cardinality(RowsOf(k)) \in Nat
<1>1. IsFiniteSet(1 .. lastId)
  BY FS_Interval DEF StoreTypeOK
<1>2. RowsOf(k) \subseteq 1 .. lastId
  BY DEF RowsOf, StoreTypeOK
<1> QED
  BY <1>1, <1>2, FS_Subset, FS_CardinalityType

\* NextId is fresh, and the ids handed out so far are below it.
LEMMA NextIdFresh ==
    ASSUME StoreTypeOK
    PROVE  /\ NextId \in Nat /\ NextId # NoId /\ NextId \notin 0 .. lastId
           /\ Ids \cup {NextId} \subseteq 1 .. NextId
           /\ 0 .. lastId \subseteq Nat
<1>1. lastId \in Nat
  BY StoreAssumption DEF StoreTypeOK
<1>2. \A i \in Ids : i \in 1 .. lastId
  BY DEF StoreTypeOK
<1> QED
  BY <1>1, <1>2 DEF NextId, NoId

\* An empty database satisfies the invariant.
LEMMA StoreInvInit == StoreInit => StoreInv
<1> SUFFICES ASSUME StoreInit PROVE StoreInv
  OBVIOUS
<1>1. Ids = {} /\ DOMAIN commits = {} /\ \A k \in LevelKey : refs[k] = NoId
  BY DEF StoreInit, Ids
<1>2. commits \in [Ids -> Row] /\ refs \in [LevelKey -> Nat]
  BY <1>1 DEF StoreInit, NoId
<1>3. lastId \in 0 .. MaxId
  BY StoreAssumption DEF StoreInit
<1>4. open \in BOOLEAN
  BY DEF StoreInit
<1>5. StoreTypeOK
  BY <1>1, <1>2, <1>3, <1>4 DEF StoreTypeOK
<1> QED
  BY <1>1, <1>5 DEF StoreInv, ForeignKeysHold, ReferencesInOwnLevel, HeadsInOwnLevel

\* What a transaction has to leave behind; the foreign keys are COMMIT's own business.
LEMMA CommitTxInv ==
    ASSUME StoreInv, NEW rows, NEW heads, NEW last \in Nat,
           CommitTx(rows, heads, last),
           DOMAIN rows \subseteq 1 .. last,
           rows \in [DOMAIN rows -> Row],
           heads \in [LevelKey -> Nat],
           ReferencesInOwnLevel(rows),
           HeadsInOwnLevel(rows, heads)
    PROVE  StoreInv'
<1>1. /\ commits' = rows /\ refs' = heads /\ lastId' = last /\ open' = open /\ last <= MaxId
      /\ ForeignKeysHold(rows, heads)
  BY DEF CommitTx
<1>2. StoreTypeOK'
  BY <1>1, StoreAssumption DEF StoreInv, StoreTypeOK, Ids
<1>3. ForeignKeysHold(commits, refs)'
  BY <1>1 DEF ForeignKeysHold, NoId
<1>4. ReferencesInOwnLevel(commits)' /\ HeadsInOwnLevel(commits, refs)'
  BY <1>1 DEF ReferencesInOwnLevel, RefersWithinLevel, HeadsInOwnLevel, NoId
<1> QED
  BY <1>2, <1>3, <1>4 DEF StoreInv

\* A new commit on top of any parent and reverting any commit, gone or not, of its own level: the
\* foreign keys reject the ones that are gone.
LEMMA InsertAndSetHeadInv ==
    ASSUME StoreInv, NEW k \in LevelKey, NEW m \in Message, NEW t \in Time, NEW d \in Blob,
           NEW p \in IdArgs(k) \cup {NoId}, NEW r \in IdArgs(k) \cup {NoId},
           InsertAndSetHead(k, p, r, m, t, d)
    PROVE  StoreInv'
<1> DEFINE row == [level |-> k, parent |-> p, reverts |-> r, message |-> m, createdAt |-> t,
                   delta |-> d]
           rows == InsertRow(commits, NextId, row)
           heads == [refs EXCEPT ![k] = NextId]
<1>1. CommitTx(rows, heads, NextId)
  BY DEF InsertAndSetHead
<1>2. /\ DOMAIN rows = Ids \cup {NextId} /\ NextId \notin Ids /\ NextId \in Nat /\ NextId # NoId
      /\ rows[NextId] = row
      /\ \A i \in Ids : rows[i] = commits[i]
  BY NextIdFresh DEF Ids, InsertRow, StoreInv, StoreTypeOK
<1>3. p \in Nat /\ r \in Nat /\ row \in Row /\ p # NextId /\ r # NextId
  BY DEF Row, IdArgs, NoId, NextId, StoreInv, StoreTypeOK
<1>4. DOMAIN rows \subseteq 1 .. NextId /\ rows \in [DOMAIN rows -> Row]
  <2>1. DOMAIN rows \subseteq 1 .. NextId
    BY <1>2, NextIdFresh DEF StoreInv
  <2>2. \A i \in DOMAIN rows : rows[i] \in Row
    BY <1>2, <1>3 DEF StoreInv, StoreTypeOK
  <2> QED
    BY <2>1, <2>2 DEF InsertRow
<1>5. heads \in [LevelKey -> Nat]
  BY <1>2 DEF StoreInv, StoreTypeOK
<1>6. \A id \in {p, r} : id # NoId => id \in Ids /\ commits[id].level = k
  <2>1. \A id \in {p, r} : id \in DOMAIN rows \cup {NoId}
    BY <1>1, <1>2 DEF CommitTx, ForeignKeysHold
  <2> QED
    BY <2>1, <1>2, <1>3 DEF IdArgs
<1>7. ReferencesInOwnLevel(rows)
  BY <1>2, <1>6 DEF StoreInv, ReferencesInOwnLevel, RefersWithinLevel, Ids
<1>8. HeadsInOwnLevel(rows, heads)
  BY <1>2 DEF StoreInv, StoreTypeOK, HeadsInOwnLevel, Ids
<1> HIDE DEF rows, heads
<1> QED
  BY <1>1, <1>2, <1>4, <1>5, <1>7, <1>8, CommitTxInv

\* The rows that a squash leaves: the new one, and the others with their references to what is gone
\* redirected or dropped.
Gone(ids) == {ids[n] : n \in DOMAIN ids}

SquashShape(rows, k, ids, p, m, t, d) ==
    /\ DOMAIN rows = (Ids \cup {NextId}) \ Gone(ids)
    /\ NextId \notin Ids \cup Gone(ids) /\ NextId \in Nat /\ NextId # NoId
    /\ rows[NextId] = [level |-> k, parent |-> p, reverts |-> NoId, message |-> m,
                       createdAt |-> IF ids[Len(ids)] \in Ids THEN commits[ids[Len(ids)]].createdAt
                                     ELSE t,
                       delta |-> d]
    /\ \A i \in Ids \ Gone(ids) :
        /\ rows[i] \in Row /\ rows[i].level = commits[i].level
        /\ rows[i].delta = commits[i].delta
        /\ rows[i].parent = IF commits[i].parent = ids[Len(ids)] /\ commits[i].level = k
                            THEN NextId ELSE commits[i].parent
        /\ rows[i].reverts = IF commits[i].reverts \in Gone(ids) THEN NoId ELSE commits[i].reverts

LEMMA SquashedRowsShape ==
    ASSUME StoreInv, NEW k \in LevelKey, NEW m \in Message, NEW t \in Time, NEW d \in Blob,
           NEW p, NEW ids \in Selections(IdArgs(k))
    PROVE  SquashShape(SquashedRows(k, ids, p, m, t, d), k, ids, p, m, t, d)
<1> DEFINE newest == ids[Len(ids)]
           gone == Gone(ids)
           rows == SquashedRows(k, ids, p, m, t, d)
           newParent(i) == IF commits[i].parent = newest /\ commits[i].level = k
                           THEN NextId ELSE commits[i].parent
           newReverts(i) == IF commits[i].reverts \in gone THEN NoId ELSE commits[i].reverts
<1>1. gone \subseteq 1 .. lastId
  BY DEF Selections, IdArgs, Gone
<1>2. /\ DOMAIN rows = (Ids \cup {NextId}) \ gone
      /\ NextId \notin Ids \cup gone /\ NextId \in Nat /\ NextId # NoId
  <2>1. NextId \notin Ids \cup gone /\ NextId \in Nat /\ NextId # NoId
    BY <1>1, NextIdFresh, StoreAssumption DEF StoreInv, StoreTypeOK, NextId
  <2> QED
    BY <2>1 DEF Ids, SquashedRows, WithoutRows, InsertRow, Gone
<1>3. rows[NextId] = [level |-> k, parent |-> p, reverts |-> NoId, message |-> m,
                      createdAt |-> IF newest \in Ids THEN commits[newest].createdAt ELSE t,
                      delta |-> d]
  BY <1>2 DEF SquashedRows, WithoutRows, InsertRow, Ids, Gone
<1>4. ASSUME NEW i \in Ids \ gone
      PROVE  /\ rows[i] \in Row /\ rows[i].level = commits[i].level
             /\ rows[i].delta = commits[i].delta
             /\ rows[i].parent = newParent(i) /\ rows[i].reverts = newReverts(i)
  <2> DEFINE moved == IF commits[i].parent = newest /\ commits[i].level = k
                      THEN [commits[i] EXCEPT !.parent = NextId] ELSE commits[i]
  <2>1. rows[i] = IF commits[i].reverts \in gone THEN [moved EXCEPT !.reverts = NoId] ELSE moved
    BY <1>2 DEF SquashedRows, WithoutRows, InsertRow, Ids, Gone
  <2>2. commits[i] \in Row
    BY DEF StoreInv, StoreTypeOK
  <2>3. /\ moved \in Row /\ moved.level = commits[i].level /\ moved.delta = commits[i].delta
        /\ moved.parent = newParent(i) /\ moved.reverts = commits[i].reverts
    BY <2>2, <1>2 DEF Row
  <2> HIDE DEF moved, newParent, gone, rows
  <2> QED
    BY <2>1, <2>3 DEF Row, NoId
<1> HIDE DEF rows
<1> QED
  BY <1>2, <1>3, <1>4 DEF SquashShape, rows

\* A squash of any rows, gone or not, of one level onto any parent of it.
LEMMA SquashInv ==
    ASSUME StoreInv, NEW k \in LevelKey, NEW m \in Message, NEW t \in Time, NEW d \in Blob,
           NEW p \in IdArgs(k) \cup {NoId}, NEW ids \in Selections(IdArgs(k)),
           Squash(k, ids, p, m, t, d)
    PROVE  StoreInv'
<1> DEFINE newest == ids[Len(ids)]
           gone == Gone(ids)
           rows == SquashedRows(k, ids, p, m, t, d)
           heads == [refs EXCEPT ![k] = IF refs[k] \in gone THEN NextId ELSE refs[k]]
           newTime == IF newest \in Ids THEN commits[newest].createdAt ELSE t
           row == [level |-> k, parent |-> p, reverts |-> NoId, message |-> m,
                   createdAt |-> newTime, delta |-> d]
           newParent(i) == IF commits[i].parent = newest /\ commits[i].level = k
                           THEN NextId ELSE commits[i].parent
           newReverts(i) == IF commits[i].reverts \in gone THEN NoId ELSE commits[i].reverts
<1>1. CommitTx(rows, heads, NextId)
  <2>1. (\E n \in DOMAIN ids : ids[n] = refs[k]) <=> refs[k] \in gone
    BY DEF Gone
  <2> QED
    BY <2>1 DEF Squash
<1>0. SquashShape(rows, k, ids, p, m, t, d)
  BY SquashedRowsShape
<1>2. /\ DOMAIN rows = (Ids \cup {NextId}) \ gone
      /\ NextId \notin Ids \cup gone /\ NextId \in Nat /\ NextId # NoId
  BY <1>0 DEF SquashShape
<1>3. rows[NextId] = row
  BY <1>0 DEF SquashShape
<1>4. \A i \in Ids \ gone :
        /\ rows[i] \in Row /\ rows[i].level = commits[i].level
        /\ rows[i].parent = newParent(i) /\ rows[i].reverts = newReverts(i)
  BY <1>0 DEF SquashShape
<1>5. row \in Row /\ p \in Nat /\ p # NextId
  <2>1. newTime \in Time
    BY DEF StoreInv, StoreTypeOK, Row
  <2>2. p \in Nat /\ p # NextId
    BY StoreAssumption DEF IdArgs, NoId, NextId, StoreInv, StoreTypeOK
  <2> HIDE DEF newTime
  <2> QED
    BY <2>1, <2>2 DEF Row, NoId
<1>6. DOMAIN rows \subseteq 1 .. NextId
  BY <1>2, NextIdFresh DEF StoreInv
<1>7. rows \in [DOMAIN rows -> Row]
  <2>1. \A i \in DOMAIN rows : rows[i] \in Row
    BY <1>2, <1>3, <1>4, <1>5
  <2> QED
    BY <2>1 DEF SquashedRows, WithoutRows
<1>8. heads \in [LevelKey -> Nat]
  BY <1>2 DEF StoreInv, StoreTypeOK
<1>9. /\ \A i \in DOMAIN rows : {rows[i].parent, rows[i].reverts} \subseteq DOMAIN rows \cup {NoId}
      /\ \A l \in LevelKey : heads[l] \in DOMAIN rows \cup {NoId}
  BY <1>1 DEF CommitTx, ForeignKeysHold
<1> HIDE DEF rows, row, newParent, newReverts, gone, newest
<1>10. ReferencesInOwnLevel(rows)
  <2> SUFFICES ASSUME NEW i \in DOMAIN rows
               PROVE  /\ RefersWithinLevel(rows, i, rows[i].parent)
                      /\ RefersWithinLevel(rows, i, rows[i].reverts)
    BY DEF ReferencesInOwnLevel
  <2>1. CASE i = NextId
    <3>1. p # NoId => p \in Ids \ gone /\ commits[p].level = k
      BY <2>1, <1>2, <1>3, <1>5, <1>9 DEF IdArgs, row
    <3> QED
      BY <2>1, <3>1, <1>2, <1>3, <1>4 DEF RefersWithinLevel, row
  <2>2. CASE i \in Ids \ gone
    <3>1. /\ commits[i].parent # NoId =>
                commits[i].parent \in Ids /\ commits[commits[i].parent].level = commits[i].level
          /\ commits[i].reverts # NoId =>
                commits[i].reverts \in Ids /\ commits[commits[i].reverts].level = commits[i].level
      BY <2>2 DEF StoreInv, ReferencesInOwnLevel, RefersWithinLevel, Ids
    <3>2. rows[NextId].level = k
      BY <1>3 DEF row
    <3>3. RefersWithinLevel(rows, i, rows[i].parent)
      BY <2>2, <3>1, <3>2, <1>2, <1>4, <1>9 DEF RefersWithinLevel, newParent
    <3>4. RefersWithinLevel(rows, i, rows[i].reverts)
      BY <2>2, <3>1, <1>2, <1>4, <1>9 DEF RefersWithinLevel, newReverts
    <3> QED
      BY <3>3, <3>4
  <2> QED
    BY <2>1, <2>2, <1>2
<1>11. HeadsInOwnLevel(rows, heads)
  <2> SUFFICES ASSUME NEW l \in LevelKey, heads[l] # NoId
               PROVE  heads[l] \in DOMAIN rows /\ rows[heads[l]].level = l
    BY DEF HeadsInOwnLevel
  <2>1. CASE heads[l] = NextId
    BY <2>1, <1>2, <1>3 DEF StoreInv, StoreTypeOK, HeadsInOwnLevel, row, Ids
  <2>2. CASE heads[l] # NextId
    BY <2>2, <1>2, <1>4, <1>9 DEF StoreInv, StoreTypeOK, HeadsInOwnLevel, Ids
  <2> QED
    BY <2>1, <2>2
<1> HIDE DEF heads
<1> QED
  BY <1>1, <1>2, <1>6, <1>7, <1>8, <1>10, <1>11, CommitTxInv

\* Deleting a level takes nothing away from another one.
LEMMA DeleteLevelInv ==
    ASSUME StoreInv, NEW k \in LevelKey, DeleteLevel(k)
    PROVE  StoreInv'
<1> DEFINE rows == WithoutRows(commits, RowsOf(k))
           heads == [refs EXCEPT ![k] = NoId]
<1>1. CommitTx(rows, heads, lastId) /\ lastId \in Nat
  BY StoreAssumption DEF DeleteLevel, StoreInv, StoreTypeOK
<1>2. /\ DOMAIN rows = {i \in Ids : commits[i].level # k}
      /\ \A i \in DOMAIN rows : rows[i] = commits[i]
  BY DEF WithoutRows, RowsOf, Ids
<1>3. DOMAIN rows \subseteq 1 .. lastId /\ rows \in [DOMAIN rows -> Row]
  <2>1. DOMAIN rows \subseteq 1 .. lastId /\ \A i \in DOMAIN rows : rows[i] \in Row
    BY <1>2 DEF StoreInv, StoreTypeOK
  <2> QED
    BY <2>1 DEF WithoutRows
<1>4. heads \in [LevelKey -> Nat]
  BY DEF StoreInv, StoreTypeOK, NoId
<1>5. ReferencesInOwnLevel(rows)
  BY <1>2 DEF StoreInv, ReferencesInOwnLevel, RefersWithinLevel, Ids
<1>6. HeadsInOwnLevel(rows, heads)
  BY <1>2 DEF StoreInv, StoreTypeOK, HeadsInOwnLevel, Ids
<1> HIDE DEF rows, heads
<1> QED
  BY <1>1, <1>3, <1>4, <1>5, <1>6, CommitTxInv

\* The copies of a level's rows refer to each other and to nothing else.
LEMMA ReplaceLevelHistoryFromInv ==
    ASSUME StoreInv, NEW dest \in LevelKey, NEW src \in LevelKey, NEW f \in CopyMaps(src),
           ReplaceLevelHistoryFrom(dest, src, f)
    PROVE  StoreInv'
<1> DEFINE kept == Ids \ RowsOf(dest)
           copies == {f[i] : i \in RowsOf(src)}
           last == lastId + Cardinality(RowsOf(src))
           origin(n) == CHOOSE i \in RowsOf(src) : f[i] = n
           rows == [n \in kept \cup copies |->
                        IF n \in copies THEN CopiedRow(f, dest, origin(n)) ELSE commits[n]]
           heads == [refs EXCEPT ![dest] = f[refs[src]]]
<1>1. CommitTx(rows, heads, last) /\ refs[src] \in RowsOf(src)
  BY DEF ReplaceLevelHistoryFrom
<1>2. last \in Nat /\ lastId \in Nat /\ lastId <= last
  BY RowsOfFinite, StoreAssumption DEF StoreInv, StoreTypeOK
<1>3. \A i \in RowsOf(src) : f[i] \in NextId .. last
  BY DEF CopyMaps
<1> HIDE DEF last
<1>4. \A n \in copies : n \in Nat /\ n # NoId /\ n \in 1 .. last /\ n \notin Ids
  BY <1>2, <1>3, NextIdFresh DEF StoreInv, StoreTypeOK, NextId, NoId
<1>5. DOMAIN rows = kept \cup copies /\ DOMAIN rows \subseteq 1 .. last
  <2>1. \A n \in Ids : n \in 1 .. last
    BY <1>2 DEF StoreInv, StoreTypeOK
  <2> QED
    BY <2>1, <1>4
<1>6. \A n \in copies : origin(n) \in RowsOf(src) /\ f[origin(n)] = n
  OBVIOUS
<1>7. \A i \in RowsOf(src) :
        /\ i \in Ids /\ commits[i] \in Row
        /\ commits[i].parent # NoId => commits[i].parent \in RowsOf(src)
        /\ commits[i].reverts # NoId => commits[i].reverts \in RowsOf(src)
  BY DEF CopyMaps, RowsOf, StoreInv, StoreTypeOK
<1>8. \A i \in RowsOf(src) :
        /\ CopiedRow(f, dest, i) \in Row
        /\ CopiedRow(f, dest, i).level = dest
        /\ CopiedRow(f, dest, i).parent \in copies \cup {NoId}
        /\ CopiedRow(f, dest, i).reverts \in copies \cup {NoId}
  <2> SUFFICES ASSUME NEW i \in RowsOf(src)
               PROVE  /\ CopiedRow(f, dest, i) \in Row
                      /\ CopiedRow(f, dest, i).level = dest
                      /\ CopiedRow(f, dest, i).parent \in copies \cup {NoId}
                      /\ CopiedRow(f, dest, i).reverts \in copies \cup {NoId}
    OBVIOUS
  <2> DEFINE copied(id) == IF id = NoId THEN NoId ELSE f[id]
  <2>1. /\ copied(commits[i].parent) \in copies \cup {NoId}
        /\ copied(commits[i].reverts) \in copies \cup {NoId}
    BY <1>7
  <2>2. copies \cup {NoId} \subseteq Nat
    BY <1>4 DEF NoId
  <2>3. CopiedRow(f, dest, i) = [commits[i] EXCEPT !.level = dest,
                                                   !.parent = copied(commits[i].parent),
                                                   !.reverts = copied(commits[i].reverts)]
    BY <1>7 DEF CopiedRow, Row
  <2> HIDE DEF copied, copies
  <2> QED
    BY <2>1, <2>2, <2>3, <1>7 DEF Row
<1>9. /\ \A n \in copies : rows[n] = CopiedRow(f, dest, origin(n))
      /\ \A n \in kept : rows[n] = commits[n]
  BY <1>4
<1> HIDE DEF origin
<1>10. /\ \A n \in copies :
            /\ rows[n] \in Row /\ rows[n].level = dest
            /\ rows[n].parent \in copies \cup {NoId} /\ rows[n].reverts \in copies \cup {NoId}
       /\ \A n \in kept : rows[n] = commits[n] /\ commits[n] \in Row
  BY <1>6, <1>8, <1>9 DEF StoreInv, StoreTypeOK
<1>11. rows \in [DOMAIN rows -> Row]
  BY <1>5, <1>10
<1>12. heads \in [LevelKey -> Nat]
  BY <1>1, <1>4 DEF StoreInv, StoreTypeOK
<1>13. \A i \in kept : i \in Ids /\ commits[i].level # dest
  BY DEF RowsOf
<1>14. f[refs[src]] \in copies
  BY <1>1
<1> HIDE DEF rows, copies
<1>15. ReferencesInOwnLevel(rows)
  <2> SUFFICES ASSUME NEW i \in DOMAIN rows
               PROVE  /\ RefersWithinLevel(rows, i, rows[i].parent)
                      /\ RefersWithinLevel(rows, i, rows[i].reverts)
    BY DEF ReferencesInOwnLevel
  <2>1. CASE i \in copies
    BY <2>1, <1>5, <1>10 DEF RefersWithinLevel
  <2>2. CASE i \in kept
    BY <2>2, <1>5, <1>10, <1>13
    DEF RefersWithinLevel, StoreInv, ReferencesInOwnLevel, Ids, RowsOf
  <2> QED
    BY <2>1, <2>2, <1>5
<1>16. HeadsInOwnLevel(rows, heads)
  BY <1>5, <1>10, <1>14 DEF HeadsInOwnLevel, StoreInv, StoreTypeOK, Ids, RowsOf
<1> HIDE DEF heads
<1> QED
  BY <1>1, <1>2, <1>5, <1>11, <1>12, <1>15, <1>16, CommitTxInv

\* A new message changes no reference.
LEMMA UpdateMessageInv ==
    ASSUME StoreInv, NEW i \in 1 .. lastId, NEW m \in Message, UpdateMessage(i, m)
    PROVE  StoreInv'
<1>1. /\ i \in Ids /\ commits' = [commits EXCEPT ![i].message = m]
      /\ open' = open /\ refs' = refs /\ lastId' = lastId
  BY DEF UpdateMessage
<1>2. /\ Ids' = Ids /\ DOMAIN commits' = DOMAIN commits
      /\ commits' \in [Ids -> Row]
      /\ \A j \in Ids : /\ commits'[j].level = commits[j].level
                        /\ commits'[j].parent = commits[j].parent
                        /\ commits'[j].reverts = commits[j].reverts
  BY <1>1 DEF StoreInv, StoreTypeOK, Ids, Row
<1>3. StoreTypeOK'
  BY <1>1, <1>2 DEF StoreInv, StoreTypeOK
<1>4. ForeignKeysHold(commits, refs)'
  BY <1>1, <1>2 DEF StoreInv, ForeignKeysHold, Ids, NoId
<1>5. ReferencesInOwnLevel(commits)' /\ HeadsInOwnLevel(commits, refs)'
  BY <1>1, <1>2
  DEF StoreInv, ReferencesInOwnLevel, RefersWithinLevel, HeadsInOwnLevel, ForeignKeysHold, Ids, NoId
<1> QED
  BY <1>3, <1>4, <1>5 DEF StoreInv

\* Opening and closing the database, and doing nothing, leave the tables alone.
LEMMA TablesUnchangedInv ==
    ASSUME StoreInv, UNCHANGED <<commits, refs, lastId>>, open' \in BOOLEAN
    PROVE  StoreInv'
  BY DEF StoreInv, StoreTypeOK, ForeignKeysHold, ReferencesInOwnLevel, RefersWithinLevel,
         HeadsInOwnLevel, Ids, NoId

\* Every step of the store's callers keeps the invariant.
LEMMA StoreStepInv == StoreInv /\ [StoreNext]_storeVars => StoreInv'
<1> SUFFICES ASSUME StoreInv, [StoreNext]_storeVars PROVE StoreInv'
  OBVIOUS
<1>1. CASE InitStore \/ CloseStore
  BY <1>1, TablesUnchangedInv DEF InitStore, CloseStore
<1>2. CASE \E k \in LevelKey, m \in Message, t \in Time, d \in Blob :
             \E p, r \in IdArgs(k) \cup {NoId} : InsertAndSetHead(k, p, r, m, t, d)
  BY <1>2, InsertAndSetHeadInv
<1>3. CASE \E k \in LevelKey, m \in Message, t \in Time, d \in Blob :
             \E p \in IdArgs(k) \cup {NoId}, ids \in Selections(IdArgs(k)) :
               Squash(k, ids, p, m, t, d)
  BY <1>3, SquashInv
<1>4. CASE \E i \in 1 .. lastId, m \in Message : UpdateMessage(i, m)
  BY <1>4, UpdateMessageInv
<1>5. CASE \E k \in LevelKey : DeleteLevel(k)
  BY <1>5, DeleteLevelInv
<1>6. CASE \E dest, src \in LevelKey : \E f \in CopyMaps(src) : ReplaceLevelHistoryFrom(dest, src, f)
  BY <1>6, ReplaceLevelHistoryFromInv
<1>7. CASE UNCHANGED storeVars
  BY <1>7, TablesUnchangedInv DEF storeVars, StoreInv, StoreTypeOK
<1> QED
  BY <1>1, <1>2, <1>3, <1>4, <1>5, <1>6, <1>7 DEF StoreNext, StoreOp

\* The invariant of the store, for every number of levels, ids, messages and blobs: types, foreign
\* keys, and no reference from one level into another, whatever stale ids the callers pass.
THEOREM StoreInvariant == StoreSpec => []StoreInv
  BY StoreInvInit, StoreStepInv, PTL DEF StoreSpec

\* The tables keep their types, and ids stay below the last id handed out.
THEOREM StoreTypeCorrect == StoreSpec => []StoreTypeOK
<1>1. StoreInv => StoreTypeOK
  BY DEF StoreInv
<1> QED
  BY <1>1, StoreInvariant, PTL

\* What the invariant says of a level's HEAD ...
LEMMA StoreInvHead == StoreInv => HeadInOwnLevel
  BY DEF StoreInv, HeadsInOwnLevel, HeadInOwnLevel, RowsOf, Ids

\* ... and of a transaction that deletes a level.
LEMMA StoreInvDeletable == StoreInv => EveryLevelDeletable
<1> SUFFICES ASSUME StoreInv, NEW k \in LevelKey
             PROVE  ForeignKeysHold(WithoutRows(commits, RowsOf(k)), [refs EXCEPT ![k] = NoId])
  BY DEF EveryLevelDeletable
<1> DEFINE rows == WithoutRows(commits, RowsOf(k))
<1>1. /\ DOMAIN rows = {i \in Ids : commits[i].level # k}
      /\ \A i \in DOMAIN rows : rows[i] = commits[i]
  BY DEF WithoutRows, RowsOf, Ids
<1> HIDE DEF rows
<1>2. \A i \in DOMAIN rows : {rows[i].parent, rows[i].reverts} \subseteq DOMAIN rows \cup {NoId}
  BY <1>1 DEF StoreInv, ReferencesInOwnLevel, RefersWithinLevel, Ids
<1>3. \A l \in LevelKey : [refs EXCEPT ![k] = NoId][l] \in DOMAIN rows \cup {NoId}
  BY <1>1 DEF StoreInv, StoreTypeOK, HeadsInOwnLevel, Ids
<1> QED
  BY <1>2, <1>3 DEF ForeignKeysHold, rows

\* insertAndSetHead, squash and replaceLevelHistoryFrom never leave a HEAD on a commit of another
\* level, nor on one that is gone.
THEOREM HeadStaysInLevel == StoreSpec => []HeadInOwnLevel
  BY StoreInvHead, StoreInvariant, PTL

\* The COMMIT of deleteLevel never fails on a foreign key.
THEOREM LevelsStayDeletable == StoreSpec => []EveryLevelDeletable
  BY StoreInvDeletable, StoreInvariant, PTL
-------------------------------------------------------------------------------
(***************************************************************************)
(* Opening the database                                                    *)
(***************************************************************************)

\* The store's invariant survives whatever ensureSchema runs and wherever it stops: a wipe drops the
\* heads before the rows.
THEOREM DatabaseKeepsStoreInv == DatabaseSpec => []StoreInv
<1>1. DatabaseInit => StoreInv
  BY StoreInvInit DEF DatabaseInit
<1>2. StoreInv /\ [DatabaseNext]_databaseVars => StoreInv'
  <2> SUFFICES ASSUME StoreInv, [DatabaseNext]_databaseVars PROVE StoreInv'
    OBVIOUS
  <2>1. CASE DropRefs
    <3>1. /\ commits' = commits /\ lastId' = lastId /\ open' = open
          /\ refs' = [k \in LevelKey |-> NoId]
      BY <2>1 DEF DropRefs, Executes
    <3> QED
      BY <3>1 DEF StoreInv, StoreTypeOK, ForeignKeysHold, ReferencesInOwnLevel, RefersWithinLevel,
                  HeadsInOwnLevel, Ids, NoId
  <2>2. CASE DropCommits
    <3>1. /\ commits' = [i \in {} |-> {}] /\ lastId' = 0 /\ open' = open /\ refs' = refs
          /\ \A k \in LevelKey : refs[k] = NoId
      BY <2>2 DEF DropCommits, Executes, NoContents
    <3>2. DOMAIN commits' = {} /\ commits' \in [{} -> Row] /\ MaxId \in Nat
      BY <3>1, StoreAssumption
    <3> QED
      BY <3>1, <3>2 DEF StoreInv, StoreTypeOK, ForeignKeysHold, ReferencesInOwnLevel,
                        RefersWithinLevel, HeadsInOwnLevel, Ids, NoId
  <2>3. CASE Operate
    <3>1. [StoreNext]_storeVars
      BY <2>3 DEF Operate, StoreNext
    <3> QED
      BY <3>1, StoreStepInv
  <2>4. CASE UNCHANGED <<commits, refs, lastId>> /\ open' \in BOOLEAN
    BY <2>4, TablesUnchangedInv
  <2>5. open \in BOOLEAN
    BY DEF StoreInv, StoreTypeOK
  <2>6. \/ DropRefs \/ DropCommits \/ Operate
        \/ UNCHANGED <<commits, refs, lastId>> /\ open' \in BOOLEAN
    BY <2>5
    DEF DatabaseNext, BeginOpen, DropMeta, CreateCommits, CreateTable, UpsertSchemaVersion, Opened,
        OpenFails, Close, CloseStore, Executes, databaseVars, storeVars
  <2> QED
    BY <2>1, <2>2, <2>3, <2>4, <2>6
<1> QED
  BY <1>1, <1>2, PTL DEF DatabaseSpec

\* Also with sessions of several mods and interrupted openings between the operations, a HEAD stays a
\* commit of its own level.
THEOREM DatabaseHeadsStayInLevel == DatabaseSpec => []HeadInOwnLevel
  BY DatabaseKeepsStoreInv, StoreInvHead, PTL

\* And every level can be deleted.
THEOREM DatabaseLevelsDeletable == DatabaseSpec => []EveryLevelDeletable
  BY DatabaseKeepsStoreInv, StoreInvDeletable, PTL

\* The statements of a wipe, and of an opening without one, which are the last four of them.
Script == <<"drop refs", "drop commits", "drop schema_meta",
            "create commits", "create refs", "create schema_meta", "stamp">>

Statement == {"drop refs", "drop commits", "drop schema_meta",
              "create commits", "create refs", "create schema_meta", "stamp"}

\* What is left to run is the script from its n-th statement on.
FromStatement(todo, n) ==
    /\ todo \in Seq(Statement) /\ Len(todo) = 8 - n
    /\ \A i \in 1 .. Len(todo) : todo[i] = Script[n + i - 1]

Emptied == commits = NoContents.rows /\ refs = NoContents.heads /\ lastId = 0

\* The version stands for the tables: it is there only in its own table, and is that of the newest mod
\* only if the tables are, too.
StampInv ==
    /\ newestMod \in Nat /\ layout \in Nat
    /\ stamp \in Int /\ NoStamp <= stamp /\ stamp <= newestMod
    /\ stamp # NoStamp => "schema_meta" \in tables
    /\ layout # NoLayout <=> "commits" \in tables
    /\ open => newestMod # 0 /\ layout = newestMod /\ stamp = newestMod

\* While the database is not open, wherever the last opening stopped: what was closed by the newest mod is
\* all there and has its stamp; otherwise the newest stamp is on empty tables only.
ClosedInv ==
    /\ closed \in [rows : {closed.rows}, heads : {closed.heads}, last : {closed.last}, layout : Nat]
    /\ closed.layout <= newestMod
    /\ closed.layout = NoLayout => closed = NoContents
    /\ closed.layout = newestMod /\ newestMod # 0 => Contents = closed /\ stamp = newestMod
    /\ closed.layout # newestMod /\ stamp = newestMod => Emptied /\ layout = newestMod

\* An opening that is about to run the n-th statement of the script.
StatementInv(n) ==
    /\ FromStatement(opening.todo, n)
    /\ n >= 7 => "schema_meta" \in tables
    /\ IF closed.layout = newestMod THEN n >= 4
       ELSE /\ n >= 2 => refs = NoContents.heads
            /\ n >= 3 => Emptied
            /\ n < 4 => stamp # newestMod
            /\ n = 3 => layout = NoLayout
            /\ n = 4 => layout \in {NoLayout, newestMod}
            /\ n > 4 => layout = newestMod
            /\ n = 8 => stamp = newestMod

OpeningInv ==
    /\ ~open
    /\ opening.version = newestMod /\ newestMod # 0
    /\ opening = [version |-> opening.version, todo |-> opening.todo]
    /\ \E n \in 1 .. 8 : StatementInv(n)

\* As long as no version was misread and no older mod installed.
DatabaseInv ==
    ~odd => /\ StampInv
            /\ ~open => ClosedInv
            /\ opening # NotOpening => OpeningInv

\* A wipe runs the whole script, another opening its last four statements.
LEMMA StatementsFrom ==
    FromStatement(Statements(TRUE), 1) /\ FromStatement(Statements(FALSE), 4)
<1> DEFINE drops == <<"drop refs", "drop commits", "drop schema_meta">>
           creates == <<"create commits", "create refs", "create schema_meta", "stamp">>
<1>1. /\ drops \in Seq(Statement) /\ Len(drops) = 3
      /\ drops[1] = "drop refs" /\ drops[2] = "drop commits" /\ drops[3] = "drop schema_meta"
  BY DEF Statement
<1>2. /\ creates \in Seq(Statement) /\ Len(creates) = 4
      /\ creates[1] = "create commits" /\ creates[2] = "create refs"
      /\ creates[3] = "create schema_meta" /\ creates[4] = "stamp"
  BY DEF Statement
<1>3. /\ Script[1] = "drop refs" /\ Script[2] = "drop commits" /\ Script[3] = "drop schema_meta"
      /\ Script[4] = "create commits" /\ Script[5] = "create refs"
      /\ Script[6] = "create schema_meta" /\ Script[7] = "stamp"
  BY DEF Script
<1>4. Statements(TRUE) = drops \o creates /\ Statements(FALSE) = <<>> \o creates
  BY DEF Statements
<1> HIDE DEF drops, creates, Script
<1>6. /\ drops \o creates \in Seq(Statement)
      /\ Len(drops \o creates) = Len(drops) + Len(creates)
      /\ \A i \in 1 .. Len(drops) + Len(creates) :
            (drops \o creates)[i] = IF i <= Len(drops) THEN drops[i] ELSE creates[i - Len(drops)]
  BY <1>1, <1>2, ConcatProperties, Zenon
<1> DEFINE both == drops \o creates
<1> HIDE DEF both
<1>7. /\ both \in Seq(Statement) /\ Len(both) = 7
      /\ \A i \in 1 .. 7 : both[i] = IF i <= 3 THEN drops[i] ELSE creates[i - 3]
  <2>1. both \in Seq(Statement) /\ Len(both) = 3 + 4
    BY <1>1, <1>2, <1>6, Zenon DEF both
  <2>2. \A i \in 1 .. 3 + 4 : both[i] = IF i <= 3 THEN drops[i] ELSE creates[i - 3]
    BY <1>1, <1>2, <1>6, Zenon DEF both
  <2> QED
    BY <2>1, <2>2
<1>8. /\ both[1] = drops[1] /\ both[2] = drops[2] /\ both[3] = drops[3]
      /\ both[4] = creates[1] /\ both[5] = creates[2] /\ both[6] = creates[3] /\ both[7] = creates[4]
  BY <1>7
<1>9. \A i \in 1 .. 7 : both[i] = Script[i]
  <2> SUFFICES ASSUME NEW i \in 1 .. 7 PROVE both[i] = Script[i]
    OBVIOUS
  <2>1. i \in {1, 2, 3, 4, 5, 6, 7}
    OBVIOUS
  <2> QED
    BY <2>1, <1>1, <1>2, <1>3, <1>8
<1>10. \A i \in 1 .. 4 : creates[i] = Script[i + 3]
  <2> SUFFICES ASSUME NEW i \in 1 .. 4 PROVE creates[i] = Script[i + 3]
    OBVIOUS
  <2>1. \/ i = 1 /\ i + 3 = 4
        \/ i = 2 /\ i + 3 = 5
        \/ i = 3 /\ i + 3 = 6
        \/ i = 4 /\ i + 3 = 7
    OBVIOUS
  <2> QED
    BY <2>1, <1>2, <1>3, Zenon
<1>11. Statements(TRUE) = both /\ Statements(FALSE) = creates
  BY <1>2, <1>4, ConcatEmptySeq DEF both
<1>12. \A i \in Nat : 1 + i - 1 = i /\ 4 + i - 1 = i + 3
  OBVIOUS
<1>13. FromStatement(both, 1)
  BY <1>7, <1>9, <1>12 DEF FromStatement
<1>14. FromStatement(creates, 4)
  <2>1. 8 - 4 = 4
    OBVIOUS
  <2>2. ASSUME NEW i \in 1 .. 4 PROVE creates[i] = Script[4 + i - 1]
    BY <1>10, <1>12
  <2>3. 1 .. Len(creates) = 1 .. 4
    BY <1>2
  <2> QED
    BY <1>2, <2>1, <2>2, <2>3, Zenon DEF FromStatement
<1> QED
  BY <1>11, <1>13, <1>14, Zenon

\* The statement that runs next, and what is left after it.
LEMMA NextStatement ==
    ASSUME NEW todo, NEW n \in 1 .. 8, FromStatement(todo, n)
    PROVE  /\ todo = <<>> <=> n = 8
           /\ n < 8 => Head(todo) = Script[n] /\ FromStatement(Tail(todo), n + 1)
<1>1. /\ todo \in Seq(Statement) /\ Len(todo) = 8 - n
      /\ \A i \in 1 .. Len(todo) : todo[i] = Script[n + i - 1]
  BY DEF FromStatement
<1>2. todo = <<>> <=> n = 8
  BY <1>1
<1>3. ASSUME n < 8 PROVE Head(todo) = Script[n] /\ FromStatement(Tail(todo), n + 1)
  <2>1. /\ Head(todo) = todo[1]
        /\ Tail(todo) \in Seq(Statement) /\ Len(Tail(todo)) = Len(todo) - 1
        /\ \A i \in 1 .. Len(todo) - 1 : Tail(todo)[i] = todo[i + 1]
    BY <1>1, <1>3
  <2>2. Head(todo) = Script[n]
    BY <1>1, <1>3, <2>1
  <2>3. ASSUME NEW i \in 1 .. Len(Tail(todo)) PROVE Tail(todo)[i] = Script[(n + 1) + i - 1]
    <3>1. i \in 1 .. Len(todo) - 1 /\ i + 1 \in 1 .. Len(todo) /\ n + (i + 1) - 1 = (n + 1) + i - 1
      BY <1>1, <2>1, <2>3
    <3> QED
      BY <3>1, <1>1, <2>1
  <2> QED
    BY <1>1, <1>3, <2>1, <2>2, <2>3 DEF FromStatement
<1> QED
  BY <1>2, <1>3

\* The statement that is run, at its place in the script.
LEMMA ExecutesAt ==
    ASSUME OpeningInv, NEW statement \in Statement, Executes(statement)
    PROVE  \E n \in 1 .. 7 :
              /\ StatementInv(n) /\ Script[n] = statement
              /\ FromStatement(opening'.todo, n + 1)
              /\ opening'.version = opening.version
              /\ opening' = [version |-> opening'.version, todo |-> opening'.todo]
              /\ UNCHANGED <<open, closed, newestMod, odd>>
<1>1. PICK n \in 1 .. 8 : StatementInv(n)
  BY DEF OpeningInv
<1>2. /\ opening.todo # <<>> /\ Head(opening.todo) = statement
      /\ opening' = [version |-> opening.version, todo |-> Tail(opening.todo)]
      /\ UNCHANGED <<open, closed, newestMod, odd>>
  BY DEF OpeningInv, Executes
<1>3. FromStatement(opening.todo, n)
  BY <1>1 DEF StatementInv
<1>4. n \in 1 .. 7 /\ n < 8
  BY <1>2, <1>3, NextStatement
<1> QED
  BY <1>1, <1>2, <1>3, <1>4, NextStatement

\* The places of the statements: each is in the script once.
LEMMA PlaceOf ==
    ASSUME NEW n \in 1 .. 7
    PROVE  /\ Script[n] = "drop refs" <=> n = 1
           /\ Script[n] = "drop commits" <=> n = 2
           /\ Script[n] = "drop schema_meta" <=> n = 3
           /\ Script[n] = "create commits" <=> n = 4
           /\ Script[n] = "create refs" <=> n = 5
           /\ Script[n] = "create schema_meta" <=> n = 6
           /\ Script[n] = "stamp" <=> n = 7
<1>1. n \in {1, 2, 3, 4, 5, 6, 7}
  OBVIOUS
<1>2. CASE n = 1
  BY <1>2 DEF Script
<1>3. CASE n = 2
  BY <1>3 DEF Script
<1>4. CASE n = 3
  BY <1>4 DEF Script
<1>5. CASE n = 4
  BY <1>5 DEF Script
<1>6. CASE n = 5
  BY <1>6 DEF Script
<1>7. CASE n = 6
  BY <1>7 DEF Script
<1>8. CASE n = 7
  BY <1>8 DEF Script
<1> QED
  BY <1>1, <1>2, <1>3, <1>4, <1>5, <1>6, <1>7, <1>8

LEMMA ScriptOnce ==
    ASSUME NEW n \in 1 .. 7, NEW m \in 1 .. 7, Script[m] = Script[n]
    PROVE  m = n
<1>1. n \in {1, 2, 3, 4, 5, 6, 7}
  OBVIOUS
<1>2. CASE n = 1
  BY <1>2, PlaceOf, Zenon
<1>3. CASE n = 2
  BY <1>3, PlaceOf, Zenon
<1>4. CASE n = 3
  BY <1>4, PlaceOf, Zenon
<1>5. CASE n = 4
  BY <1>5, PlaceOf, Zenon
<1>6. CASE n = 5
  BY <1>6, PlaceOf, Zenon
<1>7. CASE n = 6
  BY <1>7, PlaceOf, Zenon
<1>8. CASE n = 7
  BY <1>8, PlaceOf, Zenon
<1> QED
  BY <1>1, <1>2, <1>3, <1>4, <1>5, <1>6, <1>7, <1>8

\* A new database.
LEMMA DatabaseInvInit == DatabaseInit => DatabaseInv
<1> SUFFICES ASSUME DatabaseInit PROVE StampInv /\ ClosedInv /\ opening = NotOpening
  BY DEF DatabaseInv
<1>1. StampInv
  BY DatabaseAssumption DEF DatabaseInit, StoreInit, StampInv, NoStamp
<1>2. /\ closed = NoContents /\ newestMod = 0 /\ stamp = NoStamp
      /\ NoContents.layout = 0 /\ NoStamp # 0
  BY DatabaseAssumption DEF DatabaseInit, NoContents, NoStamp
<1>3. closed \in [rows : {closed.rows}, heads : {closed.heads}, last : {closed.last}, layout : Nat]
  BY <1>2, DatabaseAssumption DEF NoContents
<1> QED
  BY <1>1, <1>2, <1>3 DEF ClosedInv, DatabaseInit

\* The version that is read decides about the wipe: whatever an interrupted opening left, an unfinished
\* wipe is begun again, and nothing else is.
LEMMA BeginOpenInv ==
    ASSUME DatabaseInv, NEW v \in ModVersion, BeginOpen(v)
    PROVE  DatabaseInv'
<1> SUFFICES ASSUME ~odd' PROVE StampInv' /\ ClosedInv' /\ OpeningInv'
  BY DEF DatabaseInv
<1>1. PICK current \in {ReadSchemaVersion, NoStamp, NoTable} :
         /\ opening' = [version |-> v, todo |-> Statements(current < v)]
         /\ odd' = (odd \/ current # ReadSchemaVersion \/ v < newestMod)
         /\ newestMod' = IF v < newestMod THEN newestMod ELSE v
  BY DEF BeginOpen
<1>2. /\ ~open /\ open' = open /\ commits' = commits /\ refs' = refs /\ lastId' = lastId
      /\ tables' = tables /\ stamp' = stamp /\ layout' = layout /\ closed' = closed
  BY DEF BeginOpen, storeVars
<1>3. ~odd /\ current = ReadSchemaVersion /\ ~(v < newestMod) /\ newestMod' = v
  BY <1>1
<1>4. StampInv /\ ClosedInv
  BY <1>2, <1>3 DEF DatabaseInv
<1>5. v \in Nat /\ v # 0 /\ newestMod \in Nat /\ newestMod <= v /\ stamp \in Int /\ stamp <= newestMod
  BY <1>3, <1>4, DatabaseAssumption DEF StampInv
<1>6. (current < v) = (stamp < v)
  BY <1>3, <1>4, <1>5 DEF StampInv, ReadSchemaVersion, NoStamp, NoTable
<1>7. StampInv'
  BY <1>2, <1>3, <1>4, <1>5 DEF StampInv
<1>8. Contents' = Contents /\ (Emptied <=> Emptied') /\ closed.layout \in Nat /\ closed.layout <= newestMod
  BY <1>2, <1>4 DEF Contents, Emptied, NoContents, ClosedInv
<1>9. ClosedInv'
  BY <1>2, <1>3, <1>4, <1>5, <1>8 DEF ClosedInv, NoContents
<1>10. CASE stamp < v
  <2>1. FromStatement(opening'.todo, 1)
    <3>1. (current < v) = TRUE /\ opening'.todo = Statements(current < v)
      BY <1>1, <1>6, <1>10
    <3> QED
      BY <3>1, StatementsFrom, Zenon
  <2>2. closed.layout # v
    BY <1>4, <1>5, <1>8, <1>10 DEF ClosedInv
  <2>3. StatementInv(1)'
    BY <2>1, <2>2, <1>2, <1>3, <1>5, <1>10 DEF StatementInv
  <2> QED
    BY <2>3, <1>1, <1>2, <1>3, <1>5, <1>7, <1>9 DEF OpeningInv
<1>11. CASE ~(stamp < v)
  <2>1. FromStatement(opening'.todo, 4)
    <3>1. (current < v) = FALSE /\ opening'.todo = Statements(current < v)
      BY <1>1, <1>6, <1>11
    <3> QED
      BY <3>1, StatementsFrom, Zenon
  <2>2. stamp = v /\ newestMod = v
    BY <1>5, <1>11
  <2>3. StatementInv(4)'
    BY <2>1, <2>2, <1>2, <1>3, <1>4, <1>5, <1>8 DEF StatementInv, ClosedInv, Emptied
  <2> QED
    BY <2>3, <1>1, <1>2, <1>3, <1>5, <1>7, <1>9 DEF OpeningInv
<1> QED
  BY <1>10, <1>11

\* A statement runs as the n-th of the script: what it leaves has to be what the next one may find.
LEMMA StatementRuns ==
    ASSUME DatabaseInv, opening # NotOpening, NEW statement \in Statement, Executes(statement),
           NEW n \in 1 .. 7, Script[n] = statement, NEW next \in 1 .. 8, next = n + 1,
           StatementInv(n) /\ ~open /\ ~odd /\ ClosedInv /\ StampInv /\ FromStatement(opening'.todo, next)
              => StampInv' /\ ClosedInv' /\ StatementInv(next)'
    PROVE  DatabaseInv'
<1> SUFFICES ASSUME ~odd' PROVE StampInv' /\ ClosedInv' /\ OpeningInv'
  BY DEF DatabaseInv
<1>1. ~odd
  BY DEF Executes
<1>2. OpeningInv /\ StampInv /\ ClosedInv /\ ~open
  BY <1>1 DEF DatabaseInv, OpeningInv
<1>3. PICK m \in 1 .. 7 :
         /\ StatementInv(m) /\ Script[m] = statement
         /\ FromStatement(opening'.todo, m + 1)
         /\ opening'.version = opening.version
         /\ opening' = [version |-> opening'.version, todo |-> opening'.todo]
         /\ UNCHANGED <<open, closed, newestMod, odd>>
  BY <1>2, ExecutesAt
<1>4. m = n
  <2>1. Script[m] = Script[n]
    BY <1>3
  <2> QED
    BY <2>1, ScriptOnce
<1>5. StampInv' /\ ClosedInv' /\ StatementInv(next)'
  BY <1>2, <1>3, <1>4
<1> QED
  BY <1>2, <1>3, <1>5 DEF OpeningInv

\* dropSchemaObjects: HEADs, then rows, then the version.  Until the last one the old version is
\* there, so that the wipe is begun again if it is interrupted.
LEMMA DropRefsInv ==
    ASSUME DatabaseInv, DropRefs
    PROVE  DatabaseInv'
<1>1. /\ Executes("drop refs") /\ opening # NotOpening /\ Script[1] = "drop refs"
      /\ "drop refs" \in Statement
      /\ open' = open /\ closed' = closed /\ newestMod' = newestMod /\ odd' = odd
      /\ refs' = NoContents.heads /\ tables' = tables \ {"refs"}
      /\ commits' = commits /\ lastId' = lastId /\ stamp' = stamp /\ layout' = layout
  BY DEF DropRefs, Executes, Script, Statement, NoContents
<1>2. ASSUME StatementInv(1), ClosedInv, StampInv, FromStatement(opening'.todo, 2), ~open, ~odd
      PROVE  StampInv' /\ ClosedInv' /\ StatementInv(2)'
  <2>1. closed.layout # newestMod /\ stamp # newestMod
    BY <1>2 DEF StatementInv
  <2>2. StampInv'
    BY <1>1, <1>2 DEF StampInv
  <2>3. ClosedInv'
    BY <1>1, <1>2, <2>1 DEF ClosedInv, NoContents
  <2>4. StatementInv(2)'
    <3>1. FromStatement(opening.todo, 2)'
      BY <1>2
    <3>2. refs' = (NoContents.heads)'
      BY <1>1 DEF NoContents
    <3>3. closed'.layout # newestMod' /\ stamp' # newestMod'
      BY <1>1, <2>1
    <3>4. ~(2 >= 7) /\ ~(2 >= 3) /\ ~(2 > 4) /\ 2 # 3 /\ 2 # 4 /\ 2 # 8
      OBVIOUS
    <3> QED
      BY <3>1, <3>2, <3>3, <3>4, Zenon DEF StatementInv
  <2> QED
    BY <2>2, <2>3, <2>4
<1>3. 1 \in 1 .. 7 /\ 2 \in 1 .. 8 /\ 2 = 1 + 1
  OBVIOUS
<1> QED
  BY <1>1, <1>2, <1>3, StatementRuns, Zenon

LEMMA DropCommitsInv ==
    ASSUME DatabaseInv, DropCommits
    PROVE  DatabaseInv'
<1>1. /\ Executes("drop commits") /\ opening # NotOpening /\ Script[2] = "drop commits"
      /\ "drop commits" \in Statement
      /\ open' = open /\ closed' = closed /\ newestMod' = newestMod /\ odd' = odd
      /\ commits' = NoContents.rows /\ lastId' = 0 /\ layout' = NoLayout
      /\ tables' = tables \ {"commits"} /\ refs' = refs /\ stamp' = stamp
  BY DEF DropCommits, Executes, Script, Statement, NoContents
<1>2. ASSUME StatementInv(2), ClosedInv, StampInv, FromStatement(opening'.todo, 3), ~open, ~odd
      PROVE  StampInv' /\ ClosedInv' /\ StatementInv(3)'
  <2>1. closed.layout # newestMod /\ stamp # newestMod /\ refs = NoContents.heads
    BY <1>2 DEF StatementInv
  <2>2. StampInv'
    BY <1>1, <1>2, DatabaseAssumption DEF StampInv
  <2>3. ClosedInv'
    BY <1>1, <1>2, <2>1 DEF ClosedInv, NoContents
  <2>4. StatementInv(3)'
    <3>1. FromStatement(opening.todo, 3)'
      BY <1>2
    <3>2. refs' = (NoContents.heads)' /\ Emptied' /\ layout' = NoLayout
      BY <1>1, <2>1 DEF NoContents, Emptied
    <3>3. closed'.layout # newestMod' /\ stamp' # newestMod'
      BY <1>1, <2>1
    <3>4. ~(3 >= 7) /\ ~(3 > 4) /\ 3 # 4 /\ 3 # 8
      OBVIOUS
    <3> QED
      BY <3>1, <3>2, <3>3, <3>4, Zenon DEF StatementInv
  <2> QED
    BY <2>2, <2>3, <2>4
<1>3. 2 \in 1 .. 7 /\ 3 \in 1 .. 8 /\ 3 = 2 + 1
  OBVIOUS
<1> QED
  BY <1>1, <1>2, <1>3, StatementRuns, Zenon

LEMMA DropMetaInv ==
    ASSUME DatabaseInv, DropMeta
    PROVE  DatabaseInv'
<1>1. /\ Executes("drop schema_meta") /\ opening # NotOpening /\ Script[3] = "drop schema_meta"
      /\ "drop schema_meta" \in Statement
      /\ open' = open /\ closed' = closed /\ newestMod' = newestMod /\ odd' = odd
      /\ tables' = tables \ {"schema_meta"} /\ stamp' = NoStamp
      /\ commits' = commits /\ refs' = refs /\ lastId' = lastId /\ layout' = layout
  BY DEF DropMeta, Executes, Script, Statement
<1>2. ASSUME StatementInv(3), ClosedInv, StampInv, FromStatement(opening'.todo, 4), ~open, ~odd
      PROVE  StampInv' /\ ClosedInv' /\ StatementInv(4)'
  <2>1. closed.layout # newestMod /\ Emptied /\ refs = NoContents.heads /\ layout = NoLayout
    BY <1>2 DEF StatementInv
  <2>2. newestMod \in Nat /\ NoStamp \in Int /\ NoStamp # newestMod /\ NoStamp <= newestMod
    BY <1>2 DEF StampInv, NoStamp
  <2>3. StampInv'
    <3>1. stamp' \in Int /\ NoStamp <= stamp' /\ stamp' <= newestMod'
      <4>1. NoStamp <= NoStamp
        BY DEF NoStamp
      <4> QED
        BY <4>1, <1>1, <2>2, Zenon
    <3>2. newestMod' \in Nat /\ layout' \in Nat
      BY <1>1, <1>2 DEF StampInv
    <3>3. layout' # NoLayout <=> "commits" \in tables'
      BY <1>1, <1>2 DEF StampInv
    <3>4. stamp' = NoStamp /\ ~open'
      BY <1>1, <1>2
    <3> QED
      BY <3>1, <3>2, <3>3, <3>4, Zenon DEF StampInv
  <2>4. ClosedInv'
    BY <1>1, <1>2, <2>1, <2>2 DEF ClosedInv, NoContents
  <2>5. StatementInv(4)'
    <3>1. FromStatement(opening.todo, 4)'
      BY <1>2
    <3>2. refs' = (NoContents.heads)' /\ Emptied' /\ layout' = NoLayout
      BY <1>1, <2>1 DEF NoContents, Emptied
    <3>3. closed'.layout # newestMod'
      BY <1>1, <2>1
    <3>4. ~(4 >= 7) /\ ~(4 < 4) /\ ~(4 > 4) /\ 4 # 3 /\ 4 # 8
      OBVIOUS
    <3> QED
      BY <3>1, <3>2, <3>3, <3>4, Zenon DEF StatementInv
  <2> QED
    BY <2>3, <2>4, <2>5
<1>3. 3 \in 1 .. 7 /\ 4 \in 1 .. 8 /\ 4 = 3 + 1
  OBVIOUS
<1> QED
  BY <1>1, <1>2, <1>3, StatementRuns, Zenon

\* createSchemaObjects: a table commits that is there keeps the layout it was made with, which is this
\* mod's, as one of another mod would have been dropped.
LEMMA CreateCommitsInv ==
    ASSUME DatabaseInv, CreateCommits
    PROVE  DatabaseInv'
<1>1. /\ Executes("create commits") /\ opening # NotOpening /\ Script[4] = "create commits"
      /\ "create commits" \in Statement
      /\ open' = open /\ closed' = closed /\ newestMod' = newestMod /\ odd' = odd
      /\ tables' = tables \cup {"commits"}
      /\ layout' = IF "commits" \in tables THEN layout ELSE opening.version
      /\ commits' = commits /\ refs' = refs /\ lastId' = lastId /\ stamp' = stamp
  BY DEF CreateCommits, Executes, Script, Statement
<1>2. ASSUME StatementInv(4), ClosedInv, StampInv, FromStatement(opening'.todo, 5), ~open, ~odd
      PROVE  StampInv' /\ ClosedInv' /\ StatementInv(5)'
  <2>1. opening.version = newestMod /\ newestMod # 0 /\ newestMod \in Nat
    BY <1>1, <1>2 DEF DatabaseInv, OpeningInv, StampInv
  <2>2. /\ layout' = newestMod
        /\ closed.layout = newestMod => layout' = layout
    <3>1. CASE closed.layout = newestMod
      <4>1. layout = newestMod
        BY <3>1, <2>1, <1>2 DEF ClosedInv, Contents
      <4> QED
        BY <4>1, <2>1, <1>1, <1>2, DatabaseAssumption DEF StampInv
    <3>2. CASE closed.layout # newestMod
      <4>1. layout \in {NoLayout, newestMod}
        BY <3>2, <1>2 DEF StatementInv
      <4> QED
        BY <4>1, <3>2, <2>1, <1>1, <1>2, DatabaseAssumption DEF StampInv
    <3> QED
      BY <3>1, <3>2
  <2>3. StampInv'
    BY <1>1, <1>2, <2>1, <2>2, DatabaseAssumption DEF StampInv
  <2>4. ClosedInv'
    BY <1>1, <1>2, <2>1, <2>2 DEF ClosedInv, NoContents, Contents, Emptied
  <2>5. StatementInv(5)'
    <3>1. FromStatement(opening.todo, 5)'
      BY <1>2
    <3>2. closed.layout # newestMod => refs' = (NoContents.heads)' /\ Emptied'
      <4>1. 4 >= 3
        OBVIOUS
      <4>2. closed.layout # newestMod => Emptied
        BY <1>2, <4>1, Zenon DEF StatementInv
      <4> QED
        BY <1>1, <4>2 DEF NoContents, Emptied
    <3>3. closed'.layout = closed.layout /\ newestMod' = newestMod /\ layout' = newestMod'
      BY <1>1, <2>2
    <3>4. ~(5 >= 7) /\ ~(5 < 4) /\ 5 >= 4 /\ 5 # 3 /\ 5 # 4 /\ 5 # 8
      OBVIOUS
    <3> QED
      BY <3>1, <3>2, <3>3, <3>4, Zenon DEF StatementInv
  <2> QED
    BY <2>3, <2>4, <2>5
<1>3. 4 \in 1 .. 7 /\ 5 \in 1 .. 8 /\ 5 = 4 + 1
  OBVIOUS
<1> QED
  BY <1>1, <1>2, <1>3, StatementRuns, Zenon

\* Tables without rows, and their version.
LEMMA CreateTableInv ==
    ASSUME DatabaseInv, NEW n \in {5, 6}, NEW t, CreateTable(Script[n], t),
           n = 6 => t = "schema_meta"
    PROVE  DatabaseInv'
<1>1. /\ Executes(Script[n]) /\ opening # NotOpening
      /\ open' = open /\ closed' = closed /\ newestMod' = newestMod /\ odd' = odd
      /\ tables' = tables \cup {t}
      /\ commits' = commits /\ refs' = refs /\ lastId' = lastId /\ stamp' = stamp /\ layout' = layout
  BY DEF CreateTable, Executes
<1>2. n \in 1 .. 7 /\ n + 1 \in 1 .. 8 /\ n + 1 \in {6, 7}
  OBVIOUS
<1>3. Script[n] \in Statement
  <2>1. Script[5] \in Statement /\ Script[6] \in Statement
    BY DEF Script, Statement
  <2> QED
    BY <2>1
<1>4. ASSUME StatementInv(n), ClosedInv, StampInv, FromStatement(opening'.todo, n + 1), ~open, ~odd,
             layout # NoLayout
      PROVE  StampInv' /\ ClosedInv' /\ StatementInv(n + 1)'
  <2>1. StampInv'
    BY <1>1, <1>4 DEF StampInv
  <2>2. ClosedInv'
    BY <1>1, <1>4 DEF ClosedInv, NoContents, Contents, Emptied
  <2>3. StatementInv(n + 1)'
    <3>1. FromStatement(opening.todo, n + 1)'
      BY <1>4
    <3>2. closed.layout # newestMod => refs' = (NoContents.heads)' /\ Emptied' /\ layout' = newestMod'
      <4>1. n >= 3 /\ n > 4
        OBVIOUS
      <4>2. closed.layout # newestMod => Emptied /\ layout = newestMod
        BY <1>4, <4>1, Zenon DEF StatementInv
      <4> QED
        BY <1>1, <4>2 DEF NoContents, Emptied
    <3>3. closed'.layout = closed.layout /\ newestMod' = newestMod
      BY <1>1
    <3>4. ~(n + 1 < 4) /\ n + 1 >= 4 /\ n + 1 # 3 /\ n + 1 # 4 /\ n + 1 # 8
      BY <1>2
    <3>5. n + 1 >= 7 => "schema_meta" \in tables'
      BY <1>1
    <3> QED
      BY <3>1, <3>2, <3>3, <3>4, <3>5, Zenon DEF StatementInv
  <2> QED
    BY <2>1, <2>2, <2>3
<1>5. ASSUME StatementInv(n), ClosedInv, StampInv, ~odd PROVE layout # NoLayout
  <2>1. newestMod # 0 /\ newestMod \in Nat
    BY <1>1, <1>5 DEF DatabaseInv, OpeningInv, StampInv
  <2>2. CASE closed.layout = newestMod
    BY <2>1, <2>2, <1>5, DatabaseAssumption DEF ClosedInv, Contents
  <2>3. CASE closed.layout # newestMod
    <3>1. n > 4
      OBVIOUS
    <3>2. layout = newestMod
      BY <2>3, <3>1, <1>5, Zenon DEF StatementInv
    <3> QED
      BY <3>2, <2>1, DatabaseAssumption
  <2> QED
    BY <2>2, <2>3
<1> QED
  BY <1>1, <1>2, <1>3, <1>4, <1>5, StatementRuns, Zenon

LEMMA UpsertSchemaVersionInv ==
    ASSUME DatabaseInv, UpsertSchemaVersion
    PROVE  DatabaseInv'
<1>1. /\ Executes("stamp") /\ opening # NotOpening /\ Script[7] = "stamp" /\ "stamp" \in Statement
      /\ open' = open /\ closed' = closed /\ newestMod' = newestMod /\ odd' = odd
      /\ stamp' = opening.version /\ tables' = tables
      /\ commits' = commits /\ refs' = refs /\ lastId' = lastId /\ layout' = layout
  BY DEF UpsertSchemaVersion, Executes, Script, Statement
<1>2. ASSUME StatementInv(7), ClosedInv, StampInv, FromStatement(opening'.todo, 8), ~open, ~odd
      PROVE  StampInv' /\ ClosedInv' /\ StatementInv(8)'
  <2>1. stamp' = newestMod /\ newestMod # 0 /\ newestMod \in Nat
    BY <1>1, <1>2 DEF DatabaseInv, OpeningInv, StampInv
  <2>2. /\ "schema_meta" \in tables
        /\ closed.layout # newestMod => Emptied /\ layout = newestMod
    <3>1. 7 >= 7 /\ 7 >= 3 /\ 7 > 4
      OBVIOUS
    <3> QED
      BY <1>2, <3>1, Zenon DEF StatementInv
  <2>3. StampInv'
    BY <1>1, <1>2, <2>1, <2>2 DEF StampInv, NoStamp
  <2>4. ClosedInv'
    BY <1>1, <1>2, <2>1, <2>2 DEF ClosedInv, NoContents, Contents, Emptied
  <2>5. StatementInv(8)'
    <3>1. FromStatement(opening.todo, 8)'
      BY <1>2
    <3>2. closed.layout # newestMod => refs' = (NoContents.heads)' /\ Emptied' /\ layout' = newestMod'
      BY <1>1, <2>2 DEF NoContents, Emptied
    <3>3. /\ closed'.layout = closed.layout /\ newestMod' = newestMod /\ stamp' = newestMod'
          /\ "schema_meta" \in tables'
      BY <1>1, <2>1, <2>2
    <3>4. ~(8 < 4) /\ 8 >= 4 /\ 8 # 3 /\ 8 # 4
      OBVIOUS
    <3> QED
      BY <3>1, <3>2, <3>3, <3>4, Zenon DEF StatementInv
  <2> QED
    BY <2>3, <2>4, <2>5
<1>3. 7 \in 1 .. 7 /\ 8 \in 1 .. 8 /\ 8 = 7 + 1
  OBVIOUS
<1> QED
  BY <1>1, <1>2, <1>3, StatementRuns, Zenon

\* The script is done: either all that was closed is there, or nothing but new tables is.
LEMMA ScriptDone ==
    ASSUME DatabaseInv, Opened, ~odd
    PROVE  /\ StampInv /\ ClosedInv /\ ~open
           /\ opening.version = newestMod /\ newestMod # 0 /\ newestMod \in Nat
           /\ layout = newestMod /\ stamp = newestMod
           /\ closed.layout # newestMod => Emptied
<1>1. opening # NotOpening /\ opening.todo = <<>>
  BY DEF Opened
<1>2. /\ StampInv /\ ClosedInv /\ ~open
      /\ opening.version = newestMod /\ newestMod # 0 /\ newestMod \in Nat
  BY <1>1 DEF DatabaseInv, OpeningInv, StampInv
<1>3. PICK n \in 1 .. 8 : StatementInv(n)
  BY <1>1 DEF DatabaseInv, OpeningInv
<1>4. n = 8
  <2>1. FromStatement(opening.todo, n)
    BY <1>3 DEF StatementInv
  <2> QED
    BY <1>1, <2>1, NextStatement
<1>5. closed.layout # newestMod => Emptied /\ layout = newestMod /\ stamp = newestMod
  <2>1. StatementInv(8) /\ 8 >= 3 /\ 8 > 4
    BY <1>3, <1>4
  <2> QED
    BY <2>1, Zenon DEF StatementInv
<1>6. closed.layout = newestMod => layout = newestMod /\ stamp = newestMod
  BY <1>2 DEF ClosedInv, Contents
<1> QED
  BY <1>2, <1>5, <1>6

\* Sessions: the database is opened, used and closed.
LEMMA SessionInv ==
    ASSUME DatabaseInv, Opened \/ OpenFails \/ Close \/ Operate \/ UNCHANGED databaseVars
    PROVE  DatabaseInv'
<1> SUFFICES ASSUME ~odd'
             PROVE  StampInv' /\ (~open' => ClosedInv') /\ (opening' # NotOpening => OpeningInv')
  BY DEF DatabaseInv
<1>1. CASE Opened
  <2>1. /\ ~odd /\ open' = TRUE /\ opening' = NotOpening
        /\ tables' = tables /\ stamp' = stamp /\ layout' = layout /\ newestMod' = newestMod
    BY <1>1 DEF Opened
  <2>2. StampInv /\ newestMod # 0 /\ layout = newestMod /\ stamp = newestMod
    BY <1>1, <2>1, ScriptDone
  <2> QED
    BY <2>1, <2>2 DEF StampInv
<1>2. CASE OpenFails
  <2>1. /\ ~odd /\ opening # NotOpening /\ opening' = NotOpening
        /\ UNCHANGED <<open, commits, refs, lastId, tables, stamp, layout, closed, newestMod>>
    BY <1>2 DEF OpenFails, storeVars, schemaGhosts
  <2>2. StampInv /\ (~open => ClosedInv)
    BY <2>1 DEF DatabaseInv
  <2> QED
    BY <2>1, <2>2 DEF StampInv, ClosedInv, Contents, Emptied, NoContents
<1>3. CASE Close
  <2>1. /\ ~odd /\ open /\ open' = FALSE /\ closed' = Contents
        /\ UNCHANGED <<commits, refs, lastId, tables, stamp, opening, layout, newestMod>>
    BY <1>3 DEF Close, CloseStore, schemaVars
  <2>2. /\ StampInv /\ newestMod # 0 /\ newestMod \in Nat /\ layout = newestMod /\ stamp = newestMod
        /\ opening = NotOpening
    BY <2>1 DEF DatabaseInv, StampInv, OpeningInv
  <2>3. StampInv'
    BY <2>1, <2>2 DEF StampInv
  <2>4. /\ Contents' = closed' /\ closed'.layout = newestMod' /\ newestMod' # NoLayout
        /\ closed' \in [rows : {closed'.rows}, heads : {closed'.heads}, last : {closed'.last}, layout : Nat]
    BY <2>1, <2>2, DatabaseAssumption DEF Contents
  <2>5. ClosedInv'
    BY <2>1, <2>2, <2>4 DEF ClosedInv
  <2> QED
    BY <2>1, <2>2, <2>3, <2>5
<1>4. CASE Operate
  <2>1. /\ ~odd /\ open /\ open' = open
        /\ UNCHANGED <<tables, stamp, opening, layout, closed, newestMod>>
    <3>1. StoreOp /\ open /\ UNCHANGED <<schemaVars, schemaGhosts>>
      BY <1>4 DEF Operate
    <3>2. (\E rows, heads, last : CommitTx(rows, heads, last)) \/ (\E i, m : UpdateMessage(i, m))
      BY <3>1, Zenon DEF StoreOp, InsertAndSetHead, Squash, DeleteLevel, ReplaceLevelHistoryFrom
    <3>3. open' = open
      BY <3>2 DEF CommitTx, UpdateMessage
    <3> QED
      BY <3>1, <3>3 DEF schemaVars, schemaGhosts
  <2>2. StampInv /\ opening = NotOpening
    BY <2>1 DEF DatabaseInv, OpeningInv
  <2> QED
    BY <2>1, <2>2 DEF StampInv
<1>5. CASE UNCHANGED databaseVars
  <2>1. UNCHANGED <<open, commits, refs, lastId, tables, stamp, opening, layout, closed, newestMod, odd>>
    BY <1>5 DEF databaseVars, storeVars, schemaVars, schemaGhosts
  <2> QED
    BY <2>1
    DEF DatabaseInv, StampInv, ClosedInv, Contents, Emptied, NoContents, OpeningInv, StatementInv
<1> QED
  BY <1>1, <1>2, <1>3, <1>4, <1>5

\* The inductive invariant of opening: at every statement at which ensureSchema can stop, the version
\* tells the next opening what is left to do.
THEOREM DatabaseInvariant == DatabaseSpec => []DatabaseInv
<1>1. DatabaseInv /\ [DatabaseNext]_databaseVars => DatabaseInv'
  <2> SUFFICES ASSUME DatabaseInv, [DatabaseNext]_databaseVars PROVE DatabaseInv'
    OBVIOUS
  <2>1. CASE \E v \in ModVersion : BeginOpen(v)
    BY <2>1, BeginOpenInv
  <2>2. CASE DropRefs \/ DropCommits \/ DropMeta \/ CreateCommits \/ UpsertSchemaVersion
    BY <2>2, DropRefsInv, DropCommitsInv, DropMetaInv, CreateCommitsInv, UpsertSchemaVersionInv
  <2>3. CASE CreateTable("create refs", "refs")
    <3>1. Script[5] = "create refs" /\ 5 # 6
      BY DEF Script
    <3> QED
      BY <2>3, <3>1, CreateTableInv, Zenon
  <2>4. CASE CreateTable("create schema_meta", "schema_meta")
    <3>1. Script[6] = "create schema_meta"
      BY DEF Script
    <3> QED
      BY <2>4, <3>1, CreateTableInv, Zenon
  <2>5. CASE Opened \/ OpenFails \/ Close \/ Operate \/ UNCHANGED databaseVars
    BY <2>5, SessionInv
  <2> QED
    BY <2>1, <2>2, <2>3, <2>4, <2>5 DEF DatabaseNext
<1> QED
  BY <1>1, DatabaseInvInit, PTL DEF DatabaseSpec

\* However often opening was interrupted: the database that opens holds all it held when it was closed,
\* or, made by an older mod, nothing.
THEOREM OpeningKeepsOrWipes == DatabaseSpec => OpenedWholeOrWiped
<1> DEFINE Whole ==
        Contents' = IF closed.layout \in {NoLayout, opening.version}
                    THEN [closed EXCEPT !.layout = opening.version]
                    ELSE [NoContents EXCEPT !.layout = opening.version]
<1>1. ASSUME DatabaseInv, Opened, ~odd PROVE Whole
  <2>1. /\ ClosedInv /\ opening.version = newestMod /\ newestMod # 0 /\ newestMod \in Nat
        /\ layout = newestMod /\ (closed.layout # newestMod => Emptied)
    BY <1>1, ScriptDone
  <2>2. Contents' = Contents
    BY <1>1 DEF Opened, Contents
  <2>3. CASE closed.layout = newestMod
    <3>1. Contents = closed
      BY <2>1, <2>3 DEF ClosedInv
    <3>2. [closed EXCEPT !.layout = newestMod] = closed
      BY <2>1, <2>3, <3>1 DEF Contents
    <3> QED
      BY <2>1, <2>2, <2>3, <3>1, <3>2
  <2>4. CASE closed.layout # newestMod
    <3>1. Contents = [NoContents EXCEPT !.layout = newestMod]
      BY <2>1, <2>4 DEF Contents, NoContents, Emptied
    <3>2. closed.layout = NoLayout => closed = NoContents
      BY <2>1 DEF ClosedInv
    <3> QED
      BY <2>1, <2>2, <2>4, <3>1, <3>2
  <2> QED
    BY <2>3, <2>4
<1>2. DatabaseInv /\ [DatabaseNext]_databaseVars => [Opened /\ ~odd => Whole]_databaseVars
  BY <1>1
<1> QED
  BY <1>2, DatabaseInvariant, PTL DEF DatabaseSpec, OpenedWholeOrWiped
===============================================================================
