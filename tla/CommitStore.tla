------------------------------ MODULE CommitStore ------------------------------
(***************************************************************************)
(* The commit database: src/store/CommitStore.cpp over the schema and the  *)
(* DeferredFkTransaction of CommitSchema.cpp.                              *)
(*                                                                         *)
(* Every operation holds the store's mutex and changes the tables in one   *)
(* BEGIN IMMEDIATE ... COMMIT, so it is one step: either all of it, or     *)
(* nothing (closed database, failed statement, foreign key violated at     *)
(* COMMIT, or a crash before COMMIT).  A failed operation is a stuttering  *)
(* step here.                                                              *)
(***************************************************************************)
EXTENDS Naturals, Sequences, FiniteSets

CONSTANTS
    LevelKey,     \* levels
    Message,      \* commit messages
    Time,         \* values of created_at, seconds
    Blob,         \* delta_blob contents
    MaxId,        \* bound of the model on the ids handed out
    MaxSquash     \* bound of the model on the commits that one squash combines

ASSUME StoreAssumption == Time \subseteq Nat /\ MaxId \in Nat /\ MaxSquash \in Nat

VARIABLES
    open,         \* m_db is not null
    commits,      \* table commits: id -> row
    refs,         \* table refs: level -> head id, NoId if there is no row
    lastId        \* sqlite_sequence of commits (AUTOINCREMENT)

storeVars == <<open, commits, refs, lastId>>

NoId == 0         \* SQL NULL; row ids start at 1

Ids == DOMAIN commits
Row == [level : LevelKey, parent : Nat, reverts : Nat, message : Message, createdAt : Time,
        delta : Blob]

StoreTypeOK ==
    /\ open \in BOOLEAN
    /\ lastId \in 0 .. MaxId
    /\ Ids \subseteq 1 .. lastId
    /\ commits \in [Ids -> Row]
    /\ refs \in [LevelKey -> Nat]

StoreInit ==
    /\ open = FALSE
    /\ commits = [i \in {} |-> {}]
    /\ refs = [k \in LevelKey |-> NoId]
    /\ lastId = 0

-------------------------------------------------------------------------------
(***************************************************************************)
(* Transactions                                                            *)
(***************************************************************************)

\* The REFERENCES clauses of the schema.
ForeignKeysHold(rows, heads) ==
    /\ \A i \in DOMAIN rows : {rows[i].parent, rows[i].reverts} \subseteq DOMAIN rows \cup {NoId}
    /\ \A k \in LevelKey : heads[k] \in DOMAIN rows \cup {NoId}

\* COMMIT of a DeferredFkTransaction that leaves these tables: foreign keys are checked here.
CommitTx(rows, heads, last) ==
    /\ open
    /\ last <= MaxId
    /\ ForeignKeysHold(rows, heads)
    /\ commits' = rows /\ refs' = heads /\ lastId' = last
    /\ UNCHANGED open

\* AUTOINCREMENT: above every id that was ever committed.
NextId == lastId + 1

InsertRow(rows, id, row) == [i \in DOMAIN rows \cup {id} |-> IF i = id THEN row ELSE rows[i]]
RowsOf(k) == {i \in Ids : commits[i].level = k}
WithoutRows(rows, ids) == [i \in DOMAIN rows \ ids |-> rows[i]]

-------------------------------------------------------------------------------
(***************************************************************************)
(* Operations                                                              *)
(***************************************************************************)

\* init, on a database that is at kSchemaVersion already (CommitDatabase has the others); a second call
\* changes nothing.
InitStore ==
    /\ ~open /\ open' = TRUE
    /\ UNCHANGED <<commits, refs, lastId>>

\* The process ends, with or without running the destructor.  SQLite keeps what was committed.
CloseStore ==
    /\ open /\ open' = FALSE
    /\ UNCHANGED <<commits, refs, lastId>>

\* Returns NextId.
InsertAndSetHead(k, parent, reverts, msg, now, delta) ==
    CommitTx(InsertRow(commits, NextId, [level |-> k, parent |-> parent, reverts |-> reverts,
                                         message |-> msg, createdAt |-> now, delta |-> delta]),
             [refs EXCEPT ![k] = NextId],
             NextId)

UpdateMessage(id, msg) ==
    /\ open /\ id \in Ids
    /\ commits' = [commits EXCEPT ![id].message = msg]
    /\ UNCHANGED <<open, refs, lastId>>

\* The rows that squash leaves; ids is oldest first and may name rows that are gone by now.
SquashedRows(k, ids, parentOfOldest, msg, now, delta) ==
    LET newest == ids[Len(ids)]
        gone == {ids[n] : n \in DOMAIN ids}
        row == [level |-> k, parent |-> parentOfOldest, reverts |-> NoId, message |-> msg,
                createdAt |-> IF newest \in Ids THEN commits[newest].createdAt ELSE now,
                delta |-> delta]
        reparented == [i \in Ids |-> IF commits[i].parent = newest /\ commits[i].level = k
                                     THEN [commits[i] EXCEPT !.parent = NextId] ELSE commits[i]]
        unreverted == [i \in Ids |-> IF commits[i].reverts \in gone
                                     THEN [reparented[i] EXCEPT !.reverts = NoId] ELSE reparented[i]]
    IN  WithoutRows(InsertRow(unreverted, NextId, row), gone)

\* Returns NextId.
Squash(k, ids, parentOfOldest, msg, now, delta) ==
    /\ Len(ids) >= 2
    /\ CommitTx(SquashedRows(k, ids, parentOfOldest, msg, now, delta),
                [refs EXCEPT ![k] = IF \E n \in DOMAIN ids : ids[n] = refs[k] THEN NextId ELSE @],
                NextId)

\* What prepareSquash asks of a selection: a chain of commits of the level, oldest first.
Contiguous(k, ids) ==
    /\ \A n \in DOMAIN ids : ids[n] \in RowsOf(k)
    /\ \A n \in 2 .. Len(ids) : commits[ids[n]].parent = ids[n - 1]

\* Mutant: the AUTOINCREMENT sequence is deleted with the level.
DeleteLevel_ResetsSequence(k) ==
    CommitTx(WithoutRows(commits, RowsOf(k)), [refs EXCEPT ![k] = NoId], 0)

DeleteLevel(k) ==
    CommitTx(WithoutRows(commits, RowsOf(k)), [refs EXCEPT ![k] = NoId], lastId)

\* The new ids of the copies of src's rows, handed out in a topological order of parent and reverts.
\* The order among independent rows is that of a hash table: any.  There is none if a reference
\* leaves the level or if the references form a cycle; the code then returns false.
CopyMaps(src) ==
    {f \in [RowsOf(src) -> NextId .. lastId + Cardinality(RowsOf(src))] :
        /\ \A i, j \in RowsOf(src) : f[i] = f[j] => i = j
        /\ \A i \in RowsOf(src), r \in {"parent", "reverts"} :
            commits[i][r] # NoId => commits[i][r] \in RowsOf(src) /\ f[commits[i][r]] < f[i]}

\* Mutants: the copy keeps its level, its reverts or its parent; the copy loses its parent.
CopiedRow_SameLevel(f, dest, i) ==
    LET copied(id) == IF id = NoId THEN NoId ELSE f[id]
    IN  [commits[i] EXCEPT !.parent = copied(@), !.reverts = copied(@)]
CopiedRow_SameReverts(f, dest, i) ==
    [commits[i] EXCEPT !.level = dest, !.parent = IF @ = NoId THEN NoId ELSE f[@]]
CopiedRow_SameParent(f, dest, i) ==
    [commits[i] EXCEPT !.level = dest, !.reverts = IF @ = NoId THEN NoId ELSE f[@]]
CopiedRow_NoParent(f, dest, i) ==
    [commits[i] EXCEPT !.level = dest, !.parent = NoId, !.reverts = IF @ = NoId THEN NoId ELSE f[@]]

CopiedRow(f, dest, i) ==
    LET copied(id) == IF id = NoId THEN NoId ELSE f[id]
    IN  [commits[i] EXCEPT !.level = dest, !.parent = copied(@), !.reverts = copied(@)]

\* idMap is the map of old to new ids.
ReplaceLevelHistoryFrom(dest, src, idMap) ==
    /\ dest # src
    /\ refs[src] \in RowsOf(src)
    /\ LET kept == Ids \ RowsOf(dest)
           copies == {idMap[i] : i \in RowsOf(src)}
       IN  CommitTx([n \in kept \cup copies |->
                        IF n \in copies
                        THEN CopiedRow(idMap, dest, CHOOSE i \in RowsOf(src) : idMap[i] = n)
                        ELSE commits[n]],
                    [refs EXCEPT ![dest] = idMap[refs[src]]],
                    lastId + Cardinality(RowsOf(src)))

\* The order of list and listSummaryRows: created_at DESC, id DESC.
ListedBefore(i, j) ==
    \/ commits[i].createdAt > commits[j].createdAt
    \/ commits[i].createdAt = commits[j].createdAt /\ i > j

-------------------------------------------------------------------------------
(***************************************************************************)
(* The store under any caller that passes, for a level, ids that this      *)
(* level was given at some time: ids of rows that are gone included.       *)
(***************************************************************************)

IdArgs(k) == {i \in 1 .. lastId : i \in Ids => commits[i].level = k}

\* The selections of squash mode: distinct ids, in some order.
Selections(S) ==
    UNION {{ids \in [1 .. n -> S] : \A a, b \in 1 .. n : ids[a] = ids[b] => a = b} :
             n \in 2 .. MaxSquash}

StoreOp ==
    \/ \E k \in LevelKey, m \in Message, t \in Time, d \in Blob :
        \/ \E p, r \in IdArgs(k) \cup {NoId} : InsertAndSetHead(k, p, r, m, t, d)
        \/ \E p \in IdArgs(k) \cup {NoId}, ids \in Selections(IdArgs(k)) : Squash(k, ids, p, m, t, d)
    \/ \E i \in 1 .. lastId, m \in Message : UpdateMessage(i, m)
    \/ \E k \in LevelKey : DeleteLevel(k)
    \/ \E dest, src \in LevelKey : \E f \in CopyMaps(src) : ReplaceLevelHistoryFrom(dest, src, f)

StoreNext == InitStore \/ CloseStore \/ StoreOp

StoreSpec == StoreInit /\ [][StoreNext]_storeVars
-------------------------------------------------------------------------------
\* The HEAD of a level is a commit of that level (refs.head_id is written by insertAndSetHead, squash
\* and replaceLevelHistoryFrom from ids they minted or were passed).
HeadInOwnLevel == \A k \in LevelKey : refs[k] # NoId => refs[k] \in RowsOf(k)

\* No commit of another level, and no other HEAD, holds on to a level's rows, so the COMMIT of
\* deleteLevel never meets a violated foreign key, however late ids reached the store.
EveryLevelDeletable ==
    \A k \in LevelKey :
        ForeignKeysHold(WithoutRows(commits, RowsOf(k)), [refs EXCEPT ![k] = NoId])
===============================================================================
