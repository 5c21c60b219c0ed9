---------------------------- MODULE GitServiceProofs ----------------------------
(***************************************************************************)
(* Proofs about the git service, for any number of levels, commits, states *)
(* and prepared operations, and for any order of the jobs.                 *)
(*                                                                         *)
(* That history replays to what was recorded is not inductive.  A commit   *)
(* is written from a delta that was computed jobs ago, so the invariant    *)
(* says of every prepared operation, of the running job and of the loops   *)
(* of reconstruct what their states have to do with the recorded ones.     *)
(* The ids that they carry may be those of rows that are gone: what is     *)
(* known of them for good is that no other level ever gets them.           *)
(***************************************************************************)
EXTENDS GitService, CommitStoreProofs, DifferProofs, SequenceTheorems

\* The delta makes s of the state of the parent.
Replays(parent, delta, s) == SameState(Apply(BaseOf(parent), delta), s)

Newest(ids) == ids[Len(ids)]

-------------------------------------------------------------------------------
(***************************************************************************)
(* The inductive invariant                                                 *)
(***************************************************************************)

SnapshotsNormal ==
    /\ snapshot \in [1 .. lastId -> LevelState]
    /\ \A i \in 1 .. lastId : Norm(snapshot[i]) = snapshot[i]

DeltasStored == \A i \in Ids : commits[i].delta \in Delta

\* HEAD is never the parent of a commit: each new commit becomes HEAD.
HeadsChildless ==
    \A k \in LevelKey : refs[k] # NoId => \A i \in Ids : commits[i].parent # refs[k]

\* The part about the database.
TablesInv ==
    /\ StoreInv /\ SnapshotsNormal /\ DeltasStored /\ HeadsChildless
    /\ staleImport \in BOOLEAN
    /\ ~staleImport => HistoryReplaysToSnapshots

\* The part about the cache.
CacheInv ==
    /\ CacheOnlyLiveCommits /\ CacheBounded
    /\ cache \in [DOMAIN cache -> LevelState]
    /\ ~staleImport => CacheShowsSnapshots

PendingHeadOK(p) ==
    /\ p \in PendingHead
    /\ p.parent \in IdArgs(p.level) /\ p.reverts \in IdArgs(p.level)
    /\ ~staleImport => /\ Replays(p.parent, p.delta, p.applied)
                       /\ p.kind = "checkout" => SameState(p.applied, snapshot[p.reverts])

\* Only the newest of the selected commits can be HEAD.
PendingSquashOK(p) ==
    /\ p \in PendingSquash
    /\ p.parent \in IdArgs(p.level) \cup {NoId} /\ p.ids \in Selections(IdArgs(p.level))
    /\ refs[p.level] # NoId => /\ refs[p.level] # p.parent
                               /\ \A n \in 1 .. Len(p.ids) - 1 : refs[p.level] # p.ids[n]
    /\ ~staleImport => /\ Replays(p.parent, p.delta, p.applied)
                       /\ SameState(p.applied, snapshot[Newest(p.ids)])

\* The first delta of a batch is relative to the parent, the others to the entry before.
EntryOK(k, batch, n) ==
    /\ batch[n].ix = n - 1 /\ batch[n].parent \in IdArgs(k) \cup {NoId}
    /\ ~staleImport => IF n = 1 THEN Replays(batch[n].parent, batch[n].delta, batch[n].after)
                       ELSE SameState(Apply(batch[n - 1].after, batch[n].delta), batch[n].after)
BatchOK(k, batch) == \A n \in 1 .. Len(batch) : EntryOK(k, batch, n)

PendingImportOK(p) == p \in PendingImport /\ BatchOK(p.level, p.batch)

PendingOK(p) ==
    PendingHeadOK(p) \/ PendingSquashOK(p) \/ p \in PendingReplace \/ PendingImportOK(p)

PendingsInv == \A p \in pendings : PendingOK(p)

\* The arguments of a running operation: what it read of the tables is still there.
JobArgsOK ==
    /\ job.op \in {"commit", "import"} =>
        /\ job.head \in IdArgs(job.level) \cup {NoId}
        /\ job.head # NoId => job.goals # <<>> /\ job.goals[Len(job.goals)] = job.head
    /\ job.op = "checkout" =>
        /\ job.head \in RowsOf(job.level)
        /\ Len(job.ids) = 1 /\ job.ids[1] \in 1 .. lastId
        /\ job.goals = CheckoutGoals(job.head, job.ids[1])
    /\ job.op = "revert" =>
        /\ job.head \in RowsOf(job.level)
        /\ Len(job.ids) = 1 /\ job.ids[1] \in RowsOf(job.level)
        /\ Len(job.goals) = 3 /\ job.goals[3] = job.head
    /\ job.op = "squash" =>
        /\ job.ids \in Selections(Ids) /\ Contiguous(job.level, job.ids)
        /\ job.goals = IF commits[job.ids[1]].parent = NoId THEN <<Newest(job.ids)>>
                       ELSE <<commits[job.ids[1]].parent, Newest(job.ids)>>
    /\ job.op = "replace" => Len(job.goals) = 1

\* What was reconstructed so far.
GotOK ==
    \A n \in 1 .. Len(job.got) :
        /\ n <= Len(job.goals) /\ job.goals[n] \in Ids
        /\ ~staleImport => SameState(job.got[n], snapshot[job.goals[n]])

ImportJobOK ==
    /\ job \in FinalizeImportJob /\ BatchOK(job.level, job.batch)
    /\ Len(job.minted) <= Len(job.batch)
    /\ \A n \in 1 .. Len(job.minted) :
        /\ job.minted[n] \in IdArgs(job.level)
        /\ snapshot[job.minted[n]] = Norm(job.batch[n].after)

JobInv == job = Idle \/ (job \in ReconstructJob /\ JobArgsOK /\ GotOK) \/ ImportJobOK

\* The chain leads from the goal towards the root.
ChainOK(goal) ==
    /\ \A n \in 1 .. Len(walk.chain) : walk.chain[n] \in Ids
    /\ walk.chain # <<>> => walk.chain[1] = goal
    /\ \A n \in 2 .. Len(walk.chain) : walk.chain[n] = commits[walk.chain[n - 1]].parent

EndOfChain == commits[walk.chain[Len(walk.chain)]].parent

WalkUpOK(goal) ==
    /\ walk.state = EmptyState
    /\ walk.cur = IF walk.chain = <<>> THEN goal ELSE EndOfChain

WalkDownOK(goal) ==
    IF walk.chain = <<>> THEN goal \in Ids /\ (~staleImport => SameState(walk.state, snapshot[goal]))
    ELSE ~staleImport => SameState(walk.state, BaseOf(EndOfChain))

WalkInv ==
    /\ walk \in Walk
    /\ walk.phase # "out" =>
        /\ job \in ReconstructJob /\ Len(job.got) < Len(job.goals)
        /\ ChainOK(job.goals[Len(job.got) + 1])
        /\ IF walk.phase = "up" THEN WalkUpOK(job.goals[Len(job.got) + 1])
           ELSE WalkDownOK(job.goals[Len(job.got) + 1])

ServiceInv == TablesInv /\ CacheInv /\ PendingsInv /\ JobInv /\ WalkInv

-------------------------------------------------------------------------------
(***************************************************************************)
(* What no step takes back                                                 *)
(***************************************************************************)

\* Ids are handed out once: what was recorded under one stays, its row never changes its level or
\* comes back, and a HEAD moves to a new id only.
Grows ==
    /\ lastId' \in Nat /\ lastId <= lastId'
    /\ \A i \in 1 .. lastId : snapshot'[i] = snapshot[i]
    /\ \A i \in 1 .. lastId : i \in Ids' => i \in Ids /\ commits'[i].level = commits[i].level
    /\ staleImport => staleImport'
    /\ \A k \in LevelKey : refs'[k] \in {refs[k], NoId} \/ refs'[k] \notin 0 .. lastId

LEMMA LastIdIsNat ==
    ASSUME StoreInv
    PROVE  lastId \in Nat /\ Ids \subseteq 1 .. lastId /\ \A i \in Ids : i \in Nat /\ i # NoId
BY StoreAssumption DEF StoreInv, StoreTypeOK, NoId

\* The ids that a caller may hold stay the level's.
LEMMA IdArgsGrow ==
    ASSUME lastId \in Nat, Grows, NEW k
    PROVE  IdArgs(k) \subseteq IdArgs(k)'
BY DEF Grows, IdArgs

LEMMA IdArgsBound ==
    ASSUME lastId \in Nat, NEW k
    PROVE  IdArgs(k) \subseteq 1 .. lastId /\ NoId \notin IdArgs(k) /\ RowsOf(k) \subseteq Ids
BY DEF IdArgs, NoId, RowsOf

\* The state of a parent stays.
LEMMA BaseGrows ==
    ASSUME lastId \in Nat, Grows, NEW k, NEW i \in IdArgs(k) \cup {NoId}
    PROVE  BaseOf(i)' = BaseOf(i)
BY IdArgsBound DEF Grows, BaseOf, NoId

\* A selection of squash mode is a sequence of at least two distinct ids.
LEMMA SelectionType ==
    ASSUME NEW S, NEW ids \in Selections(S)
    PROVE  /\ ids \in Seq(S) /\ Len(ids) \in Nat /\ Len(ids) >= 2 /\ DOMAIN ids = 1 .. Len(ids)
           /\ \A n \in 1 .. Len(ids) : ids[n] \in S
           /\ Newest(ids) \in S
           /\ \A T : S \subseteq T => ids \in Selections(T)
<1>1. PICK n \in 2 .. MaxSquash : ids \in [1 .. n -> S]
  BY DEF Selections
<1>2. n \in Nat /\ n >= 2
  BY <1>1, StoreAssumption
<1>3. ids \in Seq(S)
  BY <1>1, <1>2, SeqDef
<1>4. Len(ids) = n
  BY <1>1, <1>2, <1>3
<1>5. \A T : S \subseteq T => ids \in Selections(T)
  BY DEF Selections
<1> QED
  BY <1>1, <1>2, <1>3, <1>4, <1>5 DEF Newest

\* What is known of a batch stays known.
LEMMA BatchGrows ==
    ASSUME lastId \in Nat, Grows, NEW k, NEW batch, BatchOK(k, batch)
    PROVE  BatchOK(k, batch)'
<1>1. ASSUME NEW n \in 1 .. Len(batch)
      PROVE  EntryOK(k, batch, n)'
  <2>1. EntryOK(k, batch, n)
    BY <1>1 DEF BatchOK
  <2>2. BaseOf(batch[n].parent)' = BaseOf(batch[n].parent)
    BY <2>1, BaseGrows DEF EntryOK
  <2> QED
    BY <2>1, <2>2, IdArgsGrow DEF EntryOK, Replays, Grows, NoId
<1> QED
  BY <1>1 DEF BatchOK

\* What is known of a prepared operation stays known, however long it waits.
LEMMA PendingGrows ==
    ASSUME lastId \in Nat, Grows, NEW p, PendingOK(p), refs \in [LevelKey -> Nat]
    PROVE  PendingOK(p)'
<1>1. CASE PendingHeadOK(p)
  <2>1. /\ p \in PendingHead /\ p.parent \in IdArgs(p.level)' /\ p.reverts \in IdArgs(p.level)'
        /\ p.reverts \in 1 .. lastId
    BY <1>1, IdArgsGrow, IdArgsBound DEF PendingHeadOK
  <2>2. BaseOf(p.parent)' = BaseOf(p.parent)
    BY <1>1, BaseGrows DEF PendingHeadOK
  <2>3. ~staleImport' => /\ Replays(p.parent, p.delta, p.applied)'
                         /\ p.kind = "checkout" => SameState(p.applied, snapshot'[p.reverts])
    BY <1>1, <2>1, <2>2 DEF PendingHeadOK, Replays, Grows
  <2> QED
    BY <2>1, <2>3 DEF PendingOK, PendingHeadOK
<1>2. CASE PendingSquashOK(p)
  <2>1. /\ p \in PendingSquash /\ p.parent \in IdArgs(p.level)' \cup {NoId}
        /\ p.level \in LevelKey
    BY <1>2, IdArgsGrow DEF PendingSquashOK, PendingSquash
  <2>2. BaseOf(p.parent)' = BaseOf(p.parent)
    BY <1>2, BaseGrows DEF PendingSquashOK
  <2>3. /\ p.ids \in Selections(IdArgs(p.level)') /\ Newest(p.ids) \in 1 .. lastId
        /\ p.parent \in 0 .. lastId /\ \A n \in 1 .. Len(p.ids) : p.ids[n] \in 1 .. lastId
        /\ Len(p.ids) \in Nat
    BY <1>2, SelectionType, IdArgsGrow, IdArgsBound DEF PendingSquashOK, NoId
  <2>4. ~staleImport' => /\ Replays(p.parent, p.delta, p.applied)'
                         /\ SameState(p.applied, snapshot'[Newest(p.ids)])
    BY <1>2, <2>2, <2>3 DEF PendingSquashOK, Replays, Grows
  <2>5. refs'[p.level] # NoId => /\ refs'[p.level] # p.parent
                                 /\ \A n \in 1 .. Len(p.ids) - 1 : refs'[p.level] # p.ids[n]
    BY SMTT(30), <1>2, <2>1, <2>3 DEF PendingSquashOK, Grows, NoId
  <2>6. Selections(IdArgs(p.level)') = Selections(IdArgs(p.level))'
    BY DEF Selections
  <2> QED
    BY <2>1, <2>3, <2>4, <2>5, <2>6 DEF PendingOK, PendingSquashOK, NoId
<1>3. CASE p \in PendingReplace
  BY <1>3 DEF PendingOK
<1>4. CASE PendingImportOK(p)
  BY <1>4, BatchGrows DEF PendingOK, PendingImportOK
<1> QED
  BY <1>1, <1>2, <1>3, <1>4 DEF PendingOK

-------------------------------------------------------------------------------
(***************************************************************************)
(* What each operation of the store does to the tables                     *)
(***************************************************************************)

\* What insertAndSetHead leaves.
RecordEffect(k, p, r, d, s) ==
    /\ lastId \in Nat /\ lastId' = lastId + 1 /\ NextId = lastId + 1
    /\ Ids' = Ids \cup {lastId + 1} /\ Ids \subseteq 1 .. lastId
    /\ \A i \in Ids : commits'[i] = commits[i]
    /\ commits'[lastId + 1].level = k /\ commits'[lastId + 1].parent = p
    /\ commits'[lastId + 1].reverts = r /\ commits'[lastId + 1].delta = d
    /\ refs \in [LevelKey -> Nat] /\ refs' = [refs EXCEPT ![k] = lastId + 1]
    /\ p \in Ids \cup {NoId} /\ r \in Ids \cup {NoId}
    /\ staleImport' = staleImport
    /\ \A i \in 1 .. lastId : snapshot'[i] = snapshot[i]
    /\ snapshot'[lastId + 1] = Norm(s) /\ Norm(Norm(s)) = Norm(s)

LEMMA RecordFacts ==
    ASSUME TablesInv, NEW k \in LevelKey, NEW p \in IdArgs(k) \cup {NoId},
           NEW r \in IdArgs(k) \cup {NoId}, NEW d \in Delta, NEW s \in LevelState,
           Record(k, p, r, d, s)
    PROVE  StoreInv' /\ SnapshotsNormal' /\ RecordEffect(k, p, r, d, s)
<1>1. PICK m \in Message, t \in Time : InsertAndSetHead(k, p, r, m, t, d)
  BY DEF Record
<1>2. StoreInv /\ d \in Blob /\ lastId \in Nat /\ Ids \subseteq 1 .. lastId /\ NextId = lastId + 1
      /\ NextId \notin Ids /\ refs \in [LevelKey -> Nat]
  BY ServiceAssumption, LastIdIsNat DEF TablesInv, NextId, StoreInv, StoreTypeOK
<1>3. StoreInv'
  BY <1>1, <1>2, InsertAndSetHeadInv
<1> DEFINE row == [level |-> k, parent |-> p, reverts |-> r, message |-> m, createdAt |-> t,
                   delta |-> d]
           rows == InsertRow(commits, NextId, row)
<1>4. /\ commits' = rows /\ lastId' = NextId /\ refs' = [refs EXCEPT ![k] = NextId]
      /\ ForeignKeysHold(rows, refs')
  BY <1>1 DEF InsertAndSetHead, CommitTx
<1>5. DOMAIN rows = Ids \cup {NextId} /\ rows[NextId] = row /\ \A i \in Ids : rows[i] = commits[i]
  BY <1>2 DEF InsertRow, Ids
<1> HIDE DEF rows
<1>6. p \in Ids \cup {NoId} /\ r \in Ids \cup {NoId}
  <2>1. {p, r} \subseteq Ids \cup {NextId, NoId}
    BY <1>4, <1>5 DEF ForeignKeysHold
  <2>2. p # NextId /\ r # NextId
    BY <1>2 DEF IdArgs, NoId
  <2> QED
    BY <2>1, <2>2
<1>7. /\ snapshot' = [i \in 1 .. lastId + 1 |-> IF i = lastId + 1 THEN Norm(s) ELSE snapshot[i]]
      /\ staleImport' = staleImport
  BY <1>2 DEF Record
<1>8. Ids' = DOMAIN rows
  BY <1>4 DEF Ids
<1>9. Norm(s) \in LevelState /\ Norm(Norm(s)) = Norm(s)
  BY NormType
<1>10. SnapshotsNormal' /\ snapshot'[lastId + 1] = Norm(s)
       /\ \A i \in 1 .. lastId : snapshot'[i] = snapshot[i]
  BY <1>2, <1>4, <1>7, <1>9 DEF SnapshotsNormal, TablesInv
<1> QED
  BY <1>2, <1>3, <1>4, <1>5, <1>6, <1>7, <1>8, <1>9, <1>10 DEF RecordEffect

LEMMA RecordTables ==
    ASSUME TablesInv, NEW k \in LevelKey, NEW p \in IdArgs(k) \cup {NoId},
           NEW r \in IdArgs(k) \cup {NoId}, NEW d \in Delta, NEW s \in LevelState,
           Record(k, p, r, d, s), ~staleImport => Replays(p, d, s)
    PROVE  TablesInv' /\ Grows
<1>1. StoreInv' /\ SnapshotsNormal' /\ RecordEffect(k, p, r, d, s)
  BY RecordFacts
<1> USE <1>1 DEF RecordEffect
<1>2. \A i \in Ids : commits[i].parent \in Ids \cup {NoId}
  BY DEF TablesInv, StoreInv, ForeignKeysHold, Ids
<1>3. \A i \in Ids : i \in Nat /\ i # lastId + 1 /\ i # NoId
  BY DEF NoId
<1>4. DeltasStored'
  BY DEF DeltasStored, TablesInv
<1>5. HeadsChildless'
  <2> SUFFICES ASSUME NEW l \in LevelKey, refs'[l] # NoId, NEW i \in Ids'
               PROVE  commits'[i].parent # refs'[l]
    BY DEF HeadsChildless, NoId
  <2>1. CASE l = k
    BY <2>1, <1>2, <1>3 DEF NoId
  <2>2. CASE l # k
    <3>1. refs'[l] = refs[l]
      BY <2>2
    <3>2. CASE i = lastId + 1
      <4>1. p # NoId => commits[p].level = k
        BY <1>3 DEF IdArgs
      <4>2. refs[l] \in Ids /\ commits[refs[l]].level = l
        BY <3>1 DEF TablesInv, StoreInv, HeadsInOwnLevel, Ids
      <4> QED
        BY <2>2, <3>1, <3>2, <4>1, <4>2
    <3>3. CASE i \in Ids
      BY <3>1, <3>3 DEF TablesInv, HeadsChildless
    <3> QED
      BY <3>2, <3>3
  <2> QED
    BY <2>1, <2>2
<1>6. ~staleImport' => HistoryReplaysToSnapshots'
  <2> DEFINE base(j) == IF j = NoId THEN EmptyState ELSE snapshot'[j]
  <2> SUFFICES ASSUME ~staleImport, NEW i \in Ids'
               PROVE  SameState(Apply(base(commits'[i].parent), commits'[i].delta), snapshot'[i])
    BY DEF HistoryReplaysToSnapshots, BaseOf, NoId
  <2>1. \A j \in Ids \cup {NoId} : base(j) = BaseOf(j)
    BY DEF BaseOf, NoId
  <2> HIDE DEF base
  <2>2. CASE i = lastId + 1
    BY <2>1, <2>2 DEF SameState, Replays
  <2>3. CASE i \in Ids
    BY <2>1, <2>3, <1>2 DEF TablesInv, HistoryReplaysToSnapshots
  <2> QED
    BY <2>2, <2>3
<1>7. Grows
  <2>1. \A l \in LevelKey : refs'[l] \in {refs[l], NoId} \/ refs'[l] \notin 0 .. lastId
    OBVIOUS
  <2> QED
    BY <2>1 DEF Grows
<1> QED
  BY <1>4, <1>5, <1>6, <1>7 DEF TablesInv

\* What squash leaves.  A child of the newest commit is reparented to the new one.
SquashEffect(p) ==
    /\ lastId \in Nat /\ lastId' = lastId + 1 /\ NextId = lastId + 1
    /\ Ids \subseteq 1 .. lastId /\ Gone(p.ids) \subseteq IdArgs(p.level)
    /\ IdArgs(p.level) \subseteq 1 .. lastId
    /\ Newest(p.ids) \in Gone(p.ids)
    /\ Ids' = (Ids \ Gone(p.ids)) \cup {lastId + 1}
    /\ \A i \in Ids \ Gone(p.ids) :
        /\ commits'[i].level = commits[i].level /\ commits'[i].delta = commits[i].delta
        /\ commits'[i].parent = IF commits[i].parent = Newest(p.ids) THEN lastId + 1
                                ELSE commits[i].parent
        /\ commits'[i].reverts \in {commits[i].reverts, NoId}
    /\ \A i \in Ids' : {commits'[i].parent, commits'[i].reverts} \subseteq Ids' \cup {NoId}
    /\ commits'[lastId + 1].level = p.level /\ commits'[lastId + 1].parent = p.parent
    /\ commits'[lastId + 1].reverts = NoId /\ commits'[lastId + 1].delta = p.delta
    /\ refs \in [LevelKey -> Nat]
    /\ refs' = [refs EXCEPT ![p.level] = IF refs[p.level] \in Gone(p.ids) THEN lastId + 1
                                         ELSE refs[p.level]]
    /\ staleImport' = staleImport
    /\ \A i \in 1 .. lastId : snapshot'[i] = snapshot[i]
    /\ snapshot'[lastId + 1] = Norm(p.applied) /\ Norm(Norm(p.applied)) = Norm(p.applied)

SquashStep(p) ==
    /\ \E m \in Message, t \in Time : Squash(p.level, p.ids, p.parent, m, t, p.delta)
    /\ snapshot' = [i \in 1 .. NextId |-> IF i = NextId THEN Norm(p.applied) ELSE snapshot[i]]
    /\ UNCHANGED staleImport

LEMMA SquashFacts ==
    ASSUME TablesInv, NEW p, PendingSquashOK(p), SquashStep(p)
    PROVE  StoreInv' /\ SnapshotsNormal' /\ SquashEffect(p)
<1> DEFINE k == p.level
           ids == p.ids
<1>1. PICK m \in Message, t \in Time : Squash(k, ids, p.parent, m, t, p.delta)
  BY DEF SquashStep
<1>2. /\ StoreInv /\ lastId \in Nat /\ Ids \subseteq 1 .. lastId /\ NextId = lastId + 1
      /\ refs \in [LevelKey -> Nat]
  BY LastIdIsNat DEF TablesInv, NextId, StoreInv, StoreTypeOK
<1>3. /\ k \in LevelKey /\ p.delta \in Blob /\ p.applied \in LevelState /\ p.delta \in Delta
      /\ p.parent \in IdArgs(k) \cup {NoId} /\ ids \in Selections(IdArgs(k))
  BY ServiceAssumption DEF PendingSquashOK, PendingSquash
<1>4. /\ Gone(ids) \subseteq IdArgs(k) /\ Newest(ids) \in Gone(ids) /\ Newest(ids) \in IdArgs(k)
      /\ IdArgs(k) \subseteq 1 .. lastId /\ Newest(ids) # NoId
  BY <1>2, <1>3, SelectionType, IdArgsBound DEF Gone, Newest
<1>5. StoreInv'
  BY <1>1, <1>2, <1>3, SquashInv
<1> DEFINE rows == SquashedRows(k, ids, p.parent, m, t, p.delta)
<1>6. SquashShape(rows, k, ids, p.parent, m, t, p.delta)
  BY <1>2, <1>3, SquashedRowsShape
<1>7. /\ commits' = rows /\ lastId' = NextId
      /\ refs' = [refs EXCEPT ![k] = IF refs[k] \in Gone(ids) THEN NextId ELSE refs[k]]
  <2>1. (\E n \in DOMAIN ids : ids[n] = refs[k]) <=> refs[k] \in Gone(ids)
    BY DEF Gone
  <2> QED
    BY <1>1, <2>1 DEF Squash, CommitTx
<1>8. Norm(p.applied) \in LevelState /\ Norm(Norm(p.applied)) = Norm(p.applied)
  BY <1>3, NormType
<1>9. /\ SnapshotsNormal' /\ snapshot'[lastId + 1] = Norm(p.applied)
      /\ \A i \in 1 .. lastId : snapshot'[i] = snapshot[i]
      /\ staleImport' = staleImport
  BY <1>2, <1>7, <1>8 DEF SnapshotsNormal, TablesInv, SquashStep
<1>10. Ids' = (Ids \ Gone(ids)) \cup {lastId + 1}
  BY <1>2, <1>4, <1>6, <1>7 DEF SquashShape, Ids
<1>11. ASSUME NEW i \in Ids \ Gone(ids)
       PROVE  /\ commits'[i].level = commits[i].level /\ commits'[i].delta = commits[i].delta
              /\ commits'[i].parent = IF commits[i].parent = Newest(ids) THEN lastId + 1
                                      ELSE commits[i].parent
              /\ commits'[i].reverts \in {commits[i].reverts, NoId}
  <2>1. commits[i].parent = Newest(ids) => commits[i].level = k
    BY <1>2, <1>4 DEF StoreInv, ReferencesInOwnLevel, RefersWithinLevel, Ids, IdArgs
  <2> QED
    BY <1>2, <1>6, <1>7, <2>1 DEF SquashShape, Newest
<1>12. /\ commits'[lastId + 1].level = k /\ commits'[lastId + 1].parent = p.parent
       /\ commits'[lastId + 1].reverts = NoId /\ commits'[lastId + 1].delta = p.delta
  BY <1>2, <1>6, <1>7 DEF SquashShape
<1>13. \A i \in Ids' : {commits'[i].parent, commits'[i].reverts} \subseteq Ids' \cup {NoId}
  BY <1>5 DEF StoreInv, ForeignKeysHold, Ids, NoId
<1> QED
  BY <1>2, <1>4, <1>5, <1>7, <1>8, <1>9, <1>10, <1>11, <1>12, <1>13 DEF SquashEffect

LEMMA SquashTables ==
    ASSUME TablesInv, NEW p, PendingSquashOK(p), SquashStep(p)
    PROVE  TablesInv' /\ Grows
<1>1. StoreInv' /\ SnapshotsNormal' /\ SquashEffect(p)
  BY SquashFacts
<1>3. \A i \in Ids : i \in Nat /\ i # lastId + 1 /\ i # NoId
  BY LastIdIsNat DEF TablesInv
<1> USE <1>1 DEF SquashEffect
<1>2. \A i \in Ids : commits[i].parent \in Ids \cup {NoId}
  BY DEF TablesInv, StoreInv, ForeignKeysHold, Ids
<1>4. /\ p.parent \in IdArgs(p.level) \cup {NoId} /\ p.level \in LevelKey /\ p.delta \in Delta
      /\ p.parent # lastId + 1
  BY DEF PendingSquashOK, PendingSquash, NoId
<1>5. DeltasStored'
  BY <1>4 DEF DeltasStored, TablesInv
<1>6. HeadsChildless'
  <2> SUFFICES ASSUME NEW l \in LevelKey, refs'[l] # NoId, NEW i \in Ids'
               PROVE  commits'[i].parent # refs'[l]
    BY DEF HeadsChildless, NoId
  <2>1. CASE refs'[l] # refs[l]
    <3>1. l = p.level /\ refs[l] \in Gone(p.ids) /\ refs'[l] = lastId + 1 /\ refs[l] # NoId
      BY <2>1, <1>4 DEF NoId
    <3>2. refs[l] = Newest(p.ids)
      <4>1. PICK n \in 1 .. Len(p.ids) : refs[l] = p.ids[n]
        BY <3>1, SelectionType DEF PendingSquashOK, Gone
      <4>2. Len(p.ids) \in Nat /\ n \notin 1 .. Len(p.ids) - 1
        BY <3>1, <4>1, SelectionType DEF PendingSquashOK
      <4> QED
        BY <4>1, <4>2 DEF Newest
    <3>3. \A j \in Ids : commits[j].parent # Newest(p.ids)
      BY <3>1, <3>2 DEF TablesInv, HeadsChildless
    <3> QED
      BY <3>1, <3>3, <1>2, <1>3, <1>4 DEF NoId
  <2>2. CASE refs'[l] = refs[l]
    <3>1. refs[l] \in Ids /\ commits[refs[l]].level = l
      BY <2>2 DEF TablesInv, StoreInv, HeadsInOwnLevel, Ids
    <3>2. CASE i = lastId + 1
      BY <3>1, <3>2, <2>2, <1>4 DEF IdArgs, PendingSquashOK
    <3>3. CASE i \in Ids \ Gone(p.ids)
      BY <3>1, <3>3, <2>2, <1>3 DEF TablesInv, HeadsChildless
    <3> QED
      BY <3>2, <3>3
  <2> QED
    BY <2>1, <2>2
<1>7. ~staleImport' => HistoryReplaysToSnapshots'
  <2> DEFINE base(j) == IF j = NoId THEN EmptyState ELSE snapshot'[j]
  <2> SUFFICES ASSUME ~staleImport, NEW i \in Ids'
               PROVE  SameState(Apply(base(commits'[i].parent), commits'[i].delta), snapshot'[i])
    BY DEF HistoryReplaysToSnapshots, BaseOf, NoId
  <2>1. \A j \in 1 .. lastId \cup {NoId} : base(j) = BaseOf(j)
    BY DEF BaseOf, NoId
  <2>2. Norm(p.applied) = snapshot[Newest(p.ids)]
    BY DEF PendingSquashOK, SameState, TablesInv, SnapshotsNormal
  <2>3. base(lastId + 1) = BaseOf(Newest(p.ids))
    BY <2>2 DEF BaseOf, NoId
  <2> HIDE DEF base
  <2>4. CASE i = lastId + 1
    <3>1. base(p.parent) = BaseOf(p.parent)
      BY <2>1, <1>4
    <3>2. SameState(Apply(BaseOf(p.parent), p.delta), p.applied)
      BY DEF PendingSquashOK, Replays
    <3> QED
      BY <2>4, <3>1, <3>2 DEF SameState
  <2>5. CASE i \in Ids \ Gone(p.ids)
    <3>1. base(commits'[i].parent) = BaseOf(commits[i].parent)
      BY <2>1, <2>3, <2>5, <1>2
    <3>2. SameState(Apply(BaseOf(commits[i].parent), commits[i].delta), snapshot[i])
      BY <2>5 DEF TablesInv, HistoryReplaysToSnapshots
    <3> QED
      BY <2>5, <3>1, <3>2
  <2> QED
    BY <2>4, <2>5
<1>8. Grows
  <2>1. \A l \in LevelKey : refs'[l] \in {refs[l], NoId} \/ refs'[l] \notin 0 .. lastId
    OBVIOUS
  <2>2. \A i \in 1 .. lastId : i \in Ids' => i \in Ids /\ commits'[i].level = commits[i].level
    OBVIOUS
  <2> QED
    BY <2>1, <2>2 DEF Grows
<1> QED
  BY <1>5, <1>6, <1>7, <1>8 DEF TablesInv

\* What replaceLevelHistoryFrom leaves: the rows of the other levels and the copies, each with what
\* was recorded for the row that it is a copy of.
CopyOf(f, id) == IF id = NoId THEN NoId ELSE f[id]

LoadEffect(dest, src, f) ==
    /\ lastId \in Nat /\ lastId' \in Nat /\ lastId <= lastId'
    /\ Ids \subseteq 1 .. lastId
    /\ dest # src /\ refs[src] \in RowsOf(src)
    /\ \A i, j \in RowsOf(src) : f[i] = f[j] => i = j
    /\ \A i \in RowsOf(src) : f[i] \in lastId + 1 .. lastId'
    /\ \A n \in lastId + 1 .. lastId' : \E i \in RowsOf(src) : f[i] = n
    /\ Ids' = (Ids \ RowsOf(dest)) \cup {f[i] : i \in RowsOf(src)}
    /\ \A i \in Ids \ RowsOf(dest) : commits'[i] = commits[i]
    /\ \A i \in RowsOf(src) :
        /\ {commits[i].parent, commits[i].reverts} \subseteq RowsOf(src) \cup {NoId}
        /\ commits'[f[i]].level = dest /\ commits'[f[i]].delta = commits[i].delta
        /\ commits'[f[i]].parent = CopyOf(f, commits[i].parent)
        /\ commits'[f[i]].reverts = CopyOf(f, commits[i].reverts)
        /\ snapshot'[f[i]] = snapshot[i]
    /\ \A i \in 1 .. lastId : snapshot'[i] = snapshot[i]
    /\ refs \in [LevelKey -> Nat] /\ refs' = [refs EXCEPT ![dest] = f[refs[src]]]

LoadStep(dest, src, f) ==
    /\ ReplaceLevelHistoryFrom(dest, src, f)
    /\ snapshot' = [n \in 1 .. lastId' |->
                        IF n \in 1 .. lastId THEN snapshot[n]
                        ELSE snapshot[CHOOSE i \in RowsOf(src) : f[i] = n]]

\* The new ids are those between the old and the new end of the sequence, all of them.
LEMMA CopyMapOnto ==
    ASSUME StoreInv, NEW src, NEW f \in CopyMaps(src)
    PROVE  /\ \A i \in RowsOf(src) : f[i] \in lastId + 1 .. lastId + Cardinality(RowsOf(src))
           /\ \A n \in lastId + 1 .. lastId + Cardinality(RowsOf(src)) :
                \E i \in RowsOf(src) : f[i] = n
           /\ \A i, j \in RowsOf(src) : f[i] = f[j] => i = j
<1> DEFINE S == RowsOf(src)
           T == lastId + 1 .. lastId + Cardinality(S)
<1>1. Cardinality(S) \in Nat /\ lastId \in Nat
  BY RowsOfFinite, LastIdIsNat DEF StoreInv
<1>2. f \in [S -> T] /\ \A i, j \in S : f[i] = f[j] => i = j
  BY DEF CopyMaps, NextId
<1>3. f \in Injection(S, T)
  BY <1>2 DEF Injection, IsInjective
<1>4. IsFiniteSet(T) /\ Cardinality(T) = Cardinality(S)
  BY SMTT(30), <1>1, FS_Interval
<1> HIDE DEF S, T
<1>5. f \in Surjection(S, T)
  BY <1>3, <1>4, FS_Injection
<1>6. \A n \in T : \E i \in S : f[i] = n
  BY <1>5 DEF Surjection
<1> QED
  BY <1>2, <1>6 DEF S, T

LEMMA LoadFacts ==
    ASSUME TablesInv, NEW dest \in LevelKey, NEW src \in LevelKey, NEW f \in CopyMaps(src),
           LoadStep(dest, src, f)
    PROVE  StoreInv' /\ SnapshotsNormal' /\ LoadEffect(dest, src, f)
<1> DEFINE kept == Ids \ RowsOf(dest)
           copies == {f[i] : i \in RowsOf(src)}
           last == lastId + Cardinality(RowsOf(src))
           origin(n) == CHOOSE i \in RowsOf(src) : f[i] = n
           rows == [n \in kept \cup copies |->
                        IF n \in copies THEN CopiedRow(f, dest, origin(n)) ELSE commits[n]]
<1>1. /\ StoreInv /\ lastId \in Nat /\ Ids \subseteq 1 .. lastId /\ refs \in [LevelKey -> Nat]
      /\ Cardinality(RowsOf(src)) \in Nat
  BY LastIdIsNat, RowsOfFinite DEF TablesInv, StoreInv, StoreTypeOK
<1>2. StoreInv'
  BY <1>1, ReplaceLevelHistoryFromInv DEF LoadStep
<1>3. /\ dest # src /\ refs[src] \in RowsOf(src)
      /\ commits' = rows /\ refs' = [refs EXCEPT ![dest] = f[refs[src]]] /\ lastId' = last
  BY DEF LoadStep, ReplaceLevelHistoryFrom, CommitTx
<1>4. /\ \A i \in RowsOf(src) : f[i] \in lastId + 1 .. last
      /\ \A n \in lastId + 1 .. last : \E i \in RowsOf(src) : f[i] = n
      /\ \A i, j \in RowsOf(src) : f[i] = f[j] => i = j
  BY <1>1, CopyMapOnto
<1>5. last \in Nat /\ lastId <= last
  BY <1>1
<1> HIDE DEF last
<1>6. \A i \in RowsOf(src) : origin(f[i]) = i
  BY <1>4
<1>7. \A n \in lastId + 1 .. last : origin(n) \in RowsOf(src)
  BY <1>4
<1> HIDE DEF origin
<1>8. Ids' = kept \cup copies
  BY <1>3 DEF Ids
<1>9. \A i \in kept : commits'[i] = commits[i] /\ i \notin copies
  BY <1>1, <1>3, <1>4
<1>10. \A i \in RowsOf(src) : commits'[f[i]] = CopiedRow(f, dest, i)
  BY <1>3, <1>6
<1>11. \A i \in RowsOf(src) :
         /\ i \in Ids /\ commits[i] \in Row
         /\ {commits[i].parent, commits[i].reverts} \subseteq RowsOf(src) \cup {NoId}
  BY <1>1 DEF CopyMaps, RowsOf, StoreInv, StoreTypeOK
<1>12. ASSUME NEW i \in RowsOf(src)
       PROVE  /\ commits'[f[i]].level = dest /\ commits'[f[i]].delta = commits[i].delta
              /\ commits'[f[i]].parent = CopyOf(f, commits[i].parent)
              /\ commits'[f[i]].reverts = CopyOf(f, commits[i].reverts)
  <2>1. CopiedRow(f, dest, i) = [commits[i] EXCEPT !.level = dest,
                                                   !.parent = CopyOf(f, commits[i].parent),
                                                   !.reverts = CopyOf(f, commits[i].reverts)]
    BY <1>11 DEF CopiedRow, Row, CopyOf
  <2> QED
    BY <2>1, <1>10, <1>11 DEF Row
<1>13. snapshot' = [n \in 1 .. last |-> IF n \in 1 .. lastId THEN snapshot[n]
                                        ELSE snapshot[origin(n)]]
  BY <1>3 DEF LoadStep, origin
<1>14. /\ \A i \in RowsOf(src) : snapshot'[f[i]] = snapshot[i]
       /\ \A i \in 1 .. lastId : snapshot'[i] = snapshot[i]
  BY <1>1, <1>4, <1>5, <1>6, <1>13
<1>15. SnapshotsNormal'
  <2>1. \A n \in 1 .. last : snapshot'[n] \in LevelState /\ Norm(snapshot'[n]) = snapshot'[n]
    <3> SUFFICES ASSUME NEW n \in 1 .. last
                 PROVE  snapshot'[n] \in LevelState /\ Norm(snapshot'[n]) = snapshot'[n]
      OBVIOUS
    <3>1. \A i \in 1 .. lastId : snapshot[i] \in LevelState /\ Norm(snapshot[i]) = snapshot[i]
      BY DEF TablesInv, SnapshotsNormal
    <3>2. CASE n \in 1 .. lastId
      BY <3>1, <3>2, <1>14
    <3>3. CASE n \notin 1 .. lastId
      <4>1. n \in lastId + 1 .. last
        BY <3>3, <1>1, <1>5
      <4>2. origin(n) \in 1 .. lastId /\ snapshot'[n] = snapshot[origin(n)]
        BY <3>3, <4>1, <1>1, <1>7, <1>11, <1>13
      <4> QED
        BY <4>2, <3>1
    <3> QED
      BY <3>2, <3>3
  <2> QED
    BY <1>3, <1>13, <2>1 DEF SnapshotsNormal
<1> QED
  BY <1>1, <1>2, <1>3, <1>4, <1>5, <1>8, <1>9, <1>11, <1>12, <1>14, <1>15 DEF LoadEffect

LEMMA LoadTables ==
    ASSUME TablesInv, NEW dest \in LevelKey, NEW src \in LevelKey, NEW f \in CopyMaps(src),
           LoadStep(dest, src, f), staleImport' \in BOOLEAN, staleImport => staleImport'
    PROVE  TablesInv' /\ Grows
<1>1. StoreInv' /\ SnapshotsNormal' /\ LoadEffect(dest, src, f)
  BY LoadFacts
<1>2. \A i \in Ids : i \in Nat /\ i <= lastId /\ i # NoId
  BY LastIdIsNat DEF TablesInv
<1>0. RowsOf(src) \subseteq Ids /\ \A i \in Ids : commits[i].delta \in Delta
  BY DEF RowsOf, TablesInv, DeltasStored
<1>9. refs[src] # NoId => \A i \in Ids : commits[i].parent # refs[src]
  BY DEF TablesInv, HeadsChildless
<1> USE <1>1 DEF LoadEffect
<1>3. \A i \in Ids : commits[i].parent \in Ids \cup {NoId}
  BY DEF TablesInv, StoreInv, ForeignKeysHold, Ids
<1>4. \A i \in RowsOf(src) : i \in Ids /\ f[i] \in Nat /\ f[i] > lastId
  BY <1>0
<1>5. DeltasStored'
  <2>1. \A i \in Ids \ RowsOf(dest) : commits'[i].delta \in Delta
    BY <1>0
  <2>2. \A i \in RowsOf(src) : commits'[f[i]].delta \in Delta
    BY ZenonT(40), <1>0
  <2>3. \A i \in Ids' : commits'[i].delta \in Delta
    BY <2>1, <2>2
  <2> QED
    BY <2>3 DEF DeltasStored
<1>6. HeadsChildless'
  <2> SUFFICES ASSUME NEW l \in LevelKey, refs'[l] # NoId, NEW i \in Ids'
               PROVE  commits'[i].parent # refs'[l]
    BY DEF HeadsChildless, NoId
  <2>1. refs[src] # NoId /\ refs[src] \in Ids
    BY <1>2, <1>4
  <2>2. CASE l = dest /\ i \in Ids \ RowsOf(dest)
    <3>1. refs'[l] = f[refs[src]] /\ commits'[i].parent \in Ids \cup {NoId}
      BY <2>2, <1>3
    <3> QED
      BY <3>1, <1>2, <1>4 DEF NoId
  <2>3. ASSUME l = dest, NEW j \in RowsOf(src), i = f[j]
        PROVE  commits'[i].parent # refs'[l]
    <3>1. refs'[l] = f[refs[src]] /\ commits'[i].parent = CopyOf(f, commits[j].parent)
      BY <2>3
    <3>2. commits[j].parent # refs[src]
      BY <2>1, <1>0, <1>9
    <3>3. commits[j].parent \in RowsOf(src) \cup {NoId}
      OBVIOUS
    <3> QED
      BY <3>1, <3>2, <3>3, <1>4 DEF CopyOf, NoId
  <2>4. CASE l # dest
    <3>1. refs'[l] = refs[l] /\ refs[l] \in Ids
      BY <2>4 DEF TablesInv, StoreInv, HeadsInOwnLevel, Ids
    <3>2. CASE i \in Ids \ RowsOf(dest)
      BY <3>1, <3>2 DEF TablesInv, HeadsChildless
    <3>3. ASSUME NEW j \in RowsOf(src), i = f[j]
          PROVE  commits'[i].parent # refs'[l]
      <4>1. /\ commits'[i].parent = CopyOf(f, commits[j].parent)
            /\ commits[j].parent \in RowsOf(src) \cup {NoId}
        BY <3>3
      <4> QED
        BY <3>1, <4>1, <1>2, <1>4 DEF CopyOf, NoId
    <3> QED
      BY <3>2, <3>3
  <2> QED
    BY <2>2, <2>3, <2>4
<1>7. ~staleImport' => HistoryReplaysToSnapshots'
  <2> DEFINE base(j) == IF j = NoId THEN EmptyState ELSE snapshot'[j]
  <2> SUFFICES ASSUME ~staleImport, NEW i \in Ids'
               PROVE  SameState(Apply(base(commits'[i].parent), commits'[i].delta), snapshot'[i])
    BY DEF HistoryReplaysToSnapshots, BaseOf, NoId
  <2>1. \A j \in Ids \cup {NoId} : base(j) = BaseOf(j)
    BY <1>2 DEF BaseOf, NoId
  <2>2. \A j \in RowsOf(src) \cup {NoId} : base(CopyOf(f, j)) = BaseOf(j)
    BY <1>2, <1>4 DEF BaseOf, CopyOf, NoId
  <2> HIDE DEF base
  <2>3. \A j \in Ids : SameState(Apply(BaseOf(commits[j].parent), commits[j].delta), snapshot[j])
    BY DEF TablesInv, HistoryReplaysToSnapshots
  <2>4. CASE i \in Ids \ RowsOf(dest)
    <3>1. commits'[i] = commits[i] /\ snapshot'[i] = snapshot[i] /\ i \in Ids
      BY <2>4, <1>2
    <3>2. base(commits[i].parent) = BaseOf(commits[i].parent)
      BY <2>1, <3>1, <1>3
    <3> QED
      BY <2>3, <3>1, <3>2
  <2>5. ASSUME NEW j \in RowsOf(src), i = f[j]
        PROVE  SameState(Apply(base(commits'[i].parent), commits'[i].delta), snapshot'[i])
    <3>1. /\ commits'[i].parent = CopyOf(f, commits[j].parent) /\ commits'[i].delta = commits[j].delta
          /\ commits[j].parent \in RowsOf(src) \cup {NoId} /\ snapshot'[i] = snapshot[j]
      BY <2>5
    <3>2. j \in Ids /\ base(commits'[i].parent) = BaseOf(commits[j].parent)
      BY <3>1, <2>2, <1>0
    <3> QED
      BY <3>1, <3>2, <2>3
  <2> QED
    BY <2>4, <2>5
<1>8. Grows
  <2>1. \A l \in LevelKey : refs'[l] \in {refs[l], NoId} \/ refs'[l] \notin 0 .. lastId
    BY <1>4
  <2>2. \A i \in 1 .. lastId : i \in Ids' => i \in Ids /\ commits'[i].level = commits[i].level
    BY <1>4
  <2> QED
    BY <2>1, <2>2 DEF Grows
<1> QED
  BY <1>5, <1>6, <1>7, <1>8 DEF TablesInv

\* deleteLevel
DeleteEffect(k) ==
    /\ lastId \in Nat /\ lastId' = lastId /\ snapshot' = snapshot /\ staleImport' = staleImport
    /\ Ids \subseteq 1 .. lastId /\ Ids' = Ids \ RowsOf(k)
    /\ \A i \in Ids' : commits'[i] = commits[i]
    /\ refs \in [LevelKey -> Nat] /\ refs' = [refs EXCEPT ![k] = NoId]

LEMMA DeleteFacts ==
    ASSUME TablesInv, NEW k \in LevelKey, DeleteLevel(k), UNCHANGED ghostVars
    PROVE  StoreInv' /\ DeleteEffect(k)
<1>1. /\ StoreInv /\ lastId \in Nat /\ Ids \subseteq 1 .. lastId /\ refs \in [LevelKey -> Nat]
  BY LastIdIsNat DEF TablesInv, StoreInv, StoreTypeOK
<1>2. StoreInv'
  BY <1>1, DeleteLevelInv
<1>3. /\ commits' = WithoutRows(commits, RowsOf(k)) /\ refs' = [refs EXCEPT ![k] = NoId]
      /\ lastId' = lastId
  BY DEF DeleteLevel, CommitTx
<1>4. Ids' = Ids \ RowsOf(k) /\ \A i \in Ids' : commits'[i] = commits[i]
  BY <1>3 DEF Ids, WithoutRows
<1> QED
  BY <1>1, <1>2, <1>3, <1>4 DEF DeleteEffect, ghostVars

LEMMA DeleteTables ==
    ASSUME TablesInv, NEW k \in LevelKey, DeleteLevel(k), UNCHANGED ghostVars
    PROVE  TablesInv' /\ Grows
<1>1. StoreInv' /\ DeleteEffect(k)
  BY DeleteFacts
<1> USE <1>1 DEF DeleteEffect
<1>2. SnapshotsNormal' /\ DeltasStored'
  BY DEF TablesInv, SnapshotsNormal, DeltasStored
<1>3. HeadsChildless'
  BY DEF TablesInv, HeadsChildless, NoId
<1>4. ~staleImport' => HistoryReplaysToSnapshots'
  BY DEF TablesInv, HistoryReplaysToSnapshots, BaseOf, NoId
<1>5. Grows
  BY DEF Grows
<1> QED
  BY <1>2, <1>3, <1>4, <1>5 DEF TablesInv

\* updateMessage
LEMMA MessageTables ==
    ASSUME TablesInv, NEW id \in Ids, NEW m \in Message, UpdateMessage(id, m), UNCHANGED ghostVars
    PROVE  /\ TablesInv' /\ Grows /\ Ids' = Ids /\ UNCHANGED <<refs, lastId, snapshot, staleImport>>
           /\ \A i \in Ids : /\ commits'[i].level = commits[i].level
                             /\ commits'[i].parent = commits[i].parent
                             /\ commits'[i].reverts = commits[i].reverts
                             /\ commits'[i].delta = commits[i].delta
<1>1. /\ StoreInv /\ lastId \in Nat /\ Ids \subseteq 1 .. lastId /\ commits \in [Ids -> Row]
  BY LastIdIsNat DEF TablesInv, StoreInv, StoreTypeOK
<1>2. StoreInv'
  BY <1>1, UpdateMessageInv
<1>3. /\ commits' = [commits EXCEPT ![id].message = m] /\ refs' = refs /\ lastId' = lastId
      /\ snapshot' = snapshot /\ staleImport' = staleImport
  BY DEF UpdateMessage, ghostVars
<1>4. /\ Ids' = Ids
      /\ \A i \in Ids : /\ commits'[i].level = commits[i].level
                        /\ commits'[i].parent = commits[i].parent
                        /\ commits'[i].reverts = commits[i].reverts
                        /\ commits'[i].delta = commits[i].delta
  BY <1>1, <1>3 DEF Ids, Row
<1>5. SnapshotsNormal' /\ DeltasStored'
  BY <1>3, <1>4 DEF TablesInv, SnapshotsNormal, DeltasStored
<1>6. HeadsChildless'
  BY <1>3, <1>4 DEF TablesInv, HeadsChildless, NoId
<1>7. ~staleImport' => HistoryReplaysToSnapshots'
  BY <1>3, <1>4 DEF TablesInv, HistoryReplaysToSnapshots, BaseOf, NoId
<1>8. Grows
  BY <1>1, <1>3, <1>4 DEF Grows
<1> QED
  BY <1>2, <1>3, <1>4, <1>5, <1>6, <1>7, <1>8 DEF TablesInv

\* Steps that leave the tables alone.
TablesSame == UNCHANGED <<commits, refs, lastId, snapshot, staleImport>> /\ open' \in BOOLEAN

LEMMA SameTables ==
    ASSUME TablesInv, TablesSame
    PROVE  TablesInv' /\ Grows
<1>1. StoreInv' /\ lastId \in Nat
  BY TablesUnchangedInv, LastIdIsNat DEF TablesInv, TablesSame
<1>2. SnapshotsNormal' /\ DeltasStored' /\ HeadsChildless'
  BY DEF TablesInv, TablesSame, SnapshotsNormal, DeltasStored, HeadsChildless, Ids, NoId
<1>3. ~staleImport' => HistoryReplaysToSnapshots'
  BY DEF TablesInv, TablesSame, HistoryReplaysToSnapshots, BaseOf, Ids, NoId
<1>4. Grows
  BY <1>1 DEF Grows, TablesSame, Ids
<1> QED
  BY <1>1, <1>2, <1>3, <1>4 DEF TablesInv, TablesSame

-------------------------------------------------------------------------------
(***************************************************************************)
(* The cache                                                               *)
(***************************************************************************)

Capacity == IF CacheCapacity = 0 THEN 1 ELSE CacheCapacity

CacheOK(c, live, recorded, stale) ==
    /\ DOMAIN c \subseteq live
    /\ IsFiniteSet(DOMAIN c) /\ Cardinality(DOMAIN c) <= Capacity
    /\ c \in [DOMAIN c -> LevelState]
    /\ ~stale => \A i \in DOMAIN c : SameState(c[i], recorded[i])

LEMMA CacheInvOK ==
    ASSUME TablesInv, CacheInv
    PROVE  CacheOK(cache, Ids, snapshot, staleImport)
<1>1. IsFiniteSet(DOMAIN cache)
  <2>1. lastId \in Nat /\ Ids \subseteq 1 .. lastId
    BY LastIdIsNat DEF TablesInv
  <2>2. IsFiniteSet(1 .. lastId) /\ DOMAIN cache \in SUBSET (1 .. lastId)
    BY <2>1, FS_Interval DEF CacheInv, CacheOnlyLiveCommits
  <2> QED
    BY <2>2, FS_Subset
<1> QED
  BY <1>1 DEF CacheInv, CacheOnlyLiveCommits, CacheBounded, CacheShowsSnapshots, CacheOK, Capacity

LEMMA CacheOKInv ==
    ASSUME CacheOK(cache', Ids', snapshot', staleImport')
    PROVE  CacheInv'
BY DEF CacheInv, CacheOnlyLiveCommits, CacheBounded, CacheShowsSnapshots, CacheOK, Capacity

LEMMA EmptyCacheOK ==
    ASSUME NEW live, NEW recorded, NEW stale
    PROVE  CacheOK(EmptyCache, live, recorded, stale)
<1>1. DOMAIN EmptyCache = {} /\ EmptyCache \in [{} -> LevelState]
  BY DEF EmptyCache
<1>2. Capacity \in Nat
  BY ServiceAssumption DEF Capacity
<1>3. IsFiniteSet({}) /\ Cardinality({}) <= Capacity
  BY <1>2, FS_EmptySet
<1> QED
  BY <1>1, <1>3 DEF CacheOK

\* What is in the cache stays true when commits are added.
LEMMA CacheKept ==
    ASSUME NEW c, NEW live, NEW live2, NEW recorded, NEW recorded2,
           NEW stale \in BOOLEAN, NEW stale2 \in BOOLEAN,
           CacheOK(c, live, recorded, stale), live \subseteq live2,
           \A i \in live : recorded2[i] = recorded[i], stale => stale2
    PROVE  CacheOK(c, live2, recorded2, stale2)
BY DEF CacheOK

\* cachePut of a state that its commit was recorded with.
LEMMA CachePutOK ==
    ASSUME NEW c, NEW live, NEW recorded, NEW stale \in BOOLEAN, NEW id \in live, NEW s \in LevelState,
           CacheOK(c, live, recorded, stale), ~stale => SameState(s, recorded[id])
    PROVE  CacheOK(CachePut(c, id, s), live, recorded, stale)
<1> DEFINE kept == IF id \in DOMAIN c \/ Cardinality(DOMAIN c) < CacheCapacity THEN DOMAIN c ELSE {}
           d == CachePut(c, id, s)
<1>1. d = [i \in kept \cup {id} |-> IF i = id THEN s ELSE c[i]]
  BY DEF CachePut
<1>2. /\ IsFiniteSet(DOMAIN c) /\ Cardinality(DOMAIN c) <= Capacity /\ Cardinality(DOMAIN c) \in Nat
      /\ DOMAIN c \subseteq live /\ c \in [DOMAIN c -> LevelState]
  BY FS_CardinalityType DEF CacheOK
<1>3. CacheCapacity \in Nat /\ Capacity \in Nat /\ 1 <= Capacity /\ CacheCapacity <= Capacity
  BY ServiceAssumption DEF Capacity
<1>4. IsFiniteSet(kept \cup {id}) /\ Cardinality(kept \cup {id}) <= Capacity
  <2>1. CASE id \in DOMAIN c
    <3>1. kept \cup {id} = DOMAIN c
      BY <2>1
    <3> QED
      BY <3>1, <1>2
  <2>2. CASE id \notin DOMAIN c /\ Cardinality(DOMAIN c) < CacheCapacity
    <3>1. kept = DOMAIN c
      BY <2>2
    <3>2. IsFiniteSet(DOMAIN c \cup {id}) /\ Cardinality(DOMAIN c \cup {id}) = Cardinality(DOMAIN c) + 1
      BY <2>2, <1>2, FS_AddElement
    <3> QED
      BY <3>1, <3>2, <2>2, <1>2, <1>3
  <2>3. CASE id \notin DOMAIN c /\ ~(Cardinality(DOMAIN c) < CacheCapacity)
    <3>1. kept \cup {id} = {id}
      BY <2>3
    <3> QED
      BY <3>1, <1>3, FS_Singleton
  <2> QED
    BY <2>1, <2>2, <2>3
<1>5. kept \subseteq DOMAIN c
  OBVIOUS
<1> HIDE DEF kept, d
<1>6. DOMAIN d = kept \cup {id} /\ d \in [DOMAIN d -> LevelState]
  BY <1>1, <1>2, <1>5
<1>7. ~stale => \A i \in DOMAIN d : SameState(d[i], recorded[i])
  BY <1>1, <1>5 DEF CacheOK
<1> QED
  BY <1>2, <1>4, <1>5, <1>6, <1>7 DEF CacheOK, d

-------------------------------------------------------------------------------
(***************************************************************************)
(* Jobs and reconstruct                                                    *)
(***************************************************************************)

LEMMA PendingsKept ==
    ASSUME TablesInv, PendingsInv, Grows, pendings' \subseteq pendings
    PROVE  PendingsInv'
<1>1. lastId \in Nat /\ refs \in [LevelKey -> Nat]
  BY LastIdIsNat DEF TablesInv, StoreInv, StoreTypeOK
<1>2. \A p \in pendings : PendingOK(p)'
  BY <1>1, PendingGrows DEF PendingsInv
<1> QED
  BY <1>2 DEF PendingsInv

LEMMA JobEnded ==
    ASSUME EndJob
    PROVE  JobInv' /\ WalkInv'
<1>1. NoWalk \in Walk /\ NoWalk.phase = "out"
  <2>1. EmptyState \in LevelState
    BY EmptyStateType
  <2>2. <<>> \in Seq(Nat)
    BY EmptySeq
  <2> QED
    BY <2>1, <2>2 DEF NoWalk, Walk, NoId
<1> QED
  BY <1>1 DEF EndJob, JobInv, WalkInv

\* What kind of job is running.
LEMMA RunningJob ==
    ASSUME JobInv
    PROVE  /\ job.op \notin {"idle", "finalizeImport"} => job \in ReconstructJob /\ JobArgsOK /\ GotOK
           /\ job.op = "finalizeImport" => ImportJobOK
           /\ job \in ReconstructJob => /\ job.got \in Seq(LevelState) /\ Len(job.got) \in Nat
                                        /\ job.goals \in Seq(Nat) /\ Len(job.goals) \in Nat
                                        /\ job.ids \in Seq(Nat) /\ job.head \in Nat
                                        /\ job.level \in LevelKey /\ job.src \in LevelKey
                                        /\ job.op \notin {"idle", "finalizeImport"}
                                        /\ DOMAIN job.goals = 1 .. Len(job.goals)
                                        /\ DOMAIN job.got = 1 .. Len(job.got)
<1>1. job \in FinalizeImportJob => job.op = "finalizeImport"
  BY DEF FinalizeImportJob
<1>2. job \in ReconstructJob => job.op \notin {"idle", "finalizeImport"}
  BY DEF ReconstructJob
<1>3. job = Idle => job.op = "idle"
  BY DEF Idle
<1>4. job \in ReconstructJob => /\ job.got \in Seq(LevelState) /\ job.goals \in Seq(Nat)
                                /\ job.ids \in Seq(Nat) /\ job.head \in Nat
                                /\ job.level \in LevelKey /\ job.src \in LevelKey
  BY DEF ReconstructJob
<1>5. job \in ReconstructJob => /\ Len(job.got) \in Nat /\ Len(job.goals) \in Nat
                                /\ DOMAIN job.goals = 1 .. Len(job.goals)
                                /\ DOMAIN job.got = 1 .. Len(job.got)
  BY <1>4, LenProperties
<1> QED
  BY <1>1, <1>2, <1>3, <1>4, <1>5 DEF JobInv, ImportJobOK

\* A job and a walk that no step touches, on tables that no step touches.
LEMMA JobArgsKept ==
    ASSUME TablesSame, JobArgsOK, job'.op = job.op, job'.level = job.level, job'.head = job.head,
           job'.ids = job.ids, job'.goals = job.goals
    PROVE  JobArgsOK'
BY DEF TablesSame, JobArgsOK, IdArgs, RowsOf, Ids, Selections, Contiguous, CheckoutGoals, Newest, NoId

LEMMA EntriesKept ==
    ASSUME TablesSame, NEW k, NEW batch, BatchOK(k, batch)
    PROVE  BatchOK(k, batch)'
BY DEF TablesSame, BatchOK, EntryOK, IdArgs, Ids, Replays, BaseOf, NoId

LEMMA JobKept ==
    ASSUME TablesSame, JobInv, job' = job
    PROVE  JobInv'
<1>1. CASE job = Idle
  BY <1>1 DEF JobInv, Idle
<1>2. CASE job \in ReconstructJob /\ JobArgsOK /\ GotOK
  <2>1. GotOK'
    BY <1>2 DEF TablesSame, GotOK, Ids
  <2> QED
    BY <1>2, <2>1, JobArgsKept DEF JobInv
<1>3. CASE ImportJobOK
  <2>1. BatchOK(job.level, job.batch)'
    BY <1>3, EntriesKept DEF ImportJobOK
  <2> QED
    BY <1>3, <2>1 DEF TablesSame, JobInv, ImportJobOK, IdArgs, Ids
<1> QED
  BY <1>1, <1>2, <1>3 DEF JobInv

LEMMA WalkKept ==
    ASSUME TablesSame, WalkInv, job' = job, walk' = walk
    PROVE  WalkInv'
BY DEF TablesSame, WalkInv, ChainOK, WalkUpOK, WalkDownOK, EndOfChain, Ids, BaseOf, NoId

\* The loops of reconstruct, one iteration at a time.
LEMMA InsideReconstruct ==
    ASSUME ServiceInv, InReconstruct(walk.phase), walk.phase # "out"
    PROVE  /\ job \in ReconstructJob /\ Len(job.got) < Len(job.goals)
           /\ Len(job.got) \in Nat /\ Len(job.goals) \in Nat
           /\ job.goals[Len(job.got) + 1] \in Nat
           /\ walk.cur \in Nat /\ walk.chain \in Seq(Nat) /\ walk.state \in LevelState
           /\ walk.phase \in {"up", "down"}
           /\ Len(walk.chain) \in Nat /\ DOMAIN walk.chain = 1 .. Len(walk.chain)
           /\ (walk.chain = <<>> <=> Len(walk.chain) = 0)
           /\ ChainOK(job.goals[Len(job.got) + 1])
           /\ walk.phase = "up" => WalkUpOK(job.goals[Len(job.got) + 1])
           /\ walk.phase = "down" => WalkDownOK(job.goals[Len(job.got) + 1])
<1>1. /\ job \in ReconstructJob /\ Len(job.got) < Len(job.goals)
      /\ ChainOK(job.goals[Len(job.got) + 1])
      /\ walk.phase = "up" => WalkUpOK(job.goals[Len(job.got) + 1])
      /\ walk.phase = "down" => WalkDownOK(job.goals[Len(job.got) + 1])
  BY DEF ServiceInv, WalkInv, InReconstruct
<1>2. /\ Len(job.got) \in Nat /\ Len(job.goals) \in Nat /\ job.goals \in Seq(Nat)
  BY <1>1, RunningJob DEF ServiceInv
<1>3. job.goals[Len(job.got) + 1] \in Nat
  BY <1>1, <1>2, ElementOfSeq
<1>4. /\ walk.cur \in Nat /\ walk.chain \in Seq(Nat) /\ walk.state \in LevelState
      /\ walk.phase \in {"up", "down"}
  BY DEF ServiceInv, WalkInv, Walk
<1>5. Len(walk.chain) \in Nat /\ DOMAIN walk.chain = 1 .. Len(walk.chain)
  BY <1>4, LenProperties
<1>6. walk.chain = <<>> <=> Len(walk.chain) = 0
  BY <1>4, EmptySeq
<1> QED
  BY <1>1, <1>2, <1>3, <1>4, <1>5, <1>6

LEMMA StartInv ==
    ASSUME ServiceInv, ReconstructStart
    PROVE  WalkInv'
<1> DEFINE goal == job.goals[Len(job.got) + 1]
           w == [phase |-> "up", cur |-> goal, chain |-> <<>>, state |-> EmptyState]
<1>1. walk' = w
  BY DEF ReconstructStart, WalkStep, NoWalk
<1>2. /\ job \in ReconstructJob /\ job' = job /\ Len(job.got) < Len(job.goals)
      /\ Len(job.got) \in Nat /\ Len(job.goals) \in Nat /\ job.goals \in Seq(Nat)
  BY RunningJob DEF ReconstructStart, InReconstruct, WalkStep, ServiceInv
<1>3. goal \in Nat
  BY <1>2, ElementOfSeq
<1>4. w \in Walk
  BY <1>3, EmptyStateType, EmptySeq DEF Walk
<1>5. /\ ChainOK(goal)' /\ WalkUpOK(goal)'
  BY <1>1, <1>2, EmptySeq DEF ChainOK, WalkUpOK
<1> QED
  BY <1>1, <1>2, <1>4, <1>5 DEF WalkInv

LEMMA HitInv ==
    ASSUME ServiceInv, WalkHit
    PROVE  WalkInv'
<1> DEFINE goal == job.goals[Len(job.got) + 1]
           w == [walk EXCEPT !.phase = "down", !.state = cache[walk.cur]]
<1>1. /\ walk' = w /\ UNCHANGED <<storeVars, job, ghostVars>> /\ walk.cur \in DOMAIN cache
      /\ walk.phase = "up" /\ InReconstruct(walk.phase)
  BY DEF WalkHit, WalkStep, InReconstruct
<1>2. /\ job \in ReconstructJob /\ Len(job.got) < Len(job.goals) /\ ChainOK(goal) /\ WalkUpOK(goal)
  BY <1>1, InsideReconstruct
<1>3. /\ walk.cur \in Ids /\ cache[walk.cur] \in LevelState /\ walk.cur # NoId
      /\ ~staleImport => SameState(cache[walk.cur], snapshot[walk.cur])
  BY <1>1, LastIdIsNat
  DEF ServiceInv, TablesInv, CacheInv, CacheOnlyLiveCommits, CacheShowsSnapshots
<1>4. w \in Walk /\ w.phase = "down" /\ w.chain = walk.chain /\ w.state = cache[walk.cur]
  BY <1>3 DEF ServiceInv, WalkInv, Walk
<1>5. job' = job /\ commits' = commits /\ snapshot' = snapshot /\ staleImport' = staleImport
      /\ walk'.chain = walk.chain /\ walk'.state = cache[walk.cur] /\ walk'.phase = "down"
  BY <1>1, <1>4 DEF storeVars, ghostVars
<1>6. ChainOK(goal)'
  BY <1>2, <1>5 DEF ChainOK, Ids
<1>7. WalkDownOK(goal)'
  BY <1>2, <1>3, <1>5 DEF WalkDownOK, WalkUpOK, EndOfChain, Ids, BaseOf, NoId
<1> QED
  BY <1>1, <1>2, <1>4, <1>5, <1>6, <1>7 DEF WalkInv

LEMMA UpInv ==
    ASSUME ServiceInv, WalkUp
    PROVE  WalkInv'
<1> DEFINE goal == job.goals[Len(job.got) + 1]
           parent == commits[walk.cur].parent
           chain == Append(walk.chain, walk.cur)
           phase == IF parent = NoId THEN "down" ELSE "up"
           w == [walk EXCEPT !.chain = chain, !.cur = parent, !.phase = phase]
<1>1. /\ walk' = w /\ UNCHANGED <<storeVars, job, ghostVars>> /\ walk.cur \in Ids
      /\ walk.phase = "up" /\ InReconstruct(walk.phase)
  BY DEF WalkUp, WalkStep, InReconstruct
<1>2. /\ job \in ReconstructJob /\ Len(job.got) < Len(job.goals) /\ ChainOK(goal) /\ WalkUpOK(goal)
      /\ walk.cur \in Nat /\ walk.chain \in Seq(Nat)
      /\ Len(walk.chain) \in Nat /\ (walk.chain = <<>> <=> Len(walk.chain) = 0)
  BY <1>1, InsideReconstruct
<1>3. parent \in Nat
  BY <1>1 DEF ServiceInv, TablesInv, StoreInv, StoreTypeOK, Row
<1>4. /\ chain \in Seq(Nat) /\ Len(chain) = Len(walk.chain) + 1 /\ chain # <<>>
      /\ \A n \in 1 .. Len(walk.chain) : chain[n] = walk.chain[n]
      /\ chain[Len(walk.chain) + 1] = walk.cur
  BY <1>2
<1> HIDE DEF chain
<1>5. /\ w \in Walk /\ w.phase = phase /\ w.chain = chain /\ w.cur = parent
      /\ w.state = EmptyState /\ phase # "out"
  BY <1>2, <1>3, <1>4 DEF ServiceInv, WalkInv, Walk, WalkUpOK
<1>6. /\ job' = job /\ commits' = commits /\ snapshot' = snapshot /\ staleImport' = staleImport
      /\ walk'.chain = chain /\ walk'.state = EmptyState /\ walk'.phase = phase /\ walk'.cur = parent
  BY <1>1, <1>5 DEF storeVars, ghostVars
<1>7. ChainOK(goal)'
  <2>1. \A n \in 1 .. Len(chain) : chain[n] \in Ids
    <3>1. \A n \in 1 .. Len(walk.chain) : walk.chain[n] \in Ids
      BY <1>2 DEF ChainOK
    <3>2. \A n \in 1 .. Len(chain) : n \in 1 .. Len(walk.chain) \/ n = Len(walk.chain) + 1
      BY <1>2, <1>4
    <3> QED
      BY <3>1, <3>2, <1>1, <1>4
  <2>2. chain[1] = goal
    BY <1>2, <1>4 DEF ChainOK, WalkUpOK
  <2>3. \A n \in 2 .. Len(chain) : chain[n] = commits[chain[n - 1]].parent
    <3> SUFFICES ASSUME NEW n \in 2 .. Len(chain)
                 PROVE  chain[n] = commits[chain[n - 1]].parent
      OBVIOUS
    <3>1. CASE n \in 2 .. Len(walk.chain)
      <4>1. n \in 1 .. Len(walk.chain) /\ n - 1 \in 1 .. Len(walk.chain)
        BY <3>1, <1>2
      <4>2. chain[n] = walk.chain[n] /\ chain[n - 1] = walk.chain[n - 1]
        BY <4>1, <1>4
      <4> QED
        BY <3>1, <4>2, <1>2 DEF ChainOK
    <3>2. CASE n = Len(walk.chain) + 1
      <4>1. chain[n] = walk.cur /\ chain[n - 1] = walk.chain[Len(walk.chain)] /\ walk.chain # <<>>
        BY SMTT(30), <3>2, <1>2, <1>4
      <4> QED
        BY <4>1, <1>2 DEF WalkUpOK, EndOfChain
    <3> QED
      BY <3>1, <3>2, <1>2, <1>4
  <2> QED
    BY <2>1, <2>2, <2>3, <1>6 DEF ChainOK, Ids
<1>8. EndOfChain' = parent
  BY <1>2, <1>4, <1>6 DEF EndOfChain
<1>9. CASE parent = NoId
  <2>1. WalkDownOK(goal)'
    BY <1>4, <1>6, <1>8, <1>9 DEF WalkDownOK, BaseOf, NoId, SameState
  <2> QED
    BY <1>1, <1>2, <1>5, <1>6, <1>7, <1>9, <2>1 DEF WalkInv
<1>10. CASE parent # NoId
  <2>1. WalkUpOK(goal)'
    BY <1>4, <1>6, <1>8 DEF WalkUpOK
  <2> QED
    BY <1>1, <1>2, <1>5, <1>6, <1>7, <1>10, <2>1 DEF WalkInv
<1> QED
  BY <1>9, <1>10

LEMMA BaseType ==
    ASSUME TablesInv, NEW i \in 1 .. lastId \cup {NoId}
    PROVE  BaseOf(i) \in LevelState
BY EmptyStateType DEF TablesInv, SnapshotsNormal, BaseOf, NoId

\* Applying a commit's delta to its parent's state gives the commit's state.
LEMMA DeltaGivesSnapshot ==
    ASSUME TablesInv, NEW id \in Ids, NEW s \in LevelState,
           ~staleImport => SameState(s, BaseOf(commits[id].parent))
    PROVE  /\ Apply(s, commits[id].delta) \in LevelState
           /\ ~staleImport => SameState(Apply(s, commits[id].delta), snapshot[id])
<1>1. /\ commits[id].delta \in Delta
      /\ ~staleImport => SameState(Apply(BaseOf(commits[id].parent), commits[id].delta), snapshot[id])
  BY DEF TablesInv, DeltasStored, HistoryReplaysToSnapshots
<1>2. commits[id].parent \in 1 .. lastId \cup {NoId}
  <2>1. commits[id].parent \in Ids \cup {NoId}
    BY DEF TablesInv, StoreInv, ForeignKeysHold, Ids
  <2> QED
    BY <2>1, LastIdIsNat DEF TablesInv
<1>3. BaseOf(commits[id].parent) \in LevelState
  BY <1>2, BaseType
<1>4. ~staleImport => SameState(Apply(s, commits[id].delta),
                                Apply(BaseOf(commits[id].parent), commits[id].delta))
  BY <1>1, <1>3, ApplyCongruent
<1> QED
  BY <1>1, <1>4, ApplyType DEF SameState

LEMMA ApplyDeltaInv ==
    ASSUME ServiceInv, ApplyDelta
    PROVE  WalkInv' /\ CacheInv'
<1> DEFINE goal == job.goals[Len(job.got) + 1]
           len == Len(walk.chain)
           id == walk.chain[len]
           s == Apply(walk.state, commits[id].delta)
           chain == SubSeq(walk.chain, 1, len - 1)
           w == [walk EXCEPT !.state = s, !.chain = chain]
<1>1. /\ walk' = w /\ UNCHANGED <<storeVars, job, ghostVars>> /\ cache' = CachePut(cache, id, s)
      /\ walk.phase = "down" /\ InReconstruct(walk.phase) /\ walk.chain # <<>>
  BY DEF ApplyDelta, WalkStep, InReconstruct, NextInChain
<1>2. /\ job \in ReconstructJob /\ Len(job.got) < Len(job.goals) /\ ChainOK(goal) /\ WalkDownOK(goal)
      /\ walk.chain \in Seq(Nat) /\ walk.state \in LevelState
      /\ len \in Nat /\ len # 0
  BY <1>1, InsideReconstruct
<1>3. id \in Ids /\ id # NoId /\ id \in 1 .. lastId
  BY <1>2, LastIdIsNat DEF ChainOK, ServiceInv, TablesInv
<1>4. ~staleImport => SameState(walk.state, BaseOf(commits[id].parent))
  BY <1>1, <1>2 DEF WalkDownOK, EndOfChain
<1>5. /\ s \in LevelState
      /\ ~staleImport => SameState(s, snapshot[id])
  BY <1>2, <1>3, <1>4, DeltaGivesSnapshot DEF ServiceInv
<1>6. /\ chain \in Seq(Nat) /\ Len(chain) = len - 1
      /\ \A n \in 1 .. len - 1 : chain[n] = walk.chain[n]
  BY SMTT(30), <1>2, SubSeqProperties
<1> HIDE DEF chain, s
<1>7. w \in Walk /\ w.phase = "down" /\ w.chain = chain /\ w.state = s
  BY <1>1, <1>5, <1>6 DEF ServiceInv, WalkInv, Walk
<1>8. /\ job' = job /\ commits' = commits /\ snapshot' = snapshot /\ staleImport' = staleImport
      /\ walk'.chain = chain /\ walk'.state = s /\ walk'.phase = "down" /\ walk' \in Walk
  BY <1>1, <1>7 DEF storeVars, ghostVars
<1>0. /\ \A n \in 1 .. len - 1 : n \in 1 .. len
      /\ len - 1 # 0 => 1 \in 1 .. len - 1 /\ len \in 2 .. len /\ len - 1 \in 1 .. len - 1
  <2>1. \A n \in Nat : n # 0 =>
          /\ \A m \in 1 .. n - 1 : m \in 1 .. n
          /\ n - 1 # 0 => 1 \in 1 .. n - 1 /\ n \in 2 .. n /\ n - 1 \in 1 .. n - 1
    OBVIOUS
  <2> QED
    BY <1>2, <2>1
<1>9. ChainOK(goal)'
  <2>1. \A n \in 1 .. len - 1 : chain[n] \in Ids
    <3>1. \A n \in 1 .. len : walk.chain[n] \in Ids
      BY <1>2 DEF ChainOK
    <3> QED
      BY <3>1, <1>0, <1>6
  <2>2. len - 1 # 0 => chain[1] = goal
    <3>1. walk.chain[1] = goal
      BY <1>1, <1>2 DEF ChainOK
    <3> QED
      BY <3>1, <1>0, <1>6
  <2>3. chain # <<>> => len - 1 # 0
    BY <1>6, EmptySeq
  <2>4. ASSUME NEW n \in 2 .. len - 1
        PROVE  chain[n] = commits[chain[n - 1]].parent
    <3>1. n \in 1 .. len - 1 /\ n - 1 \in 1 .. len - 1 /\ n \in 2 .. len
      BY <1>2
    <3>2. chain[n] = walk.chain[n] /\ chain[n - 1] = walk.chain[n - 1]
      BY <3>1, <1>6
    <3> QED
      BY <3>1, <3>2, <1>2 DEF ChainOK
  <2> QED
    BY <2>1, <2>2, <2>3, <2>4, <1>6, <1>8 DEF ChainOK, Ids
<1>10. WalkDownOK(goal)'
  <2>1. CASE chain = <<>>
    <3>1. id = goal
      BY <2>1, <1>1, <1>2, <1>6, EmptySeq DEF ChainOK
    <3> QED
      BY <2>1, <3>1, <1>3, <1>5, <1>8 DEF WalkDownOK, Ids
  <2>2. CASE chain # <<>>
    <3>1. len - 1 # 0
      BY <2>2, <1>6, EmptySeq
    <3>2. len \in 2 .. len /\ len - 1 \in 1 .. len - 1
      BY <3>1, <1>0
    <3>3. EndOfChain' = id
      BY <3>2, <1>2, <1>6, <1>8 DEF ChainOK, EndOfChain
    <3>4. ~staleImport' => SameState(walk'.state, BaseOf(EndOfChain)')
      BY <3>3, <1>3, <1>5, <1>8 DEF BaseOf, NoId
    <3> QED
      BY <2>2, <3>4, <1>8 DEF WalkDownOK
  <2> QED
    BY <2>1, <2>2
<1>11. WalkInv'
  BY <1>2, <1>8, <1>9, <1>10 DEF WalkInv
<1>12. CacheOK(cache, Ids, snapshot, staleImport)
  BY CacheInvOK DEF ServiceInv
<1>13. CacheOK(CachePut(cache, id, s), Ids, snapshot, staleImport)
  BY <1>3, <1>5, <1>12, CachePutOK DEF ServiceInv, TablesInv
<1>14. CacheOK(cache', Ids', snapshot', staleImport')
  BY <1>1, <1>8, <1>13 DEF Ids
<1> QED
  BY <1>11, <1>14, CacheOKInv

LEMMA DoneInv ==
    ASSUME ServiceInv, ReconstructDone
    PROVE  JobInv'
<1> DEFINE goal == job.goals[Len(job.got) + 1]
           got == Append(job.got, walk.state)
           j == [job EXCEPT !.got = got]
<1>1. /\ job' = j /\ UNCHANGED <<storeVars, ghostVars>>
      /\ walk.phase = "down" /\ InReconstruct(walk.phase) /\ walk.chain = <<>>
  BY DEF ReconstructDone, InReconstruct
<1>2. /\ job \in ReconstructJob /\ Len(job.got) < Len(job.goals) /\ WalkDownOK(goal)
      /\ Len(job.got) \in Nat /\ Len(job.goals) \in Nat /\ walk.state \in LevelState
  BY <1>1, InsideReconstruct
<1>3. goal \in Ids /\ (~staleImport => SameState(walk.state, snapshot[goal]))
  BY <1>1, <1>2 DEF WalkDownOK
<1>4. JobArgsOK /\ GotOK /\ job.got \in Seq(LevelState)
  BY <1>2, RunningJob DEF ServiceInv
<1>5. /\ got \in Seq(LevelState) /\ Len(got) = Len(job.got) + 1
      /\ \A n \in 1 .. Len(job.got) : got[n] = job.got[n]
      /\ got[Len(job.got) + 1] = walk.state
  BY <1>2, <1>4
<1> HIDE DEF got
<1>6. /\ j \in ReconstructJob /\ j.got = got /\ j.op = job.op /\ j.level = job.level
      /\ j.head = job.head /\ j.ids = job.ids /\ j.goals = job.goals
  BY <1>2, <1>5 DEF ReconstructJob
<1>7. TablesSame
  BY <1>1 DEF TablesSame, storeVars, ghostVars, ServiceInv, TablesInv, StoreInv, StoreTypeOK
<1> HIDE DEF j
<1>8. JobArgsOK'
  BY <1>1, <1>4, <1>6, <1>7, JobArgsKept
<1>9. GotOK'
  <2> SUFFICES ASSUME NEW n \in 1 .. Len(got)
               PROVE  /\ n <= Len(job.goals) /\ job.goals[n] \in Ids
                      /\ ~staleImport => SameState(got[n], snapshot[job.goals[n]])
    BY <1>1, <1>6, <1>7 DEF GotOK, TablesSame, Ids
  <2>1. CASE n \in 1 .. Len(job.got)
    BY <2>1, <1>4, <1>5 DEF GotOK
  <2>2. CASE n = Len(job.got) + 1
    BY <2>2, <1>2, <1>3, <1>5
  <2> QED
    BY <2>1, <2>2, <1>2, <1>5
<1> QED
  BY <1>1, <1>6, <1>8, <1>9 DEF JobInv

LEMMA ReconstructInv ==
    ASSUME ServiceInv, Reconstruct
    PROVE  ServiceInv' /\ Grows
<1>1. TablesSame /\ pendings' = pendings
  BY DEF Reconstruct, ReconstructStart, WalkHit, WalkUp, WalkMissing, ApplyDelta, ReconstructDone,
         WalkStep, storeVars, ghostVars, TablesSame, ServiceInv, TablesInv, StoreInv, StoreTypeOK
<1>2. TablesInv' /\ Grows /\ PendingsInv'
  BY <1>1, SameTables, PendingsKept DEF ServiceInv
<1>3. CacheOK(cache, Ids, snapshot, staleImport)
  BY CacheInvOK DEF ServiceInv
<1>4. cache' = cache => CacheInv'
  BY <1>1, <1>3, CacheOKInv DEF TablesSame, Ids
<1>5. CASE ReconstructStart \/ WalkHit \/ WalkUp
  <2>1. WalkInv'
    BY <1>5, StartInv, HitInv, UpInv
  <2>2. job' = job /\ cache' = cache
    BY <1>5 DEF ReconstructStart, WalkHit, WalkUp, WalkStep
  <2> QED
    BY <1>1, <1>2, <1>4, <2>1, <2>2, JobKept DEF ServiceInv
<1>6. CASE WalkMissing
  BY <1>2, <1>4, <1>6, JobEnded DEF WalkMissing, ServiceInv
<1>7. CASE ApplyDelta
  BY <1>1, <1>2, <1>7, ApplyDeltaInv, JobKept DEF ServiceInv, ApplyDelta, WalkStep
<1>8. CASE ReconstructDone
  <2>1. WalkInv'
    BY <1>8, JobEnded, EmptyStateType, EmptySeq DEF ReconstructDone, WalkInv, NoWalk, Walk, NoId
  <2> QED
    BY <1>2, <1>4, <1>8, <2>1, DoneInv DEF ReconstructDone, ServiceInv
<1> QED
  BY <1>5, <1>6, <1>7, <1>8 DEF Reconstruct

-------------------------------------------------------------------------------
(***************************************************************************)
(* Jobs that begin                                                         *)
(***************************************************************************)

\* list has a first row: its order is total.
LEMMA FirstListed ==
    ASSUME StoreInv, NEW S \in SUBSET Ids, S # {}
    PROVE  \E i \in S : \A j \in S \ {i} : ListedBefore(i, j)
<1> DEFINE upTo(n) == S \cap (1 .. n)
           first(i, n) == i \in upTo(n) /\ \A j \in upTo(n) \ {i} : ListedBefore(i, j)
           T == {n \in 0 .. lastId : upTo(n) # {} /\ ~ \E i \in S : first(i, n)}
<1>1. /\ lastId \in Nat /\ Ids \subseteq 1 .. lastId
      /\ \A i \in Ids : i \in Nat /\ commits[i].createdAt \in Nat
  BY LastIdIsNat, StoreAssumption DEF StoreInv, StoreTypeOK, Row
<1>2. T = {}
  <2> SUFFICES ASSUME T # {}
               PROVE  FALSE
    OBVIOUS
  <2>1. T \in SUBSET Nat
    BY <1>1
  <2>2. PICK n \in T : \A m \in T : n <= m
    BY <2>1, LeastNat
  <2>3. n \in Nat /\ n <= lastId /\ n # 0 /\ n - 1 \in 0 .. lastId /\ n - 1 \notin T
    <3>1. n \in 0 .. lastId /\ upTo(n) # {}
      BY <2>2
    <3>2. n # 0
      BY <3>1
    <3> HIDE DEF T
    <3>3. n - 1 \notin T
      BY <2>1, <2>2
    <3> QED
      BY <3>1, <3>2, <3>3, <1>1
  <2>4. upTo(n) = IF n \in S THEN upTo(n - 1) \cup {n} ELSE upTo(n - 1)
    BY <2>3
  <2>5. n \notin upTo(n - 1)
    BY <2>3
  <2>6. upTo(n) # {} /\ ~ \E i \in S : first(i, n)
    BY <2>2
  <2>7. upTo(n - 1) = {} \/ \E i \in S : first(i, n - 1)
    BY <2>3
  <2>8. upTo(n - 1) \subseteq S
    OBVIOUS
  <2> HIDE DEF T, upTo
  <2>9. n \in S
    BY <2>4, <2>6, <2>7
  <2>10. CASE upTo(n - 1) = {}
    BY <2>4, <2>6, <2>9, <2>10
  <2>11. ASSUME NEW i \in S, first(i, n - 1)
         PROVE  FALSE
    <3>1. ListedBefore(n, i) \/ ListedBefore(i, n)
      BY <2>5, <2>9, <2>11, <1>1 DEF ListedBefore
    <3>2. CASE ListedBefore(i, n)
      BY <3>2, <2>4, <2>6, <2>9, <2>11
    <3>3. CASE ListedBefore(n, i)
      <4>1. \A j \in upTo(n - 1) : ListedBefore(n, j)
        BY <3>3, <2>8, <2>9, <2>11, <1>1 DEF ListedBefore
      <4> QED
        BY <4>1, <2>4, <2>6, <2>9
    <3> QED
      BY <3>1, <3>2, <3>3
  <2> QED
    BY <2>7, <2>10, <2>11
<1>3. upTo(lastId) = S /\ lastId \in 0 .. lastId
  BY <1>1
<1> QED
  BY <1>2, <1>3

LEMMA FirstRootIsRow ==
    ASSUME StoreInv, NEW k, Roots(k) # {}
    PROVE  FirstRoot(k) \in RowsOf(k)
<1>1. Roots(k) \subseteq RowsOf(k) /\ Roots(k) \in SUBSET Ids
  BY DEF Roots, RowsOf
<1>2. \E i \in Roots(k) : \A j \in Roots(k) \ {i} : ListedBefore(i, j)
  BY <1>1, FirstListed
<1> QED
  BY <1>1, <1>2 DEF FirstRoot

LEMMA HeadIsRow ==
    ASSUME TablesInv, NEW k \in LevelKey
    PROVE  /\ refs[k] # NoId => refs[k] \in RowsOf(k)
           /\ RowsOf(k) \subseteq IdArgs(k) /\ RowsOf(k) \subseteq Nat /\ NoId \notin RowsOf(k)
           /\ refs[k] \in Nat
<1>1. refs[k] # NoId => refs[k] \in RowsOf(k)
  BY DEF TablesInv, StoreInv, HeadsInOwnLevel, RowsOf, Ids
<1>2. lastId \in Nat /\ Ids \subseteq 1 .. lastId /\ refs[k] \in Nat
  BY LastIdIsNat DEF TablesInv, StoreInv, StoreTypeOK
<1>3. RowsOf(k) \subseteq IdArgs(k)
  BY <1>2 DEF RowsOf, IdArgs
<1>4. IdArgs(k) \subseteq Nat /\ NoId \notin IdArgs(k)
  BY <1>2 DEF IdArgs, NoId
<1> QED
  BY <1>1, <1>2, <1>3, <1>4

BeginEffect(op, k, src, head, ids, goals) ==
    /\ TablesSame /\ job = Idle
    /\ job'.op = op /\ job'.level = k /\ job'.src = src /\ job'.head = head /\ job'.ids = ids
    /\ job'.goals = goals /\ job'.got = <<>>
    /\ UNCHANGED <<cache, walk, pendings>>

LEMMA BeginFacts ==
    ASSUME ServiceInv, NEW op, NEW k, NEW src, NEW head, NEW ids, NEW goals,
           Begin(op, k, src, head, ids, goals)
    PROVE  BeginEffect(op, k, src, head, ids, goals)
BY DEF Begin, BeginEffect, TablesSame, storeVars, ghostVars, ServiceInv, TablesInv, StoreInv,
       StoreTypeOK

\* A job that begins with such arguments.
LEMMA BeginInv ==
    ASSUME ServiceInv,
           NEW op \in {"commit", "checkout", "revert", "squash", "replace", "import", "inspect"},
           NEW k \in LevelKey, NEW src \in LevelKey, NEW head \in Nat, NEW ids \in Seq(Nat),
           NEW goals \in Seq(Nat), Begin(op, k, src, head, ids, goals), JobArgsOK'
    PROVE  ServiceInv' /\ Grows
<1>1. BeginEffect(op, k, src, head, ids, goals)
  BY BeginFacts
<1>2. TablesInv' /\ Grows /\ PendingsInv'
  BY <1>1, SameTables, PendingsKept DEF ServiceInv, BeginEffect
<1>3. CacheInv'
  <2>1. CacheOK(cache, Ids, snapshot, staleImport)
    BY CacheInvOK DEF ServiceInv
  <2> QED
    BY <1>1, <2>1, CacheOKInv DEF BeginEffect, TablesSame, Ids
<1>4. job' \in ReconstructJob
  <2>1. job' = [op |-> op, level |-> k, src |-> src, head |-> head, ids |-> ids,
                goals |-> goals, got |-> <<>>]
    BY DEF Begin
  <2>2. <<>> \in Seq(LevelState)
    BY EmptySeq
  <2> QED
    BY <2>1, <2>2 DEF ReconstructJob
<1>5. GotOK'
  BY <1>1, EmptySeq DEF GotOK, BeginEffect
<1>6. WalkInv'
  <2>1. job \notin ReconstructJob
    BY <1>1 DEF BeginEffect, Idle, ReconstructJob
  <2>2. walk \in Walk /\ walk.phase = "out"
    BY <2>1 DEF ServiceInv, WalkInv
  <2> QED
    BY <1>1, <2>2 DEF WalkInv, BeginEffect
<1> QED
  BY <1>2, <1>3, <1>4, <1>5, <1>6 DEF ServiceInv, JobInv

LEMMA BeginCommitInv ==
    ASSUME ServiceInv, NEW k \in LevelKey, BeginCommit(k)
    PROVE  ServiceInv' /\ Grows
<1> DEFINE goals(h) == IF h = NoId THEN <<>> ELSE <<h>>
<1>1. PICK head \in HeadRead(k) : Begin("commit", k, k, head, <<>>, goals(head))
  BY DEF BeginCommit
<1>2. head \in Nat /\ head \in IdArgs(k) \cup {NoId}
  BY HeadIsRow DEF HeadRead, NoId, ServiceInv
<1>3. goals(head) \in Seq(Nat) /\ <<>> \in Seq(Nat)
  BY <1>2
<1>4. head # NoId => goals(head) # <<>> /\ goals(head)[Len(goals(head))] = head
  BY <1>2
<1> HIDE DEF goals
<1>5. BeginEffect("commit", k, k, head, <<>>, goals(head))
  BY <1>1, BeginFacts
<1>6. JobArgsOK'
  BY <1>2, <1>4, <1>5 DEF JobArgsOK, BeginEffect, TablesSame, IdArgs, Ids, NoId
<1> QED
  BY <1>1, <1>2, <1>3, <1>6, BeginInv

LEMMA BeginInspectInv ==
    ASSUME ServiceInv, NEW k \in LevelKey, BeginInspect(k)
    PROVE  ServiceInv' /\ Grows
<1>1. Roots(k) # {} /\ Begin("inspect", k, k, refs[k], <<>>, <<FirstRoot(k)>>)
  BY DEF BeginInspect
<1>2. FirstRoot(k) \in Nat /\ refs[k] \in Nat
  BY <1>1, HeadIsRow, FirstRootIsRow DEF ServiceInv, TablesInv
<1>3. <<FirstRoot(k)>> \in Seq(Nat) /\ <<>> \in Seq(Nat)
  BY <1>2
<1>4. BeginEffect("inspect", k, k, refs[k], <<>>, <<FirstRoot(k)>>)
  BY <1>1, BeginFacts
<1>5. JobArgsOK'
  BY <1>4 DEF JobArgsOK, BeginEffect
<1> QED
  BY <1>1, <1>2, <1>3, <1>5, BeginInv

LEMMA BeginImportManyInv ==
    ASSUME ServiceInv, NEW k \in LevelKey, BeginImportMany(k)
    PROVE  ServiceInv' /\ Grows
<1> DEFINE root == IF RowsOf(k) = {} THEN <<>> ELSE <<FirstRoot(k)>>
           last(h) == IF h = NoId THEN <<>> ELSE <<h>>
<1>1. PICK head \in HeadRead(k) : Begin("import", k, k, head, <<>>, root \o last(head))
  BY DEF BeginImportMany
<1>2. head \in Nat /\ head \in IdArgs(k) \cup {NoId}
  BY HeadIsRow DEF HeadRead, NoId, ServiceInv
<1>3. root \in Seq(Nat)
  <2>1. RowsOf(k) # {} => FirstRoot(k) \in Nat
    BY HeadIsRow, FirstRootIsRow DEF ServiceInv, TablesInv, BeginImportMany
  <2> QED
    BY <2>1
<1>4. /\ last(head) \in Seq(Nat) /\ <<>> \in Seq(Nat)
      /\ head # NoId => last(head) = <<head>>
  BY <1>2
<1> HIDE DEF root, last
<1>5. root \o last(head) \in Seq(Nat)
  BY <1>3, <1>4, ConcatProperties
<1>6. head # NoId => /\ root \o last(head) # <<>>
                     /\ (root \o last(head))[Len(root \o last(head))] = head
  <2> SUFFICES ASSUME head # NoId
               PROVE  /\ root \o <<head>> # <<>>
                      /\ (root \o <<head>>)[Len(root \o <<head>>)] = head
    BY <1>4
  <2>1. <<head>> \in Seq(Nat) /\ Len(<<head>>) = 1 /\ <<head>>[1] = head /\ Len(root) \in Nat
    BY <1>2, <1>3
  <2>2. /\ root \o <<head>> \in Seq(Nat) /\ Len(root \o <<head>>) = Len(root) + 1
        /\ (root \o <<head>>)[Len(root) + 1] = head
    BY <2>1, <1>3
  <2> QED
    BY <2>1, <2>2, EmptySeq
<1>7. BeginEffect("import", k, k, head, <<>>, root \o last(head))
  BY <1>1, BeginFacts
<1>8. JobArgsOK'
  BY <1>2, <1>6, <1>7 DEF JobArgsOK, BeginEffect, TablesSame, IdArgs, Ids, NoId
<1> QED
  BY <1>1, <1>2, <1>4, <1>5, <1>8, BeginInv

LEMMA BeginCheckoutInv ==
    ASSUME ServiceInv, NEW k \in LevelKey, NEW target \in 1 .. lastId, BeginCheckout(k, target)
    PROVE  ServiceInv' /\ Grows
<1> DEFINE goals == CheckoutGoals(refs[k], target)
<1>1. refs[k] # NoId /\ Begin("checkout", k, k, refs[k], <<target>>, goals)
  BY DEF BeginCheckout
<1>2. refs[k] \in Nat /\ refs[k] \in RowsOf(k)
  BY <1>1, HeadIsRow DEF ServiceInv
<1>3. goals \in Seq(Nat) /\ <<target>> \in Seq(Nat) /\ Len(<<target>>) = 1 /\ <<target>>[1] = target
  BY <1>2 DEF CheckoutGoals
<1> HIDE DEF goals
<1>4. BeginEffect("checkout", k, k, refs[k], <<target>>, goals)
  BY <1>1, BeginFacts
<1>5. JobArgsOK'
  BY <1>2, <1>3, <1>4 DEF JobArgsOK, BeginEffect, TablesSame, RowsOf, Ids, NoId, goals, CheckoutGoals
<1> QED
  BY <1>1, <1>2, <1>3, <1>5, BeginInv

LEMMA BeginRevertInv ==
    ASSUME ServiceInv, NEW k \in LevelKey, NEW target \in 1 .. lastId, BeginRevert(k, target)
    PROVE  ServiceInv' /\ Grows
<1> DEFINE goals == <<commits[target].parent, target, refs[k]>>
<1>1. /\ refs[k] # NoId /\ target \in RowsOf(k)
      /\ Begin("revert", k, k, refs[k], <<target>>, goals)
  BY DEF BeginRevert
<1>2. refs[k] \in Nat /\ refs[k] \in RowsOf(k) /\ target \in Nat
  BY <1>1, HeadIsRow DEF ServiceInv
<1>3. commits[target].parent \in Nat
  BY <1>1 DEF RowsOf, ServiceInv, TablesInv, StoreInv, StoreTypeOK, Row
<1>4. /\ goals \in Seq(Nat) /\ <<target>> \in Seq(Nat) /\ Len(<<target>>) = 1 /\ <<target>>[1] = target
      /\ Len(goals) = 3 /\ goals[3] = refs[k]
  BY <1>2, <1>3
<1> HIDE DEF goals
<1>5. BeginEffect("revert", k, k, refs[k], <<target>>, goals)
  BY <1>1, BeginFacts
<1>6. JobArgsOK'
  BY <1>1, <1>2, <1>4, <1>5 DEF JobArgsOK, BeginEffect, TablesSame, RowsOf, Ids
<1> QED
  BY <1>1, <1>2, <1>4, <1>6, BeginInv

LEMMA BeginSquashInv ==
    ASSUME ServiceInv, NEW k \in LevelKey, NEW ids \in Selections(Ids), BeginSquash(k, ids)
    PROVE  ServiceInv' /\ Grows
<1> DEFINE parent == commits[ids[1]].parent
           goals == IF parent = NoId THEN <<Newest(ids)>> ELSE <<parent, Newest(ids)>>
<1>1. Contiguous(k, ids) /\ Begin("squash", k, k, refs[k], ids, goals)
  BY DEF BeginSquash, Newest
<1>2. /\ ids \in Seq(Ids) /\ Newest(ids) \in Ids /\ ids[1] \in Ids /\ refs[k] \in Nat
  BY SelectionType, HeadIsRow DEF ServiceInv
<1>3. Ids \subseteq Nat /\ parent \in Nat
  BY <1>2, LastIdIsNat DEF ServiceInv, TablesInv, StoreInv, StoreTypeOK, Row
<1>4. goals \in Seq(Nat) /\ ids \in Seq(Nat)
  <2>1. Newest(ids) \in Nat
    BY <1>2, <1>3
  <2>2. ids \in Selections(Nat)
    BY <1>3, SelectionType
  <2>3. ids \in Seq(Nat)
    BY <2>2, SelectionType
  <2>4. <<Newest(ids)>> \in Seq(Nat) /\ <<parent, Newest(ids)>> \in Seq(Nat)
    BY <2>1, <1>3
  <2> QED
    BY <2>3, <2>4
<1> HIDE DEF goals
<1>5. BeginEffect("squash", k, k, refs[k], ids, goals)
  BY <1>1, BeginFacts
<1>6. JobArgsOK'
  BY <1>1, <1>5 DEF JobArgsOK, BeginEffect, TablesSame, RowsOf, Ids, NoId, Contiguous, Selections,
                    goals, Newest
<1> QED
  BY <1>1, <1>2, <1>4, <1>6, BeginInv

LEMMA BeginImportLevelFromInv ==
    ASSUME ServiceInv, NEW dest \in LevelKey, NEW src \in LevelKey, BeginImportLevelFrom(dest, src)
    PROVE  ServiceInv' /\ Grows
<1>1. Begin("replace", dest, src, refs[src], <<>>, <<refs[src]>>)
  BY DEF BeginImportLevelFrom
<1>2. refs[src] \in Nat
  BY HeadIsRow DEF ServiceInv
<1>3. <<refs[src]>> \in Seq(Nat) /\ <<>> \in Seq(Nat) /\ Len(<<refs[src]>>) = 1
  BY <1>2
<1>4. BeginEffect("replace", dest, src, refs[src], <<>>, <<refs[src]>>)
  BY <1>1, BeginFacts
<1>5. JobArgsOK'
  BY <1>3, <1>4 DEF JobArgsOK, BeginEffect
<1> QED
  BY <1>1, <1>2, <1>3, <1>5, BeginInv

-------------------------------------------------------------------------------
(***************************************************************************)
(* Jobs that end                                                           *)
(***************************************************************************)

\* diff of a state and of a copy of the parent's state replays on the parent.
LEMMA DiffReplays ==
    ASSUME TablesInv, NEW a \in LevelState, NEW b \in LevelState, NEW parent \in 1 .. lastId \cup {NoId},
           ~staleImport => SameState(a, BaseOf(parent))
    PROVE  /\ Diff(a, b) \in Delta
           /\ ~staleImport => Replays(parent, Diff(a, b), b)
<1>1. BaseOf(parent) \in LevelState
  BY BaseType
<1>2. ~staleImport => SameState(BaseOf(parent), a)
  BY DEF SameState
<1> QED
  BY <1>1, <1>2, DiffType, Replay DEF Replays

\* When all calls of reconstruct have returned, the commits existed and their states are known.
LEMMA AllReconstructed ==
    ASSUME ServiceInv, NEW op \in {"commit", "checkout", "revert", "squash", "replace", "import",
                                   "inspect"},
           Reconstructed(op)
    PROVE  /\ job \in ReconstructJob /\ JobArgsOK /\ job.op = op
           /\ job.level \in LevelKey /\ job.src \in LevelKey
           /\ Len(job.goals) \in Nat /\ Len(job.got) = Len(job.goals)
           /\ \A n \in 1 .. Len(job.goals) :
                /\ job.got[n] \in LevelState
                /\ job.goals[n] \in Ids /\ job.goals[n] \in 1 .. lastId
                /\ ~staleImport => SameState(job.got[n], BaseOf(job.goals[n]))
<1>1. job \in ReconstructJob /\ JobArgsOK /\ GotOK /\ job.op = op /\ Len(job.got) = Len(job.goals)
  BY RunningJob DEF Reconstructed, ServiceInv
<1>2. /\ job.got \in Seq(LevelState) /\ Len(job.goals) \in Nat
      /\ job.level \in LevelKey /\ job.src \in LevelKey
  BY <1>1, RunningJob DEF ServiceInv
<1>3. ASSUME NEW n \in 1 .. Len(job.goals)
      PROVE  /\ job.got[n] \in LevelState
             /\ job.goals[n] \in Ids /\ job.goals[n] \in 1 .. lastId
             /\ ~staleImport => SameState(job.got[n], BaseOf(job.goals[n]))
  <2>1. job.got[n] \in LevelState
    BY <1>1, <1>2, <1>3, ElementOfSeq
  <2>2. job.goals[n] \in Ids /\ (~staleImport => SameState(job.got[n], snapshot[job.goals[n]]))
    BY <1>1, <1>3 DEF GotOK
  <2>3. job.goals[n] \in 1 .. lastId /\ job.goals[n] # NoId
    BY <2>2, LastIdIsNat DEF ServiceInv, TablesInv
  <2> QED
    BY <2>1, <2>2, <2>3 DEF BaseOf
<1> QED
  BY <1>1, <1>2, <1>3

\* A job that ends without writing.
LEMMA EndedInv ==
    ASSUME ServiceInv, EndJob, UNCHANGED <<storeVars, cache, ghostVars>>, pendings' \subseteq pendings
    PROVE  ServiceInv' /\ Grows
<1>1. TablesSame
  BY DEF storeVars, ghostVars, TablesSame, ServiceInv, TablesInv, StoreInv, StoreTypeOK
<1>2. TablesInv' /\ Grows /\ PendingsInv'
  BY <1>1, SameTables, PendingsKept DEF ServiceInv
<1>3. CacheInv'
  <2>1. CacheOK(cache, Ids, snapshot, staleImport)
    BY CacheInvOK DEF ServiceInv
  <2> QED
    BY <1>1, <2>1, CacheOKInv DEF TablesSame, Ids
<1> QED
  BY <1>2, <1>3, JobEnded DEF ServiceInv

\* A prepare that ends.
LEMMA PreparedInv ==
    ASSUME ServiceInv, NEW p, PendingOK(p), Prepared(p)
    PROVE  ServiceInv' /\ Grows
<1>1. EndJob /\ TablesSame /\ cache' = cache /\ pendings' = pendings \cup {p}
  BY DEF Prepared, storeVars, ghostVars, TablesSame, ServiceInv, TablesInv, StoreInv, StoreTypeOK
<1>2. TablesInv' /\ Grows
  BY <1>1, SameTables DEF ServiceInv
<1>3. CacheInv'
  <2>1. CacheOK(cache, Ids, snapshot, staleImport)
    BY CacheInvOK DEF ServiceInv
  <2> QED
    BY <1>1, <2>1, CacheOKInv DEF TablesSame, Ids
<1>4. PendingsInv'
  <2>1. lastId \in Nat /\ refs \in [LevelKey -> Nat]
    BY LastIdIsNat DEF ServiceInv, TablesInv, StoreInv, StoreTypeOK
  <2>2. PendingOK(p)' /\ \A q \in pendings : PendingOK(q)'
    BY <1>2, <2>1, PendingGrows DEF PendingsInv, ServiceInv
  <2> QED
    BY <1>1, <2>2 DEF PendingsInv
<1> QED
  BY <1>1, <1>2, <1>3, <1>4, JobEnded DEF ServiceInv

\* insertAndSetHead with arguments that are in order.
RecordOK(k, p, r, d, s) ==
    /\ k \in LevelKey /\ {p, r} \subseteq IdArgs(k) \cup {NoId} /\ d \in Delta /\ s \in LevelState
    /\ Record(k, p, r, d, s)
    /\ ~staleImport => Replays(p, d, s)

\* A commit is written and its state put into the cache, or not.
LEMMA RecordedInv ==
    ASSUME ServiceInv, NEW k, NEW p, NEW r, NEW d, NEW s, RecordOK(k, p, r, d, s),
           cache' = cache \/ cache' = CachePut(cache, NextId, s), pendings' \subseteq pendings
    PROVE  /\ TablesInv' /\ CacheInv' /\ PendingsInv' /\ Grows
           /\ lastId \in Nat /\ NextId = lastId + 1 /\ lastId' = lastId + 1
           /\ snapshot'[lastId + 1] = Norm(s)
           /\ lastId + 1 \in IdArgs(k)'
<1>1. TablesInv' /\ Grows /\ RecordEffect(k, p, r, d, s)
  <2>1. /\ k \in LevelKey /\ p \in IdArgs(k) \cup {NoId} /\ r \in IdArgs(k) \cup {NoId}
        /\ d \in Delta /\ s \in LevelState /\ Record(k, p, r, d, s)
        /\ ~staleImport => Replays(p, d, s)
    BY DEF RecordOK
  <2> QED
    BY <2>1, RecordTables, RecordFacts DEF ServiceInv
<1>2. PendingsInv'
  BY <1>1, PendingsKept DEF ServiceInv
<1>3. CacheOK(cache, Ids, snapshot, staleImport)
  BY CacheInvOK DEF ServiceInv
<1>4. CacheOK(cache, Ids', snapshot', staleImport')
  <2>1. /\ Ids \subseteq Ids' /\ \A i \in Ids : snapshot'[i] = snapshot[i]
        /\ staleImport \in BOOLEAN /\ staleImport' = staleImport
    BY <1>1 DEF RecordEffect, ServiceInv, TablesInv
  <2> QED
    BY <1>3, <2>1, CacheKept
<1>5. CacheOK(CachePut(cache, NextId, s), Ids', snapshot', staleImport')
  <2>1. NextId \in Ids' /\ SameState(s, snapshot'[NextId]) /\ staleImport' \in BOOLEAN
    BY <1>1 DEF RecordEffect, SameState, TablesInv
  <2>2. s \in LevelState
    BY DEF RecordOK
  <2> QED
    BY <1>4, <2>1, <2>2, CachePutOK
<1>6. CacheInv'
  BY <1>4, <1>5, CacheOKInv
<1>7. lastId + 1 \in IdArgs(k)'
  BY <1>1 DEF RecordEffect, IdArgs
<1> QED
  BY <1>1, <1>2, <1>6, <1>7 DEF RecordEffect

LEMMA CommitRecords ==
    ASSUME ServiceInv, NEW s \in LevelState, FinishCommit(s)
    PROVE  \E d : RecordOK(job.level, job.head, NoId, d, s)
<1> DEFINE a == HeadStateOr(EmptyState)
<1>1. Reconstructed("commit") /\ Record(job.level, job.head, NoId, Diff(a, s), s)
  BY DEF FinishCommit
<1>2. /\ JobArgsOK /\ job.op = "commit" /\ job.level \in LevelKey
      /\ Len(job.goals) \in Nat /\ Len(job.got) = Len(job.goals)
      /\ \A n \in 1 .. Len(job.goals) :
           /\ job.got[n] \in LevelState
           /\ ~staleImport => SameState(job.got[n], BaseOf(job.goals[n]))
      /\ job.goals \in Seq(Nat)
  BY <1>1, AllReconstructed, RunningJob DEF ServiceInv
<1>3. /\ job.head \in IdArgs(job.level) \cup {NoId}
      /\ job.head # NoId => job.goals # <<>> /\ job.goals[Len(job.goals)] = job.head
  BY <1>2 DEF JobArgsOK
<1>4. job.head \in 1 .. lastId \cup {NoId}
  BY <1>3, IdArgsBound, LastIdIsNat DEF ServiceInv, TablesInv
<1>5. a \in LevelState /\ (~staleImport => SameState(a, BaseOf(job.head)))
  <2>1. CASE job.head = NoId
    BY <2>1, EmptyStateType DEF HeadStateOr, BaseOf, SameState
  <2>2. CASE job.head # NoId
    <3>1. Len(job.goals) \in 1 .. Len(job.goals)
      BY <2>2, <1>2, <1>3, EmptySeq
    <3> QED
      BY <2>2, <3>1, <1>2, <1>3 DEF HeadStateOr
  <2> QED
    BY <2>1, <2>2
<1> HIDE DEF a
<1>6. Diff(a, s) \in Delta /\ (~staleImport => Replays(job.head, Diff(a, s), s))
  BY <1>4, <1>5, DiffReplays DEF ServiceInv
<1> QED
  BY <1>1, <1>2, <1>3, <1>6 DEF RecordOK

LEMMA FinishCommitInv ==
    ASSUME ServiceInv, NEW s \in LevelState, FinishCommit(s)
    PROVE  ServiceInv' /\ Grows
<1>1. cache' = CachePut(cache, NextId, s) /\ EndJob /\ pendings' \subseteq pendings
  BY DEF FinishCommit
<1>2. TablesInv' /\ CacheInv' /\ PendingsInv' /\ Grows
  BY <1>1, CommitRecords, RecordedInv
<1> QED
  BY <1>1, <1>2, JobEnded DEF ServiceInv

LEMMA FinishPrepareCheckoutInv ==
    ASSUME ServiceInv, FinishPrepareCheckout
    PROVE  ServiceInv' /\ Grows
<1> DEFINE target == job.ids[1]
           a == job.got[1]
           b == job.got[2]
           p == [kind |-> "checkout", level |-> job.level, parent |-> job.head,
                 reverts |-> target, delta |-> Diff(a, b), applied |-> b]
<1>1. /\ Reconstructed("checkout") /\ job.head # target
      /\ target \in Ids => commits[target].level = job.level
      /\ Prepared(p)
  BY DEF FinishPrepareCheckout
<1>2. /\ JobArgsOK /\ job.op = "checkout" /\ job.level \in LevelKey
      /\ \A n \in 1 .. Len(job.goals) :
           /\ job.got[n] \in LevelState
           /\ ~staleImport => SameState(job.got[n], BaseOf(job.goals[n]))
  BY <1>1, AllReconstructed
<1>3. job.head \in RowsOf(job.level) /\ target \in 1 .. lastId /\ job.goals = <<job.head, target>>
  BY <1>1, <1>2 DEF JobArgsOK, CheckoutGoals
<1>4. job.head \in IdArgs(job.level) /\ target \in IdArgs(job.level) /\ target # NoId
  BY <1>1, <1>2, <1>3, HeadIsRow, LastIdIsNat DEF ServiceInv, TablesInv, IdArgs, NoId
<1>5. job.head \in 1 .. lastId
  BY <1>4, IdArgsBound, LastIdIsNat DEF ServiceInv, TablesInv
<1>6. /\ Len(job.goals) = 2 /\ 1 \in 1 .. 2 /\ 2 \in 1 .. 2
      /\ job.goals[1] = job.head /\ job.goals[2] = target
  BY <1>3
<1>7. /\ a \in LevelState /\ b \in LevelState
      /\ ~staleImport => SameState(a, BaseOf(job.head)) /\ SameState(b, snapshot[target])
  BY <1>2, <1>4, <1>6 DEF BaseOf
<1> HIDE DEF a, b, target
<1>8. Diff(a, b) \in Delta /\ (~staleImport => Replays(job.head, Diff(a, b), b))
  BY <1>5, <1>7, DiffReplays DEF ServiceInv
<1>9. p \in PendingHead
  <2>1. job.head \in Nat /\ target \in Nat
    BY <1>3, <1>5, LastIdIsNat DEF ServiceInv, TablesInv
  <2> QED
    BY <2>1, <1>2, <1>7, <1>8 DEF PendingHead
<1>10. PendingOK(p)
  BY <1>4, <1>7, <1>8, <1>9 DEF PendingOK, PendingHeadOK
<1> QED
  BY <1>1, <1>10, PreparedInv

LEMMA FinishPrepareRevertInv ==
    ASSUME ServiceInv, FinishPrepareRevert
    PROVE  ServiceInv' /\ Grows
<1> DEFINE target == job.ids[1]
           a == job.got[3]
           undo == Diff(job.got[2], job.got[1])
           b == Apply(a, undo)
           p == [kind |-> "revert", level |-> job.level, parent |-> job.head,
                 reverts |-> target, delta |-> Diff(a, b), applied |-> b]
<1>1. Reconstructed("revert") /\ Prepared(p)
  BY DEF FinishPrepareRevert
<1>2. /\ JobArgsOK /\ job.op = "revert" /\ job.level \in LevelKey
      /\ \A n \in 1 .. Len(job.goals) :
           /\ job.got[n] \in LevelState
           /\ ~staleImport => SameState(job.got[n], BaseOf(job.goals[n]))
  BY <1>1, AllReconstructed
<1>3. /\ job.head \in RowsOf(job.level) /\ target \in RowsOf(job.level)
      /\ Len(job.goals) = 3 /\ job.goals[3] = job.head
  BY <1>2 DEF JobArgsOK
<1>4. /\ job.head \in IdArgs(job.level) /\ target \in IdArgs(job.level)
      /\ job.head \in Nat /\ target \in Nat
  BY <1>2, <1>3, HeadIsRow DEF ServiceInv
<1>5. job.head \in 1 .. lastId
  BY <1>4, IdArgsBound, LastIdIsNat DEF ServiceInv, TablesInv
<1>6. 1 \in 1 .. 3 /\ 2 \in 1 .. 3 /\ 3 \in 1 .. 3
  OBVIOUS
<1>7. /\ a \in LevelState /\ job.got[1] \in LevelState /\ job.got[2] \in LevelState
      /\ ~staleImport => SameState(a, BaseOf(job.head))
  BY <1>2, <1>3, <1>6
<1>8. b \in LevelState
  BY <1>7, DiffType, ApplyType
<1> HIDE DEF a, b, target
<1>9. Diff(a, b) \in Delta /\ (~staleImport => Replays(job.head, Diff(a, b), b))
  BY <1>5, <1>7, <1>8, DiffReplays DEF ServiceInv
<1>10. p \in PendingHead
  BY <1>2, <1>4, <1>8, <1>9 DEF PendingHead
<1>11. PendingOK(p)
  BY <1>4, <1>9, <1>10 DEF PendingOK, PendingHeadOK
<1> QED
  BY <1>1, <1>11, PreparedInv

LEMMA FinishPrepareSquashInv ==
    ASSUME ServiceInv, FinishPrepareSquash
    PROVE  ServiceInv' /\ Grows
<1> DEFINE k == job.level
           ids == job.ids
           base == commits[ids[1]].parent
           a == SquashBase(base)
           b == SquashTarget
           p == [kind |-> "squash", level |-> k, ids |-> ids, parent |-> base,
                 delta |-> Diff(a, b), applied |-> b]
<1>1. Reconstructed("squash") /\ Prepared(p)
  BY DEF FinishPrepareSquash
<1>2. /\ JobArgsOK /\ job.op = "squash" /\ k \in LevelKey /\ job \in ReconstructJob
      /\ Len(job.goals) \in Nat /\ Len(job.got) = Len(job.goals)
      /\ \A n \in 1 .. Len(job.goals) :
           /\ job.got[n] \in LevelState
           /\ ~staleImport => SameState(job.got[n], BaseOf(job.goals[n]))
  BY <1>1, AllReconstructed
<1>3. /\ ids \in Selections(Ids) /\ Contiguous(k, ids)
      /\ job.goals = IF base = NoId THEN <<Newest(ids)>> ELSE <<base, Newest(ids)>>
  BY <1>2 DEF JobArgsOK
<1>4. /\ Len(ids) \in Nat /\ Len(ids) >= 2 /\ DOMAIN ids = 1 .. Len(ids) /\ ids[1] \in Ids
      /\ Newest(ids) \in Ids /\ ids \in Seq(Nat)
  <2>1. ids \in Seq(Nat)
    BY <1>2 DEF ReconstructJob
  <2> QED
    BY <2>1, <1>3, SelectionType
<1>5. Newest(ids) # NoId /\ lastId \in Nat
  BY <1>4, LastIdIsNat DEF ServiceInv, TablesInv
<1>6. ids \in Selections(IdArgs(k))
  <2>1. ids \in Selections(RowsOf(k))
    BY SMTT(30), <1>3 DEF Selections, Contiguous
  <2> QED
    BY <2>1, <1>2, HeadIsRow, SelectionType DEF ServiceInv
<1>7. base \in IdArgs(k) \cup {NoId} /\ base \in Nat
  <2>1. commits[ids[1]].level = k
    BY SMTT(30), <1>3, <1>4 DEF Contiguous, RowsOf
  <2>2. base \in Ids \cup {NoId} /\ (base # NoId => commits[base].level = k)
    BY <2>1, <1>4 DEF ServiceInv, TablesInv, StoreInv, ForeignKeysHold, ReferencesInOwnLevel,
                      RefersWithinLevel, Ids
  <2> QED
    BY <2>2, <1>5, LastIdIsNat DEF ServiceInv, TablesInv, IdArgs, NoId
<1>8. base \in 1 .. lastId \cup {NoId}
  BY <1>5, <1>7, IdArgsBound
<1>9. /\ a \in LevelState /\ b \in LevelState
      /\ ~staleImport => SameState(a, BaseOf(base)) /\ SameState(b, snapshot[Newest(ids)])
  <2>1. CASE base = NoId
    <3>1. job.goals = <<Newest(ids)>>
      BY <2>1, <1>3
    <3>2. Len(job.goals) = 1 /\ job.goals[1] = Newest(ids) /\ 1 \in 1 .. 1
      BY <3>1
    <3> QED
      BY <2>1, <3>2, <1>2, <1>5, EmptyStateType DEF SquashBase, SquashTarget, BaseOf, SameState
  <2>2. CASE base # NoId
    <3>1. job.goals = <<base, Newest(ids)>>
      BY <2>2, <1>3
    <3>2. /\ Len(job.goals) = 2 /\ job.goals[1] = base /\ job.goals[2] = Newest(ids)
          /\ 1 \in 1 .. 2 /\ 2 \in 1 .. 2
      BY <3>1
    <3> QED
      BY <2>2, <3>2, <1>2, <1>5 DEF SquashBase, SquashTarget, BaseOf
  <2> QED
    BY <2>1, <2>2
<1>10. refs[k] # NoId => refs[k] # base /\ \A n \in 1 .. Len(ids) - 1 : refs[k] # ids[n]
  <2> SUFFICES ASSUME refs[k] # NoId
               PROVE  refs[k] # base /\ \A n \in 1 .. Len(ids) - 1 : refs[k] # ids[n]
    OBVIOUS
  <2>1. \A i \in Ids : commits[i].parent # refs[k]
    BY <1>2 DEF ServiceInv, TablesInv, HeadsChildless
  <2>2. ASSUME NEW n \in 1 .. Len(ids) - 1
        PROVE  refs[k] # ids[n]
    <3>1. n + 1 \in 2 .. Len(ids) /\ n + 1 \in DOMAIN ids /\ (n + 1) - 1 = n
      BY <1>4
    <3>2. ids[n + 1] \in Ids /\ commits[ids[n + 1]].parent = ids[n]
      BY <3>1, <1>3 DEF Contiguous, RowsOf
    <3> QED
      BY <2>1, <3>2
  <2> QED
    BY <2>1, <2>2, <1>4
<1> HIDE DEF a, b, base
<1>11. Diff(a, b) \in Delta /\ (~staleImport => Replays(base, Diff(a, b), b))
  BY <1>8, <1>9, DiffReplays DEF ServiceInv
<1>12. p \in PendingSquash
  BY <1>2, <1>4, <1>7, <1>9, <1>11 DEF PendingSquash
<1>13. PendingOK(p)
  BY <1>6, <1>7, <1>9, <1>10, <1>11, <1>12 DEF PendingOK, PendingSquashOK
<1> QED
  BY <1>1, <1>13, PreparedInv

LEMMA FinishPrepareImportLevelFromInv ==
    ASSUME ServiceInv, FinishPrepareImportLevelFrom
    PROVE  ServiceInv' /\ Grows
<1> DEFINE p == [kind |-> "replace", level |-> job.level, src |-> job.src, applied |-> job.got[1]]
<1>1. Reconstructed("replace") /\ Prepared(p)
  BY DEF FinishPrepareImportLevelFrom
<1>2. /\ JobArgsOK /\ job.op = "replace" /\ job.level \in LevelKey /\ job.src \in LevelKey
      /\ \A n \in 1 .. Len(job.goals) : job.got[n] \in LevelState
  BY <1>1, AllReconstructed
<1>3. job.got[1] \in LevelState
  <2>1. Len(job.goals) = 1
    BY <1>2 DEF JobArgsOK
  <2> QED
    BY <2>1, <1>2
<1>4. p \in PendingReplace
  BY <1>2, <1>3 DEF PendingReplace
<1> QED
  BY <1>1, <1>4, PreparedInv DEF PendingOK

LEMMA FinishPrepareImportManyInv ==
    ASSUME ServiceInv, NEW size \in Nat, NEW merged \in [1 .. size -> LevelState],
           FinishPrepareImportMany(merged)
    PROVE  ServiceInv' /\ Grows
<1> DEFINE a(n) == EntryBase(merged, n)
           entry(n) == [parent |-> IF n = 1 THEN job.head ELSE NoId, ix |-> n - 1,
                        delta |-> Diff(a(n), merged[n]), cached |-> n = Len(merged),
                        after |-> merged[n]]
           batch == [n \in 1 .. size |-> entry(n)]
           p == [kind |-> "import", level |-> job.level, batch |-> batch]
<1>1. Reconstructed("import") /\ Prepared(p)
  BY DEF FinishPrepareImportMany
<1>2. /\ JobArgsOK /\ job.op = "import" /\ job.level \in LevelKey
      /\ Len(job.goals) \in Nat /\ Len(job.got) = Len(job.goals)
      /\ \A n \in 1 .. Len(job.goals) :
           /\ job.got[n] \in LevelState
           /\ ~staleImport => SameState(job.got[n], BaseOf(job.goals[n]))
      /\ job.goals \in Seq(Nat)
  BY <1>1, AllReconstructed, RunningJob DEF ServiceInv
<1>3. /\ job.head \in IdArgs(job.level) \cup {NoId}
      /\ job.head # NoId => job.goals # <<>> /\ job.goals[Len(job.goals)] = job.head
  BY <1>2 DEF JobArgsOK
<1>4. job.head \in 1 .. lastId \cup {NoId} /\ job.head \in Nat
  BY <1>3, IdArgsBound, LastIdIsNat DEF ServiceInv, TablesInv, NoId
<1>5. /\ HeadStateOr(EmptyState) \in LevelState
      /\ ~staleImport => SameState(HeadStateOr(EmptyState), BaseOf(job.head))
  <2>1. CASE job.head = NoId
    BY <2>1, EmptyStateType DEF HeadStateOr, BaseOf, SameState
  <2>2. CASE job.head # NoId
    <3>1. Len(job.goals) \in 1 .. Len(job.goals)
      BY <2>2, <1>2, <1>3, EmptySeq
    <3> QED
      BY <2>2, <3>1, <1>2, <1>3 DEF HeadStateOr
  <2> QED
    BY <2>1, <2>2
<1>6. ASSUME NEW n \in 1 .. size
      PROVE  /\ entry(n) \in ImportEntry
             /\ entry(n).ix = n - 1 /\ entry(n).parent \in IdArgs(job.level) \cup {NoId}
             /\ ~staleImport => IF n = 1 THEN Replays(entry(n).parent, entry(n).delta, entry(n).after)
                                ELSE SameState(Apply(merged[n - 1], entry(n).delta), entry(n).after)
  <2>1. n \in Nat /\ n - 1 \in Nat /\ (n # 1 => n - 1 \in 1 .. size)
    OBVIOUS
  <2>2. a(n) \in LevelState /\ merged[n] \in LevelState
    BY <2>1, <1>5 DEF EntryBase
  <2>3. CASE n = 1
    <3>1. a(n) = HeadStateOr(EmptyState)
      BY <2>3 DEF EntryBase
    <3> HIDE DEF a
    <3>2. Diff(a(n), merged[n]) \in Delta
          /\ (~staleImport => Replays(job.head, Diff(a(n), merged[n]), merged[n]))
      BY <2>2, <3>1, <1>4, <1>5, DiffReplays DEF ServiceInv
    <3> QED
      BY <2>1, <2>2, <2>3, <3>2, <1>3, <1>4 DEF ImportEntry
  <2>4. CASE n # 1
    <3>1. a(n) = merged[n - 1]
      BY <2>4 DEF EntryBase
    <3> HIDE DEF a
    <3>2. Diff(a(n), merged[n]) \in Delta
      BY <2>2, DiffType
    <3>3. SameState(Apply(merged[n - 1], Diff(a(n), merged[n])), merged[n])
      BY <2>2, <3>1, RoundTrip
    <3> QED
      BY <2>1, <2>2, <2>4, <3>2, <3>3 DEF ImportEntry, NoId
  <2> QED
    BY <2>3, <2>4
<1>7. /\ batch \in Seq(ImportEntry) /\ Len(batch) = size
      /\ \A n \in 1 .. size : batch[n] = entry(n) /\ batch[n].after = merged[n]
  <2>1. batch \in [1 .. size -> ImportEntry]
    BY <1>6
  <2>2. batch \in Seq(ImportEntry)
    BY <2>1, SeqDef
  <2> QED
    BY <2>1, <2>2
<1> HIDE DEF batch, entry
<1>8. BatchOK(job.level, batch)
  <2> SUFFICES ASSUME NEW n \in 1 .. size
               PROVE  EntryOK(job.level, batch, n)
    BY <1>7 DEF BatchOK
  <2>1. n # 1 => n - 1 \in 1 .. size
    OBVIOUS
  <2>2. n # 1 => batch[n - 1].after = merged[n - 1]
    BY <2>1, <1>7
  <2> QED
    BY <2>2, <1>6, <1>7 DEF EntryOK
<1>9. p \in PendingImport
  BY <1>2, <1>7 DEF PendingImport
<1>10. PendingOK(p)
  BY <1>8, <1>9 DEF PendingOK, PendingImportOK
<1> QED
  BY <1>1, <1>10, PreparedInv

\* The parent of an entry is the commit written for the entry before.
LEMMA EntryRecords ==
    ASSUME ServiceInv, ImportNextEntry
    PROVE  \E p, d : RecordOK(job.level, p, NoId, d, job.batch[Len(job.minted) + 1].after)
<1> DEFINE k == job.level
           batch == job.batch
           len == Len(job.minted)
           e == batch[len + 1]
           parent == IF e.ix = 0 THEN e.parent ELSE job.minted[e.ix]
<1>1. /\ job.op = "finalizeImport" /\ len < Len(batch)
      /\ Record(k, parent, NoId, e.delta, e.after)
  BY DEF ImportNextEntry
<1>2. ImportJobOK /\ lastId \in Nat
  BY <1>1, RunningJob, LastIdIsNat DEF ServiceInv, TablesInv
<1>3. /\ k \in LevelKey /\ batch \in Seq(ImportEntry) /\ job.minted \in Seq(Nat)
      /\ BatchOK(k, batch)
      /\ \A n \in 1 .. len : /\ job.minted[n] \in IdArgs(k)
                             /\ snapshot[job.minted[n]] = Norm(batch[n].after)
  BY <1>2 DEF ImportJobOK, FinalizeImportJob
<1>4. /\ len \in Nat /\ Len(batch) \in Nat /\ len + 1 \in 1 .. Len(batch)
      /\ len # 0 => len \in 1 .. len /\ len \in 1 .. Len(batch)
  BY <1>1, <1>3
<1>5. e \in ImportEntry /\ (len # 0 => batch[len] \in ImportEntry)
  BY <1>3, <1>4, ElementOfSeq
<1>6. e.delta \in Delta /\ e.after \in LevelState /\ (len # 0 => batch[len].after \in LevelState)
  BY <1>5 DEF ImportEntry
<1>7. /\ e.ix = len /\ e.parent \in IdArgs(k) \cup {NoId}
      /\ ~staleImport => IF len = 0 THEN Replays(e.parent, e.delta, e.after)
                         ELSE SameState(Apply(batch[len].after, e.delta), e.after)
  <2>1. EntryOK(k, batch, len + 1)
    BY <1>3, <1>4 DEF BatchOK
  <2>2. (len + 1) - 1 = len /\ (len + 1 = 1 <=> len = 0)
    BY <1>4
  <2> QED
    BY <2>1, <2>2 DEF EntryOK
<1> HIDE DEF e
<1>8. parent \in IdArgs(k) \cup {NoId} /\ (~staleImport => Replays(parent, e.delta, e.after))
  <2>1. CASE len = 0
    BY <2>1, <1>7
  <2>2. CASE len # 0
    <3> DEFINE before == batch[len].after
    <3>1. parent = job.minted[len] /\ parent \in IdArgs(k) /\ snapshot[parent] = Norm(before)
      BY <2>2, <1>3, <1>4, <1>7
    <3>2. parent \in 1 .. lastId /\ parent # NoId
      BY <3>1, <1>2, IdArgsBound
    <3>3. BaseOf(parent) = Norm(before) /\ before \in LevelState
      BY <2>2, <3>1, <3>2, <1>6 DEF BaseOf
    <3> HIDE DEF before
    <3>4. BaseOf(parent) \in LevelState /\ SameState(BaseOf(parent), before)
      BY <3>3, NormType DEF SameState
    <3>5. SameState(Apply(BaseOf(parent), e.delta), Apply(before, e.delta))
      BY <3>3, <3>4, <1>6, ApplyCongruent
    <3>6. ~staleImport => SameState(Apply(before, e.delta), e.after)
      BY <2>2, <1>7 DEF before
    <3> QED
      BY <3>1, <3>5, <3>6 DEF Replays, SameState
  <2> QED
    BY <2>1, <2>2
<1> HIDE DEF parent
<1> QED
  BY <1>1, <1>3, <1>6, <1>8 DEF RecordOK, e

LEMMA ImportNextEntryInv ==
    ASSUME ServiceInv, ImportNextEntry
    PROVE  ServiceInv' /\ Grows
<1>0. PICK k, batch : k = job.level /\ batch = job.batch
  OBVIOUS
<1> DEFINE len == Len(job.minted)
           s == batch[len + 1].after
           minted == Append(job.minted, NextId)
           j == [job EXCEPT !.minted = minted]
<1>1. /\ job.op = "finalizeImport" /\ len < Len(batch)
      /\ cache' = cache \/ cache' = CachePut(cache, NextId, s)
      /\ job' = j /\ walk' = walk /\ pendings' \subseteq pendings
  BY <1>0 DEF ImportNextEntry
<1>2. ImportJobOK /\ lastId \in Nat
  BY <1>1, RunningJob, LastIdIsNat DEF ServiceInv, TablesInv
<1>3. /\ batch \in Seq(ImportEntry) /\ job.minted \in Seq(Nat) /\ BatchOK(k, batch)
      /\ \A n \in 1 .. len : /\ job.minted[n] \in IdArgs(k)
                             /\ snapshot[job.minted[n]] = Norm(batch[n].after)
  BY <1>0, <1>2 DEF ImportJobOK, FinalizeImportJob
<1>4. len \in Nat /\ Len(batch) \in Nat /\ len + 1 \in 1 .. Len(batch)
  BY <1>1, <1>3
<1>5. PICK p, d : RecordOK(k, p, NoId, d, s)
  BY <1>0, EntryRecords
<1> HIDE DEF s
<1>9. /\ TablesInv' /\ CacheInv' /\ PendingsInv' /\ Grows
      /\ NextId = lastId + 1 /\ snapshot'[NextId] = Norm(s) /\ NextId \in IdArgs(k)'
  BY <1>1, <1>5, RecordedInv
<1>10. NextId \in Nat
  BY <1>2, <1>9
<1>11. /\ minted \in Seq(Nat) /\ Len(minted) = len + 1 /\ minted[len + 1] = NextId
       /\ \A n \in 1 .. len : minted[n] = job.minted[n]
  BY <1>3, <1>4, <1>10
<1> HIDE DEF minted
<1>12. j \in FinalizeImportJob /\ j.level = k /\ j.batch = batch /\ j.minted = minted
  BY <1>0, <1>2, <1>11 DEF ImportJobOK, FinalizeImportJob
<1> HIDE DEF j
<1>13. ImportJobOK'
  <2>1. BatchOK(k, batch)'
    BY <1>2, <1>3, <1>9, BatchGrows
  <2>2. ASSUME NEW n \in 1 .. len + 1
        PROVE  minted[n] \in IdArgs(k)' /\ snapshot'[minted[n]] = Norm(batch[n].after)
    <3>1. CASE n = len + 1
      BY <3>1, <1>0, <1>9, <1>11 DEF s
    <3>2. CASE n \in 1 .. len
      <4>1. job.minted[n] \in 1 .. lastId /\ job.minted[n] \in IdArgs(k)'
        BY <3>2, <1>2, <1>3, <1>9, IdArgsBound, IdArgsGrow
      <4> QED
        BY <3>2, <4>1, <1>0, <1>3, <1>9, <1>11 DEF Grows
    <3> QED
      BY <3>1, <3>2, <1>4
  <2>3. len + 1 <= Len(batch)
    BY <1>4
  <2> QED
    BY <2>1, <2>2, <2>3, <1>0, <1>1, <1>11, <1>12 DEF ImportJobOK
<1>14. WalkInv'
  <2>1. job \notin ReconstructJob
    BY <1>1 DEF ReconstructJob
  <2>2. walk \in Walk /\ walk.phase = "out"
    BY <2>1 DEF ServiceInv, WalkInv
  <2> QED
    BY <2>2, <1>1 DEF WalkInv
<1> QED
  BY <1>9, <1>13, <1>14 DEF ServiceInv, JobInv

LEMMA FinishJobInv ==
    ASSUME ServiceInv, FinishJob
    PROVE  ServiceInv' /\ Grows
<1>1. ASSUME NEW s \in Incoming, FinishCommit(s)
      PROVE  ServiceInv' /\ Grows
  BY <1>1, FinishCommitInv, ServiceAssumption
<1>2. CASE FinishCheckoutOfHead \/ FinishInspect \/ FinishFinalizeImportMany
  <2>1. EndJob /\ UNCHANGED <<storeVars, cache, ghostVars>> /\ pendings' \subseteq pendings
    BY <1>2 DEF FinishCheckoutOfHead, FinishInspect, FinishFinalizeImportMany
  <2> QED
    BY <2>1, EndedInv
<1>3. ASSUME NEW n \in 1 .. MaxBatch, NEW merged \in [1 .. n -> Incoming],
             FinishPrepareImportMany(merged)
      PROVE  ServiceInv' /\ Grows
  <2>1. n \in Nat /\ merged \in [1 .. n -> LevelState]
    BY <1>3, ServiceAssumption
  <2> QED
    BY <2>1, <1>3, FinishPrepareImportManyInv
<1> QED
  BY <1>1, <1>2, <1>3, FinishPrepareCheckoutInv, FinishPrepareRevertInv, FinishPrepareSquashInv,
     FinishPrepareImportLevelFromInv, ImportNextEntryInv
  DEF FinishJob

-------------------------------------------------------------------------------
(***************************************************************************)
(* Finalize, and the rest                                                  *)
(***************************************************************************)

LEMMA IdleInv ==
    ASSUME WalkInv, job = Idle, UNCHANGED <<job, walk>>
    PROVE  JobInv' /\ WalkInv'
<1>1. job \notin ReconstructJob
  BY DEF Idle, ReconstructJob
<1>2. walk \in Walk /\ walk.phase = "out"
  BY <1>1 DEF WalkInv
<1> QED
  BY <1>2 DEF JobInv, WalkInv, Idle

\* The kind of a prepared operation says what is known of it.
LEMMA KindOfPending ==
    ASSUME PendingsInv, NEW p \in pendings
    PROVE  /\ p.kind \in {"checkout", "revert"} => PendingHeadOK(p)
           /\ p.kind = "squash" => PendingSquashOK(p)
           /\ p.kind = "replace" => p \in PendingReplace
           /\ p.kind = "import" => PendingImportOK(p)
<1>1. PendingOK(p)
  BY DEF PendingsInv
<1>2. /\ PendingHeadOK(p) => p.kind \in {"checkout", "revert"}
      /\ PendingSquashOK(p) => p.kind = "squash"
      /\ p \in PendingReplace => p.kind = "replace"
      /\ PendingImportOK(p) => p.kind = "import"
  BY DEF PendingHeadOK, PendingSquashOK, PendingImportOK, PendingHead, PendingSquash, PendingReplace,
         PendingImport
<1> QED
  BY <1>1, <1>2 DEF PendingOK

LEMMA FinalizeCheckoutInv ==
    ASSUME ServiceInv, NEW p \in pendings, FinalizeCheckout(p)
    PROVE  ServiceInv' /\ Grows
<1>1. /\ job = Idle /\ p.kind \in {"checkout", "revert"} /\ UNCHANGED <<job, walk>>
      /\ Record(p.level, p.parent, p.reverts, p.delta, p.applied)
      /\ cache' = CachePut(cache, NextId, p.applied) /\ pendings' \subseteq pendings
  BY DEF FinalizeCheckout
<1>2. PendingHeadOK(p)
  BY <1>1, KindOfPending DEF ServiceInv
<1>3. /\ p.level \in LevelKey /\ p.delta \in Delta /\ p.applied \in LevelState
      /\ p.parent \in IdArgs(p.level) /\ p.reverts \in IdArgs(p.level)
      /\ ~staleImport => Replays(p.parent, p.delta, p.applied)
  BY <1>2 DEF PendingHeadOK, PendingHead
<1>4. RecordOK(p.level, p.parent, p.reverts, p.delta, p.applied)
  BY <1>1, <1>3 DEF RecordOK
<1>5. TablesInv' /\ CacheInv' /\ PendingsInv' /\ Grows
  BY <1>1, <1>4, RecordedInv
<1> QED
  BY <1>1, <1>5, IdleInv DEF ServiceInv

LEMMA FinalizeSquashInv ==
    ASSUME ServiceInv, NEW p \in pendings, FinalizeSquash(p)
    PROVE  ServiceInv' /\ Grows
<1>1. /\ job = Idle /\ p.kind = "squash" /\ UNCHANGED <<job, walk>> /\ SquashStep(p)
      /\ cache' = CachePut(EmptyCache, NextId, p.applied) /\ pendings' \subseteq pendings
  BY DEF FinalizeSquash, SquashStep
<1>2. PendingSquashOK(p)
  BY <1>1, KindOfPending DEF ServiceInv
<1>3. TablesInv' /\ Grows /\ SquashEffect(p)
  BY <1>1, <1>2, SquashTables, SquashFacts DEF ServiceInv
<1>4. PendingsInv'
  BY <1>1, <1>3, PendingsKept DEF ServiceInv
<1>5. CacheInv'
  <2>1. /\ NextId \in Ids' /\ SameState(p.applied, snapshot'[NextId]) /\ staleImport' \in BOOLEAN
        /\ p.applied \in LevelState
    BY <1>2, <1>3 DEF SquashEffect, SameState, TablesInv, PendingSquashOK, PendingSquash
  <2>2. CacheOK(EmptyCache, Ids', snapshot', staleImport')
    BY EmptyCacheOK
  <2>3. CacheOK(cache', Ids', snapshot', staleImport')
    BY <1>1, <2>1, <2>2, CachePutOK
  <2> QED
    BY <2>3, CacheOKInv
<1> QED
  BY <1>1, <1>3, <1>4, <1>5, IdleInv DEF ServiceInv

LEMMA FinalizeImportLevelFromInv ==
    ASSUME ServiceInv, NEW p \in pendings, p.kind = "replace", NEW f \in CopyMaps(p.src),
           FinalizeImportLevelFrom(p, f)
    PROVE  ServiceInv' /\ Grows
<1>1. /\ job = Idle /\ UNCHANGED <<job, walk>> /\ LoadStep(p.level, p.src, f)
      /\ staleImport' = (staleImport \/ Norm(p.applied) # snapshot[refs[p.src]])
      /\ cache' = CachePut(EmptyCache, f[refs[p.src]], p.applied) /\ pendings' \subseteq pendings
  BY DEF FinalizeImportLevelFrom, LoadStep
<1>2. p.level \in LevelKey /\ p.src \in LevelKey /\ p.applied \in LevelState
  BY KindOfPending DEF ServiceInv, PendingReplace
<1>3. staleImport' \in BOOLEAN /\ (staleImport => staleImport')
      /\ (~staleImport' => Norm(p.applied) = snapshot[refs[p.src]])
  BY <1>1
<1>4. TablesInv' /\ Grows /\ LoadEffect(p.level, p.src, f)
  BY <1>1, <1>2, <1>3, LoadTables, LoadFacts DEF ServiceInv
<1>5. PendingsInv'
  BY <1>1, <1>4, PendingsKept DEF ServiceInv
<1>6. CacheInv'
  <2>1. /\ refs[p.src] \in RowsOf(p.src) /\ f[refs[p.src]] \in Ids'
        /\ snapshot'[f[refs[p.src]]] = snapshot[refs[p.src]]
        /\ refs[p.src] \in 1 .. lastId
    BY <1>4 DEF LoadEffect, RowsOf
  <2>2. ~staleImport' => SameState(p.applied, snapshot'[f[refs[p.src]]])
    BY <2>1, <1>3 DEF SameState, ServiceInv, TablesInv, SnapshotsNormal
  <2>3. CacheOK(EmptyCache, Ids', snapshot', staleImport')
    BY EmptyCacheOK
  <2>4. CacheOK(cache', Ids', snapshot', staleImport')
    BY <1>1, <1>2, <1>3, <2>1, <2>2, <2>3, CachePutOK
  <2> QED
    BY <2>4, CacheOKInv
<1> QED
  BY <1>1, <1>4, <1>5, <1>6, IdleInv DEF ServiceInv

LEMMA BeginFinalizeImportManyInv ==
    ASSUME ServiceInv, NEW p \in pendings, BeginFinalizeImportMany(p)
    PROVE  ServiceInv' /\ Grows
<1> DEFINE j == [op |-> "finalizeImport", level |-> p.level, batch |-> p.batch, minted |-> <<>>]
<1>1. /\ job = Idle /\ p.kind = "import" /\ job' = j /\ walk' = walk /\ cache' = cache
      /\ pendings' \subseteq pendings /\ TablesSame
  BY DEF BeginFinalizeImportMany, storeVars, ghostVars, TablesSame, ServiceInv, TablesInv, StoreInv,
         StoreTypeOK
<1>2. p.level \in LevelKey /\ p.batch \in Seq(ImportEntry) /\ BatchOK(p.level, p.batch)
  BY <1>1, KindOfPending DEF ServiceInv, PendingImportOK, PendingImport
<1>3. TablesInv' /\ Grows /\ PendingsInv'
  BY <1>1, SameTables, PendingsKept DEF ServiceInv
<1>4. CacheInv'
  <2>1. CacheOK(cache, Ids, snapshot, staleImport)
    BY CacheInvOK DEF ServiceInv
  <2> QED
    BY <1>1, <2>1, CacheOKInv DEF TablesSame, Ids
<1>5. ImportJobOK'
  <2>1. BatchOK(p.level, p.batch)'
    BY <1>1, <1>2, EntriesKept
  <2>2. <<>> \in Seq(Nat) /\ Len(<<>>) = 0 /\ Len(p.batch) \in Nat
    BY <1>2, EmptySeq, LenProperties
  <2>3. j \in FinalizeImportJob
    BY <1>2, <2>2 DEF FinalizeImportJob
  <2> QED
    BY <2>1, <2>2, <2>3, <1>1 DEF ImportJobOK
<1>6. WalkInv'
  <2>1. walk \in Walk /\ walk.phase = "out"
    BY <1>1 DEF ServiceInv, WalkInv, Idle, ReconstructJob
  <2> QED
    BY <2>1, <1>1 DEF WalkInv
<1> QED
  BY <1>3, <1>4, <1>5, <1>6 DEF ServiceInv, JobInv

\* A step that leaves tables, cache, job and walk alone.
LEMMA QuietInv ==
    ASSUME ServiceInv, TablesSame, UNCHANGED <<cache, job, walk>>, pendings' \subseteq pendings
    PROVE  ServiceInv' /\ Grows
<1>1. TablesInv' /\ Grows /\ PendingsInv'
  BY SameTables, PendingsKept DEF ServiceInv
<1>2. CacheInv'
  <2>1. CacheOK(cache, Ids, snapshot, staleImport)
    BY CacheInvOK DEF ServiceInv
  <2> QED
    BY <2>1, CacheOKInv DEF TablesSame, Ids
<1> QED
  BY <1>1, <1>2, JobKept, WalkKept DEF ServiceInv

LEMMA DeleteInv ==
    ASSUME ServiceInv, NEW k \in LevelKey, DeleteLevelAndClearCache(k)
    PROVE  ServiceInv' /\ Grows
<1>1. /\ job = Idle /\ DeleteLevel(k) /\ cache' = EmptyCache /\ UNCHANGED <<job, walk, pendings>>
      /\ UNCHANGED ghostVars
  BY DEF DeleteLevelAndClearCache
<1>2. TablesInv' /\ Grows
  BY <1>1, DeleteTables DEF ServiceInv
<1>3. PendingsInv'
  BY <1>1, <1>2, PendingsKept DEF ServiceInv
<1>4. CacheInv'
  BY <1>1, EmptyCacheOK, CacheOKInv
<1> QED
  BY <1>1, <1>2, <1>3, <1>4, IdleInv DEF ServiceInv

LEMMA MessageInv ==
    ASSUME ServiceInv, NEW id \in Ids, NEW m \in Message, UpdateCommitMessage(id, m)
    PROVE  ServiceInv' /\ Grows
<1>1. job = Idle /\ UpdateMessage(id, m) /\ UNCHANGED <<cache, job, walk, pendings>>
      /\ UNCHANGED ghostVars
  BY DEF UpdateCommitMessage, memVars
<1>2. TablesInv' /\ Grows /\ Ids' = Ids /\ UNCHANGED <<snapshot, staleImport>>
  BY <1>1, MessageTables DEF ServiceInv
<1>3. PendingsInv'
  BY <1>1, <1>2, PendingsKept DEF ServiceInv
<1>4. CacheInv'
  BY <1>1, <1>2, CacheInvOK, CacheOKInv DEF ServiceInv
<1> QED
  BY <1>1, <1>2, <1>3, <1>4, IdleInv DEF ServiceInv

LEMMA CrashInv ==
    ASSUME ServiceInv, Crash
    PROVE  ServiceInv' /\ Grows
<1>1. TablesSame /\ cache' = EmptyCache /\ EndJob /\ pendings' \subseteq pendings
  BY DEF Crash, CloseStore, ghostVars, TablesSame
<1>2. TablesInv' /\ Grows /\ PendingsInv'
  BY <1>1, SameTables, PendingsKept DEF ServiceInv
<1> QED
  BY <1>1, <1>2, JobEnded, EmptyCacheOK, CacheOKInv DEF ServiceInv

LEMMA BeginJobInv ==
    ASSUME ServiceInv, BeginJob
    PROVE  ServiceInv' /\ Grows
BY BeginCommitInv, BeginInspectInv, BeginImportManyInv, BeginCheckoutInv, BeginRevertInv,
   BeginSquashInv, BeginImportLevelFromInv, DeleteInv, MessageInv
DEF BeginJob

LEMMA FinalizeJobInv ==
    ASSUME ServiceInv, FinalizeJob
    PROVE  ServiceInv' /\ Grows
<1>1. PICK p \in pendings :
        \/ FinalizeCheckout(p) \/ FinalizeSquash(p) \/ BeginFinalizeImportMany(p)
        \/ p.kind = "replace" /\ \E f \in CopyMaps(p.src) : FinalizeImportLevelFrom(p, f)
        \/ DropPending(p)
  BY DEF FinalizeJob
<1>2. CASE DropPending(p)
  <2>1. TablesSame /\ UNCHANGED <<cache, job, walk>> /\ pendings' \subseteq pendings
    BY <1>2 DEF DropPending, storeVars, ghostVars, TablesSame, ServiceInv, TablesInv, StoreInv,
                StoreTypeOK
  <2> QED
    BY <2>1, QuietInv
<1> QED
  BY <1>1, <1>2, FinalizeCheckoutInv, FinalizeSquashInv, BeginFinalizeImportManyInv,
     FinalizeImportLevelFromInv

\* Every step of the service keeps the invariant, and what was recorded stays recorded.
LEMMA NextInv ==
    ASSUME ServiceInv, [Next]_vars
    PROVE  ServiceInv' /\ Grows
<1>1. CASE Reconstruct
  BY <1>1, ReconstructInv
<1>2. CASE FinishJob
  BY <1>2, FinishJobInv
<1>3. CASE JobFails
  BY <1>3, EndedInv DEF JobFails
<1>4. CASE BeginJob
  BY <1>4, BeginJobInv
<1>5. CASE FinalizeJob
  BY <1>5, FinalizeJobInv
<1>6. CASE Crash
  BY <1>6, CrashInv
<1>7. CASE Restart
  <2>1. TablesSame /\ UNCHANGED <<cache, job, walk>> /\ pendings' \subseteq pendings
    BY <1>7 DEF Restart, InitStore, memVars, ghostVars, TablesSame
  <2> QED
    BY <2>1, QuietInv
<1>8. CASE UNCHANGED vars
  <2>1. TablesSame /\ UNCHANGED <<cache, job, walk>> /\ pendings' \subseteq pendings
    BY <1>8 DEF vars, storeVars, memVars, ghostVars, TablesSame, ServiceInv, TablesInv, StoreInv,
                StoreTypeOK
  <2> QED
    BY <2>1, QuietInv
<1> QED
  BY <1>1, <1>2, <1>3, <1>4, <1>5, <1>6, <1>7, <1>8 DEF Next, WorkerStep

LEMMA InitInv ==
    ASSUME Init
    PROVE  ServiceInv
<1>1. StoreInv /\ lastId = 0 /\ Ids = {} /\ \A k \in LevelKey : refs[k] = NoId
  BY StoreInvInit DEF Init, StoreInit, Ids
<1>2. snapshot \in [1 .. lastId -> LevelState] /\ 1 .. lastId = {}
  BY <1>1 DEF Init, EmptyCache
<1>3. TablesInv
  BY <1>1, <1>2 DEF TablesInv, SnapshotsNormal, DeltasStored, HeadsChildless,
                    HistoryReplaysToSnapshots, Init
<1>4. CacheOK(cache, Ids, snapshot, staleImport)
  BY EmptyCacheOK DEF Init
<1>5. CacheInv
  BY <1>4 DEF CacheOK, CacheInv, CacheOnlyLiveCommits, CacheBounded, CacheShowsSnapshots, Capacity
<1>6. NoWalk \in Walk /\ NoWalk.phase = "out"
  BY EmptyStateType, EmptySeq DEF NoWalk, Walk, NoId
<1> QED
  BY <1>3, <1>5, <1>6 DEF ServiceInv, PendingsInv, JobInv, WalkInv, Init

-------------------------------------------------------------------------------
(***************************************************************************)
(* The invariants                                                          *)
(***************************************************************************)

\* The inductive invariant holds, whatever jobs GitService.cpp is asked to run and in whatever order.
THEOREM ServiceInvariant == Spec => []ServiceInv
<1>1. Init => ServiceInv
  BY InitInv
<1>2. ServiceInv /\ [Next]_vars => ServiceInv'
  BY NextInv
<1> QED
  BY <1>1, <1>2, PTL DEF Spec

\* The tables, the cache, the running job, the locals of reconstruct and the prepared operations keep
\* their types.
THEOREM ServiceTypeCorrect == Spec => []TypeOK
<1>1. ServiceInv => TypeOK
  <2> SUFFICES ASSUME ServiceInv
               PROVE  TypeOK
    OBVIOUS
  <2>1. StoreTypeOK /\ snapshot \in [1 .. lastId -> LevelState] /\ staleImport \in BOOLEAN
    BY DEF ServiceInv, TablesInv, StoreInv, SnapshotsNormal
  <2>2. DOMAIN cache \subseteq 1 .. lastId /\ cache \in [DOMAIN cache -> LevelState]
    BY LastIdIsNat DEF ServiceInv, TablesInv, CacheInv, CacheOnlyLiveCommits
  <2>3. job \in {Idle} \cup ReconstructJob \cup FinalizeImportJob /\ walk \in Walk
    BY DEF ServiceInv, JobInv, ImportJobOK, WalkInv
  <2>4. pendings \subseteq Pending
    BY DEF ServiceInv, PendingsInv, PendingOK, PendingHeadOK, PendingSquashOK, PendingImportOK, Pending
  <2> QED
    BY <2>1, <2>2, <2>3, <2>4 DEF TypeOK
<1> QED
  BY <1>1, ServiceInvariant, PTL

\* Replaying the stored deltas gives what was recorded, and so does the cache: commit, finalizeCheckout,
\* finalizeSquash, finalizeImportManyFromGdge and finalizeImportLevelFrom write deltas that were computed
\* jobs before, against parents that other jobs may have squashed, deleted or copied meanwhile.
THEOREM HistoryIsFaithful == Spec => []HistoryFaithful
<1>1. ServiceInv => HistoryFaithful
  BY DEF ServiceInv, TablesInv, CacheInv, HistoryFaithful
<1> QED
  BY <1>1, ServiceInvariant, PTL

\* No state of a commit that squash, deleteLevel or replaceLevelHistoryFrom removed stays in m_cache.
THEOREM CacheHoldsLiveCommits == Spec => []CacheOnlyLiveCommits
<1>1. ServiceInv => CacheOnlyLiveCommits
  BY DEF ServiceInv, CacheInv
<1> QED
  BY <1>1, ServiceInvariant, PTL

\* cachePut keeps m_cache within m_cacheCapacity, for any capacity.
THEOREM CacheStaysBounded == Spec => []CacheBounded
<1>1. ServiceInv => CacheBounded
  BY DEF ServiceInv, CacheInv
<1> QED
  BY <1>1, ServiceInvariant, PTL

-------------------------------------------------------------------------------
(***************************************************************************)
(* The service asks of the store only what the store was analysed for      *)
(***************************************************************************)

LEMMA RecordIsStoreOp ==
    ASSUME NEW k, NEW p, NEW r, NEW d, NEW s, RecordOK(k, p, r, d, s)
    PROVE  StoreNext
<1>1. d \in Blob
  BY ServiceAssumption DEF RecordOK
<1> QED
  BY <1>1 DEF RecordOK, Record, StoreNext, StoreOp

LEMMA NextIsStoreStep ==
    ASSUME ServiceInv, [Next]_vars
    PROVE  storeVars' = storeVars \/ StoreNext
<1>1. CASE Reconstruct
  BY <1>1 DEF Reconstruct, ReconstructStart, WalkHit, WalkUp, WalkMissing, ApplyDelta,
              ReconstructDone, WalkStep
<1>2. CASE FinishJob
  <2>1. ASSUME NEW s \in Incoming, FinishCommit(s)
        PROVE  StoreNext
    BY <2>1, CommitRecords, RecordIsStoreOp, ServiceAssumption
  <2>2. CASE ImportNextEntry
    BY <2>2, EntryRecords, RecordIsStoreOp
  <2>3. ASSUME NEW merged, FinishPrepareImportMany(merged)
        PROVE  storeVars' = storeVars
    BY <2>3 DEF FinishPrepareImportMany, Prepared
  <2> QED
    BY <1>2, <2>1, <2>2, <2>3
    DEF FinishJob, FinishCheckoutOfHead, FinishPrepareCheckout, FinishPrepareRevert,
        FinishPrepareSquash, FinishPrepareImportLevelFrom, FinishInspect, FinishFinalizeImportMany,
        Prepared
<1>3. CASE JobFails
  BY <1>3 DEF JobFails
<1>4. CASE BeginJob
  <2>1. ASSUME NEW i \in Ids, NEW m \in Message, UpdateCommitMessage(i, m)
        PROVE  StoreNext
    BY <2>1, LastIdIsNat DEF UpdateCommitMessage, StoreNext, StoreOp, ServiceInv, TablesInv
  <2>2. ASSUME NEW k \in LevelKey, DeleteLevelAndClearCache(k)
        PROVE  StoreNext
    BY <2>2 DEF DeleteLevelAndClearCache, StoreNext, StoreOp
  <2>3. ASSUME NEW op, NEW k, NEW src, NEW head, NEW ids, NEW goals,
               Begin(op, k, src, head, ids, goals)
        PROVE  storeVars' = storeVars
    BY <2>3 DEF Begin
  <2>4. ASSUME NEW k \in LevelKey,
               \/ BeginCommit(k) \/ BeginInspect(k) \/ BeginImportMany(k)
               \/ \E target \in 1 .. lastId : BeginCheckout(k, target) \/ BeginRevert(k, target)
               \/ \E ids \in Selections(Ids) : BeginSquash(k, ids)
               \/ \E src \in LevelKey : BeginImportLevelFrom(k, src)
        PROVE  storeVars' = storeVars
    BY <2>3, <2>4 DEF BeginCommit, BeginInspect, BeginImportMany, BeginCheckout, BeginRevert,
                      BeginSquash, BeginImportLevelFrom
  <2> QED
    BY <1>4, <2>1, <2>2, <2>4 DEF BeginJob
<1>5. CASE FinalizeJob
  <2>1. PICK p \in pendings :
          \/ FinalizeCheckout(p) \/ FinalizeSquash(p) \/ BeginFinalizeImportMany(p)
          \/ p.kind = "replace" /\ \E f \in CopyMaps(p.src) : FinalizeImportLevelFrom(p, f)
          \/ DropPending(p)
    BY <1>5 DEF FinalizeJob
  <2>2. CASE FinalizeCheckout(p)
    <3>1. RecordOK(p.level, p.parent, p.reverts, p.delta, p.applied)
      BY <2>2, KindOfPending DEF FinalizeCheckout, ServiceInv, PendingHeadOK, PendingHead, RecordOK
    <3> QED
      BY <3>1, RecordIsStoreOp
  <2>3. CASE FinalizeSquash(p)
    <3>1. /\ p.level \in LevelKey /\ p.delta \in Blob
          /\ p.parent \in IdArgs(p.level) \cup {NoId} /\ p.ids \in Selections(IdArgs(p.level))
          /\ \E m \in Message, t \in Time : Squash(p.level, p.ids, p.parent, m, t, p.delta)
      BY <2>3, KindOfPending, ServiceAssumption
      DEF FinalizeSquash, ServiceInv, PendingSquashOK, PendingSquash
    <3> QED
      BY <3>1 DEF StoreNext, StoreOp
  <2>4. ASSUME p.kind = "replace", NEW f \in CopyMaps(p.src), FinalizeImportLevelFrom(p, f)
        PROVE  StoreNext
    <3>1. p.level \in LevelKey /\ p.src \in LevelKey /\ ReplaceLevelHistoryFrom(p.level, p.src, f)
      BY <2>4, KindOfPending DEF FinalizeImportLevelFrom, ServiceInv, PendingReplace
    <3> QED
      BY <3>1 DEF StoreNext, StoreOp
  <2> QED
    BY <2>1, <2>2, <2>3, <2>4 DEF BeginFinalizeImportMany, DropPending
<1>6. CASE Crash
  BY <1>6 DEF Crash, StoreNext
<1>7. CASE Restart
  BY <1>7 DEF Restart, StoreNext
<1>8. CASE UNCHANGED vars
  BY <1>8 DEF vars
<1> QED
  BY <1>1, <1>2, <1>3, <1>4, <1>5, <1>6, <1>7, <1>8 DEF Next, WorkerStep

\* Whatever order the jobs run in, each step of the service is a step of the store with arguments that
\* CommitStore.cpp was analysed for: so what is proved of the store holds below the service too.
THEOREM ServiceImplementsStore == Spec => ImplementsStore
<1>1. ServiceInv /\ [Next]_vars => [storeVars' = storeVars \/ StoreNext]_vars
  BY NextIsStoreStep
<1> QED
  BY <1>1, ServiceInvariant, PTL DEF Spec, ImplementsStore

\* So no level of the service ever keeps another from being deleted: the COMMIT of deleteLevel meets
\* no violated foreign key.
THEOREM ServiceLevelsDeletable == Spec => []EveryLevelDeletable
<1>1. Init => StoreInit
  BY DEF Init
<1>2. ServiceInv /\ [Next]_vars => [StoreNext]_storeVars
  BY NextIsStoreStep
<1>3. Spec => StoreSpec
  BY <1>1, <1>2, ServiceInvariant, PTL DEF Spec, StoreSpec
<1> QED
  BY <1>3, LevelsStayDeletable, PTL

-------------------------------------------------------------------------------
(***************************************************************************)
(* What the invariant of the service gives its user: every level can be    *)
(* loaded into another one, and the service implements History.            *)
(*                                                                         *)
(* That references have no cycle is not inductive either: a squash that    *)
(* was prepared long ago gives a new commit old children.  Ranks that rise *)
(* from parent to child and from reverted to reverting commit, also for    *)
(* commits that are gone and for squashes that are still to come, are.     *)
(***************************************************************************)

-------------------------------------------------------------------------------
(***************************************************************************)
(* What a step does to the tables and to the prepared operations           *)
(***************************************************************************)

RowsKept ==
    /\ UNCHANGED <<refs, lastId, snapshot, staleImport>> /\ Ids' = Ids
    /\ \A i \in Ids : /\ commits'[i].level = commits[i].level
                      /\ commits'[i].parent = commits[i].parent
                      /\ commits'[i].reverts = commits[i].reverts

Quiet == RowsKept /\ pendings' \subseteq pendings

PreparesOther ==
    RowsKept /\ \E p : pendings' = pendings \cup {p} /\ p.kind \in {"revert", "replace", "import"}

PreparesCheckout ==
    RowsKept /\ \E p : /\ pendings' = pendings \cup {p} /\ p.kind = "checkout"
                       /\ p.level \in LevelKey /\ p.reverts \in RowsOf(p.level)

PreparesSquash ==
    RowsKept /\ \E p : /\ pendings' = pendings \cup {p} /\ p.kind = "squash"
                       /\ p.level \in LevelKey /\ p.ids \in Selections(Ids)
                       /\ Contiguous(p.level, p.ids) /\ p.parent = commits[p.ids[1]].parent

\* commit, an entry of an import, and a finalized revert.
Writes ==
    /\ \E k \in LevelKey, s \in LevelState : \E p, r, d : RecordEffect(k, p, r, d, s)
    /\ pendings' \subseteq pendings /\ \A q \in pendings \ pendings' : q.kind = "revert"

ChecksOut ==
    /\ \E q \in pendings : /\ q.kind = "checkout" /\ PendingHeadOK(q)
                           /\ RecordEffect(q.level, q.parent, q.reverts, q.delta, q.applied)
    /\ pendings' \subseteq pendings

Squashes ==
    /\ \E q \in pendings : q.kind = "squash" /\ PendingSquashOK(q) /\ SquashEffect(q)
    /\ pendings' \subseteq pendings

Loads ==
    /\ \E dest, src \in LevelKey : \E f : LoadEffect(dest, src, f)
    /\ pendings' \subseteq pendings

Deletes == (\E k \in LevelKey : DeleteEffect(k)) /\ pendings' = pendings

StepCases ==
    \/ Quiet \/ PreparesOther \/ PreparesCheckout \/ PreparesSquash \/ Writes \/ ChecksOut
    \/ Squashes \/ Loads \/ Deletes

LEMMA UnchangedRows ==
    ASSUME UNCHANGED storeVars, UNCHANGED ghostVars
    PROVE  RowsKept
BY DEF storeVars, ghostVars, RowsKept, Ids

LEMMA RecordOKEffect ==
    ASSUME ServiceInv, NEW k, NEW p, NEW r, NEW d, NEW s, RecordOK(k, p, r, d, s)
    PROVE  k \in LevelKey /\ s \in LevelState /\ RecordEffect(k, p, r, d, s)
<1>1. /\ k \in LevelKey /\ p \in IdArgs(k) \cup {NoId} /\ r \in IdArgs(k) \cup {NoId}
      /\ d \in Delta /\ s \in LevelState /\ Record(k, p, r, d, s)
  BY DEF RecordOK
<1> QED
  BY <1>1, RecordFacts DEF ServiceInv

LEMMA FinishCases ==
    ASSUME ServiceInv, FinishJob
    PROVE  StepCases
<1>1. ASSUME NEW s \in Incoming, FinishCommit(s)
      PROVE  Writes
  <2>1. s \in LevelState /\ pendings' = pendings
    BY <1>1, ServiceAssumption DEF FinishCommit
  <2>2. PICK d : RecordOK(job.level, job.head, NoId, d, s)
    BY <1>1, <2>1, CommitRecords
  <2> QED
    BY <2>1, <2>2, RecordOKEffect DEF Writes
<1>2. CASE ImportNextEntry
  <2>1. pendings' = pendings
    BY <1>2 DEF ImportNextEntry
  <2>2. PICK p, d : RecordOK(job.level, p, NoId, d, job.batch[Len(job.minted) + 1].after)
    BY <1>2, EntryRecords
  <2> QED
    BY <2>1, <2>2, RecordOKEffect DEF Writes, StepCases
<1>3. CASE FinishCheckoutOfHead \/ FinishInspect \/ FinishFinalizeImportMany
  BY <1>3, UnchangedRows
  DEF FinishCheckoutOfHead, FinishInspect, FinishFinalizeImportMany, Quiet, StepCases
<1>4. CASE FinishPrepareCheckout
  <2> DEFINE p == [kind |-> "checkout", level |-> job.level, parent |-> job.head,
                   reverts |-> job.ids[1], delta |-> Diff(job.got[1], job.got[2]),
                   applied |-> job.got[2]]
  <2>1. /\ Reconstructed("checkout") /\ job.head # job.ids[1]
        /\ job.ids[1] \in Ids => commits[job.ids[1]].level = job.level
        /\ pendings' = pendings \cup {p} /\ UNCHANGED storeVars /\ UNCHANGED ghostVars
    BY <1>4 DEF FinishPrepareCheckout, Prepared
  <2>2. /\ JobArgsOK /\ job.op = "checkout" /\ job.level \in LevelKey
        /\ \A n \in 1 .. Len(job.goals) : job.goals[n] \in Ids
    BY <2>1, AllReconstructed
  <2>3. job.goals = <<job.head, job.ids[1]>>
    BY <2>1, <2>2 DEF JobArgsOK, CheckoutGoals
  <2>4. Len(job.goals) = 2 /\ 2 \in 1 .. 2 /\ job.goals[2] = job.ids[1]
    BY <2>3
  <2>5. job.ids[1] \in RowsOf(job.level)
    BY <2>1, <2>2, <2>4 DEF RowsOf
  <2>6. p.kind = "checkout" /\ p.level = job.level /\ p.reverts = job.ids[1]
    OBVIOUS
  <2> HIDE DEF p
  <2> QED
    BY <2>1, <2>2, <2>5, <2>6, UnchangedRows DEF PreparesCheckout, StepCases
<1>5. CASE FinishPrepareSquash
  <2> DEFINE base == commits[job.ids[1]].parent
             p == [kind |-> "squash", level |-> job.level, ids |-> job.ids, parent |-> base,
                   delta |-> Diff(SquashBase(base), SquashTarget), applied |-> SquashTarget]
  <2>1. /\ Reconstructed("squash") /\ pendings' = pendings \cup {p} /\ UNCHANGED storeVars
        /\ UNCHANGED ghostVars
    BY <1>5 DEF FinishPrepareSquash, Prepared
  <2>2. JobArgsOK /\ job.op = "squash" /\ job.level \in LevelKey
    BY <2>1, AllReconstructed
  <2>3. job.ids \in Selections(Ids) /\ Contiguous(job.level, job.ids)
    BY <2>2 DEF JobArgsOK
  <2>4. p.kind = "squash" /\ p.level = job.level /\ p.ids = job.ids /\ p.parent = base
    OBVIOUS
  <2> HIDE DEF p
  <2> QED
    BY <2>1, <2>2, <2>3, <2>4, UnchangedRows DEF PreparesSquash, StepCases
<1>6. ASSUME NEW p, p.kind \in {"revert", "replace", "import"}, Prepared(p)
      PROVE  StepCases
  BY <1>6, UnchangedRows DEF Prepared, PreparesOther, StepCases
<1>7. CASE FinishPrepareRevert
  BY <1>6, <1>7 DEF FinishPrepareRevert
<1>8. CASE FinishPrepareImportLevelFrom
  BY <1>6, <1>8 DEF FinishPrepareImportLevelFrom
<1>9. ASSUME NEW merged, FinishPrepareImportMany(merged)
      PROVE  StepCases
  BY <1>6, <1>9 DEF FinishPrepareImportMany
<1> QED
  BY <1>1, <1>2, <1>3, <1>4, <1>5, <1>7, <1>8, <1>9 DEF FinishJob, StepCases

LEMMA FinalizeCases ==
    ASSUME ServiceInv, FinalizeJob
    PROVE  StepCases
<1>1. PICK p \in pendings :
        \/ FinalizeCheckout(p) \/ FinalizeSquash(p) \/ BeginFinalizeImportMany(p)
        \/ p.kind = "replace" /\ \E f \in CopyMaps(p.src) : FinalizeImportLevelFrom(p, f)
        \/ DropPending(p)
  BY DEF FinalizeJob
<1>2. CASE FinalizeCheckout(p)
  <2>1. PendingHeadOK(p) /\ pendings' = pendings \ {p} /\ p.kind \in {"checkout", "revert"}
    BY <1>2, KindOfPending DEF FinalizeCheckout, ServiceInv
  <2>2. RecordOK(p.level, p.parent, p.reverts, p.delta, p.applied)
    BY <1>2, <2>1 DEF FinalizeCheckout, PendingHeadOK, PendingHead, RecordOK
  <2>3. /\ p.level \in LevelKey /\ p.applied \in LevelState
        /\ RecordEffect(p.level, p.parent, p.reverts, p.delta, p.applied)
    BY <2>2, RecordOKEffect
  <2>4. CASE p.kind = "checkout"
    BY <2>1, <2>3, <2>4 DEF ChecksOut, StepCases
  <2>5. CASE p.kind = "revert"
    BY <2>1, <2>3, <2>5 DEF Writes, StepCases
  <2> QED
    BY <2>1, <2>4, <2>5
<1>3. CASE FinalizeSquash(p)
  <2>1. PendingSquashOK(p) /\ p.kind = "squash" /\ pendings' \subseteq pendings
    BY <1>3, KindOfPending DEF FinalizeSquash, ServiceInv
  <2>2. SquashEffect(p)
    BY <1>3, <2>1, SquashFacts DEF FinalizeSquash, SquashStep, ServiceInv
  <2> QED
    BY <2>1, <2>2 DEF Squashes, StepCases
<1>4. ASSUME p.kind = "replace", NEW f \in CopyMaps(p.src), FinalizeImportLevelFrom(p, f)
      PROVE  StepCases
  <2>1. /\ p.level \in LevelKey /\ p.src \in LevelKey /\ LoadStep(p.level, p.src, f)
        /\ pendings' \subseteq pendings
    BY <1>4, KindOfPending DEF FinalizeImportLevelFrom, ServiceInv, PendingReplace, LoadStep
  <2>2. LoadEffect(p.level, p.src, f)
    BY <2>1, LoadFacts DEF ServiceInv
  <2> QED
    BY <2>1, <2>2 DEF Loads, StepCases
<1>5. CASE BeginFinalizeImportMany(p) \/ DropPending(p)
  BY <1>5, UnchangedRows DEF BeginFinalizeImportMany, DropPending, Quiet, StepCases
<1> QED
  BY <1>1, <1>2, <1>3, <1>4, <1>5

LEMMA BeginCases ==
    ASSUME ServiceInv, BeginJob
    PROVE  StepCases
<1>1. ASSUME NEW k \in LevelKey, DeleteLevelAndClearCache(k)
      PROVE  StepCases
  BY <1>1, DeleteFacts DEF DeleteLevelAndClearCache, ServiceInv, Deletes, StepCases
<1>2. ASSUME NEW i \in Ids, NEW m \in Message, UpdateCommitMessage(i, m)
      PROVE  StepCases
  <2>1. UpdateMessage(i, m) /\ UNCHANGED ghostVars /\ pendings' = pendings
    BY <1>2 DEF UpdateCommitMessage, memVars
  <2>2. RowsKept
    BY <2>1, MessageTables DEF ServiceInv, RowsKept
  <2> QED
    BY <2>1, <2>2 DEF Quiet, StepCases
<1>3. ASSUME NEW op, NEW k, NEW src, NEW head, NEW ids, NEW goals,
             Begin(op, k, src, head, ids, goals)
      PROVE  StepCases
  BY <1>3, UnchangedRows DEF Begin, Quiet, StepCases
<1>4. ASSUME NEW k \in LevelKey,
             \/ BeginCommit(k) \/ BeginInspect(k) \/ BeginImportMany(k)
             \/ \E target \in 1 .. lastId : BeginCheckout(k, target) \/ BeginRevert(k, target)
             \/ \E ids \in Selections(Ids) : BeginSquash(k, ids)
             \/ \E src \in LevelKey : BeginImportLevelFrom(k, src)
      PROVE  StepCases
  BY <1>3, <1>4 DEF BeginCommit, BeginInspect, BeginImportMany, BeginCheckout, BeginRevert,
                    BeginSquash, BeginImportLevelFrom
<1> QED
  BY <1>1, <1>2, <1>4 DEF BeginJob

LEMMA NextCases ==
    ASSUME ServiceInv, [Next]_vars
    PROVE  StepCases
<1>1. CASE Reconstruct \/ JobFails
  BY <1>1, UnchangedRows
  DEF Reconstruct, ReconstructStart, WalkHit, WalkUp, WalkMissing, ApplyDelta, ReconstructDone,
      WalkStep, JobFails, Quiet, StepCases
<1>2. CASE Crash \/ Restart
  BY <1>2 DEF Crash, CloseStore, Restart, InitStore, memVars, ghostVars, RowsKept, Ids, Quiet, StepCases
<1>3. CASE UNCHANGED vars
  BY <1>3, UnchangedRows DEF vars, memVars, Quiet, StepCases
<1> QED
  BY <1>1, <1>2, <1>3, FinishCases, BeginCases, FinalizeCases DEF Next, WorkerStep

-------------------------------------------------------------------------------
(***************************************************************************)
(* No cycle of parents and reverted commits                                *)
(***************************************************************************)

\* Parents and reverted commits have a lower rank, the parent of a squash too.
RanksRise(rank, rows) ==
    \A i \in DOMAIN rows : \A r \in {rows[i].parent, rows[i].reverts} : r # NoId => rank[r] < rank[i]
SquashesRise(rank, ps) ==
    \A p \in ps : p.kind = "squash" /\ p.parent # NoId => rank[p.parent] < rank[Newest(p.ids)]

Ranked(rank) ==
    rank \in [1 .. lastId -> Nat] /\ RanksRise(rank, commits) /\ SquashesRise(rank, pendings)
Acyclic == \E rank : Ranked(rank)

\* Rows and prepared squashes name ids that were handed out.
LEMMA IdsOfSquash ==
    ASSUME ServiceInv, NEW p \in pendings, p.kind = "squash"
    PROVE  Newest(p.ids) \in 1 .. lastId /\ p.parent \in 1 .. lastId \cup {NoId}
<1>1. PendingSquashOK(p) /\ lastId \in Nat
  BY KindOfPending, LastIdIsNat DEF ServiceInv, TablesInv
<1>2. Newest(p.ids) \in IdArgs(p.level) /\ p.parent \in IdArgs(p.level) \cup {NoId}
  BY <1>1, SelectionType DEF PendingSquashOK
<1> QED
  BY <1>1, <1>2, IdArgsBound

LEMMA IdsOfRow ==
    ASSUME ServiceInv
    PROVE  /\ lastId \in Nat /\ Ids \subseteq 1 .. lastId /\ \A i \in Ids : i \in Nat /\ i # NoId
           /\ \A i \in Ids : {commits[i].parent, commits[i].reverts} \subseteq Ids \cup {NoId}
BY LastIdIsNat DEF ServiceInv, TablesInv, StoreInv, ForeignKeysHold, Ids

\* Along a chain of parents ranks rise.
LEMMA RanksRiseAlongChain ==
    ASSUME ServiceInv, NEW rank, Ranked(rank), NEW k, NEW ids \in Selections(Ids), Contiguous(k, ids)
    PROVE  rank[ids[1]] <= rank[Newest(ids)]
<1> DEFINE T == {n \in 1 .. Len(ids) : ~ (rank[ids[1]] <= rank[ids[n]])}
<1>1. /\ Len(ids) \in Nat /\ Len(ids) >= 2 /\ DOMAIN ids = 1 .. Len(ids)
      /\ \A n \in 1 .. Len(ids) : ids[n] \in Ids
  BY SelectionType
<1>2. \A i \in Ids : rank[i] \in Nat
  BY IdsOfRow DEF Ranked
<1>3. T = {}
  <2> SUFFICES ASSUME T # {}
               PROVE  FALSE
    OBVIOUS
  <2>1. T \in SUBSET Nat
    BY <1>1
  <2>2. PICK n \in T : \A m \in T : n <= m
    BY <2>1, LeastNat
  <2>3. n \in 1 .. Len(ids) /\ ~ (rank[ids[1]] <= rank[ids[n]])
    BY <2>2
  <2>4. n # 1
    BY <2>3, <1>1, <1>2
  <2>5. n - 1 \in 1 .. Len(ids) /\ n \in 2 .. Len(ids) /\ ~ (n <= n - 1)
    BY <2>3, <2>4, <1>1
  <2>6. rank[ids[1]] <= rank[ids[n - 1]]
    BY <2>2, <2>5
  <2>7. commits[ids[n]].parent = ids[n - 1] /\ ids[n] \in Ids /\ ids[n - 1] \in Ids /\ ids[1] \in Ids
    BY <2>5, <1>1 DEF Contiguous
  <2>8. rank[ids[n - 1]] < rank[ids[n]]
    BY <2>7, IdsOfRow DEF Ranked, RanksRise, Ids
  <2> QED
    BY <2>3, <2>6, <2>7, <2>8, <1>2
<1>4. Len(ids) \in 1 .. Len(ids)
  BY <1>1
<1> QED
  BY <1>3, <1>4 DEF Newest

\* Steps that write no commit keep the ranks.
LEMMA KeepsRanks ==
    ASSUME ServiceInv, NEW rank, Ranked(rank), Quiet \/ PreparesOther \/ PreparesCheckout
    PROVE  Ranked(rank)'
<1>1. RowsKept /\ \A p \in pendings' : p \in pendings \/ p.kind # "squash"
  BY DEF Quiet, PreparesOther, PreparesCheckout
<1>2. rank \in [1 .. lastId' -> Nat] /\ RanksRise(rank, commits')
  BY <1>1 DEF Ranked, RowsKept, RanksRise, Ids
<1>3. SquashesRise(rank, pendings')
  BY <1>1 DEF Ranked, SquashesRise
<1> QED
  BY <1>2, <1>3 DEF Ranked

\* The parent of the oldest commit of a squash is below the newest.
LEMMA SquashRanks ==
    ASSUME ServiceInv, NEW rank, Ranked(rank), PreparesSquash
    PROVE  Ranked(rank)'
<1>1. PICK p : /\ pendings' = pendings \cup {p} /\ p.kind = "squash"
               /\ p.level \in LevelKey /\ p.ids \in Selections(Ids)
               /\ Contiguous(p.level, p.ids) /\ p.parent = commits[p.ids[1]].parent
  BY DEF PreparesSquash
<1>2. RowsKept
  BY DEF PreparesSquash
<1>3. rank \in [1 .. lastId' -> Nat] /\ RanksRise(rank, commits')
  BY <1>2 DEF Ranked, RowsKept, RanksRise, Ids
<1>4. rank[p.ids[1]] <= rank[Newest(p.ids)]
  BY <1>1, RanksRiseAlongChain
<1>5. p.ids[1] \in Ids /\ Newest(p.ids) \in Ids
  BY <1>1, SelectionType
<1>6. p.parent # NoId => rank[p.parent] < rank[p.ids[1]] /\ p.parent \in Ids
  BY <1>1, <1>5, IdsOfRow DEF Ranked, RanksRise, Ids
<1>7. \A i \in Ids : rank[i] \in Nat
  BY IdsOfRow DEF Ranked
<1>8. p.parent # NoId => rank[p.parent] < rank[Newest(p.ids)]
  BY <1>4, <1>5, <1>6, <1>7
<1>9. SquashesRise(rank, pendings')
  BY <1>1, <1>8 DEF Ranked, SquashesRise
<1> QED
  BY <1>3, <1>9 DEF Ranked

\* A new commit gets a rank above its parent and above what it reverts.
LEMMA WriteRanks ==
    ASSUME ServiceInv, NEW rank, Ranked(rank), NEW k, NEW p, NEW r, NEW d, NEW s,
           RecordEffect(k, p, r, d, s), pendings' \subseteq pendings
    PROVE  Acyclic'
<1> USE DEF RecordEffect
<1> DEFINE of(i) == IF i = NoId THEN 0 ELSE rank[i]
           new == of(p) + of(r) + 1
           rank2 == [i \in 1 .. lastId + 1 |-> IF i = lastId + 1 THEN new ELSE rank[i]]
<1>1. \A i \in Ids : rank[i] \in Nat /\ i \in 1 .. lastId /\ i # NoId
  BY IdsOfRow DEF Ranked
<1>2. of(p) \in Nat /\ of(r) \in Nat /\ new \in Nat /\ of(p) < new /\ of(r) < new
  BY <1>1
<1>3. rank2 \in [1 .. lastId' -> Nat]
  BY <1>2 DEF Ranked
<1>4. rank2[lastId + 1] = new /\ \A i \in 1 .. lastId : rank2[i] = rank[i]
  OBVIOUS
<1>5. \A i \in {p, r} : i # NoId => rank2[i] < new
  BY <1>1, <1>2, <1>4
<1> HIDE DEF new, rank2
<1>6. RanksRise(rank2, commits')
  <2> SUFFICES ASSUME NEW i \in Ids', NEW j \in {commits'[i].parent, commits'[i].reverts}, j # NoId
               PROVE  rank2[j] < rank2[i]
    BY DEF RanksRise, Ids
  <2>1. CASE i = lastId + 1
    BY <2>1, <1>4, <1>5
  <2>2. CASE i \in Ids
    <3>1. j \in Ids /\ j \in {commits[i].parent, commits[i].reverts}
      BY ZenonT(40), <2>2, IdsOfRow
    <3>2. rank[j] < rank[i]
      BY <2>2, <3>1 DEF Ranked, RanksRise, Ids
    <3> QED
      BY <2>2, <3>1, <3>2, <1>1, <1>4
  <2> QED
    BY <2>1, <2>2
<1>7. SquashesRise(rank2, pendings')
  <2> SUFFICES ASSUME NEW q \in pendings, q.kind = "squash", q.parent # NoId
               PROVE  rank2[q.parent] < rank2[Newest(q.ids)]
    BY DEF SquashesRise
  <2>1. rank[q.parent] < rank[Newest(q.ids)]
    BY DEF Ranked, SquashesRise
  <2> QED
    BY <2>1, <1>4, IdsOfSquash
<1> QED
  BY <1>3, <1>6, <1>7 DEF Acyclic, Ranked

\* The commit that replaces the squashed ones takes the rank of the newest of them.
LEMMA SquashStepRanks ==
    ASSUME ServiceInv, NEW rank, Ranked(rank), Squashes
    PROVE  Acyclic'
<1>1. PICK p \in pendings : p.kind = "squash" /\ PendingSquashOK(p) /\ SquashEffect(p)
  BY DEF Squashes
<1> USE <1>1 DEF SquashEffect
<1> DEFINE new == rank[Newest(p.ids)]
           rank2 == [i \in 1 .. lastId + 1 |-> IF i = lastId + 1 THEN new ELSE rank[i]]
<1>2. \A i \in 1 .. lastId : rank[i] \in Nat
  BY DEF Ranked
<1>3. new \in Nat /\ p.parent \in 1 .. lastId \cup {NoId} /\ Newest(p.ids) \in 1 .. lastId
  BY <1>2, IdsOfSquash
<1>4. p.parent # NoId => rank[p.parent] < new
  BY DEF Ranked, SquashesRise
<1>5. rank2 \in [1 .. lastId' -> Nat]
  BY <1>2, <1>3
<1>6. rank2[lastId + 1] = new /\ \A i \in 1 .. lastId : rank2[i] = rank[i]
  OBVIOUS
<1> HIDE DEF new, rank2
<1>7. RanksRise(rank2, commits')
  <2> SUFFICES ASSUME NEW i \in Ids', NEW j \in {commits'[i].parent, commits'[i].reverts}, j # NoId
               PROVE  rank2[j] < rank2[i]
    BY DEF RanksRise, Ids
  <2>1. CASE i = lastId + 1
    BY <2>1, <1>3, <1>4, <1>6
  <2>2. CASE i \in Ids \ Gone(p.ids)
    <3>1. \A m \in {commits[i].parent, commits[i].reverts} :
            m # NoId => m \in Ids /\ rank[m] < rank[i]
      BY <2>2, IdsOfRow DEF Ranked, RanksRise, Ids
    <3>2. rank2[i] = rank[i]
      BY <2>2, <1>6
    <3>3. CASE j \in {commits[i].parent, commits[i].reverts}
      BY <3>1, <3>2, <3>3, <1>6
    <3>4. CASE j = lastId + 1 /\ commits[i].parent = Newest(p.ids)
      <4>1. Newest(p.ids) # NoId
        BY <1>3 DEF NoId
      <4> QED
        BY <3>1, <3>2, <3>4, <4>1, <1>6 DEF new
    <3> QED
      BY <2>2, <3>3, <3>4
  <2> QED
    BY <2>1, <2>2
<1>8. SquashesRise(rank2, pendings')
  <2> SUFFICES ASSUME NEW q \in pendings, q.kind = "squash", q.parent # NoId
               PROVE  rank2[q.parent] < rank2[Newest(q.ids)]
    BY DEF SquashesRise, Squashes
  <2>1. rank[q.parent] < rank[Newest(q.ids)]
    BY DEF Ranked, SquashesRise
  <2> QED
    BY <2>1, <1>6, IdsOfSquash
<1> QED
  BY <1>5, <1>7, <1>8 DEF Acyclic, Ranked

\* A copy has the rank of the row that it is a copy of.
LEMMA LoadRanks ==
    ASSUME ServiceInv, NEW rank, Ranked(rank), Loads
    PROVE  Acyclic'
<1>1. PICK dest \in LevelKey, src \in LevelKey : \E f : LoadEffect(dest, src, f)
  BY DEF Loads
<1>0. PICK f : LoadEffect(dest, src, f)
  BY <1>1
<1> USE <1>0 DEF LoadEffect
<1> DEFINE origin(n) == CHOOSE i \in RowsOf(src) : f[i] = n
           rank2 == [n \in 1 .. lastId' |-> IF n \in 1 .. lastId THEN rank[n] ELSE rank[origin(n)]]
<1>2. \A i \in 1 .. lastId : rank[i] \in Nat
  BY DEF Ranked
<1>3. RowsOf(src) \subseteq Ids /\ \A i \in Ids : i \in 1 .. lastId /\ i # NoId
  BY IdsOfRow DEF RowsOf
<1>4. \A n \in lastId + 1 .. lastId' : origin(n) \in RowsOf(src)
  OBVIOUS
<1>5. \A i \in RowsOf(src) : origin(f[i]) = i
  OBVIOUS
<1> HIDE DEF origin
<1>6. \A n \in 1 .. lastId' : n \in 1 .. lastId \/ n \in lastId + 1 .. lastId'
  OBVIOUS
<1>7. rank2 \in [1 .. lastId' -> Nat]
  BY <1>2, <1>3, <1>4, <1>6
<1>8. \A i \in 1 .. lastId : rank2[i] = rank[i]
  OBVIOUS
<1>9. \A i \in RowsOf(src) : rank2[f[i]] = rank[i]
  <2>1. \A n \in lastId + 1 .. lastId' : n \in 1 .. lastId' /\ n \notin 1 .. lastId
    OBVIOUS
  <2> QED
    BY <2>1, <1>5
<1> HIDE DEF rank2
<1>10. \A i \in Ids : \A m \in {commits[i].parent, commits[i].reverts} :
         m # NoId => m \in Ids /\ rank[m] < rank[i]
  BY IdsOfRow DEF Ranked, RanksRise, Ids
<1>11. RanksRise(rank2, commits')
  <2> SUFFICES ASSUME NEW i \in Ids', NEW j \in {commits'[i].parent, commits'[i].reverts}, j # NoId
               PROVE  rank2[j] < rank2[i]
    BY DEF RanksRise, Ids
  <2>1. CASE i \in Ids \ RowsOf(dest)
    <3>1. j \in Ids /\ rank[j] < rank[i]
      BY <2>1, <1>10
    <3> QED
      BY <2>1, <3>1, <1>3, <1>8
  <2>2. ASSUME NEW o \in RowsOf(src), i = f[o]
        PROVE  rank2[j] < rank2[i]
    <3>1. PICK m \in {commits[o].parent, commits[o].reverts} : j = CopyOf(f, m)
      BY <2>2
    <3>2. m # NoId
      BY <3>1 DEF CopyOf
    <3>3. m \in RowsOf(src) /\ j = f[m] /\ rank[m] < rank[o]
      <4>1. {commits[o].parent, commits[o].reverts} \subseteq RowsOf(src) \cup {NoId}
        OBVIOUS
      <4>2. m \in RowsOf(src)
        BY ONLY <4>1, <3>1, <3>2
      <4>3. j = f[m]
        BY ONLY <3>1, <3>2 DEF CopyOf
      <4>4. rank[m] < rank[o]
        BY ONLY <3>1, <3>2, <1>3, <1>10, o \in RowsOf(src)
      <4> QED BY <4>2, <4>3, <4>4
    <3> QED
      BY <2>2, <3>3, <1>9
  <2> QED
    BY <2>1, <2>2
<1>12. SquashesRise(rank2, pendings')
  <2> SUFFICES ASSUME NEW q \in pendings, q.kind = "squash", q.parent # NoId
               PROVE  rank2[q.parent] < rank2[Newest(q.ids)]
    BY DEF SquashesRise, Loads
  <2>1. rank[q.parent] < rank[Newest(q.ids)]
    BY DEF Ranked, SquashesRise
  <2> QED
    BY <2>1, <1>8, IdsOfSquash
<1> QED
  BY <1>7, <1>11, <1>12 DEF Acyclic, Ranked

LEMMA DeleteRanks ==
    ASSUME NEW rank, Ranked(rank), Deletes
    PROVE  Ranked(rank)'
<1>1. lastId' = lastId /\ Ids' \subseteq Ids /\ \A i \in Ids' : commits'[i] = commits[i]
  BY DEF Deletes, DeleteEffect
<1>2. RanksRise(rank, commits')
  BY <1>1 DEF Ranked, RanksRise, Ids
<1> QED
  BY <1>1, <1>2 DEF Ranked, Deletes

LEMMA NextAcyclic ==
    ASSUME ServiceInv, Acyclic, [Next]_vars
    PROVE  Acyclic'
<1>1. PICK rank : Ranked(rank)
  BY DEF Acyclic
<1>2. StepCases
  BY NextCases
<1>3. CASE Writes
  BY <1>1, <1>3, WriteRanks DEF Writes
<1>4. CASE ChecksOut
  BY <1>1, <1>4, WriteRanks DEF ChecksOut
<1>5. CASE Quiet \/ PreparesOther \/ PreparesCheckout \/ PreparesSquash \/ Deletes
  <2>1. Ranked(rank)'
    BY <1>1, <1>5, KeepsRanks, SquashRanks, DeleteRanks
  <2> QED
    BY <2>1 DEF Acyclic
<1> QED
  BY <1>1, <1>2, <1>3, <1>4, <1>5, SquashStepRanks, LoadRanks DEF StepCases

LEMMA LoadableFromRanks ==
    ASSUME ServiceInv, Acyclic
    PROVE  EveryLevelLoadable
<1>1. PICK rank : Ranked(rank)
  BY DEF Acyclic
<1>2. \A i \in Ids : rank[i] \in Nat /\ i # NoId
  BY <1>1, IdsOfRow DEF Ranked
<1>3. \A i \in Ids : \A m \in {commits[i].parent, commits[i].reverts} : m # NoId => rank[m] < rank[i]
  BY <1>1 DEF Ranked, RanksRise, Ids
<1>4. ASSUME NEW S \in SUBSET Ids, S # {}
      PROVE  \E i \in S : commits[i].parent \notin S /\ commits[i].reverts \notin S
  <2> DEFINE T == {rank[i] : i \in S}
  <2>1. T \in SUBSET Nat /\ T # {}
    BY <1>2, <1>4
  <2>2. PICK n \in T : \A m \in T : n <= m
    BY <2>1, LeastNat
  <2>3. PICK i \in S : n = rank[i]
    BY <2>2
  <2>4. \A j \in S : rank[i] <= rank[j] /\ j # NoId /\ rank[j] \in Nat
    BY <1>2, <2>2, <2>3
  <2> HIDE DEF T
  <2>5. ASSUME NEW m \in {commits[i].parent, commits[i].reverts}, m \in S
        PROVE  FALSE
    BY <2>3, <2>4, <2>5, <1>3
  <2> QED
    BY <2>5
<1>5. ASSUME NEW k \in LevelKey, refs[k] # NoId
      PROVE  /\ refs[k] \in RowsOf(k)
             /\ \A i \in RowsOf(k) :
                  {commits[i].parent, commits[i].reverts} \subseteq RowsOf(k) \cup {NoId}
             /\ \A S \in (SUBSET RowsOf(k)) \ {{}} :
                  \E i \in S : commits[i].parent \notin S /\ commits[i].reverts \notin S
  <2>1. refs[k] \in RowsOf(k)
    BY <1>5, HeadIsRow DEF ServiceInv
  <2>2. \A i \in RowsOf(k) : {commits[i].parent, commits[i].reverts} \subseteq RowsOf(k) \cup {NoId}
    BY DEF ServiceInv, TablesInv, StoreInv, ReferencesInOwnLevel, RefersWithinLevel, RowsOf, Ids
  <2>3. \A S \in (SUBSET RowsOf(k)) \ {{}} : S \in SUBSET Ids /\ S # {}
    BY DEF RowsOf
  <2> QED
    BY <2>1, <2>2, <2>3, <1>4
<1> QED
  BY <1>5 DEF EveryLevelLoadable

\* In every reachable state there are such ranks.
LEMMA AcyclicInvariant == Spec => []Acyclic
<1>1. Init => Acyclic
  <2> SUFFICES ASSUME Init
               PROVE  Acyclic
    OBVIOUS
  <2>1. lastId = 0 /\ DOMAIN commits = {} /\ pendings = {} /\ 1 .. 0 = {}
    BY DEF Init, StoreInit
  <2>2. EmptyCache \in [{} -> Nat]
    BY DEF EmptyCache
  <2>3. Ranked(EmptyCache)
    BY <2>1, <2>2 DEF Ranked, RanksRise, SquashesRise
  <2> QED
    BY <2>3 DEF Acyclic
<1>2. ServiceInv /\ Acyclic /\ [Next]_vars => Acyclic'
  BY NextAcyclic
<1> QED
  BY <1>1, <1>2, ServiceInvariant, PTL DEF Spec

\* replaceLevelHistoryFrom finds a topological order of the rows of any level that has a HEAD: neither
\* squash, which gives new ids to old commits, nor a late finalize makes a cycle of parents and
\* reverted commits or a reference into another level.
THEOREM LevelsStayLoadable == Spec => []EveryLevelLoadable
<1>1. ServiceInv /\ Acyclic => EveryLevelLoadable
  BY LoadableFromRanks
<1> QED
  BY <1>1, AcyclicInvariant, ServiceInvariant, PTL

-------------------------------------------------------------------------------
(***************************************************************************)
(* The service implements History                                          *)
(***************************************************************************)

Current == [k \in LevelKey |-> IF refs[k] = NoId THEN Nil ELSE snapshot[refs[k]]]
Versions == [k \in LevelKey |-> {snapshot[i] : i \in RowsOf(k)}]
Promised == {q \in pendings : q.kind \in {"checkout", "squash"}}
Promises == {PromiseOf(p) : p \in Promised}

\* The commits that a promise is about were recorded.
LEMMA PromisesKnown ==
    ASSUME ServiceInv, NEW p \in Promised
    PROVE  /\ p.level \in LevelKey
           /\ p.kind = "checkout" => p.reverts \in 1 .. lastId /\ PendingHeadOK(p)
           /\ p.kind = "squash" =>
                /\ PendingSquashOK(p) /\ DOMAIN p.ids = 1 .. Len(p.ids) /\ Len(p.ids) \in Nat
                /\ Len(p.ids) >= 2 /\ \A n \in DOMAIN p.ids : p.ids[n] \in 1 .. lastId
<1>1. p \in pendings /\ lastId \in Nat /\ p.kind \in {"checkout", "squash"}
  BY LastIdIsNat DEF Promised, ServiceInv, TablesInv
<1>2. CASE p.kind = "checkout"
  BY <1>1, <1>2, KindOfPending, IdArgsBound DEF ServiceInv, PendingHeadOK, PendingHead
<1>3. CASE p.kind = "squash"
  <2>1. PendingSquashOK(p)
    BY <1>1, <1>3, KindOfPending DEF ServiceInv
  <2>2. p.level \in LevelKey /\ p.ids \in Selections(IdArgs(p.level))
    BY <2>1 DEF PendingSquashOK, PendingSquash
  <2>3. /\ DOMAIN p.ids = 1 .. Len(p.ids) /\ Len(p.ids) \in Nat /\ Len(p.ids) >= 2
        /\ \A n \in 1 .. Len(p.ids) : p.ids[n] \in IdArgs(p.level)
    BY <2>2, SelectionType
  <2> QED
    BY <2>1, <2>2, <2>3, <1>1, <1>3, IdArgsBound
<1> QED
  BY <1>1, <1>2, <1>3

PromiseFields(p, r) ==
    /\ r.level = p.level
    /\ p.kind = "checkout" => r.state = snapshot[p.reverts] /\ r.gone = {}
    /\ p.kind = "squash" => /\ r.state = snapshot[Newest(p.ids)]
                            /\ r.gone = {snapshot[p.ids[n]] : n \in DOMAIN p.ids}

LEMMA PromiseIs ==
    ASSUME NEW p, p.kind \in {"checkout", "squash"}
    PROVE  PromiseFields(p, PromiseOf(p))
<1> DEFINE one == <<p.reverts>>
<1>1. Len(one) = 1 /\ one[1] = p.reverts
  OBVIOUS
<1>2. CASE p.kind = "checkout"
  <2>1. PromiseOf(p) = [level |-> p.level, state |-> snapshot[one[Len(one)]], gone |-> {}]
    BY <1>2 DEF PromiseOf
  <2> QED
    BY <1>1, <1>2, <2>1 DEF PromiseFields
<1>3. CASE p.kind = "squash"
  <2>1. PromiseOf(p) = [level |-> p.level, state |-> snapshot[p.ids[Len(p.ids)]],
                        gone |-> {snapshot[p.ids[n]] : n \in DOMAIN p.ids}]
    BY <1>3 DEF PromiseOf
  <2> QED
    BY <1>3, <2>1 DEF PromiseFields, Newest
<1> QED
  BY <1>2, <1>3

\* What was promised stays what it is.
LEMMA PromiseKept ==
    ASSUME ServiceInv, NEW p \in Promised, \A i \in 1 .. lastId : snapshot'[i] = snapshot[i]
    PROVE  PromiseOf(p)' = PromiseOf(p)
<1>1. p.kind \in {"checkout", "squash"}
  BY DEF Promised
<1>2. CASE p.kind = "checkout"
  <2>1. snapshot'[p.reverts] = snapshot[p.reverts]
    BY <1>2, PromisesKnown
  <2> QED
    BY <1>2, <2>1 DEF PromiseOf
<1>3. CASE p.kind = "squash"
  <2>1. /\ \A n \in DOMAIN p.ids : snapshot'[p.ids[n]] = snapshot[p.ids[n]]
        /\ Len(p.ids) \in DOMAIN p.ids
    BY <1>3, PromisesKnown
  <2>2. {snapshot'[p.ids[n]] : n \in DOMAIN p.ids} = {snapshot[p.ids[n]] : n \in DOMAIN p.ids}
    BY <2>1
  <2>3. PromiseOf(p) = [level |-> p.level, state |-> snapshot[p.ids[Len(p.ids)]],
                        gone |-> {snapshot[p.ids[n]] : n \in DOMAIN p.ids}]
    BY <1>3 DEF PromiseOf
  <2>4. PromiseOf(p)' = [level |-> p.level, state |-> snapshot'[p.ids[Len(p.ids)]],
                         gone |-> {snapshot'[p.ids[n]] : n \in DOMAIN p.ids}]
    BY <1>3 DEF PromiseOf
  <2> QED
    BY <2>1, <2>2, <2>3, <2>4
<1> QED
  BY <1>1, <1>2, <1>3

HistoryStep == UNCHANGED AbstractHistory!historyVars \/ AbstractHistory!HistoryNext

LEMMA RowsKeptHistory ==
    ASSUME ServiceInv, RowsKept
    PROVE  UNCHANGED <<Current, Versions>>
<1>1. Current' = Current
  BY DEF RowsKept, Current, NoId
<1>2. \A k \in LevelKey : RowsOf(k)' = RowsOf(k)
  BY DEF RowsKept, RowsOf
<1>3. Versions' = Versions
  BY <1>2 DEF RowsKept, Versions
<1> QED
  BY <1>1, <1>3

LEMMA PromisesForgotten ==
    ASSUME ServiceInv, pendings' \subseteq pendings, \A i \in 1 .. lastId : snapshot'[i] = snapshot[i]
    PROVE  /\ Promises' \subseteq Promises
           /\ (\A q \in pendings \ pendings' : q.kind \notin {"checkout", "squash"}) => Promises' = Promises
<1>1. \A p \in Promised : PromiseOf(p)' = PromiseOf(p)
  BY PromiseKept
<1>2. Promised' \subseteq Promised
  BY DEF Promised
<1>3. (\A q \in pendings \ pendings' : q.kind \notin {"checkout", "squash"}) => Promised' = Promised
  BY DEF Promised
<1>4. Promises' = {PromiseOf(p)' : p \in Promised'}
  BY DEF Promises
<1> QED
  BY <1>1, <1>2, <1>3, <1>4 DEF Promises

LEMMA ForgetHistory ==
    ASSUME UNCHANGED <<Current, Versions>>, Promises' \subseteq Promises
    PROVE  HistoryStep
BY DEF HistoryStep, AbstractHistory!HistoryNext, AbstractHistory!Forget, Current, Versions, Promises,
       Promised

LEMMA QuietHistory ==
    ASSUME ServiceInv, Quiet
    PROVE  HistoryStep
<1>1. UNCHANGED <<Current, Versions>> /\ Promises' \subseteq Promises
  BY RowsKeptHistory, PromisesForgotten DEF Quiet, RowsKept
<1> QED
  BY <1>1, ForgetHistory

LEMMA PreparesOtherHistory ==
    ASSUME ServiceInv, PreparesOther
    PROVE  HistoryStep
<1>1. UNCHANGED <<Current, Versions>>
  BY RowsKeptHistory DEF PreparesOther
<1>2. Promised' = Promised
  BY DEF PreparesOther, Promised
<1>3. \A p \in Promised : PromiseOf(p)' = PromiseOf(p)
  BY PromiseKept DEF PreparesOther, RowsKept
<1>4. Promises' = Promises
  BY <1>2, <1>3 DEF Promises
<1> QED
  BY <1>1, <1>4, ForgetHistory

\* The steps of History, for the state that the service stands for.
LEMMA HistorySteps ==
    ASSUME \/ \E k \in LevelKey, s \in LevelState :
                /\ Current' = [Current EXCEPT ![k] = s]
                /\ Versions' = [Versions EXCEPT ![k] = @ \cup {s}]
                /\ Promises' = Promises
           \/ \E p \in Promises :
                /\ p.gone = {}
                /\ Current' = [Current EXCEPT ![p.level] = p.state]
                /\ Versions' = [Versions EXCEPT ![p.level] = @ \cup {p.state}]
                /\ Promises' \subseteq Promises
           \/ \E k \in LevelKey : \E s \in Versions[k] :
                /\ UNCHANGED <<Current, Versions>>
                /\ Promises' = Promises \cup {[level |-> k, state |-> s, gone |-> {}]}
           \/ \E k \in LevelKey : \E gone \in SUBSET Versions[k] : \E s \in gone :
                /\ UNCHANGED <<Current, Versions>>
                /\ Promises' = Promises \cup {[level |-> k, state |-> s, gone |-> gone]}
           \/ \E p \in Promises : \E lost \in SUBSET p.gone :
                /\ p.gone # {} /\ Current' = Current
                /\ Versions' = [Versions EXCEPT ![p.level] = (@ \ lost) \cup {p.state}]
                /\ Promises' \subseteq Promises
           \/ \E dest, src \in LevelKey :
                /\ Current' = [Current EXCEPT ![dest] = Current[src]]
                /\ Versions' = [Versions EXCEPT ![dest] = Versions[src]]
                /\ Promises' \subseteq Promises
           \/ \E k \in LevelKey :
                /\ Current' = [Current EXCEPT ![k] = Nil]
                /\ Versions' = [Versions EXCEPT ![k] = {}]
                /\ Promises' = Promises
    PROVE  HistoryStep
BY DEF HistoryStep, AbstractHistory!HistoryNext, AbstractHistory!Forget, AbstractHistory!Record,
       AbstractHistory!Checkout, AbstractHistory!PrepareCheckout, AbstractHistory!PrepareSquash,
       AbstractHistory!Squash, AbstractHistory!Load, AbstractHistory!Delete,
       Current, Versions, Promises, Promised

\* A commit of a level adds a version to it and makes it current.
LEMMA RecordHistory ==
    ASSUME ServiceInv, NEW k \in LevelKey, NEW p, NEW r, NEW d, NEW s, RecordEffect(k, p, r, d, s)
    PROVE  /\ Current' = [Current EXCEPT ![k] = Norm(s)]
           /\ Versions' = [Versions EXCEPT ![k] = @ \cup {Norm(s)}]
<1> USE DEF RecordEffect
<1>1. \A l \in LevelKey : refs[l] \in Ids \cup {NoId} /\ refs[l] \in Nat /\ refs[l] # lastId + 1
  BY HeadIsRow DEF RowsOf, ServiceInv, NoId
<1>2. Current' = [Current EXCEPT ![k] = Norm(s)]
  <2>1. Current' = [l \in LevelKey |-> IF refs'[l] = NoId THEN Nil ELSE snapshot'[refs'[l]]]
    BY DEF Current, NoId
  <2>2. lastId + 1 # NoId
    BY DEF NoId
  <2> QED
    BY <1>1, <2>1, <2>2 DEF Current
<1>3. \A l \in LevelKey : RowsOf(l)' = IF l = k THEN RowsOf(l) \cup {lastId + 1} ELSE RowsOf(l)
  BY DEF RowsOf
<1>4. \A l \in LevelKey : \A i \in RowsOf(l) : snapshot'[i] = snapshot[i]
  BY DEF RowsOf
<1>5. \A l \in LevelKey : {snapshot'[i] : i \in RowsOf(l)'} =
                          IF l = k THEN {snapshot[i] : i \in RowsOf(l)} \cup {Norm(s)}
                          ELSE {snapshot[i] : i \in RowsOf(l)}
  BY <1>3, <1>4
<1>6. Versions' = [l \in LevelKey |-> {snapshot'[i] : i \in RowsOf(l)'}]
  BY DEF Versions
<1> QED
  BY <1>2, <1>5, <1>6 DEF Versions

LEMMA WritesHistory ==
    ASSUME ServiceInv, Writes
    PROVE  HistoryStep
<1>0. PICK k \in LevelKey, s \in LevelState : \E p, r, d : RecordEffect(k, p, r, d, s)
  BY DEF Writes
<1>1. PICK p, r, d : RecordEffect(k, p, r, d, s)
  BY <1>0
<1>2. Promises' = Promises
  BY <1>1, PromisesForgotten DEF Writes, RecordEffect
<1>3. Norm(s) \in LevelState
  BY NormType
<1> QED
  BY <1>1, <1>2, <1>3, RecordHistory, HistorySteps

\* A finalized checkout brings back the version that was picked.
LEMMA ChecksOutHistory ==
    ASSUME ServiceInv, ~staleImport, ChecksOut
    PROVE  HistoryStep
<1>1. PICK q \in pendings : /\ q.kind = "checkout" /\ PendingHeadOK(q)
                            /\ RecordEffect(q.level, q.parent, q.reverts, q.delta, q.applied)
  BY DEF ChecksOut
<1>2. Promises' \subseteq Promises
  BY <1>1, PromisesForgotten DEF ChecksOut, RecordEffect
<1>3. q \in Promised /\ PromiseOf(q) \in Promises /\ PromiseFields(q, PromiseOf(q))
  BY <1>1, PromiseIs DEF Promised, Promises
<1>4. q.level \in LevelKey /\ Norm(q.applied) = snapshot[q.reverts]
  BY <1>1, <1>3, PromisesKnown DEF PendingHeadOK, SameState, ServiceInv, TablesInv, SnapshotsNormal
<1>5. /\ PromiseOf(q).gone = {} /\ PromiseOf(q).level = q.level
      /\ PromiseOf(q).state = Norm(q.applied)
  BY <1>1, <1>3, <1>4 DEF PromiseFields
<1>6. /\ Current' = [Current EXCEPT ![q.level] = Norm(q.applied)]
      /\ Versions' = [Versions EXCEPT ![q.level] = @ \cup {Norm(q.applied)}]
  BY <1>1, <1>4, RecordHistory
<1> QED
  BY <1>2, <1>3, <1>5, <1>6, HistorySteps

LEMMA PreparesCheckoutHistory ==
    ASSUME ServiceInv, PreparesCheckout
    PROVE  HistoryStep
<1>1. PICK p : /\ pendings' = pendings \cup {p} /\ p.kind = "checkout"
               /\ p.level \in LevelKey /\ p.reverts \in RowsOf(p.level)
  BY DEF PreparesCheckout
<1>2. RowsKept /\ UNCHANGED <<Current, Versions>>
  BY RowsKeptHistory DEF PreparesCheckout
<1>3. Promised' = Promised \cup {p} /\ snapshot' = snapshot
  BY <1>1, <1>2 DEF Promised, RowsKept
<1>4. \A q \in Promised : PromiseOf(q)' = PromiseOf(q)
  BY <1>3, PromiseKept
<1> DEFINE s == snapshot[p.reverts]
<1>5. PromiseOf(p)' = [level |-> p.level, state |-> s, gone |-> {}]
  <2> DEFINE one == <<p.reverts>>
  <2>1. Len(one) = 1 /\ one[1] = p.reverts
    OBVIOUS
  <2>2. PromiseOf(p)' = [level |-> p.level, state |-> snapshot'[one[Len(one)]], gone |-> {}]
    BY <1>1 DEF PromiseOf
  <2> QED
    BY <2>1, <2>2, <1>3
<1>6. s \in Versions[p.level]
  BY <1>1 DEF Versions
<1>7. Promises' = Promises \cup {[level |-> p.level, state |-> s, gone |-> {}]}
  BY <1>3, <1>4, <1>5 DEF Promises
<1> HIDE DEF s
<1> QED
  BY <1>1, <1>2, <1>6, <1>7, HistorySteps

LEMMA PreparesSquashHistory ==
    ASSUME ServiceInv, PreparesSquash
    PROVE  HistoryStep
<1>1. PICK p : /\ pendings' = pendings \cup {p} /\ p.kind = "squash"
               /\ p.level \in LevelKey /\ p.ids \in Selections(Ids) /\ Contiguous(p.level, p.ids)
  BY DEF PreparesSquash
<1>2. RowsKept /\ UNCHANGED <<Current, Versions>>
  BY RowsKeptHistory DEF PreparesSquash
<1>3. Promised' = Promised \cup {p} /\ snapshot' = snapshot
  BY <1>1, <1>2 DEF Promised, RowsKept
<1>4. \A q \in Promised : PromiseOf(q)' = PromiseOf(q)
  BY <1>3, PromiseKept
<1> DEFINE gone == {snapshot[p.ids[n]] : n \in DOMAIN p.ids}
           s == snapshot[p.ids[Len(p.ids)]]
<1>5. PromiseOf(p)' = [level |-> p.level, state |-> s, gone |-> gone]
  BY <1>1, <1>3 DEF PromiseOf
<1>6. Len(p.ids) \in DOMAIN p.ids
  BY <1>1, SelectionType
<1>7. gone \in SUBSET Versions[p.level] /\ s \in gone
  BY <1>1, <1>6 DEF Versions, Contiguous
<1>8. Promises' = Promises \cup {[level |-> p.level, state |-> s, gone |-> gone]}
  BY <1>3, <1>4, <1>5 DEF Promises
<1> HIDE DEF s, gone
<1> QED
  BY <1>1, <1>2, <1>7, <1>8, HistorySteps

\* A finalized squash leaves HEAD what it was and loses only versions that were selected.
LEMMA SquashesHistory ==
    ASSUME ServiceInv, ~staleImport, Squashes
    PROVE  HistoryStep
<1>1. PICK q \in pendings : q.kind = "squash" /\ PendingSquashOK(q) /\ SquashEffect(q)
  BY DEF Squashes
<1>2. q \in Promised /\ PromiseOf(q) \in Promises /\ PromiseFields(q, PromiseOf(q))
  BY <1>1, PromiseIs DEF Promised, Promises
<1>3. /\ q.level \in LevelKey /\ DOMAIN q.ids = 1 .. Len(q.ids) /\ Len(q.ids) \in Nat
      /\ Len(q.ids) \in DOMAIN q.ids
  BY <1>1, <1>2, PromisesKnown
<1> DEFINE k == q.level
           new == snapshot[Newest(q.ids)]
           gone == {snapshot[q.ids[n]] : n \in DOMAIN q.ids}
<1>4. PromiseOf(q).level = k /\ PromiseOf(q).state = new /\ PromiseOf(q).gone = gone
  BY <1>1, <1>2 DEF PromiseFields
<1>5. gone # {}
  BY <1>3
<1>6. gone = {snapshot[i] : i \in Gone(q.ids)}
  BY DEF Gone
<1> USE <1>1 DEF SquashEffect
<1>7. Promises' \subseteq Promises
  BY PromisesForgotten DEF Squashes
<1>8. snapshot'[lastId + 1] = new
  BY DEF PendingSquashOK, SameState, ServiceInv, TablesInv, SnapshotsNormal
<1>9. \A l \in LevelKey : refs[l] # NoId => refs[l] \in RowsOf(l) /\ refs[l] \in 1 .. lastId
  BY HeadIsRow DEF RowsOf, ServiceInv
<1>10. Current' = Current
  <2>1. Current' = [l \in LevelKey |-> IF refs'[l] = NoId THEN Nil ELSE snapshot'[refs'[l]]]
    BY DEF Current, NoId
  <2>2. ASSUME NEW l \in LevelKey, refs'[l] = refs[l]
        PROVE  (IF refs'[l] = NoId THEN Nil ELSE snapshot'[refs'[l]]) =
               (IF refs[l] = NoId THEN Nil ELSE snapshot[refs[l]])
    BY <1>9, <2>2
  <2>3. ASSUME NEW l \in LevelKey, refs'[l] # refs[l]
        PROVE  /\ refs'[l] # NoId /\ refs[l] # NoId
               /\ snapshot'[refs'[l]] = snapshot[refs[l]]
    <3>1. l = k /\ refs[l] \in Gone(q.ids) /\ refs'[l] = lastId + 1
      BY <2>3, <1>3
    <3>2. refs[l] # NoId
      BY <3>1 DEF NoId
    <3>3. PICK n \in 1 .. Len(q.ids) : refs[l] = q.ids[n]
      BY <3>1, <1>3 DEF Gone
    <3>4. n = Len(q.ids)
      BY <3>1, <3>2, <3>3, <1>3 DEF PendingSquashOK
    <3>5. snapshot[refs[l]] = new
      BY <3>3, <3>4 DEF Newest
    <3> QED
      BY <3>1, <3>2, <3>5, <1>8 DEF NoId
  <2> QED
    BY <2>1, <2>2, <2>3 DEF Current
<1>11. \A l \in LevelKey :
         RowsOf(l)' = IF l = k THEN (RowsOf(l) \ Gone(q.ids)) \cup {lastId + 1} ELSE RowsOf(l)
  <2>1. \A i \in Gone(q.ids) : i \in Ids => commits[i].level = k
    BY DEF IdArgs
  <2>2. \A l \in LevelKey : RowsOf(l)' = {i \in Ids' : commits'[i].level = l}
    BY DEF RowsOf
  <2> QED
    BY <2>1, <2>2 DEF RowsOf
<1>12. \A i \in Ids : snapshot'[i] = snapshot[i]
  OBVIOUS
<1> HIDE <1>1 DEF SquashEffect
<1> DEFINE before(l) == {snapshot[i] : i \in RowsOf(l)}
           after(l) == {snapshot'[i] : i \in RowsOf(l)'}
           lost == before(k) \ after(k)
<1>13. \A l \in LevelKey : RowsOf(l) \subseteq Ids
  BY DEF RowsOf
<1>14. ASSUME NEW l \in LevelKey, l # k
       PROVE  after(l) = before(l)
  <2>1. RowsOf(l)' = RowsOf(l)
    BY <1>11, <1>14
  <2> QED
    BY <2>1, <1>12, <1>13
<1>15. after(k) = {snapshot[i] : i \in RowsOf(k) \ Gone(q.ids)} \cup {new}
  <2>1. RowsOf(k)' = (RowsOf(k) \ Gone(q.ids)) \cup {lastId + 1}
    BY <1>3, <1>11
  <2>2. \A i \in RowsOf(k) \ Gone(q.ids) : snapshot'[i] = snapshot[i]
    BY <1>3, <1>12, <1>13
  <2> QED
    BY <2>1, <2>2, <1>8
<1>16. lost \in SUBSET gone
  BY <1>6, <1>15
<1>17. after(k) = (before(k) \ lost) \cup {new}
  BY <1>15
<1>18. Versions' = [l \in LevelKey |-> after(l)] /\ Versions = [l \in LevelKey |-> before(l)]
  BY DEF Versions
<1> HIDE DEF before, after, lost, new, gone
<1>19. Versions' = [Versions EXCEPT ![k] = (@ \ lost) \cup {new}]
  BY <1>3, <1>14, <1>17, <1>18
<1> QED
  BY <1>2, <1>4, <1>5, <1>7, <1>10, <1>16, <1>19, HistorySteps

\* A loaded level has the versions of its source and the same one is current.
LEMMA LoadsHistory ==
    ASSUME ServiceInv, Loads
    PROVE  HistoryStep
<1>1. PICK dest \in LevelKey, src \in LevelKey : \E f : LoadEffect(dest, src, f)
  BY DEF Loads
<1>2. PICK f : LoadEffect(dest, src, f)
  BY <1>1
<1> USE <1>2 DEF LoadEffect
<1>3. Promises' \subseteq Promises
  BY PromisesForgotten DEF Loads
<1>4. \A l \in LevelKey : refs[l] # NoId => refs[l] \in RowsOf(l) /\ refs[l] \in 1 .. lastId
  BY HeadIsRow DEF RowsOf, ServiceInv
<1>5. \A i \in RowsOf(src) : f[i] \in Nat /\ f[i] # NoId /\ f[i] > lastId
  BY DEF NoId
<1>6. refs[src] # NoId /\ refs[src] \in RowsOf(src)
  BY IdsOfRow DEF RowsOf
<1>7. Current' = [Current EXCEPT ![dest] = Current[src]]
  <2>1. Current' = [l \in LevelKey |-> IF refs'[l] = NoId THEN Nil ELSE snapshot'[refs'[l]]]
    BY DEF Current, NoId
  <2>2. refs'[dest] # NoId /\ snapshot'[refs'[dest]] = snapshot[refs[src]]
    BY <1>5, <1>6
  <2>3. \A l \in LevelKey : l # dest => /\ refs'[l] = refs[l]
                                        /\ refs[l] # NoId => snapshot'[refs[l]] = snapshot[refs[l]]
    BY <1>4
  <2> QED
    BY <1>6, <2>1, <2>2, <2>3 DEF Current
<1>8. \A l \in LevelKey :
        RowsOf(l)' = IF l = dest THEN {f[i] : i \in RowsOf(src)} ELSE RowsOf(l)
  <2>1. \A l \in LevelKey : RowsOf(l)' = {i \in Ids' : commits'[i].level = l}
    BY DEF RowsOf
  <2>2. \A l \in LevelKey : l # dest => RowsOf(l) \subseteq Ids \ RowsOf(dest)
    BY DEF RowsOf
  <2>3. \A i \in Ids \ RowsOf(dest) : commits'[i].level # dest
    BY DEF RowsOf
  <2>4. RowsOf(dest)' = {f[i] : i \in RowsOf(src)}
    <3>1. RowsOf(dest)' = {i \in Ids' : commits'[i].level = dest}
      BY <2>1
    <3>2. \A i \in RowsOf(src) : f[i] \in Ids' /\ commits'[f[i]].level = dest
      OBVIOUS
    <3>3. \A i \in Ids' : commits'[i].level = dest => i \in {f[j] : j \in RowsOf(src)}
      BY <2>3
    <3> HIDE <1>2 DEF LoadEffect
    <3> QED
      BY <3>1, <3>2, <3>3
  <2>5. ASSUME NEW l \in LevelKey, l # dest
        PROVE  RowsOf(l)' = RowsOf(l)
    <3>1. \A i \in RowsOf(src) : commits'[f[i]].level # l
      BY <2>5
    <3>2. \A i \in Ids \ RowsOf(dest) : commits'[i].level = l <=> i \in RowsOf(l)
      BY DEF RowsOf
    <3>3. RowsOf(l)' = {i \in Ids' : commits'[i].level = l}
      BY <2>1
    <3>4. \A i \in Ids' : commits'[i].level = l => i \in RowsOf(l)
      BY <3>1, <3>2
    <3>5. \A i \in RowsOf(l) : i \in Ids' /\ commits'[i].level = l
      BY <2>2, <2>5, <3>2
    <3> HIDE <1>2 DEF LoadEffect
    <3> QED
      BY <3>3, <3>4, <3>5
  <2> QED
    BY <2>4, <2>5
<1>9. \A l \in LevelKey : {snapshot'[i] : i \in RowsOf(l)'} =
                          IF l = dest THEN {snapshot[i] : i \in RowsOf(src)}
                          ELSE {snapshot[i] : i \in RowsOf(l)}
  <2>1. \A l \in LevelKey : \A i \in RowsOf(l) : snapshot'[i] = snapshot[i]
    BY DEF RowsOf
  <2> QED
    BY <1>8, <2>1
<1>10. Versions' = [l \in LevelKey |-> {snapshot'[i] : i \in RowsOf(l)'}]
  BY DEF Versions
<1>11. Versions' = [Versions EXCEPT ![dest] = Versions[src]]
  BY ZenonT(40), <1>9, <1>10 DEF Versions
<1> QED
  BY <1>3, <1>7, <1>11, HistorySteps

LEMMA DeletesHistory ==
    ASSUME ServiceInv, Deletes
    PROVE  HistoryStep
<1>1. PICK k \in LevelKey : DeleteEffect(k)
  BY DEF Deletes
<1> USE <1>1 DEF DeleteEffect
<1>2. Promises' = Promises
  BY PromisesForgotten DEF Deletes
<1>3. Current' = [Current EXCEPT ![k] = Nil]
  BY DEF Current, NoId
<1>4. \A l \in LevelKey : RowsOf(l)' = IF l = k THEN {} ELSE RowsOf(l)
  BY DEF RowsOf
<1>5. Versions' = [l \in LevelKey |-> {snapshot'[i] : i \in RowsOf(l)'}]
  BY DEF Versions
<1>6. \A l \in LevelKey : {snapshot'[i] : i \in RowsOf(l)'} =
                          IF l = k THEN {} ELSE {snapshot[i] : i \in RowsOf(l)}
  <2>1. snapshot' = snapshot
    OBVIOUS
  <2> HIDE <1>1 DEF DeleteEffect
  <2>2. ASSUME NEW l \in LevelKey, l = k
        PROVE  {snapshot'[i] : i \in RowsOf(l)'} = {}
    BY <2>2, <1>4
  <2>3. ASSUME NEW l \in LevelKey, l # k
        PROVE  {snapshot'[i] : i \in RowsOf(l)'} = {snapshot[i] : i \in RowsOf(l)}
    <3>1. RowsOf(l)' = RowsOf(l)
      BY <2>3, <1>4
    <3> QED
      BY <3>1, <2>1
  <2> QED
    BY <2>2, <2>3
<1>7. Versions' = [Versions EXCEPT ![k] = {}]
  BY <1>5, <1>6 DEF Versions
<1> QED
  BY <1>2, <1>3, <1>7, HistorySteps

LEMMA NextHistory ==
    ASSUME ServiceInv, [Next]_vars, ~staleImport'
    PROVE  HistoryStep
<1>1. ~staleImport
  BY NextInv DEF Grows
<1> QED
  BY <1>1, NextCases, QuietHistory, PreparesOtherHistory, PreparesCheckoutHistory,
     PreparesSquashHistory, WritesHistory, ChecksOutHistory, SquashesHistory, LoadsHistory,
     DeletesHistory
  DEF StepCases

\* GitService keeps the promises of History, for any levels, states and order of jobs, up to the first
\* load whose source had moved on since prepareImportLevelFrom: no step changes a version of a level
\* that it does not write, finalizeCheckout brings back the version that was picked, and
\* finalizeSquash keeps HEAD and loses only versions that it selected.
THEOREM ServiceImplementsHistory == Spec => ImplementsHistory
<1>1. Init => AbstractHistory!HistoryInit
  <2> SUFFICES ASSUME Init
               PROVE  AbstractHistory!HistoryInit
    OBVIOUS
  <2>1. \A k \in LevelKey : refs[k] = NoId /\ RowsOf(k) = {}
    BY DEF Init, StoreInit, RowsOf, Ids
  <2>2. pendings = {}
    BY DEF Init
  <2> QED
    BY <2>1, <2>2 DEF AbstractHistory!HistoryInit
<1>2. ServiceInv /\ [Next]_vars => [~staleImport' => \/ UNCHANGED AbstractHistory!historyVars
                                                     \/ AbstractHistory!HistoryNext]_vars
  BY NextHistory DEF HistoryStep
<1> QED
  BY <1>1, <1>2, ServiceInvariant, PTL DEF Spec, ImplementsHistory

-------------------------------------------------------------------------------
(***************************************************************************)
(* Packages                                                                *)
(***************************************************************************)

\* The order of list is a strict order of the rows, and total.
LEMMA ListIsOrdered ==
    ASSUME StoreTypeOK
    PROVE  /\ \A i \in Ids : ~ListedBefore(i, i)
           /\ \A i, j \in Ids : i # j => ListedBefore(i, j) \/ ListedBefore(j, i)
           /\ \A i, j, l \in Ids : ListedBefore(i, j) /\ ListedBefore(j, l) => ListedBefore(i, l)
<1>1. ASSUME NEW i \in Ids
      PROVE  i \in Nat /\ commits[i].createdAt \in Nat
  <2>1. commits[i] \in Row
    BY DEF StoreTypeOK
  <2>2. commits[i].createdAt \in Nat
    BY <2>1, StoreAssumption DEF Row
  <2>3. i \in 1 .. lastId
    BY DEF StoreTypeOK
  <2> QED
    BY <2>2, <2>3
<1> QED
  BY <1>1 DEF ListedBefore

\* indexById numbers the rows of a level from first to last, each number once.
LEMMA IndexesGiven ==
    ASSUME StoreTypeOK, NEW k
    PROVE  /\ IsFiniteSet(RowsOf(k)) /\ Cardinality(RowsOf(k)) \in Nat
           /\ \A i \in RowsOf(k) : CommitIndex(k, i) \in 1 .. Cardinality(RowsOf(k))
           /\ \A i, j \in RowsOf(k) : CommitIndex(k, i) = CommitIndex(k, j) => i = j
           /\ \A n \in 1 .. Cardinality(RowsOf(k)) : \E i \in RowsOf(k) : CommitIndex(k, i) = n
<1> DEFINE R == RowsOf(k)
           N == Cardinality(R)
           older(i) == {j \in R : ListedBefore(i, j)}
           at == [i \in R |-> CommitIndex(k, i)]
<1>1. R \subseteq Ids /\ IsFiniteSet(R) /\ N \in Nat
  <2>1. IsFiniteSet(1 .. lastId)
    BY FS_Interval DEF StoreTypeOK
  <2>2. R \subseteq 1 .. lastId
    BY DEF RowsOf, StoreTypeOK
  <2> QED
    BY <2>1, <2>2, FS_Subset, RowsOfFinite DEF RowsOf
<1>2. \A i \in R : CommitIndex(k, i) = Cardinality(older(i)) + 1
  BY DEF CommitIndex
<1>3. \A i \in R : i \notin older(i) /\ older(i) \in SUBSET R
  BY <1>1, ListIsOrdered
<1>4. \A i, j \in R : ListedBefore(i, j) => older(j) \subseteq older(i) /\ older(j) # older(i)
  <2> TAKE i, j \in R
  <2> HAVE ListedBefore(i, j)
  <2>1. j \in older(i) /\ j \notin older(j)
    BY <1>3
  <2>2. older(j) \subseteq older(i)
    BY <1>1, ListIsOrdered
  <2> QED
    BY <2>1, <2>2
<1> HIDE DEF R, N, older
<1>5. \A i \in R : IsFiniteSet(older(i)) /\ Cardinality(older(i)) \in Nat
  BY <1>1, <1>3, FS_Subset, FS_CardinalityType
<1>6. ASSUME NEW i \in R PROVE Cardinality(older(i)) < N
  <2>1. Cardinality(older(i)) <= N /\ (N = Cardinality(older(i)) => R = older(i))
    BY <1>1, <1>3, FS_Subset DEF N
  <2>2. R # older(i)
    BY <1>3
  <2> QED
    BY <2>1, <2>2, <1>1, <1>5
<1>7. ASSUME NEW i \in R, NEW j \in R, ListedBefore(i, j) PROVE Cardinality(older(j)) < Cardinality(older(i))
  <2>1. older(j) \in SUBSET older(i) /\ older(j) # older(i)
    BY <1>4, <1>7
  <2>2. Cardinality(older(j)) <= Cardinality(older(i))
        /\ (Cardinality(older(i)) = Cardinality(older(j)) => older(i) = older(j))
    BY <1>5, <2>1, FS_Subset
  <2> QED
    BY <1>5, <2>1, <2>2
<1>8. \A i \in R : CommitIndex(k, i) \in 1 .. N
  BY <1>1, <1>2, <1>5, <1>6
<1>9. ASSUME NEW i \in R, NEW j \in R, CommitIndex(k, i) = CommitIndex(k, j) PROVE i = j
  <2> SUFFICES ASSUME i # j PROVE FALSE
    OBVIOUS
  <2>1. ListedBefore(i, j) \/ ListedBefore(j, i)
    BY <1>1, ListIsOrdered
  <2>2. Cardinality(older(i)) # Cardinality(older(j))
    BY <2>1, <1>5, <1>7
  <2> QED
    BY <1>2, <1>5, <1>9, <2>2
<1>10. at \in [R -> 1 .. N] /\ \A i, j \in R : at[i] = at[j] => i = j
  BY <1>8, <1>9
<1>11. IsFiniteSet(1 .. N) /\ Cardinality(1 .. N) = N
  <2>1. 1 \in Int /\ N \in Int /\ N >= 0
    BY <1>1
  <2>2. IsFiniteSet(1 .. N) /\ Cardinality(1 .. N) = IF 1 > N THEN 0 ELSE N - 1 + 1
    BY <2>1, FS_Interval
  <2> QED
    BY <2>1, <2>2
<1> HIDE DEF at
<1>12. at \in Injection(R, 1 .. N)
  BY <1>10 DEF Injection, IsInjective
<1>13. at \in Surjection(R, 1 .. N)
  BY <1>11, <1>12, FS_Injection DEF N
<1>14. \A n \in 1 .. N : \E i \in R : at[i] = n
  BY <1>13 DEF Surjection
<1>15. \A n \in 1 .. N : \E i \in R : CommitIndex(k, i) = n
  BY <1>14 DEF at
<1> QED
  BY <1>1, <1>8, <1>9, <1>15 DEF R, N

\* The package of a level that can be exported: the rows, with their references renamed.
PackageOf(pkg, k) ==
    /\ Len(pkg.commits) = Cardinality(RowsOf(k))
    /\ pkg.headIndex = CommitIndex(k, refs[k])
    /\ \A i \in RowsOf(k) :
        /\ pkg.commits[CommitIndex(k, i)].parent = IndexOrNone(k, commits[i].parent)
        /\ pkg.commits[CommitIndex(k, i)].delta = commits[i].delta
    /\ \A n \in 1 .. Cardinality(RowsOf(k)) :
        /\ pkg.commits[n].parent \in 0 .. Cardinality(RowsOf(k))
        /\ pkg.commits[n].delta \in Delta

LEMMA PackageBuilt ==
    ASSUME StoreTypeOK, DeltasStored, NEW k, Exportable(k)
    PROVE  PackageOf(BuildGdgePackage(k), k)
<1> DEFINE R == RowsOf(k)
           N == Cardinality(R)
           pkg == BuildGdgePackage(k)
           rowAt(n) == CHOOSE i \in R : CommitIndex(k, i) = n
           entry(i) == [parent |-> IndexOrNone(k, commits[i].parent), reverts |-> IndexOrNone(k, commits[i].reverts),
                        delta |-> commits[i].delta]
<1>1. /\ N \in Nat
      /\ \A i \in R : CommitIndex(k, i) \in 1 .. N
      /\ \A i, j \in R : CommitIndex(k, i) = CommitIndex(k, j) => i = j
      /\ \A n \in 1 .. N : \E i \in R : CommitIndex(k, i) = n
  BY IndexesGiven
<1>2. pkg.headIndex = CommitIndex(k, refs[k]) /\ pkg.commits = [n \in 1 .. N |-> entry(rowAt(n))]
  BY DEF BuildGdgePackage
<1> HIDE DEF R, N, pkg
<1>3. \A n \in 1 .. N : rowAt(n) \in R /\ CommitIndex(k, rowAt(n)) = n
  BY <1>1
<1>4. \A i \in R : rowAt(CommitIndex(k, i)) = i
  BY <1>1, <1>3
<1>5. Len(pkg.commits) = N
  <2>1. pkg.commits \in Seq({entry(rowAt(n)) : n \in 1 .. N}) /\ DOMAIN pkg.commits = 1 .. N
    BY <1>1, <1>2
  <2> HIDE DEF entry, rowAt
  <2> QED
    BY <1>1, <2>1
<1>6. \A i \in R : pkg.commits[CommitIndex(k, i)] = entry(i)
  BY <1>1, <1>2, <1>4
<1>7. \A i \in R : IndexOrNone(k, commits[i].parent) \in 0 .. N /\ commits[i].delta \in Delta
  <2>1. \A i \in R : commits[i].parent \in R \cup {NoId}
    BY DEF Exportable, R
  <2>2. \A i \in R : commits[i].delta \in Delta
    BY DEF DeltasStored, R, RowsOf
  <2>3. \A i \in R : CommitIndex(k, i) \in 0 .. N
    BY <1>1
  <2>4. NoId \in 0 .. N
    BY <1>1 DEF NoId
  <2> QED
    BY <2>1, <2>2, <2>3, <2>4 DEF IndexOrNone
<1>8. \A n \in 1 .. N : pkg.commits[n].parent \in 0 .. N /\ pkg.commits[n].delta \in Delta
  BY <1>2, <1>3, <1>7
<1>9. PackageOf(pkg, k)
  <2>1. \A i \in R : /\ pkg.commits[CommitIndex(k, i)].parent = IndexOrNone(k, commits[i].parent)
                     /\ pkg.commits[CommitIndex(k, i)].delta = commits[i].delta
    <3>1. \A i : entry(i).parent = IndexOrNone(k, commits[i].parent) /\ entry(i).delta = commits[i].delta
      OBVIOUS
    <3> HIDE DEF entry
    <3> QED
      BY <1>6, <3>1
  <2>2. pkg.headIndex = CommitIndex(k, refs[k])
    BY <1>2
  <2> QED
    BY <1>5, <1>8, <2>1, <2>2 DEF PackageOf, R, N
<1> QED
  BY <1>9 DEF pkg

\* Pass n of the importing side: what index i reaches once its parent was reached in pass n - 1.
PackageStep(pkg, size, st) ==
    [i \in 0 .. size |->
        IF i = NoId THEN EmptyState
        ELSE IF st[pkg.commits[i].parent] = Nil THEN Nil
        ELSE Apply(st[pkg.commits[i].parent], pkg.commits[i].delta)]

\* f[n] is what is known after n passes.
PackageLoop(f, pkg, size) ==
    /\ f \in [0 .. size -> [0 .. size -> LevelState \cup {Nil}]]
    /\ f[0] = [i \in 0 .. size |-> IF i = NoId THEN EmptyState ELSE Nil]
    /\ \A n \in 1 .. size : f[n] = PackageStep(pkg, size, f[n - 1])

LEMMA PackageLoopExists ==
    ASSUME NEW pkg, NEW size \in Nat, Len(pkg.commits) = size, pkg.headIndex \in 0 .. size,
           \A i \in 1 .. size : pkg.commits[i].parent \in 0 .. size /\ pkg.commits[i].delta \in Delta
    PROVE  \E f : PackageLoop(f, pkg, size) /\ ReconstructPackageHead(pkg) = f[size][pkg.headIndex]
<1> DEFINE V == [0 .. size -> LevelState \cup {Nil}]
           c == [i \in 0 .. size |-> IF i = NoId THEN EmptyState ELSE Nil]
           D == [p \in V \X (1 .. size) |-> PackageStep(pkg, size, p[1])]
<1>1. c \in V
  BY EmptyStateType
<1>2. ASSUME NEW st \in V
      PROVE  PackageStep(pkg, size, st) \in V
  <2>1. ASSUME NEW i \in 0 .. size, i # NoId
        PROVE  pkg.commits[i].delta \in Delta /\ st[pkg.commits[i].parent] \in LevelState \cup {Nil}
    <3>1. i \in 1 .. size
      BY <2>1 DEF NoId
    <3> QED
      BY <3>1
  <2>2. ASSUME NEW i \in 0 .. size, i # NoId, st[pkg.commits[i].parent] # Nil
        PROVE  Apply(st[pkg.commits[i].parent], pkg.commits[i].delta) \in LevelState
    BY <2>1, <2>2, ApplyType
  <2> QED
    BY <2>1, <2>2, EmptyStateType DEF PackageStep
<1>3. D \in [V \X (1 .. size) -> V] /\ \A st \in V, n \in 1 .. size : D[<<st, n>>] = PackageStep(pkg, size, st)
  <2> HIDE DEF V
  <2> QED
    BY <1>2
<1>4. PICK g \in [0 .. size -> V] : IsRecursive(g, size, c, D)
  <2> HIDE DEF V, c, D
  <2> QED
    BY <1>1, <1>3, RecursionExists
<1>5. g[0] = c /\ \A n \in 1 .. size : g[n] = PackageStep(pkg, size, g[n - 1])
  <2>1. g[0] = c
    <3> HIDE DEF V, c, D
    <3> QED
      BY <1>4 DEF IsRecursive
  <2>2. ASSUME NEW n \in 1 .. size
        PROVE  g[n] = PackageStep(pkg, size, g[n - 1])
    <3>1. n \in 0 .. size /\ n # 0 /\ n - 1 \in 0 .. size
      OBVIOUS
    <3> HIDE DEF V, c, D
    <3>2. g[n] = D[<<g[n - 1], n>>] /\ g[n - 1] \in V
      BY <3>1, <1>4 DEF IsRecursive
    <3> QED
      BY <3>2, <1>3
  <2> QED
    BY <2>1, <2>2
<1> DEFINE body(at) == [n \in 0 .. size |-> [i \in 0 .. size |->
              IF i = NoId THEN EmptyState
              ELSE IF n = 0 THEN Nil
              ELSE IF at[n - 1][pkg.commits[i].parent] = Nil THEN Nil
              ELSE Apply(at[n - 1][pkg.commits[i].parent], pkg.commits[i].delta)]]
<1>6. g = body(g)
  <2>1. ASSUME NEW n \in 0 .. size
        PROVE  g[n] = body(g)[n]
    <3>1. CASE n = 0
      BY <3>1, <1>5
    <3>2. CASE n # 0
      <4>1. n \in 1 .. size
        BY <3>2
      <4>2. g[n] = PackageStep(pkg, size, g[n - 1])
        BY <4>1, <1>5
      <4> QED
        BY <3>2, <4>2 DEF PackageStep
    <3> QED
      BY <3>1, <3>2
  <2>2. g = [n \in 0 .. size |-> g[n]]
    BY <1>4
  <2> QED
    BY <2>1, <2>2
<1> DEFINE loop == CHOOSE at : at = body(at)
<1>7. loop = body(loop)
  BY <1>6
<1>8. ReconstructPackageHead(pkg) = loop[size][pkg.headIndex]
  BY DEF ReconstructPackageHead
<1>9. PICK f : f = loop
  OBVIOUS
<1>10. f = body(f)
  <2> HIDE DEF loop, body
  <2> QED
    BY <1>7, <1>9
<1> HIDE DEF loop
<1>11. f[0] = c /\ \A n \in 1 .. size : f[n] = PackageStep(pkg, size, f[n - 1])
  <2>1. f[0] = c
    BY <1>10
  <2>2. ASSUME NEW n \in 1 .. size
        PROVE  f[n] = PackageStep(pkg, size, f[n - 1])
    <3>1. n \in 0 .. size /\ n # 0
      OBVIOUS
    <3>2. f[n] = body(f)[n]
      <4> HIDE DEF body
      <4> QED
        BY <1>10
    <3> QED
      BY <3>1, <3>2 DEF PackageStep
  <2> QED
    BY <2>1, <2>2
<1>12. f \in [0 .. size -> V]
  <2> DEFINE S == {n \in 0 .. size : f[n] \in V}
  <2>1. 0 \in S
    BY <1>1, <1>11
  <2>2. ASSUME NEW n \in 1 .. size, n - 1 \in S
        PROVE  n \in S
    BY <2>2, <1>2, <1>11
  <2>3. 0 .. size \subseteq S
    <3> HIDE DEF S
    <3> QED
      BY <2>1, <2>2, UpTo
  <2> QED
    BY <2>3, <1>10
<1> QED
  BY <1>8, <1>9, <1>11, <1>12 DEF PackageLoop

\* The rows of the level of i that are not above i: a bound on the length of the chain that ends in i.
NotAbove(rank, k, i) == {j \in RowsOf(k) : rank[j] <= rank[i]}

LEMMA ChainsBounded ==
    ASSUME ServiceInv, NEW rank, Ranked(rank), NEW k, Exportable(k), NEW i \in RowsOf(k)
    PROVE  /\ Cardinality(NotAbove(rank, k, i)) \in 1 .. Cardinality(RowsOf(k))
           /\ commits[i].parent # NoId =>
                /\ commits[i].parent \in RowsOf(k)
                /\ Cardinality(NotAbove(rank, k, commits[i].parent)) < Cardinality(NotAbove(rank, k, i))
<1> DEFINE R == RowsOf(k)
           p == commits[i].parent
<1>1. R \subseteq Ids /\ IsFiniteSet(R) /\ Cardinality(R) \in Nat /\ \A j \in R : rank[j] \in Nat /\ j # NoId
  <2>1. StoreTypeOK
    BY DEF ServiceInv, TablesInv, StoreInv
  <2>2. IsFiniteSet(R) /\ Cardinality(R) \in Nat
    BY <2>1, IndexesGiven
  <2>3. R \subseteq Ids
    BY DEF RowsOf
  <2> QED
    BY <2>2, <2>3, IdsOfRow DEF Ranked
<1>2. \A j \in R : NotAbove(rank, k, j) \in SUBSET R /\ j \in NotAbove(rank, k, j)
  BY <1>1 DEF NotAbove
<1>3. p # NoId => p \in R /\ rank[p] < rank[i]
  <2>1. p # NoId => p \in R
    BY DEF Exportable
  <2> QED
    BY <1>1, <2>1 DEF Ranked, RanksRise, Ids
<1>4. ASSUME p # NoId
      PROVE  NotAbove(rank, k, p) \in SUBSET NotAbove(rank, k, i) /\ i \notin NotAbove(rank, k, p)
  BY <1>1, <1>3, <1>4 DEF NotAbove
<1> HIDE DEF R, p
<1>5. ASSUME NEW j \in R
      PROVE  /\ IsFiniteSet(NotAbove(rank, k, j)) /\ Cardinality(NotAbove(rank, k, j)) \in Nat
             /\ Cardinality(NotAbove(rank, k, j)) <= Cardinality(R)
             /\ Cardinality(NotAbove(rank, k, j)) # 0
  <2>1. NotAbove(rank, k, j) \in SUBSET R /\ NotAbove(rank, k, j) # {}
    BY <1>2
  <2>2. IsFiniteSet(NotAbove(rank, k, j)) /\ Cardinality(NotAbove(rank, k, j)) <= Cardinality(R)
    BY <1>1, <2>1, FS_Subset
  <2>3. Cardinality(NotAbove(rank, k, j)) \in Nat
    BY <2>2, FS_CardinalityType
  <2>4. Cardinality(NotAbove(rank, k, j)) # 0
    BY <2>1, <2>2, FS_EmptySet
  <2> QED
    BY <2>2, <2>3, <2>4
<1>6. i \in R
  BY DEF R
<1>7. ASSUME p # NoId
      PROVE  Cardinality(NotAbove(rank, k, p)) < Cardinality(NotAbove(rank, k, i))
  <2>1. /\ NotAbove(rank, k, p) \in SUBSET NotAbove(rank, k, i)
        /\ NotAbove(rank, k, p) # NotAbove(rank, k, i)
    BY <1>2, <1>4, <1>6, <1>7
  <2>2. Cardinality(NotAbove(rank, k, p)) <= Cardinality(NotAbove(rank, k, i))
        /\ (Cardinality(NotAbove(rank, k, i)) = Cardinality(NotAbove(rank, k, p))
            => NotAbove(rank, k, i) = NotAbove(rank, k, p))
    BY <1>5, <1>6, <2>1, FS_Subset
  <2>3. Cardinality(NotAbove(rank, k, p)) \in Nat /\ Cardinality(NotAbove(rank, k, i)) \in Nat
    BY <1>3, <1>5, <1>6, <1>7
  <2> QED
    BY <2>1, <2>2, <2>3
<1>8. Cardinality(NotAbove(rank, k, i)) \in 1 .. Cardinality(R)
  BY <1>1, <1>5, <1>6
<1> QED
  BY <1>3, <1>7, <1>8 DEF R, p

\* The state st that was read for commit i is the one that was recorded for it.
ReadAs(st, i) == st # Nil /\ st \in LevelState /\ SameState(st, snapshot[i])

\* A pass that knows the parent of a commit reaches the commit.
LEMMA PassReaches ==
    ASSUME ServiceInv, ~staleImport, NEW k, Exportable(k), NEW pkg, PackageOf(pkg, k), NEW i \in RowsOf(k),
           NEW st \in [0 .. Cardinality(RowsOf(k)) -> LevelState \cup {Nil}], st[NoId] = EmptyState,
           commits[i].parent # NoId => ReadAs(st[CommitIndex(k, commits[i].parent)], commits[i].parent)
    PROVE  ReadAs(PackageStep(pkg, Cardinality(RowsOf(k)), st)[CommitIndex(k, i)], i)
<1> DEFINE N == Cardinality(RowsOf(k))
           n == CommitIndex(k, i)
           p == commits[i].parent
           at == st[pkg.commits[n].parent]
<1>1. n \in 0 .. N /\ n # NoId
  <2>1. N \in Nat /\ n \in 1 .. N
    BY IndexesGiven DEF ServiceInv, TablesInv, StoreInv
  <2> QED
    BY <2>1 DEF NoId
<1>2. pkg.commits[n].parent = IndexOrNone(k, p) /\ pkg.commits[n].delta = commits[i].delta
  BY DEF PackageOf
<1>3. i \in Ids /\ commits[i].delta \in Delta /\ SameState(Apply(BaseOf(p), commits[i].delta), snapshot[i])
  <2>1. i \in Ids
    BY DEF RowsOf
  <2> QED
    BY <2>1 DEF ServiceInv, TablesInv, DeltasStored, HistoryReplaysToSnapshots
<1>4. BaseOf(p) \in LevelState /\ at \in LevelState /\ SameState(at, BaseOf(p))
  <2>1. CASE p = NoId
    <3>1. at = EmptyState /\ BaseOf(p) = EmptyState
      BY <1>2, <2>1 DEF IndexOrNone, BaseOf
    <3> QED
      BY <3>1, EmptyStateType DEF SameState
  <2>2. CASE p # NoId
    <3>1. at = st[CommitIndex(k, p)] /\ BaseOf(p) = snapshot[p]
      BY <1>2, <2>2 DEF IndexOrNone, BaseOf
    <3>2. snapshot[p] \in LevelState
      <4>1. p \in 1 .. lastId
        BY <1>3, <2>2, IdsOfRow
      <4> QED
        BY <4>1 DEF ServiceInv, TablesInv, SnapshotsNormal
    <3> QED
      BY <2>2, <3>1, <3>2 DEF ReadAs
  <2> QED
    BY <2>1, <2>2
<1>5. Apply(at, commits[i].delta) \in LevelState
  BY <1>3, <1>4, ApplyType
<1>6. SameState(Apply(at, commits[i].delta), snapshot[i])
  <2>1. SameState(Apply(at, commits[i].delta), Apply(BaseOf(p), commits[i].delta))
    BY <1>3, <1>4, ApplyCongruent
  <2> QED
    BY <1>3, <2>1 DEF SameState
<1>7. Nil \notin LevelState
  BY ServiceAssumption
<1>8. PackageStep(pkg, N, st)[n] = Apply(at, commits[i].delta)
  <2>1. PackageStep(pkg, N, st)[n] = IF at = Nil THEN Nil ELSE Apply(at, pkg.commits[n].delta)
    BY <1>1 DEF PackageStep
  <2> QED
    BY <1>2, <1>4, <1>7, <2>1
<1> QED
  BY <1>5, <1>6, <1>7, <1>8 DEF ReadAs

LEMMA ExportFromRanks ==
    ASSUME ServiceInv, Acyclic
    PROVE  ExportFaithful
<1> SUFFICES ASSUME ~staleImport, NEW k \in LevelKey, refs[k] # NoId
             PROVE  /\ Exportable(k)
                    /\ \E s \in {ReconstructPackageHead(BuildGdgePackage(k))} :
                        s # Nil /\ SameState(s, snapshot[refs[k]])
  BY DEF ExportFaithful
<1> DEFINE N == Cardinality(RowsOf(k))
           pkg == BuildGdgePackage(k)
<1>1. Exportable(k)
  BY LoadableFromRanks DEF EveryLevelLoadable, Exportable
<1>2. PackageOf(pkg, k)
  BY <1>1, PackageBuilt DEF ServiceInv, TablesInv, StoreInv
<1>3. N \in Nat /\ \A i \in RowsOf(k) : CommitIndex(k, i) \in 1 .. N
  BY IndexesGiven DEF ServiceInv, TablesInv, StoreInv
<1>4. refs[k] \in RowsOf(k)
  BY <1>1 DEF Exportable
<1> HIDE DEF pkg
<1>5. PICK f : PackageLoop(f, pkg, N) /\ ReconstructPackageHead(pkg) = f[N][pkg.headIndex]
  <2>1. /\ Len(pkg.commits) = N /\ pkg.headIndex \in 0 .. N
        /\ \A i \in 1 .. N : pkg.commits[i].parent \in 0 .. N /\ pkg.commits[i].delta \in Delta
    BY <1>2, <1>3, <1>4 DEF PackageOf
  <2> HIDE DEF N
  <2> QED
    BY <1>3, <2>1, PackageLoopExists
<1>6. PICK rank : Ranked(rank)
  BY DEF Acyclic
<1> DEFINE Reached(n) == \A i \in RowsOf(k) :
              Cardinality(NotAbove(rank, k, i)) <= n => ReadAs(f[n][CommitIndex(k, i)], i)
           S == {n \in 0 .. N : Reached(n)}
<1>7. \A i \in RowsOf(k) :
        /\ Cardinality(NotAbove(rank, k, i)) \in 1 .. N
        /\ commits[i].parent # NoId =>
             /\ commits[i].parent \in RowsOf(k)
             /\ Cardinality(NotAbove(rank, k, commits[i].parent)) < Cardinality(NotAbove(rank, k, i))
  BY <1>1, <1>6, ChainsBounded
<1>8. \A n \in 0 .. N : f[n] \in [0 .. N -> LevelState \cup {Nil}] /\ f[n][NoId] = EmptyState
  <2> TAKE n \in 0 .. N
  <2>1. f[n] \in [0 .. N -> LevelState \cup {Nil}]
    BY <1>5 DEF PackageLoop
  <2>2. n = 0 \/ n \in 1 .. N
    BY <1>3
  <2>3. NoId \in 0 .. N
    BY <1>3 DEF NoId
  <2>4. f[n][NoId] = EmptyState
    BY <1>5, <2>2, <2>3 DEF PackageLoop, PackageStep
  <2> QED
    BY <2>1, <2>4
<1>9. 0 \in S
  <2> HIDE DEF N
  <2> QED
    BY <1>3, <1>7
<1>10. ASSUME NEW n \in 1 .. N, n - 1 \in S
       PROVE  n \in S
  <2>1. n \in 0 .. N /\ n - 1 \in 0 .. N /\ Reached(n - 1)
    BY <1>3, <1>10
  <2>2. f[n] = PackageStep(pkg, N, f[n - 1])
    BY <1>5 DEF PackageLoop
  <2>3. ASSUME NEW i \in RowsOf(k), Cardinality(NotAbove(rank, k, i)) <= n
        PROVE  ReadAs(f[n][CommitIndex(k, i)], i)
    <3> DEFINE p == commits[i].parent
    <3>1. ASSUME p # NoId
          PROVE  ReadAs(f[n - 1][CommitIndex(k, p)], p)
      <4>1. p \in RowsOf(k) /\ Cardinality(NotAbove(rank, k, p)) < Cardinality(NotAbove(rank, k, i))
        BY <1>7, <3>1
      <4>2. Cardinality(NotAbove(rank, k, p)) \in 1 .. N /\ Cardinality(NotAbove(rank, k, i)) \in 1 .. N
        BY <1>7, <4>1
      <4>3. Cardinality(NotAbove(rank, k, p)) <= n - 1
        <5> HIDE DEF N, p
        <5> QED
          BY <1>3, <2>1, <2>3, <4>1, <4>2
      <4> QED
        BY <2>1, <4>1, <4>3
    <3>2. f[n - 1] \in [0 .. N -> LevelState \cup {Nil}] /\ f[n - 1][NoId] = EmptyState
      BY <1>8, <2>1
    <3> HIDE DEF Reached, S
    <3>3. ReadAs(PackageStep(pkg, N, f[n - 1])[CommitIndex(k, i)], i)
      BY <1>1, <1>2, <3>1, <3>2, PassReaches
    <3> QED
      BY <2>2, <3>3
  <2> QED
    BY <2>1, <2>3
<1>11. 0 .. N \subseteq S
  <2> HIDE DEF S, N
  <2> QED
    BY <1>3, <1>9, <1>10, UpTo
<1>12. ReadAs(f[N][CommitIndex(k, refs[k])], refs[k])
  <2>1. Reached(N)
    BY <1>3, <1>11
  <2>2. Cardinality(NotAbove(rank, k, refs[k])) <= N
    BY <1>3, <1>4, <1>7
  <2> QED
    BY <1>4, <2>1, <2>2
<1>13. ReadAs(ReconstructPackageHead(pkg), refs[k])
  <2>1. pkg.headIndex = CommitIndex(k, refs[k])
    BY <1>2 DEF PackageOf
  <2> QED
    BY <1>5, <1>12, <2>1
<1> QED
  BY <1>1, <1>13 DEF ReadAs, pkg

\* Between jobs every level that has a HEAD can be exported, and the importing side rebuilds from the
\* package the state recorded for HEAD (buildGdgePackageFromCommits, reconstructPackageHead), whatever
\* order the commits were numbered in, up to the first load whose source had moved on.
THEOREM ExportIsFaithful == Spec => []ExportFaithful
<1>1. ServiceInv /\ Acyclic => ExportFaithful
  BY ExportFromRanks
<1> QED
  BY <1>1, AcyclicInvariant, ServiceInvariant, PTL
===============================================================================
