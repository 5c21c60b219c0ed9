------------------------------ MODULE GitService ------------------------------
(***************************************************************************)
(* src/service/GitService.cpp over the commit store: commit, and the       *)
(* two-phase operations whose prepare half runs as one job of the git      *)
(* worker, whose result then goes through the main thread (the editor is   *)
(* changed there), and whose finalize half runs as a later job.            *)
(*                                                                         *)
(* One job runs at a time (util/GitWorker: one mutex), but nothing orders  *)
(* the jobs: any job may run between a prepare and its finalize, and a     *)
(* prepared operation may never be finalized.  reconstruct is modelled     *)
(* loop iteration by loop iteration.  Parsing, identity assignment and     *)
(* merging are external here: a commit or an import brings in any state of *)
(* Incoming.                                                               *)
(***************************************************************************)
EXTENDS CommitStore, Differ

CONSTANTS
    Ops,            \* the operations that callers use; "crash" if the process may end, "misread" if
                    \* reads of HEAD may fail
    Incoming,       \* states that a commit or a merge can produce
    CacheCapacity,  \* m_cacheCapacity
    MaxPending,     \* bound of the model on prepared operations in flight
    MaxBatch        \* bound of the model on the commits of one .gdge import

ASSUME ServiceAssumption ==
    /\ Incoming \subseteq LevelState /\ Nil \notin LevelState
    /\ Delta \subseteq Blob
    /\ {CacheCapacity, MaxPending, MaxBatch} \subseteq Nat

VARIABLES
    cache,         \* m_cache: commit id -> level state
    job,           \* the job that holds the worker, Idle if none
    walk,          \* the locals of the call of reconstruct that the job is in
    pendings,      \* prepared operations that were not finalized or dropped yet
    \* History variables, not in the code:
    snapshot,      \* id -> the state that was recorded under this id, normalised
    staleImport    \* a level was loaded whose source had moved on since prepare

memVars == <<cache, job, walk, pendings>>
ghostVars == <<snapshot, staleImport>>
vars == <<storeVars, memVars, ghostVars>>

-------------------------------------------------------------------------------
(***************************************************************************)
(* Data                                                                    *)
(***************************************************************************)

Idle == [op |-> "idle"]

\* PendingHeadUpdate, as prepareCheckout and prepareRevert make it.  applied is the state that went
\* into the editor and comes back as finalize's second argument.
PendingHead ==
    [kind : {"checkout", "revert"}, level : LevelKey, parent : Nat, reverts : Nat, delta : Delta,
     applied : LevelState]
PendingSquash ==
    [kind : {"squash"}, level : LevelKey, ids : Seq(Nat), parent : Nat, delta : Delta,
     applied : LevelState]
PendingReplace == [kind : {"replace"}, level : LevelKey, src : LevelKey, applied : LevelState]

\* An entry of PendingMergeImport.  ix is parentPendingIx + 1, 0 if there is none.  cacheState is
\* after if cached; after itself is not in the code.
ImportEntry == [parent : Nat, ix : Nat, delta : Delta, cached : BOOLEAN, after : LevelState]
PendingImport == [kind : {"import"}, level : LevelKey, batch : Seq(ImportEntry)]

Pending == PendingHead \cup PendingSquash \cup PendingReplace \cup PendingImport

\* A running operation.  head is what getHead returned, ids its commit arguments, goals the commits
\* it reconstructs, in this order, and got the states of those that were.
ReconstructJob ==
    [op : {"commit", "checkout", "revert", "squash", "replace", "import", "inspect"},
     level : LevelKey, src : LevelKey, head : Nat, ids : Seq(Nat),
     goals : Seq(Nat), got : Seq(LevelState)]
FinalizeImportJob ==
    [op : {"finalizeImport"}, level : LevelKey, batch : Seq(ImportEntry), minted : Seq(Nat)]

\* cur, chain and currentState of reconstruct.  phase is "out" outside of it, "up" in the loop to the
\* root or to a cached ancestor, "down" in the loop that applies the deltas.
Walk == [phase : {"out", "up", "down"}, cur : Nat, chain : Seq(Nat), state : LevelState]
NoWalk == [phase |-> "out", cur |-> NoId, chain |-> <<>>, state |-> EmptyState]

TypeOK ==
    /\ StoreTypeOK
    /\ DOMAIN cache \subseteq 1 .. lastId
    /\ cache \in [DOMAIN cache -> LevelState]
    /\ job \in {Idle} \cup ReconstructJob \cup FinalizeImportJob
    /\ walk \in Walk
    /\ pendings \subseteq Pending
    /\ snapshot \in [1 .. lastId -> LevelState]
    /\ staleImport \in BOOLEAN

EmptyCache == [i \in {} |-> EmptyState]

Init ==
    /\ StoreInit
    /\ cache = EmptyCache
    /\ job = Idle
    /\ walk = NoWalk
    /\ pendings = {}
    /\ snapshot = EmptyCache
    /\ staleImport = FALSE

\* Mutant: off by one at the capacity.
CachePut_OneTooMany(c, id, s) ==
    LET kept == IF id \in DOMAIN c \/ Cardinality(DOMAIN c) <= CacheCapacity THEN DOMAIN c ELSE {}
    IN  [i \in kept \cup {id} |-> IF i = id THEN s ELSE c[i]]

\* cachePut: a full cache is emptied before a new id goes in.
CachePut(c, id, s) ==
    LET kept == IF id \in DOMAIN c \/ Cardinality(DOMAIN c) < CacheCapacity THEN DOMAIN c ELSE {}
    IN  [i \in kept \cup {id} |-> IF i = id THEN s ELSE c[i]]

\* insertAndSetHead with any message at any time of the clock; s is the state recorded.
Record(k, parent, reverts, delta, s) ==
    /\ \E m \in Message, t \in Time : InsertAndSetHead(k, parent, reverts, m, t, delta)
    /\ snapshot' = [i \in 1 .. NextId |-> IF i = NextId THEN Norm(s) ELSE snapshot[i]]
    /\ UNCHANGED staleImport

-------------------------------------------------------------------------------
(***************************************************************************)
(* reconstruct                                                             *)
(***************************************************************************)

\* What getHead may return: a failing read is taken for a level without HEAD.
HeadRead(k) == IF "misread" \in Ops THEN {refs[k], NoId} ELSE {refs[k]}

Begin(op, k, src, head, ids, goals) ==
    /\ op \in Ops
    /\ open /\ job = Idle
    /\ job' = [op |-> op, level |-> k, src |-> src, head |-> head, ids |-> ids,
               goals |-> goals, got |-> <<>>]
    /\ UNCHANGED <<storeVars, cache, walk, pendings, ghostVars>>

\* The job ends, and with it whatever call it is in.
EndJob == job' = Idle /\ walk' = NoWalk

InReconstruct(phase) == job.op \notin {"idle", "finalizeImport"} /\ walk.phase = phase

WalkStep(w) == walk' = w /\ UNCHANGED <<storeVars, job, pendings, ghostVars>>

ReconstructStart ==
    /\ InReconstruct("out") /\ Len(job.got) < Len(job.goals)
    /\ WalkStep([NoWalk EXCEPT !.phase = "up", !.cur = job.goals[Len(job.got) + 1]])
    /\ UNCHANGED cache

WalkHit ==
    /\ InReconstruct("up") /\ walk.cur \in DOMAIN cache
    /\ WalkStep([walk EXCEPT !.phase = "down", !.state = cache[walk.cur]])
    /\ UNCHANGED cache

WalkUp ==
    /\ InReconstruct("up") /\ walk.cur \in Ids \ DOMAIN cache
    /\ LET parent == commits[walk.cur].parent
       IN  WalkStep([walk EXCEPT !.chain = Append(@, walk.cur), !.cur = parent,
                                 !.phase = IF parent = NoId THEN "down" ELSE "up"])
    /\ UNCHANGED cache

\* "missing commit in chain"
WalkMissing ==
    /\ InReconstruct("up") /\ walk.cur \notin Ids \cup DOMAIN cache
    /\ EndJob
    /\ UNCHANGED <<storeVars, cache, pendings, ghostVars>>

\* Mutant: the iterator does not move.
NextInChain_Same(chain) == chain
NextInChain(chain) == SubSeq(chain, 1, Len(chain) - 1)

ApplyDelta ==
    /\ InReconstruct("down") /\ walk.chain # <<>>
    /\ LET id == walk.chain[Len(walk.chain)]
           s == Apply(walk.state, commits[id].delta)
       IN  /\ WalkStep([walk EXCEPT !.state = s, !.chain = NextInChain(@)])
           /\ cache' = CachePut(cache, id, s)

ReconstructDone ==
    /\ InReconstruct("down") /\ walk.chain = <<>>
    /\ job' = [job EXCEPT !.got = Append(@, walk.state)]
    /\ walk' = NoWalk
    /\ UNCHANGED <<storeVars, cache, pendings, ghostVars>>

Reconstruct ==
    \/ ReconstructStart \/ WalkHit \/ WalkUp \/ WalkMissing \/ ApplyDelta \/ ReconstructDone

\* All calls of reconstruct of this operation have returned.
Reconstructed(op) == job.op = op /\ walk.phase = "out" /\ Len(job.got) = Len(job.goals)

\* Any operation may give up: a read or write fails, the delta is too large, a foreign key is
\* violated at COMMIT.
JobFails ==
    /\ job # Idle
    /\ EndJob
    /\ UNCHANGED <<storeVars, cache, pendings, ghostVars>>

-------------------------------------------------------------------------------
(***************************************************************************)
(* commit                                                                  *)
(***************************************************************************)

BeginCommit(k) ==
    \E head \in HeadRead(k) :
        Begin("commit", k, k, head, <<>>, IF head = NoId THEN <<>> ELSE <<head>>)

HeadStateOr(s) == IF job.head = NoId THEN s ELSE job.got[Len(job.got)]

\* Mutant: the state is cached before the insert, which may fail.
FinishCommit_CachedFirst(s) ==
    /\ Reconstructed("commit")
    /\ \/ Record(job.level, job.head, NoId, Diff(HeadStateOr(EmptyState), s), s)
       \/ UNCHANGED <<storeVars, ghostVars>>
    /\ cache' = CachePut(cache, NextId, s)
    /\ EndJob
    /\ UNCHANGED pendings

\* s is the captured level, parsed, with uuids assigned.
FinishCommit(s) ==
    /\ Reconstructed("commit")
    /\ Record(job.level, job.head, NoId, Diff(HeadStateOr(EmptyState), s), s)
    /\ cache' = CachePut(cache, NextId, s)
    /\ EndJob
    /\ UNCHANGED pendings

-------------------------------------------------------------------------------
(***************************************************************************)
(* checkout and revert                                                     *)
(***************************************************************************)

Prepared(p) ==
    /\ Cardinality(pendings) < MaxPending
    /\ pendings' = pendings \cup {p}
    /\ EndJob
    /\ UNCHANGED <<storeVars, cache, ghostVars>>

\* Mutant: the states of HEAD and of the target are mixed up.
CheckoutGoals_Swapped(head, target) == IF head = target THEN <<target>> ELSE <<target, head>>
CheckoutGoals(head, target) == IF head = target THEN <<target>> ELSE <<head, target>>

BeginCheckout(k, target) ==
    /\ refs[k] # NoId
    /\ Begin("checkout", k, k, refs[k], <<target>>, CheckoutGoals(refs[k], target))

\* HEAD is the target: the editor gets its state and nothing is pending.
FinishCheckoutOfHead ==
    /\ Reconstructed("checkout") /\ job.head = job.ids[1]
    /\ EndJob
    /\ UNCHANGED <<storeVars, cache, pendings, ghostVars>>

FinishPrepareCheckout ==
    LET target == job.ids[1]
    IN  /\ Reconstructed("checkout") /\ job.head # target
        /\ target \in Ids => commits[target].level = job.level
        /\ Prepared([kind |-> "checkout", level |-> job.level, parent |-> job.head,
                     reverts |-> target, delta |-> Diff(job.got[1], job.got[2]),
                     applied |-> job.got[2]])

BeginRevert(k, target) ==
    /\ refs[k] # NoId
    /\ target \in RowsOf(k) /\ commits[target].parent # NoId
    /\ Begin("revert", k, k, refs[k], <<target>>, <<commits[target].parent, target, refs[k]>>)

FinishPrepareRevert ==
    /\ Reconstructed("revert")
    /\ LET undo == Diff(job.got[2], job.got[1])
           value == Apply(job.got[3], undo)
       IN  Prepared([kind |-> "revert", level |-> job.level, parent |-> job.head,
                     reverts |-> job.ids[1], delta |-> Diff(job.got[3], value),
                     applied |-> value])

\* finalizeCheckout, for both.  Nothing is read again: the parent is the HEAD of prepare's time.
FinalizeCheckout(p) ==
    /\ job = Idle /\ p.kind \in {"checkout", "revert"}
    /\ Record(p.level, p.parent, p.reverts, p.delta, p.applied)
    /\ cache' = CachePut(cache, NextId, p.applied)
    /\ pendings' = pendings \ {p}
    /\ UNCHANGED <<job, walk>>

-------------------------------------------------------------------------------
(***************************************************************************)
(* squash                                                                  *)
(***************************************************************************)

BeginSquash(k, ids) ==
    /\ Len(ids) >= 2 /\ Contiguous(k, ids)
    /\ LET base == commits[ids[1]].parent
           target == ids[Len(ids)]
       IN  Begin("squash", k, k, refs[k], ids,
                 IF base = NoId THEN <<target>> ELSE <<base, target>>)

\* Mutant: the difference is taken from the empty level.
SquashBase_Empty(base) == EmptyState
SquashBase(base) == IF base = NoId THEN EmptyState ELSE job.got[1]
SquashTarget == job.got[Len(job.got)]

FinishPrepareSquash ==
    LET base == commits[job.ids[1]].parent
    IN  /\ Reconstructed("squash")
        /\ Prepared([kind |-> "squash", level |-> job.level, ids |-> job.ids, parent |-> base,
                     delta |-> Diff(SquashBase(base), SquashTarget), applied |-> SquashTarget])

\* The cache is emptied, then the new commit goes in.
FinalizeSquash(p) ==
    /\ job = Idle /\ p.kind = "squash"
    /\ \E m \in Message, t \in Time : Squash(p.level, p.ids, p.parent, m, t, p.delta)
    /\ snapshot' = [i \in 1 .. NextId |-> IF i = NextId THEN Norm(p.applied) ELSE snapshot[i]]
    /\ cache' = CachePut(EmptyCache, NextId, p.applied)
    /\ pendings' = pendings \ {p}
    /\ UNCHANGED <<job, walk, staleImport>>

-------------------------------------------------------------------------------
(***************************************************************************)
(* Loading another level's history, deleting a level                       *)
(***************************************************************************)

BeginImportLevelFrom(dest, src) ==
    /\ dest # src /\ refs[src] # NoId
    /\ Begin("replace", dest, src, refs[src], <<>>, <<refs[src]>>)

FinishPrepareImportLevelFrom ==
    /\ Reconstructed("replace")
    /\ Prepared([kind |-> "replace", level |-> job.level, src |-> job.src,
                 applied |-> job.got[1]])

\* The rows copied are those of the source now; the state cached for the new HEAD is prepare's.
FinalizeImportLevelFrom(p, idMap) ==
    /\ job = Idle /\ p.kind = "replace"
    /\ ReplaceLevelHistoryFrom(p.level, p.src, idMap)
    /\ snapshot' = [n \in 1 .. lastId' |->
                        IF n \in 1 .. lastId THEN snapshot[n]
                        ELSE snapshot[CHOOSE i \in RowsOf(p.src) : idMap[i] = n]]
    /\ cache' = CachePut(EmptyCache, idMap[refs[p.src]], p.applied)
    /\ staleImport' = (staleImport \/ Norm(p.applied) # snapshot[refs[p.src]])
    /\ pendings' = pendings \ {p}
    /\ UNCHANGED <<job, walk>>

\* Mutant: the cache is not cleared.
DeleteLevelAndClearCache_KeepsCache(k) ==
    /\ "delete" \in Ops /\ job = Idle
    /\ DeleteLevel(k)
    /\ UNCHANGED <<memVars, ghostVars>>

\* Mutant: the level loses its HEAD in a transaction of its own and keeps its rows.
DeleteLevelAndClearCache_HeadOnly(k) ==
    /\ "delete" \in Ops /\ job = Idle
    /\ CommitTx(commits, [refs EXCEPT ![k] = NoId], lastId)
    /\ cache' = EmptyCache
    /\ UNCHANGED <<job, walk, pendings, ghostVars>>

\* The worker job of the Levels popup's Delete button.
DeleteLevelAndClearCache(k) ==
    /\ "delete" \in Ops /\ job = Idle
    /\ DeleteLevel(k)
    /\ cache' = EmptyCache
    /\ UNCHANGED <<job, walk, pendings, ghostVars>>

-------------------------------------------------------------------------------
(***************************************************************************)
(* .gdge export and import                                                 *)
(***************************************************************************)

Roots(k) == {i \in RowsOf(k) : commits[i].parent = NoId}
\* The first row without parent in the order of list.
FirstRoot(k) == CHOOSE i \in Roots(k) : \A j \in Roots(k) \ {i} : ListedBefore(i, j)

\* indexById: the place of a row among the level's rows, oldest first.  Indexes count from 1 here, so
\* that NoId is none of them.
CommitIndex(k, i) == Cardinality({j \in RowsOf(k) : ListedBefore(i, j)}) + 1

\* Mutant: the rows are counted from the newest, in the order of list.
IndexOrNone_NewestFirst(k, i) ==
    IF i = NoId THEN NoId ELSE Cardinality({j \in RowsOf(k) : ListedBefore(j, i)}) + 1
IndexOrNone(k, i) == IF i = NoId THEN NoId ELSE CommitIndex(k, i)

\* Otherwise buildGdgePackageFromCommits fails.
Exportable(k) ==
    /\ refs[k] \in RowsOf(k)
    /\ \A i \in RowsOf(k) : {commits[i].parent, commits[i].reverts} \subseteq RowsOf(k) \cup {NoId}

BuildGdgePackage(k) ==
    [headIndex |-> CommitIndex(k, refs[k]),
     commits |-> [n \in 1 .. Cardinality(RowsOf(k)) |->
        LET row == commits[CHOOSE i \in RowsOf(k) : CommitIndex(k, i) = n]
        IN  [parent |-> IndexOrNone(k, row.parent), reverts |-> IndexOrNone(k, row.reverts),
             delta |-> row.delta]]]

\* The importing side: at[n][i] is the state at index i, Nil if that takes more than n commits.  With
\* more than there are, one was seen twice.
ReconstructPackageHead(pkg) ==
    LET size == Len(pkg.commits)
        applied(st, i) == IF st = Nil THEN Nil ELSE Apply(st, pkg.commits[i].delta)
        at[n \in 0 .. size] == [i \in 0 .. size |->
            IF i = NoId THEN EmptyState
            ELSE IF n = 0 THEN Nil
            ELSE applied(at[n - 1][pkg.commits[i].parent], i)]
    IN  at[size][pkg.headIndex]

\* exportLevelToGdge and planImport reconstruct the root and write nothing to the database.
BeginInspect(k) ==
    /\ Roots(k) # {}
    /\ Begin("inspect", k, k, refs[k], <<>>, <<FirstRoot(k)>>)

FinishInspect ==
    /\ Reconstructed("inspect")
    /\ EndJob
    /\ UNCHANGED <<storeVars, cache, pendings, ghostVars>>

BeginImportMany(k) ==
    /\ RowsOf(k) = {} \/ Roots(k) # {}
    /\ \E head \in HeadRead(k) :
        Begin("import", k, k, head, <<>>,
              (IF RowsOf(k) = {} THEN <<>> ELSE <<FirstRoot(k)>>)
              \o (IF head = NoId THEN <<>> ELSE <<head>>))

\* Mutant: every delta of the batch is taken from HEAD.
EntryBase_Head(merged, n) == HeadStateOr(EmptyState)
EntryBase(merged, n) == IF n = 1 THEN HeadStateOr(EmptyState) ELSE merged[n - 1]

\* merged is the running state after each file, or after the smart batch, that merged.
FinishPrepareImportMany(merged) ==
    /\ Reconstructed("import")
    /\ Prepared([kind |-> "import", level |-> job.level,
                 batch |-> [n \in DOMAIN merged |->
                    [parent |-> IF n = 1 THEN job.head ELSE NoId,
                     ix |-> n - 1,
                     delta |-> Diff(EntryBase(merged, n), merged[n]),
                     cached |-> n = Len(merged),
                     after |-> merged[n]]]])

BeginFinalizeImportMany(p) ==
    /\ open /\ job = Idle /\ p.kind = "import"
    /\ job' = [op |-> "finalizeImport", level |-> p.level, batch |-> p.batch, minted |-> <<>>]
    /\ pendings' = pendings \ {p}
    /\ UNCHANGED <<storeVars, cache, walk, ghostVars>>

\* One iteration of finalizeImportManyFromGdge, a transaction of its own.
ImportNextEntry ==
    /\ job.op = "finalizeImport" /\ Len(job.minted) < Len(job.batch)
    /\ LET e == job.batch[Len(job.minted) + 1]
       IN  /\ e.ix <= Len(job.minted)
           /\ Record(job.level, IF e.ix = 0 THEN e.parent ELSE job.minted[e.ix], NoId, e.delta,
                     e.after)
           /\ cache' = IF e.cached THEN CachePut(cache, NextId, e.after) ELSE cache
    /\ job' = [job EXCEPT !.minted = Append(@, NextId)]
    /\ UNCHANGED <<walk, pendings>>

FinishFinalizeImportMany ==
    /\ job.op = "finalizeImport" /\ Len(job.minted) = Len(job.batch)
    /\ EndJob
    /\ UNCHANGED <<storeVars, cache, pendings, ghostVars>>

-------------------------------------------------------------------------------
(***************************************************************************)
(* The whole service                                                       *)
(***************************************************************************)

\* The editor refuses the state, the popup is closed, or finalize fails.
DropPending(p) ==
    /\ pendings' = pendings \ {p}
    /\ UNCHANGED <<storeVars, cache, job, walk, ghostVars>>

UpdateCommitMessage(id, m) ==
    /\ "message" \in Ops /\ job = Idle
    /\ UpdateMessage(id, m)
    /\ UNCHANGED <<memVars, ghostVars>>

\* The process ends at any point and only the database survives.
Crash ==
    /\ "crash" \in Ops /\ CloseStore
    /\ cache' = EmptyCache /\ EndJob /\ pendings' = {}
    /\ UNCHANGED ghostVars

Restart == InitStore /\ UNCHANGED <<memVars, ghostVars>>

FinishJob ==
    \/ \E s \in Incoming : FinishCommit(s)
    \/ FinishCheckoutOfHead \/ FinishPrepareCheckout \/ FinishPrepareRevert
    \/ FinishPrepareSquash \/ FinishPrepareImportLevelFrom \/ FinishInspect
    \/ \E n \in 1 .. MaxBatch : \E merged \in [1 .. n -> Incoming] : FinishPrepareImportMany(merged)
    \/ ImportNextEntry \/ FinishFinalizeImportMany

BeginJob ==
    /\ job = Idle
    /\ \/ \E k \in LevelKey :
            \/ BeginCommit(k) \/ BeginInspect(k) \/ BeginImportMany(k)
            \/ DeleteLevelAndClearCache(k)
            \/ \E target \in 1 .. lastId : BeginCheckout(k, target) \/ BeginRevert(k, target)
            \/ \E ids \in Selections(Ids) : BeginSquash(k, ids)
            \/ \E src \in LevelKey : BeginImportLevelFrom(k, src)
       \/ \E i \in Ids, m \in Message : UpdateCommitMessage(i, m)

FinalizeJob ==
    \E p \in pendings :
        \/ FinalizeCheckout(p) \/ FinalizeSquash(p) \/ BeginFinalizeImportMany(p)
        \/ p.kind = "replace" /\ \E f \in CopyMaps(p.src) : FinalizeImportLevelFrom(p, f)
        \/ DropPending(p)

WorkerStep == Reconstruct \/ FinishJob \/ JobFails

Next == WorkerStep \/ BeginJob \/ FinalizeJob \/ Crash \/ Restart

Spec == Init /\ [][Next]_vars

\* A job that holds the worker is run to its end.  An error may end it, but is not counted on inside
\* reconstruct.
JobEnds == FinishJob \/ (walk.phase = "out" /\ JobFails)
FairSpec == Spec /\ WF_vars(Reconstruct) /\ WF_vars(JobEnds)
-------------------------------------------------------------------------------
(***************************************************************************)
(* Properties                                                              *)
(***************************************************************************)

\* The state a commit's delta is relative to.
BaseOf(parent) == IF parent = NoId THEN EmptyState ELSE snapshot[parent]

\* Replaying the stored deltas gives, for every commit, the state that was recorded under its id:
\* whatever was squashed, copied, checked out or imported since, and however late a finalize came.
HistoryReplaysToSnapshots ==
    \A i \in Ids : SameState(Apply(BaseOf(commits[i].parent), commits[i].delta), snapshot[i])

\* A cached state is the state of its commit, up to missing keys against empty strings, unless a
\* level was loaded whose source had moved on.
CacheShowsSnapshots ==
    \A i \in DOMAIN cache : SameState(cache[i], snapshot[i])

\* As long as no level was loaded from a source that moved on between prepareImportLevelFrom and
\* finalizeImportLevelFrom, database and cache tell the truth about every commit.
HistoryFaithful == ~staleImport => HistoryReplaysToSnapshots /\ CacheShowsSnapshots

\* The cache holds only commits that exist: a commit that squash, delete or load removed cannot be
\* checked out of the cache any more.
CacheOnlyLiveCommits == DOMAIN cache \subseteq Ids

\* m_cacheCapacity is respected, in the middle of reconstruct too.
CacheBounded == Cardinality(DOMAIN cache) <= IF CacheCapacity = 0 THEN 1 ELSE CacheCapacity

\* replaceLevelHistoryFrom can copy every level that has a HEAD: no reference leaves the level and
\* parent and reverts together have no cycle, although squash gives new ids to old commits.
EveryLevelLoadable ==
    \A k \in LevelKey : refs[k] # NoId =>
        /\ refs[k] \in RowsOf(k)
        /\ \A i \in RowsOf(k) : {commits[i].parent, commits[i].reverts} \subseteq RowsOf(k) \cup {NoId}
        /\ \A S \in (SUBSET RowsOf(k)) \ {{}} :
            \E i \in S : commits[i].parent \notin S /\ commits[i].reverts \notin S

\* Whatever order jobs run in, the service asks of the store only what the store was analysed for:
\* parents, reverted and squashed commits of the level it writes, gone or not.
ImplementsStore == [][storeVars' = storeVars \/ StoreNext]_vars

\* When the worker is free, a level that has a HEAD can be exported, and what the receiver rebuilds from the package is the
\* state recorded for HEAD: although the package numbers its commits anew, by creation time, and
\* whatever squashes, copies and late finalizations made of their order and references.
ExportFaithful ==
    ~staleImport /\ job = Idle => \A k \in LevelKey : refs[k] # NoId =>
        /\ Exportable(k)
        /\ \E s \in {ReconstructPackageHead(BuildGdgePackage(k))} :
            s # Nil /\ SameState(s, snapshot[refs[k]])

\* What the user was promised: the commit that was picked for a checkout; the newest of the commits
\* selected for a squash, all of which may be lost.
PromiseOf(p) ==
    LET selected == IF p.kind = "squash" THEN p.ids ELSE <<p.reverts>>
    IN  [level |-> p.level, state |-> snapshot[selected[Len(selected)]],
         gone |-> IF p.kind = "squash" THEN {snapshot[selected[n]] : n \in DOMAIN selected} ELSE {}]

AbstractHistory == INSTANCE History WITH
    Level <- LevelKey,
    State <- LevelState,
    NoState <- Nil,
    current <- [k \in LevelKey |-> IF refs[k] = NoId THEN Nil ELSE snapshot[refs[k]]],
    versions <- [k \in LevelKey |-> {snapshot[i] : i \in RowsOf(k)}],
    prepared <- {PromiseOf(p) : p \in {q \in pendings : q.kind \in {"checkout", "squash"}}}

\* The service keeps the promises of History, where a version is what was recorded (which is what its
\* deltas replay to, by HistoryFaithful): no step changes another version, a checkout brings back the
\* version that was picked, a squash keeps HEAD and loses only versions that it selected,
\* however late either is finalized.  Up to the first load whose source had moved on since prepare.
ImplementsHistory ==
    /\ AbstractHistory!HistoryInit
    /\ [][~staleImport' => \/ UNCHANGED AbstractHistory!historyVars
                           \/ AbstractHistory!HistoryNext]_vars

\* Every job ends: reconstruct's walk to the root terminates.
JobsEnd == (job # Idle) ~> (job = Idle)

===============================================================================
