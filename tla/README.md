# Git Editor: TLA+ models, checks and proofs

Git Editor is a mod for Geometry Dash that keeps a version history of levels inside the editor. A
commit stores what changed since the level's HEAD; any commit can be checked out, reverted, or
squashed with its neighbours; histories are copied between levels and exchanged as `.gdge` files.
This directory models the code that must not lose or falsify history, from the differ and the SQLite
store to the popups. Source paths below are relative to the repository.

## The system

| Part | State | Operations | Correct when |
|---|---|---|---|
| Differ (`src/diff`, `src/model/LevelState.hpp`) | none | `diff`, `apply` with a conflict list | replaying a delta gives the committed state; a conflict-free revert undoes one commit and nothing else |
| Three-way merge (`src/service/MergeService.cpp`, `src/model/GdHeader.cpp`) | none | `mergeStates3Way` | without conflicts the result has the work of both sides, whoever imports whom |
| Object identity (`src/identity/Matcher.cpp`) | none | `assignUuids` | no object is lost; unchanged and moved objects keep their uuids |
| Commit store (`src/store/CommitStore.cpp`, `CommitSchema.cpp`) | tables `commits`, `refs`, `schema_meta`; AUTOINCREMENT counter | `insertAndSetHead`, `updateMessage`, `squash`, `deleteLevel`, `replaceLevelHistoryFrom`, open, close | HEAD is a commit of its own level; no reference crosses levels, so that a level can always be deleted and copied; an open database is whole or wiped |
| Git service (`src/service/GitService.cpp`, `PendingOps.hpp`) | the reconstruct cache; pending operations handed to the UI | `commit`; prepare/finalize of checkout, revert, squash, load, `.gdge` import; `reconstruct`; export | every commit replays to the state recorded under its id; the cache agrees; jobs end |
| Git worker (`src/util/GitWorker.hpp`) | a mutex | runs one job at a time | jobs do not overlap |
| `.gdge` import/export (`src/service/Gdge*.cpp`, `src/store/Gdge*.cpp`, `src/util/io`) | files | classify, merge, build, write and read a package | an export is whole or absent; everybody's work is in the level that imported it |
| Editor flows (`src/ui/common/PreparedEditorFlow.hpp`, `src/ui/HistoryFlows.cpp`, `src/hooks/ImportGdgeFlow.cpp`) | busy and closing flags, the editor's level | prepare job, apply to the editor, finalize job | the busy flag is released; the editor shows what HEAD holds |
| Lists (`src/ui/common/ScrollListPopup.*`, `src/ui/HistoryList.cpp`) | load serial, rows, squash mode, selection | request and answer a list, tick rows | a late answer is dropped, the latest is not; the ticks are the selection |

How the parts interact. Every popup starts jobs on the git worker. A job holds the worker's mutex to
its end, but nothing orders jobs of different popups. A two-phase operation is a prepare job, which
reads HEAD, rebuilds states and computes a delta, then a step of the main thread, which puts the state
into the editor, then a finalize job, which writes what prepare computed. Between the two halves any
other job may run, the popup may close, or the process may end. Finalize reads nothing again: what it
writes may be stale. That gap, the foreign keys that catch part of what falls into it, a cache that
must agree with the database, files that pass between authors who each have a database of their own,
and a schema that is changed by several statements are where the hard behaviours are. `PROJECT.json`
lists them as hazards, each at its line.

## Modules

| Module | Extends | Code |
|---|---|---|
| `Differ` | | `diff`, `apply` |
| `GdHeader` | `Differ` | the header chunk, `mergeHeaders3Way` |
| `Merge` | `GdHeader` | `mergeStates3Way` |
| `ThreeStates` | `Merge` | the uses of differ and merge, on three states |
| `AtomicExport` | | abstract: files that change whole |
| `PackageFile` | | `writeGdgePackage` step by step; implements `AtomicExport` |
| `Collab` | `Merge`, `PackageFile` | authors who exchange `.gdge` files |
| `Matcher` | | `assignUuids` |
| `CommitStore` | | the tables and transactions |
| `CommitDatabase` | `CommitStore` | opening: `ensureSchema` |
| `History` | | abstract: versions of a level and the current one |
| `GitService` | `CommitStore`, `Differ` | the service on its worker; implements `History` and `CommitStore`'s callers |
| `EditorFlows` | `CommitStore` | popups, dialogs, editor |
| `ScrollList` | | list loads and the squash mode |
| `DifferProofs`, `ThreeStatesProofs`, `CommitStoreProofs`, `GitServiceProofs`, `CollabProofs`, `EditorFlowsProofs`, `MatcherProofs`, `ScrollListProofs` | the component's | theorems |
| `MCThreeStates`, `MCGitService`, `MCCollab`, `MCMatcher` | | level states, texts and objects for TLC |

### Differ

Pure operators for `diff` and `apply`. A field map is a function on `Key` with `Nil` for a missing key,
`objects` a function on `Uuid` with `Nil` for a missing object, a delta a record of header changes, raw
header change, additions, removals and modifications. `Conflicts` is what `apply` appends to its
conflict list. The code reads a missing key as the empty string and erases a key whose new value is
empty, so `Norm` (empty strings become missing keys) is the equality that replay respects: `SameState`.
The JSON form of a delta is modelled by what comes back from it (a `"before"` that is a missing key is
stored as the empty string). Strings are members of the set `Str`.

### GdHeader and Merge

A header text is its tokens: pairs in their order and possibly one token left over. `FieldsOf` and
`SerializeFields` are `readKvChunk` and `serializeFields`; `ParseHeaderChunk` keeps the text only where the
fields do not give it back. `MergeHeaders3Way` is the merge of three texts key by key, with the colour
channels, the value of one key, channel by channel; `ChannelsOf` stands for the reading of a channel
text, and two texts may read as the same channels. `MergeStates3Way` is the whole merge with its
conflict count; `MergeObject` is one iteration of its loop over the uuids, `BothAdded` the case in which both sides added an object, where theirs gets the
next uuid after ours.

### ThreeStates

The three ways in which the service uses these operators, on every choice of three states: `Rebuild`
replays the commit parent -> target on a copy of the parent's state (`reconstruct`), `Revert` applies the
inverse difference to a later state (`prepareRevert`), `Import` merges target into head relative to parent.

### Matcher

`previous` is HEAD, `incoming` the objects of the editor in the order of their placeholders. `AssignNext` is
one iteration of `assignUuids`: the front of the bucket with the same fingerprint, else the nearest in
nine cells of the grid, the first of equals in the order of the scan, else a new uuid. Coordinates
are counted in halves, since `std::lround` rounds halves away from zero.

### CommitStore and CommitDatabase

`commits` is a function from row ids to rows, `refs` gives every level's HEAD (`NoId`, SQL NULL, for
none), `lastId` is the AUTOINCREMENT counter, `open` whether the database is open. Each operation is one
action: the code runs it in one transaction (`DeferredFkTransaction`), and `CommitTx` commits the new
tables only if every foreign key holds, as SQLite checks deferred keys at COMMIT; otherwise the
transaction is rolled back, and no step is taken. `StoreNext` closes the store with a most general
caller: for a level it passes any id that does not belong to another level, ids of rows that are gone
included, because the UI's ids are as old as its list. `MaxId` bounds the ids, `MaxSquash` the length
of a selection.

`CommitDatabase` puts the opening of the file around it. `BeginOpen` reads the version, which may fail
and then counts as older than any; `Statements` are those that `ensureSchema` runs, each an action of its
own that is committed when it is done; `OpenFails` is a failing statement or the end of the process
between two. History variables, for the property only: `layout` is the mod that made the table `commits`,
`closed` what the tables held when the database was last closed.

### GitService and History

`job` is the job that holds the worker, `walk` the locals of `reconstruct`, `cache` is `m_cache`, `pendings` the
prepared operations in the hands of the UI.

* `Begin...` is the part of an operation up to its first `reconstruct`, with the code's early returns as
  guards. The goals of the job are the commits to rebuild, in the code's order. `HeadRead` is `getHead`,
  which reports a failing read as a level without HEAD.
* `ReconstructStart`, `WalkHit`, `WalkUp`, `WalkMissing`, `ApplyDelta`, `ReconstructDone` are the loops
  of `reconstruct`, one iteration per step, cache updates included. The database cannot change under
  them, but the process can end, and the cache can be emptied by `cachePut`.
* `Finish...` is the rest of the job. `Prepared` puts the result into `pendings`.
* `Finalize...` takes any pending operation, at any time at which the worker is free. A `.gdge` import is
  recorded entry by entry (`ImportNextEntry`): the code uses one transaction per commit.
* `DropPending`: the editor refused the state, the popup closed, or finalize failed. `JobFails`: an
  error path of a job. `Crash` and `Restart`: only the database survives.
* `BuildGdgePackage` and `ReconstructPackageHead` are the package that an export of a level would hold and
  what an importer rebuilds from it.

A commit brings in any state of `Incoming`, and a merge yields any such state: what they really are is
the business of `Matcher`, `Merge` and `Collab`. `snapshot` and `staleImport` are history variables: the
state recorded under every id, and whether a level was ever loaded from a source that had moved on
between prepare and finalize; no action's guard reads them.

`History` is what the user is promised: a level has versions, one of them current; a checkout brings
back the version that was picked, a squash keeps the current one and loses only versions that it
selected. `ImplementsHistory` is the refinement, under the mapping that takes HEAD to its snapshot, the
rows of a level to its versions and the pending operations to promises.

### PackageFile, AtomicExport and Collab

`disk` has, for every path, the target and the two temporary files beside it; `export` is the running
call of `writeGdgePackage`. `WriteSqlite` is one transaction; `CreateZip`, `AddToZip`, `Move` and `Clean` are the
steps of `writeZipAtomic` and `replaceFileAtomic`. Each has its failing form, which removes what the code
removes, and `CrashInExport` can come at any time. `AtomicExport` knows only files that hold a package or
nothing and a step `Publish` that replaces one; `ExportsAreAtomic` says that this is all a reader sees.

`Collab` composes `Merge` and `PackageFile`: authors with a database each commit, squash, export and
import. `ImportMany` is a whole import: classification by the hash of the root, the smart merge of all
files that share it, which is dropped as a whole if one of them cannot be loaded, then the other files
one by one. Since `HistoryFaithful` and `ExportFaithful` of `GitService` hold, root (`roots`) and HEAD
(`heads`) stand for a history here. `got` and `twice` are history variables: the level that was last
imported from each author, and whether an object came back in a second version. A level that is
founded by an import has what the founding files hold as its root, so that they count as part of it.

### EditorFlows

The user's side, over `CommitStore`. A worker job is one step, and a row's blob stands for the level state
that the row rebuilds to; `HistoryFaithful` of `GitService` is what makes this abstraction sound. `editor`
is the active editor layer with the level in it, `popups` the busy and closing flags, `flows` the
operations in progress, each waiting in a stage for a dialog, the worker or the main thread.
`PressButton`, `StartImport` and `StartCommit` begin a flow; `Confirm`, `Cancel`, `ConfirmMessage` and
`CancelMessage` answer its dialogs; `RunPrepare` and `RunFinalize` are its jobs; `Abort`, `EditorRefuses`,
`ApplyToEditor`, `Outcome` and `CloseAndResume` its callbacks, one per exit of `prepared_editor_flow::run`. The
game's editor is external: layers are opened, left and edited when no popup is in front of them.
`unsaved` is a history variable: the editor may differ from HEAD for a reason the user knows of.

### ScrollList

One popup of either kind. `RebuildList` is `loadAsync`: a label replaces the rows and a job with a new
serial is posted; `AnswerLoad` drops its result if `IsStaleLoad`. `ToggleMode` renders the rows last loaded
again, also while others are loading. `Tick`, `OnSquashPressed`, `OnRowButton` and `AnswerDialog` are the user's,
`AnswerChange` and `AnswerSquash` the callbacks that request a new list. The task holder's cancellation of
an earlier request is not relied on. Which level a history is of is left out, and with it the fallback of
`loadHistory` to the level of the active editor (`HistoryList.cpp:22-29`). `changed` is a history variable.

## Runs

| Run | Instance | Shows |
|---|---|---|
| `three_states` | triples of 42 states: two objects with a field that is missing, empty, or one of two values; header texts in and out of order, with doubled keys, a token left over, an empty last value, two colour channels, two texts with the same channels | `RebuildGivesTarget`, `CleanRevertUndoesOnlyTarget`, `CleanImportKeepsBothSides`, `ImportIsSymmetric`, `ImportBackAgrees`, `OneSidedHeaderChangesArrive` |
| `matcher` | up to three objects on either side, of eight around the corner of four cells and the origin, some with equal fingerprints | `NoObjectLost`, `GridFindsNearest`, `UnchangedLevelKeepsUuids`, `AddAndRemoveOnlyIfFar` |
| `store` | two levels, four ids, selections of up to three, mods of two schema versions | `HeadInOwnLevel`, `EveryLevelDeletable` under stale ids, `OpenedWholeOrWiped` |
| `service_history` | commit, revert, imports of up to two commits, export, message edits, failing reads of HEAD, crash; cache of one | `HistoryFaithful` after every prefix of a batch, `CacheBounded` |
| `service_races` | commit, squash, checkout, delete, two pending at once | `ImplementsHistory`, `HistoryFaithful`, `ExportFaithful` |
| `service_store` | two levels, all writers, loads and deletes, under fairness | `ImplementsStore`: the service stays within the caller that `CommitStore` is analysed for; `HistoryFaithful`, `CacheOnlyLiveCommits`, `EveryLevelLoadable`, `JobsEnd` |
| `collab` | two authors, three uuids, three commits, three exports and faults together, both settings | `ExportsAreAtomic`, `LeftoversRefuseOnce`, `EverybodysWorkIsThere` |
| `flows` | two levels, popups, layers and flows at once, under fairness | `BusyWhileOneFlowRuns`, `OnlyOwnLevelReplaced`, `FlowsEnd` |
| `flows_editor_head` | all seven operations, one at a time | `EditorShowsHead` |
| `lists` | up to three rows, three clicks, any number of ticks and mode switches, under fairness | `ListsNeverGoBack`, `OwnChangesAppear`, `PopupShowsSelection` |

Bounds. Ids go up to 4: that is enough for a commit, its child, a prepared operation on top, and a
squash or a copy of them, which is where references can go wrong; a copy of two rows of another level
needs as many. In the service runs states differ in one field of one object, since a wrong base, parent
or target shows as a wrong value. `service_store` has one recorded state besides the empty level: its
second level and five writers matter there, and a lost parent or delta already shows as an empty level.
`collab` lets an author begin, another import and change, and the first import again, which needs three
commits and three exports. `MaxExports` counts exports and faults together: three are an export that is
cut off and the next one, which finds what the first left and is refused by it or writes over it; or two
faults in one export, the second in what the first left to do. `matcher`: of three objects one can take
what the second owns and leave the third without.
`flows` stops at two ids, since none of its properties needs more commits, and leaves load, delete and
revert to `flows_editor_head`: they take the same exits. `lists`: three clicks are a change, a second one
that overtakes its list, and a third request. In `collab` the two values of a field are symmetric: no
operator compares them but for equality.

What the main properties say:

* `HistoryFaithful`: replaying the stored deltas from the root gives, for every commit, the state that
  was recorded under its id, and so does the cache, whatever was squashed, copied, imported or finalized
  late since, also where HEAD could not be read. The one exception is a load whose source moved on.
* `ImplementsHistory`: above. The run has no loads, so that the abstract `Load` is not exercised; the proof
  covers it.
* `ExportFaithful`: the package of every level can be built and rebuilds to HEAD, although its commits are
  numbered by their place in the list, which squashes put out of the order of the references.
* `EveryLevelLoadable`: `replaceLevelHistoryFrom` orders rows by their references; parents and reverted
  commits must stay in the level and be acyclic together, although a squash moves references of old
  commits to a new id.
* `EveryLevelDeletable`: nothing outside a level ever refers to its rows.
* `OpenedWholeOrWiped`: however often opening was interrupted, the database that opens has all it had when
  it was closed, or, made by an older mod, nothing. Two exceptions, which the property states, are what
  the code does: a version that cannot be read wipes the history, and a mod with an older schema stamps
  a newer database down.
* `CleanRevertUndoesOnlyTarget`: a revert that reports nothing takes back what the commit did, field by field,
  and keeps what came later. The exception is an object that the commit added and a later one changed:
  the code removes it, later change and all, and reports nothing (see below).
* `CleanImportKeepsBothSides` and its companions: a merge without conflicts. The states excepted, each of
  which TLC shows to be needed: the next uuid is taken (`MergeService.cpp:107`), a header is text on one
  side and fields on the other (`MergeService.cpp:53`), a merged header ends in an empty value. Colours
  are compared by their channels, not by their text: the merge writes a text of its own, in which the
  channels of both sides have another order. `OneSidedHeaderChangesArrive` excepts channels where no setting
  at all is left in the merged text, since the level then falls back to the map of fields, in which
  two texts of the same channels are two values.
* `EverybodysWorkIsThere`: the same over any number of imports, through files. It is stated field by field:
  two authors may change different fields of one object, and both changes are there.
* `LeftoversRefuseOnce`: a compressed export that is cut off leaves a zip, or part of one, in `.tmp`. If the
  setting is switched then, the next plain export opens that file as a database and fails
  (`GdgePackage.cpp:240`); that failure removes it, so that the export after it opens its database with
  either setting. A compressed export is never refused: its database is in a file of its own.
* `GridFindsNearest`: the nine cells of the grid are as good as a search of the whole level.
* `BusyWhileOneFlowRuns`: the busy flag of an open popup is set exactly while one flow of it runs, over
  all exits of a flow, and with popups that close between any two steps.
* `EditorShowsHead`: the editor is written before the database; still, where nothing failed and nobody
  edited, it shows HEAD. This is checked for one operation at a time: with two, the order of jobs is
  not fixed and HEAD may be the older of two commits.
* `PopupShowsSelection`: what is ticked is what a press acts on. Rows that are selected and not listed any
  more are possible (ticked on the old rows while a list was loading); `onSquashPressed` refuses them.

Deadlock checking is off in `three_states` and `matcher`, whose behaviours end, and in `collab` and `lists`,
where the bounds end them.

Fairness. `JobsEnd` assumes weak fairness of the steps of `reconstruct` and of the end of a job: a job holds
the mutex in a blocking thread of its own and waits for nothing, so that it takes its next step
eventually. That an error ends the job is not counted on inside `reconstruct`, whose loops must end by
themselves. Nothing is assumed of the main thread there: a prepared operation need not be finalized.
`FlowsEnd` and `OwnChangesAppear` assume that a posted job and a callback queued on the main thread run
eventually, and nothing of the user, who may leave a dialog open for ever.

### Runs that show a disagreement

* `collab_reimport`: the guide says that all of the decorators' commits apply cleanly. If a decorator's file
  is imported a second time, after the decorator changed an object of the first time, the object is in
  the level twice, without a conflict: for the merge, both sides added it.
* `squash_editor`: a squash of commits below HEAD puts the newest of them into the editor, over later work.

Further places where the code differs from what the docs or comments say, met while modelling, which
the properties above except: a commit between `prepareCheckout` and `finalizeCheckout` leaves two children of
one parent (`docs/known-issues.md` promises one straight timeline); `finalizeImportLevelFrom` copies the rows
of now and caches the state of prepare's time; a squash keeps `createdAt` so that its row keeps its place,
but rows of the same second are ordered by id, and the new row has the newest; reverting the commit that
added an object removes it without a conflict even if it has moved on (`docs/source/diff.md:21`), of which
`CleanRevertUndoesOnlyTarget` claims nothing (`MovedOn`).

## Proofs

TLAPS proves what follows for every value of the constants: any keys, values and uuids, any number of
levels, commits, popups, flows, jobs and prepared operations, any capacity and any threshold. The bounds
of the models (`MaxId`, `MaxFlows`, `MaxUuid`, ...) are arbitrary natural numbers.

### From which assumptions

Only named ones, each in the module that declares the constant, and TLC evaluates all of them.

* Of values: `DifferAssumption` (`Empty` is a string, `Nil` is neither a string nor a field map, the empty raw
  header is a raw header), `NoFlowAssumption` and `FileAssumption` (the values for "no flow", "no file" and "no
  export" are none of the others), and in `ServiceAssumption` and `CollabAssumption` that `Nil` is no level.
* Of numbers: `StoreAssumption`, `ServiceAssumption`, `FlowAssumption`, `ListAssumption`, `CollabAssumption` (bounds and
  capacities are natural numbers), `MergeAssumption` (uuids are 1 .. `MaxUuid`), `MatcherAssumption` (coordinates are
  integers, the threshold is positive), `DatabaseAssumption` (schema versions are positive).
* Of texts: `GdHeaderAssumption` (`KeyOrder` is an order of all keys, as `std::map` iterates; there are finitely many
  channels), `ChannelsAssumption` (`parseChannels` reads the empty text as no channels, and `serializeChannels` writes
  any choice of channels that can be read as a text that reads as this choice), `ColorKeyAssumption`.
* Of the levels that are merged: `StatesAssumption` says that a level's header map is what its text reads as,
  if it has one. `LevelParser` fills both from one string, and the delta of two such levels changes both.

One theorem has a hypothesis: `EditorAgreesWithHead` assumes `MaxFlows = 1`, as its run does, because with two
operations at once the property is false.

### Along which argument

* `DifferProofs`. `ApplyCongruent`: `apply` does not tell apart states that are the same up to missing keys
  against empty strings. `RoundTrip`: `apply(a, diff(a, b))` is `b` up to the same. From both, `Replay`: a
  delta may be replayed on any copy of its base, and `ReplayWithoutConflicts`. Each is proved field by
  field, then object by object; no induction is needed, as a delta is a function and not a list. The module
  also has what the loops below are proved with: `UpTo` (a set of numbers that has 0 and with every number
  the next one has all up to a bound, from the least number that it lacks) and `RecursionExists` (a
  function that is defined by its value one step earlier exists), both without the library's
  induction theorems, which take an operator.
* `ThreeStatesProofs`. `RebuildCorrect` (`RebuildGivesTarget`) from `Replay`. `CleanRevertIsExact`
  (`CleanRevertUndoesOnlyTarget`): an empty conflict list means that nothing the delta expects is stale
  (`NothingStale`), and a change that is not stale puts back the parent's value and touches nothing else.
* The merge, also there. `CleanImportCorrect` (`CleanImportKeepsBothSides`), `ThreeStatesTypes` (`TypeOK`),
  `OneSidedChangesCorrect` (`OneSidedHeaderChangesArrive`), `ImportSymmetric` (`ImportIsSymmetric`) and `ImportBack`
  (`ImportBackAgrees`). The loop over the uuids has an invariant: below the running uuid every object is the
  merge of the three, above it ours, and the i-th object that both sides added in two versions is at
  the i-th new uuid. The conflict count is zero exactly if no field, object, key or channel clashes: it is a
  sum of cardinalities of finite sets. A header text is reasoned about as the sequence of its keys without
  repetition, from which what is read back from a merged text follows. For symmetry the new uuids of
  both imports are matched place by place; for the import back, `PickAgain` says that picking once more between
  the base, the result and one of the sides changes nothing.
* `CommitStoreProofs`, on the operations. `StoreInvariant`, and from it `StoreTypeCorrect`, `HeadStaysInLevel` and
  `LevelsStayDeletable`. Neither of the last two is inductive. That HEAD is in its level needs that a
  squashed range contains HEAD only of its own level; that a level can be deleted needs that no parent or
  reverted commit is in another level, which in turn needs, for a stale id that a caller passes, that the
  foreign keys held before and hold after the transaction. `StoreInv` is the conjunction of the types, the
  foreign keys, `ReferencesInOwnLevel` and `HeadsInOwnLevel`. There is one lemma per operation. The same holds
  around openings of the database (`DatabaseHeadsStayInLevel`, `DatabaseLevelsDeletable`).
* `CommitStoreProofs`, on opening. `OpeningKeepsOrWipes` (`OpenedWholeOrWiped`) from `DatabaseInvariant`. What makes it
  true is the order of the statements: a wipe drops the version last and a creation writes it last, so
  that the version of the newest mod is on disk only if the tables are whole (`StampInv`, `ClosedInv`).
  `StatementInv` says what the tables hold before each of the seven statements; every one of them, run or
  failed, is a step of the proof. The two exceptions of the property are the hypothesis `~odd`.
* `GitServiceProofs`. `HistoryFaithful` is far from inductive: what a commit writes was computed jobs
  earlier. `ServiceInv` therefore has five parts.
  - `TablesInv`: `StoreInv`; every stored delta makes the recorded state of its row out of that of its
    parent; HEAD is never the parent of a commit, so that a selection has HEAD only as its newest.
  - `CacheInv`: what is cached is the recorded state of a row that is there.
  - `PendingsInv`: for each kind of prepared operation, its delta still leads from its parent's recorded
    state to the state it promised, although HEAD has moved on, rows are gone and other operations are
    prepared beside it; a prepared squash knows that its ids are not HEAD, but for the last one.
  - `JobInv` and `WalkInv`: the same of what a running job has read and rebuilt, and of the two loops of
    `reconstruct`: the chain leads from the goal towards the root, and `walk.state` is the recorded state of
    the parent of the last in the chain.

  What carries a part over the steps of other jobs is `Grows`, proved once for every step: ids are handed
  out once, the state recorded under an id stays, a row never changes its level or comes back, and a HEAD
  moves to a new id only. Consequences: `HistoryIsFaithful`, `ServiceTypeCorrect`, `CacheHoldsLiveCommits`,
  `CacheStaysBounded`, and `ServiceImplementsStore`: every step of the service is one of the caller that the
  store is proved for, so that `ServiceLevelsDeletable` follows from `LevelsStayDeletable`.
* `LevelsStayLoadable` (`EveryLevelLoadable`), also there. That references have no cycle is not inductive
  either: a squash that was prepared long ago gives a new commit old children. What is inductive is that
  there are ranks (`Acyclic`) that rise from parent to child and from reverted to reverting commit, for the
  rows that are there and for the squashes that are still to come. A new row gets a rank above those
  of its parent and of the commit it reverts, a squash that of its newest commit, a copy that of its original.
* `ServiceImplementsHistory` (`ImplementsHistory`). `StepCases` sorts the steps of the service by what they do
  to tables and prepared operations; each case maps to a step of `History` or to a stutter. Loads are
  included, which the run `service_races` leaves out.
* `ExportIsFaithful` (`ExportFaithful`). The list of a level is ordered, so that its indexes and its rows
  correspond one to one. The ranks of `Acyclic` bound the chain from HEAD to the root: a commit has
  at most as many ancestors as there are rows of no higher rank. Each pass of the importer over the
  package reaches one more commit of the chain, so that as many passes as entries reach HEAD; what is
  reached is the recorded state, by `Replay`.
* `CollabProofs`, on files. `FileInv`: a target is whole or absent, a temporary file that is about to be moved holds
  the package of this very export, and the temporary database is absent or one. It is needed since the
  names of the temporary files are shared by all exports to a path, the interrupted ones included. From it
  `ExportIsAtomic` (`ExportsAreAtomic`): `Move` is `Publish`, all else a stutter; and `RefusedAtMostOnce`
  (`LeftoversRefuseOnce`): no zip is ever where a compressed export builds its database, so that only a
  plain one can be refused, and that one removes what it could not open.
* `CollabProofs`, on the exchange. `NobodysWorkIsLost` (`EverybodysWorkIsThere`) from `CollabInvariant`: every readable
  file holds a level, histories are of levels, and all that was imported without conflict shows. The
  argument is in the import's loops: after each file, the base is the root, everything that showed still
  shows, because a clean merge keeps what ours has against the base (`ObjectStays`), and what the file brought shows as
  well (`MergeShows`). Two things the first attempt found, which were wrong in the property and not in the
  code: compared by whole objects it is false where two authors changed two fields of one object,
  and where a level is founded by several files at once, an object that only one of them has is not
  one that the others removed.
* `EditorFlowsProofs`. `FlowInv`: the types, what every stage of a flow carries (`FlowOK`: ids that were of the
  flow's level, the layer it started in), and for every popup (`BusyOK`) how many flows run against its
  flag. From it `FlowTypeCorrect`, `BusyFlagsExact`, and `OwnLevelOnly` (`OnlyOwnLevelReplaced`).
  `EditorAgreesWithHead` has a second invariant, `HeadInv`: for each stage of the one flow, what the editor
  shows against what HEAD holds or is about to hold, and agreement where there is none.
* `MatcherProofs`. `GridIsNear`: coordinates nearer than the threshold are in the same or neighbouring cells,
  on both sides of zero, so that the nine cells hold all that is near; `GridHasNearest`: the order of the
  scan has a first element. `MatcherInv`: which uuids can be claimed, that an object is claimed for as
  often as it was met, and that nothing unclaimed is near an object that got a new uuid, which stays so
  because nothing is ever unclaimed. From it `NothingIsLost`, `NearestIsFound`, `AddedMeansFar`.
  `UnchangedMeansEmptyDelta` adds `OwnUuidsInv`: of a level that was written by the store, the uuids claimed
  so far are those of the ranks passed; the front of a bucket is then the object itself.
* `ScrollListProofs`. `LoadInv`: a serial is given out once, and a load that is not stale was read after the
  list on display. From it `ListsGoForward` (`ListsNeverGoBack`). `TicksAreSelection` (`PopupShowsSelection`) is
  inductive once the view is known to be a record.

`FlowInv`, `HeadInv`, `MatcherInv`, `OwnUuidsInv`, `LoadInv` and `DatabaseInv` were model-checked on the instances of their
components' runs before they were proved.

### Only model-checked

* `JobsEnd`, `FlowsEnd` and `OwnChangesAppear`: liveness under fairness is out of the prover's reach. Every other
  property of the passing runs is stated by a theorem.
* The two runs that show a disagreement.

## Not modelled

Malformed deltas, damaged blobs and packages that no export writes; coordinates that do not fit an
`int`; the zip and blob formats; what the user is told; the game's own structures, which
`LevelStateIO` reads and writes; layout, paging and wording (`DeltaInfoLayer`, `presentation`); the in-game tests;
SQLite itself.

## What could come next

1. `CollabSpec` as an implementation of a chain of `GitService` histories, so that "root and HEAD stand for a
   history" is a refinement and not an argument in words.
2. Damaged blobs, which a load copies as an empty delta (listed under the hazards): a store whose rows
   may be unreadable, and what of `HistoryFaithful` is left.
