-------------------------------- MODULE Collab --------------------------------
(***************************************************************************)
(* Authors who work on one level and exchange .gdge files: commits, squash *)
(* to one commit, exports and imports of several files at once, with       *)
(* GdgeImportPlanner.cpp and GdgeImportMerge.cpp over the three-way merge  *)
(* and the package files.                                                  *)
(*                                                                         *)
(* Every author has a database of their own.  Of a history, only its root  *)
(* and HEAD matter here: GitService shows that both reconstruct to what    *)
(* was recorded, and that an import finalized late is still a child of the *)
(* HEAD it was prepared on.                                                *)
(***************************************************************************)
EXTENDS Merge, PackageFile

CONSTANTS
    Compress,      \* values of the setting "compress-export-files"
    Version,       \* fields that an object can be given
    Founder,       \* authors who may begin a level of their own
    MaxCommits,    \* bound of the model on the commits and squashes of all authors
    MaxExports     \* bound of the model on the exports of all authors and the steps of them that fail

Author == Path

ASSUME CollabAssumption ==
    /\ Version \subseteq FieldMap /\ Nil \notin Level
    /\ Founder \subseteq Author
    /\ {MaxCommits, MaxExports} \subseteq Nat

VARIABLES
    roots,     \* author -> state of the root commit, Nil if the author has no history
    heads,     \* author -> state of HEAD
    used,      \* uuids that were ever handed out
    commits,   \* number of commits and squashes, for the bound
    exports,   \* number of exports begun, for the bound
    \* History variables, not in the code, all since the author's last commit of their own:
    got,       \* author -> the level that was last imported from there, one's own for oneself; all Nil
               \* once a conflict was reported.  All that the files have that a history began with is
               \* in its root: what came from them is the root.
    twice      \* an import found an object that both sides had added, in two versions

dbVars == <<roots, heads, used>>
boundVars == <<commits, exports>>
ghostVars == <<got, twice>>
collabVars == <<dbVars, boundVars, ghostVars, fileVars>>

CollabTypeOK ==
    /\ FileTypeOK
    /\ {roots, heads} \subseteq [Author -> Level \cup {Nil}]
    /\ used \subseteq Uuid
    /\ got \in [Author -> [Author -> Level \cup {Nil}]]
    /\ twice \in [Author -> BOOLEAN]

CollabInit ==
    /\ FileInit
    /\ roots = [a \in Author |-> Nil] /\ heads = roots
    /\ used = {}
    /\ commits = 0 /\ exports = 0
    /\ got = [a \in Author |-> [d \in Author |-> Nil]]
    /\ twice = [a \in Author |-> FALSE]

-------------------------------------------------------------------------------
(***************************************************************************)
(* Commits                                                                 *)
(***************************************************************************)

\* An author's jobs exclude each other.  Those of others are kept out as a bound of the model: of an
\* export they see only the move, which is one step.
NoExportRuns == \A a \in Author : export[a] = NoExport

\* From here on, the author's HEAD is their own work.
OwnWork(a, s) ==
    /\ got' = [got EXCEPT ![a] = [d \in Author |-> IF d = a THEN s ELSE Nil]]
    /\ twice' = [twice EXCEPT ![a] = FALSE]

\* The author changes one object and commits.  Objects keep their uuids, and a new object gets one
\* that nobody has (the matcher draws from 2^64).
Commit(a, u, object) ==
    LET s == [(IF heads[a] = Nil THEN EmptyState ELSE heads[a]) EXCEPT !.objects[u] = object]
    IN  /\ NoExportRuns
        /\ commits < MaxCommits
        /\ heads[a] = Nil => a \in Founder
        /\ s # heads[a] /\ s # EmptyState
        /\ u \in used => heads[a] # Nil /\ heads[a].objects[u] # Nil
        /\ heads' = [heads EXCEPT ![a] = s]
        /\ roots' = [roots EXCEPT ![a] = IF @ = Nil THEN s ELSE @]
        /\ used' = used \cup {u}
        /\ commits' = commits + 1
        /\ OwnWork(a, s)
        /\ UNCHANGED <<exports, fileVars>>

\* about.md, Collab Guide: "Commit and squash everything into a single layout commit."
SquashAll(a) ==
    /\ NoExportRuns
    /\ commits < MaxCommits
    /\ roots[a] # heads[a]
    /\ roots' = [roots EXCEPT ![a] = heads[a]]
    /\ commits' = commits + 1
    /\ OwnWork(a, heads[a])
    /\ UNCHANGED <<heads, used, exports, fileVars>>

-------------------------------------------------------------------------------
(***************************************************************************)
(* Export                                                                  *)
(***************************************************************************)

\* hashLevelState hashes the level string: the objects in the order of their uuids, without these.
HashLevelState(s) ==
    LET ids == SelectSeq([n \in 1 .. MaxUuid |-> n], LAMBDA u : s.objects[u] # Nil)
    IN  <<WrittenHeader(s), [n \in DOMAIN ids |-> s.objects[ids[n]]]>>

\* exportLevelToGdge
ExportLevel(a, compress) ==
    /\ NoExportRuns
    /\ heads[a] # Nil
    /\ exports + faults < MaxExports
    /\ BeginExport(a, [rootHash |-> HashLevelState(roots[a]), head |-> heads[a]], compress)
    /\ exports' = exports + 1
    /\ UNCHANGED <<dbVars, commits, ghostVars>>

-------------------------------------------------------------------------------
(***************************************************************************)
(* Import                                                                  *)
(***************************************************************************)

NoFiles == [d \in Author |-> Nil]

\* What has been merged so far: rootBefore, runningState, whether there is a HEAD or a pending commit
\* to build on, the author's root afterwards, and what the properties need.
BatchBegin(a) ==
    IF heads[a] = Nil
    THEN [base |-> EmptyState, ours |-> EmptyState, begun |-> FALSE, root |-> EmptyState,
          from |-> NoFiles, conflicts |-> 0, twice |-> FALSE, fits |-> TRUE]
    ELSE [base |-> roots[a], ours |-> heads[a], begun |-> TRUE, root |-> roots[a],
          from |-> NoFiles, conflicts |-> 0, twice |-> FALSE, fits |-> TRUE]

\* mergeStates3Way of one file into the running state.
MergeFile(b, d) ==
    LET theirs == ReadPackage(d).head
        merge == MergeStates3Way(b.base, b.ours, theirs)
    IN  [b EXCEPT !.ours = merge.state,
                  !.from[d] = theirs,
                  !.conflicts = @ + merge.conflicts,
                  !.twice = @ \/ AddedTwice(b.base, b.ours, theirs) # {},
                  !.fits = @ /\ Fits(b.base, b.ours, theirs)]

\* Mutant: files that were merged before the one that cannot be read count.
SmartMerge_KeepsFirst(b, files, bad) ==
    LET loop[n \in 0 .. Len(files)] ==
            IF n = 0 THEN b
            ELSE IF \E m \in 1 .. n : files[m] \in bad THEN loop[n - 1] ELSE MergeFile(loop[n - 1], files[n])
        merged == loop[Len(files)]
    IN  IF files = <<>> THEN b
        ELSE [merged EXCEPT !.from = [d \in Author |-> IF d \in RangeOf(files) THEN ReadPackage(d).head ELSE @[d]],
                            !.begun = TRUE,
                            !.base = IF b.begun THEN @ ELSE merged.ours,
                            !.root = IF b.begun THEN @ ELSE merged.ours]

\* The files with our root: all of them into one commit, or none if one cannot be loaded any more.
SmartMerge(b, files, bad) ==
    LET loop[n \in 0 .. Len(files)] == IF n = 0 THEN b ELSE MergeFile(loop[n - 1], files[n])
        merged == loop[Len(files)]
    IN  IF files = <<>> \/ \E n \in DOMAIN files : files[n] \in bad THEN b
        ELSE IF b.begun THEN merged
        ELSE [merged EXCEPT !.begun = TRUE, !.base = merged.ours, !.root = merged.ours,
                            !.from = [d \in Author |-> IF merged.from[d] = Nil THEN Nil ELSE merged.ours]]

\* One file with another root.  Without HEAD and without pending commits it becomes the root.
SequentialMerge(b, d) ==
    LET theirs == ReadPackage(d).head
    IN  IF b.begun THEN MergeFile(b, d)
        ELSE [b EXCEPT !.base = theirs, !.ours = theirs, !.root = theirs, !.begun = TRUE,
                       !.from[d] = theirs]

\* prepareImportManyFromGdge: the batch that the plan gives.  A file that cannot be read while
\* classifying is skipped, as if it were not in files; one that cannot be read while merging is in bad.
ImportBatch(a, files, bad) ==
    LET localHash == HashLevelState(IF roots[a] = Nil THEN EmptyState ELSE roots[a])
        ours == {d \in RangeOf(files) : ReadPackage(d).rootHash = localHash}
        smart == Selected(files, ours)
        sequential == Selected(files, RangeOf(files) \ (ours \cup bad))
        begin == SmartMerge(BatchBegin(a), smart, bad)
        loop[n \in 0 .. Len(sequential)] ==
            IF n = 0 THEN begin ELSE SequentialMerge(loop[n - 1], sequential[n])
    IN  loop[Len(sequential)]

\* Import of files, prepared and finalized.
ImportMany(a, files, bad) ==
    /\ NoExportRuns
    /\ \A n \in DOMAIN files : ReadPackage(files[n]) # NoFile
    /\ \E b \in {ImportBatch(a, files, bad)} :
        /\ b.from # NoFiles /\ b.fits
        /\ heads' = [heads EXCEPT ![a] = b.ours]
        /\ roots' = [roots EXCEPT ![a] = b.root]
        /\ used' = used \cup {u \in Uuid : b.ours.objects[u] # Nil}
        /\ got' = [got EXCEPT ![a] = [d \in Author |-> IF b.conflicts > 0 THEN Nil
                                                       ELSE IF d # a /\ b.from[d] # Nil THEN b.from[d]
                                                       ELSE @[d]]]
        /\ twice' = [twice EXCEPT ![a] = @ \/ b.twice]
        /\ UNCHANGED <<boundVars, fileVars>>

-------------------------------------------------------------------------------
\* The selections of the file picker.
FileLists == UNION {{f \in [1 .. n -> Author] : \A i, j \in 1 .. n : f[i] = f[j] => i = j} :
                      n \in 1 .. Cardinality(Author)}

WriteFile(a) ==
    /\ WritePackage(a)
    /\ exports + faults' <= MaxExports
    /\ UNCHANGED <<dbVars, boundVars, ghostVars>>

CollabNext ==
    \E a \in Author :
        \/ \E u \in Uuid, object \in Version \cup {Nil} : Commit(a, u, object)
        \/ SquashAll(a)
        \/ \E compress \in Compress : ExportLevel(a, compress)
        \/ WriteFile(a)
        \/ \E files \in FileLists : \E bad \in SUBSET {files[n] : n \in DOMAIN files} :
            ImportMany(a, files, bad)

CollabSpec == CollabInit /\ [][CollabNext]_collabVars
-------------------------------------------------------------------------------
(***************************************************************************)
(* Properties                                                              *)
(***************************************************************************)

\* Everything that level has otherwise than the root is so in the newest state: the objects it added, those it
\* removed, and of the others each field that it changed.
ShowsIn(root, level, newest) ==
    \A u \in Uuid : ObjectArrives(Norm(root).objects[u], Norm(level).objects[u], Norm(newest).objects[u])

Shows(a, d) == ShowsIn(roots[a], got[a][d], heads[a])

\* As long as the imports report no conflict, and no object that was added on one side comes back from
\* another in another version, one's own work and the work of everybody who was imported is all in
\* the level: in whatever order, in however many imports the files came, whoever had imported whom
\* before, and whichever files could not be read.
EverybodysWorkIsThere ==
    \A a \in Author : ~twice[a] =>
        \A d \in Author : got[a][d] # Nil => Shows(a, d)

\* about.md, Collab Guide: "When you import the decorators' files, all of their unique commits will
\* cleanly apply directly onto your layout."  Here the layout is a single commit, of which its author
\* changed nothing since.
DecoratorsWorkApplies ==
    \A a \in Founder, d \in Author \ Founder :
        got[a][a] # Nil /\ got[a][a] = roots[a] /\ got[a][d] # Nil => Shows(a, d)
===============================================================================
