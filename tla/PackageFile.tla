----------------------------- MODULE PackageFile -----------------------------
(***************************************************************************)
(* Writing a .gdge file: writeGdgePackage of src/store/GdgePackage.cpp,    *)
(* with writeZipAtomic and replaceFileAtomic of src/util/io.  The package  *)
(* is built in files beside the target and moved over it at the end.  Any  *)
(* step may fail, and the process may end between any two steps.           *)
(***************************************************************************)
EXTENDS Naturals

CONSTANTS
    Path,       \* the files that exports write
    Package,    \* what a complete export holds
    NoFile,     \* no file, or a database without the tables of a package
    NoExport,
    MaxFaults   \* bound of the model on the steps that fail or are cut off by a crash

\* The target itself, ".tmp" and ".sqlite-tmp".
Suffix == {"", "tmp", "sqlite-tmp"}

\* A torn file is a zip of which only a part was written.  A database is never torn: SQLite rolls an
\* unfinished transaction back when the file is opened again.
File == [form : {"sqlite", "zip"}, pkg : Package \cup {NoFile}] \cup [form : {"torn"}]
Content == File \cup {NoFile}

Export == [phase : {"sqlite", "create", "add", "move", "clean"}, pkg : Package, compress : BOOLEAN]

ASSUME FileAssumption ==
    /\ NoFile \notin File \cup Package
    /\ NoExport \notin Export \cup Package
    /\ MaxFaults \in Nat

VARIABLES
    disk,       \* path -> suffix -> content
    export,     \* path -> the running call of writeGdgePackage, NoExport if there is none
    faults      \* number of faults, for the bound

fileVars == <<disk, export, faults>>

FileTypeOK ==
    /\ disk \in [Path -> [Suffix -> Content]]
    /\ export \in [Path -> Export \cup {NoExport}]
    /\ faults \in 0 .. MaxFaults

FileInit ==
    /\ disk = [p \in Path |-> [x \in Suffix |-> NoFile]]
    /\ export = [p \in Path |-> NoExport]
    /\ faults = 0

-------------------------------------------------------------------------------
Exporting(p, phase) == export[p] # NoExport /\ export[p].phase = phase
Goto(p, phase) == export' = [export EXCEPT ![p].phase = phase]
EndExport(p) == export' = [export EXCEPT ![p] = NoExport]

\* SQLite opens a file that is not there, and refuses one that is no database.
OpensAsDatabase(content) == content # NoFile => content.form = "sqlite"

\* Mutant: both kinds of export build the database in the same file.
SqliteSuffix_Shared(compress) == "tmp"

\* "Use a path distinct from writeZipAtomic tmp suffix."
SqliteSuffix(compress) == IF compress THEN "sqlite-tmp" ELSE "tmp"

\* Mutant: the zip is written where the target is.
ZipSuffix_InPlace == ""
ZipSuffix == "tmp"

BeginExport(p, pkg, compress) ==
    /\ export[p] = NoExport
    /\ export' = [export EXCEPT ![p] = [phase |-> "sqlite", pkg |-> pkg, compress |-> compress]]
    /\ UNCHANGED <<disk, faults>>

\* writeGdgePackageSqlite: what an earlier export left is dropped in the same transaction.
WriteSqlite(p) ==
    LET e == export[p]
        x == SqliteSuffix(e.compress)
    IN  /\ Exporting(p, "sqlite") /\ OpensAsDatabase(disk[p][x])
        /\ disk' = [disk EXCEPT ![p][x] = [form |-> "sqlite", pkg |-> e.pkg]]
        /\ Goto(p, IF e.compress THEN "create" ELSE "move")

\* The transaction did not commit: the file is as it was, or is a database without tables now.
RolledBack(p) ==
    LET x == SqliteSuffix(export[p].compress)
    IN  \/ UNCHANGED disk
        \/ disk[p][x] = NoFile /\ disk' = [disk EXCEPT ![p][x] = [form |-> "sqlite", pkg |-> NoFile]]

\* Only the plain export removes its file then.
WriteSqliteFails(p) ==
    /\ Exporting(p, "sqlite")
    /\ IF export[p].compress THEN RolledBack(p)
       ELSE disk' = [disk EXCEPT ![p][SqliteSuffix(FALSE)] = NoFile]
    /\ EndExport(p)

\* What an earlier export left in the place of the database is none: a zip, whole or torn.
RefusedByLeftover(p) ==
    WriteSqliteFails(p) /\ ~OpensAsDatabase(disk[p][SqliteSuffix(export[p].compress)])

\* readBinary, then Zip::create.
CreateZip(p) ==
    /\ Exporting(p, "create")
    /\ disk' = [disk EXCEPT ![p][ZipSuffix] = [form |-> "torn"]]
    /\ Goto(p, "add")

ReadBackFails(p) ==
    /\ Exporting(p, "create")
    /\ disk' = [disk EXCEPT ![p][SqliteSuffix(TRUE)] = NoFile]
    /\ EndExport(p)

CreateZipFails(p) == Exporting(p, "create") /\ Goto(p, "clean") /\ UNCHANGED disk

AddToZip(p) ==
    /\ Exporting(p, "add")
    /\ disk' = [disk EXCEPT ![p][ZipSuffix] = [form |-> "zip", pkg |-> export[p].pkg]]
    /\ Goto(p, "move")

AddToZipFails(p) ==
    /\ Exporting(p, "add")
    /\ disk' = [disk EXCEPT ![p][ZipSuffix] = NoFile]
    /\ Goto(p, "clean")

AfterMove(p) == IF export[p].compress THEN Goto(p, "clean") ELSE EndExport(p)

\* replaceFileAtomic
Move(p) ==
    /\ Exporting(p, "move")
    /\ disk' = [disk EXCEPT ![p][""] = disk[p]["tmp"], ![p]["tmp"] = NoFile]
    /\ AfterMove(p)

MoveFails(p) ==
    /\ Exporting(p, "move")
    /\ disk' = [disk EXCEPT ![p]["tmp"] = NoFile]
    /\ AfterMove(p)

\* The intermediate database is removed; if that fails, it stays.
Clean(p) ==
    /\ Exporting(p, "clean")
    /\ disk' = [disk EXCEPT ![p][SqliteSuffix(TRUE)] = NoFile]
    /\ EndExport(p)
CleanFails(p) == Exporting(p, "clean") /\ EndExport(p) /\ UNCHANGED disk

\* The process ends.
CrashInExport(p) ==
    /\ export[p] # NoExport
    /\ IF export[p].phase = "sqlite" THEN RolledBack(p) ELSE UNCHANGED disk
    /\ EndExport(p)

Fails(p) ==
    \/ WriteSqliteFails(p) \/ ReadBackFails(p) \/ CreateZipFails(p) \/ AddToZipFails(p)
    \/ MoveFails(p) \/ CleanFails(p) \/ CrashInExport(p)

WritePackage(p) ==
    \/ /\ WriteSqlite(p) \/ CreateZip(p) \/ AddToZip(p) \/ Move(p) \/ Clean(p)
       /\ UNCHANGED faults
    \/ RefusedByLeftover(p) /\ UNCHANGED faults
    \/ Fails(p) /\ faults < MaxFaults /\ faults' = faults + 1

\* readGdgePackage: what the file at p reads as, NoFile if it reads as nothing.
ReadPackage(p) ==
    IF disk[p][""] # NoFile /\ disk[p][""].form \in {"sqlite", "zip"} THEN disk[p][""].pkg ELSE NoFile

FileNext ==
    \E p \in Path :
        \/ \E pkg \in Package, compress \in BOOLEAN : BeginExport(p, pkg, compress)
        \/ WritePackage(p)

FileSpec == FileInit /\ [][FileNext]_fileVars
-------------------------------------------------------------------------------
(***************************************************************************)
(* Properties                                                              *)
(***************************************************************************)

Atomic == INSTANCE AtomicExport WITH
    file <- [p \in Path |-> ReadPackage(p)],
    exporting <- [p \in Path |-> IF export[p] = NoExport THEN NoExport
                                 ELSE IF export[p].phase = "clean" THEN NoExport ELSE export[p].pkg]

\* Whatever step fails, whenever the process ends, whatever an earlier export left in the temporary
\* files, and whichever way the setting was switched in between: a file that was exported stays
\* readable, and it changes only by one step, to the package of the export that runs, whole.
ExportsAreAtomic == Atomic!AtomicSpec

\* What an interrupted export leaves behind keeps the next one from being written at most once.  A zip
\* in ".tmp", whole or torn, of a compressed export that was cut off makes the next plain export fail
\* (GdgePackage.cpp:240); but no compressed export is ever refused, whichever way the setting was
\* switched, and one that is refused clears the way: after it, an export to the same path opens its
\* database with either setting.
LeftoversRefuseOnce ==
    [][\A p \in Path : RefusedByLeftover(p) =>
        /\ ~export[p].compress
        /\ \A compress \in BOOLEAN : OpensAsDatabase(disk'[p][SqliteSuffix(compress)])]_fileVars
===============================================================================
