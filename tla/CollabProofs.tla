----------------------------- MODULE CollabProofs -----------------------------
(***************************************************************************)
(* Exports are atomic, and in the exchange of files nobody's work is lost, *)
(* for any number of authors, files, objects and failures and any          *)
(* settings.                                                               *)
(*                                                                         *)
(* That the target of an export changes only to the whole package of the   *)
(* running export is not inductive: it needs that what is about to be      *)
(* moved over it is that package, and not what an earlier export left in   *)
(* the same file.                                                          *)
(*                                                                         *)
(* That everybody's work is there is inductive, but for what a level is;   *)
(* the argument is in the loop of an import, whose invariant says so of    *)
(* what has been merged so far.  The lemmas about one merge are those of   *)
(* ThreeStatesProofs; its variables play no part here.                     *)
(***************************************************************************)
EXTENDS Collab, ThreeStatesProofs

-------------------------------------------------------------------------------
(***************************************************************************)
(* Exports                                                                 *)
(***************************************************************************)

\* The file can be read as this package.
Holds(content, pkg) ==
    content # NoFile /\ content.form \in {"sqlite", "zip"} /\ content.pkg = pkg

\* A file that was moved to its place is whole.
TargetsWhole ==
    \A p \in Path : disk[p][""] = NoFile \/ \E pkg \in Package : Holds(disk[p][""], pkg)

\* What is about to be moved is the package of the export.
MovesOwnPackage ==
    \A p \in Path : Exporting(p, "move") => Holds(disk[p]["tmp"], export[p].pkg)

\* The file in which compressed exports build their database is never a zip.
SqliteTmpIsDatabase == \A p \in Path : OpensAsDatabase(disk[p]["sqlite-tmp"])

FileInv == FileTypeOK /\ TargetsWhole /\ MovesOwnPackage /\ SqliteTmpIsDatabase

\* A step of one export leaves the files of the others alone.
LEMMA OtherPathsInv ==
    ASSUME FileInv, NEW p \in Path,
           NEW d, NEW e,
           disk' = [disk EXCEPT ![p] = d], export' = [export EXCEPT ![p] = e],
           d \in [Suffix -> Content], e \in Export \cup {NoExport},
           faults' \in 0 .. MaxFaults,
           d[""] = NoFile \/ \E pkg \in Package : Holds(d[""], pkg),
           e # NoExport /\ e.phase = "move" => Holds(d["tmp"], e.pkg),
           OpensAsDatabase(d["sqlite-tmp"])
    PROVE  FileInv'
<1>1. /\ disk'[p] = d /\ export'[p] = e
      /\ \A q \in Path \ {p} : disk'[q] = disk[q] /\ export'[q] = export[q]
  BY DEF FileInv, FileTypeOK
<1>2. FileTypeOK'
  BY DEF FileInv, FileTypeOK
<1>3. TargetsWhole'
  BY <1>1 DEF FileInv, TargetsWhole
<1>4. MovesOwnPackage'
  BY <1>1 DEF FileInv, MovesOwnPackage, Exporting
<1>5. SqliteTmpIsDatabase'
  BY <1>1 DEF FileInv, SqliteTmpIsDatabase
<1> QED
  BY <1>2, <1>3, <1>4, <1>5 DEF FileInv

\* No file was written yet.
LEMMA FileInvInit == FileInit => FileInv
<1> SUFFICES ASSUME FileInit PROVE FileInv
  OBVIOUS
<1>1. NoFile \in Content /\ 0 \in 0 .. MaxFaults
  BY FileAssumption DEF Content
<1>2. [x \in Suffix |-> NoFile] \in [Suffix -> Content]
  BY <1>1
<1>3. disk \in [Path -> [Suffix -> Content]]
  BY <1>2 DEF FileInit
<1>4. export \in [Path -> Export \cup {NoExport}]
  BY DEF FileInit
<1>5. FileTypeOK
  BY <1>1, <1>3, <1>4 DEF FileInit, FileTypeOK
<1> QED
  BY <1>5 DEF FileInit, FileInv, TargetsWhole, MovesOwnPackage, SqliteTmpIsDatabase, Exporting,
              OpensAsDatabase, Suffix

\* What a running export is.
LEMMA RunningExport ==
    ASSUME FileInv, NEW p \in Path
    PROVE  /\ disk[p] \in [Suffix -> Content]
           /\ disk[p][""] = NoFile \/ \E pkg \in Package : Holds(disk[p][""], pkg)
           /\ OpensAsDatabase(disk[p]["sqlite-tmp"])
           /\ export[p] # NoExport => /\ export[p] \in Export /\ export[p].pkg \in Package
                                      /\ export[p].compress \in BOOLEAN
                                      /\ SqliteSuffix(export[p].compress) \in {"tmp", "sqlite-tmp"}
BY DEF FileInv, FileTypeOK, TargetsWhole, SqliteTmpIsDatabase, Export, SqliteSuffix

\* The steps that write the package.
LEMMA WritesInv ==
    ASSUME FileInv, NEW p \in Path, faults' \in 0 .. MaxFaults,
           WriteSqlite(p) \/ CreateZip(p) \/ AddToZip(p) \/ Move(p) \/ Clean(p)
    PROVE  FileInv'
<1> DEFINE e == export[p]
<1>1. CASE WriteSqlite(p)
  <2> DEFINE x == SqliteSuffix(e.compress)
             c == [form |-> "sqlite", pkg |-> e.pkg]
             d == [disk[p] EXCEPT ![x] = c]
             f == [e EXCEPT !.phase = IF e.compress THEN "create" ELSE "move"]
  <2>1. e \in Export /\ e # NoExport /\ e.pkg \in Package /\ e.compress \in BOOLEAN
    BY <1>1, RunningExport DEF WriteSqlite, Exporting
  <2>2. disk' = [disk EXCEPT ![p] = d] /\ export' = [export EXCEPT ![p] = f]
    BY <1>1 DEF WriteSqlite, Goto, FileInv, FileTypeOK
  <2>3. c \in Content /\ c # NoFile /\ x \in {"tmp", "sqlite-tmp"}
    BY <2>1, FileAssumption DEF Content, File, SqliteSuffix
  <2>4. d \in [Suffix -> Content] /\ d[x] = c /\ \A y \in Suffix \ {x} : d[y] = disk[p][y]
    BY <2>3, RunningExport DEF Suffix
  <2>5. f \in Export
    BY <2>1 DEF Export
  <2>6. d[""] = disk[p][""]
    BY <2>3, <2>4 DEF Suffix
  <2>7. f.phase = "move" => Holds(d["tmp"], f.pkg)
    BY <2>1, <2>3, <2>4 DEF Holds, SqliteSuffix, Export
  <2>8. OpensAsDatabase(d["sqlite-tmp"])
    BY <2>3, <2>4, RunningExport DEF OpensAsDatabase, Suffix
  <2> HIDE DEF d, f
  <2> QED
    BY <2>2, <2>4, <2>5, <2>6, <2>7, <2>8, RunningExport, OtherPathsInv
<1>2. CASE CreateZip(p)
  <2> DEFINE c == [form |-> "torn"]
             d == [disk[p] EXCEPT !["tmp"] = c]
             f == [e EXCEPT !.phase = "add"]
  <2>1. e \in Export /\ e # NoExport
    BY <1>2, RunningExport DEF CreateZip, Exporting
  <2>2. disk' = [disk EXCEPT ![p] = d] /\ export' = [export EXCEPT ![p] = f]
    BY <1>2 DEF CreateZip, ZipSuffix, Goto, FileInv, FileTypeOK
  <2>3. c \in Content
    BY DEF Content, File
  <2>4. /\ d \in [Suffix -> Content] /\ d[""] = disk[p][""]
        /\ d["sqlite-tmp"] = disk[p]["sqlite-tmp"]
    BY <2>3, RunningExport DEF Suffix
  <2>5. f \in Export /\ f.phase # "move"
    BY <2>1 DEF Export
  <2> HIDE DEF d, f
  <2> QED
    BY <2>2, <2>4, <2>5, RunningExport, OtherPathsInv
<1>3. CASE AddToZip(p)
  <2> DEFINE c == [form |-> "zip", pkg |-> e.pkg]
             d == [disk[p] EXCEPT !["tmp"] = c]
             f == [e EXCEPT !.phase = "move"]
  <2>1. e \in Export /\ e # NoExport /\ e.pkg \in Package
    BY <1>3, RunningExport DEF AddToZip, Exporting
  <2>2. disk' = [disk EXCEPT ![p] = d] /\ export' = [export EXCEPT ![p] = f]
    BY <1>3 DEF AddToZip, ZipSuffix, Goto, FileInv, FileTypeOK
  <2>3. c \in Content /\ Holds(c, e.pkg)
    BY <2>1, FileAssumption DEF Content, File, Holds
  <2>4. /\ d \in [Suffix -> Content] /\ d[""] = disk[p][""] /\ d["tmp"] = c
        /\ d["sqlite-tmp"] = disk[p]["sqlite-tmp"]
    BY <2>3, RunningExport DEF Suffix
  <2>5. f \in Export /\ f.pkg = e.pkg
    BY <2>1 DEF Export
  <2> HIDE DEF d, f
  <2> QED
    BY <2>2, <2>3, <2>4, <2>5, RunningExport, OtherPathsInv
<1>4. CASE Move(p)
  <2> DEFINE d == [disk[p] EXCEPT ![""] = disk[p]["tmp"], !["tmp"] = NoFile]
             f == IF e.compress THEN [e EXCEPT !.phase = "clean"] ELSE NoExport
  <2>1. e \in Export /\ e # NoExport /\ e.pkg \in Package /\ Holds(disk[p]["tmp"], e.pkg)
    BY <1>4, RunningExport DEF Move, Exporting, FileInv, MovesOwnPackage
  <2>2. disk' = [disk EXCEPT ![p] = d] /\ export' = [export EXCEPT ![p] = f]
    BY <1>4 DEF Move, AfterMove, Goto, EndExport, FileInv, FileTypeOK, Suffix
  <2>3. /\ d \in [Suffix -> Content] /\ d[""] = disk[p]["tmp"]
        /\ d["sqlite-tmp"] = disk[p]["sqlite-tmp"]
    BY RunningExport DEF Suffix, Content
  <2>4. f \in Export \cup {NoExport} /\ (f # NoExport => f.phase # "move")
    BY <2>1 DEF Export
  <2> HIDE DEF d, f
  <2> QED
    BY <2>1, <2>2, <2>3, <2>4, RunningExport, OtherPathsInv
<1>5. CASE Clean(p)
  <2> DEFINE d == [disk[p] EXCEPT !["sqlite-tmp"] = NoFile]
  <2>1. disk' = [disk EXCEPT ![p] = d] /\ export' = [export EXCEPT ![p] = NoExport]
    BY <1>5 DEF Clean, EndExport, SqliteSuffix, FileInv, FileTypeOK
  <2>2. /\ d \in [Suffix -> Content] /\ d[""] = disk[p][""]
        /\ d["sqlite-tmp"] = NoFile
    BY RunningExport DEF Suffix, Content
  <2> HIDE DEF d
  <2> QED
    BY <2>1, <2>2, RunningExport, OtherPathsInv DEF OpensAsDatabase
<1> QED
  BY <1>1, <1>2, <1>3, <1>4, <1>5

\* The steps that fail, or that the end of the process cuts off.
LEMMA FailsInv ==
    ASSUME FileInv, NEW p \in Path, faults' \in 0 .. MaxFaults, Fails(p)
    PROVE  FileInv'
<1> DEFINE e == export[p]
           Rest(f) == f = NoExport \/ (f \in Export /\ f.phase # "move")
<1>1. e \in Export /\ e # NoExport /\ e.pkg \in Package /\ e.compress \in BOOLEAN
  BY RunningExport DEF Fails, WriteSqliteFails, ReadBackFails, CreateZipFails, AddToZipFails,
                       MoveFails, CleanFails, CrashInExport, Exporting
<1>2. NoFile \in Content /\ [form |-> "sqlite", pkg |-> NoFile] \in Content
  BY DEF Content, File
\* No step that fails touches a target or puts a zip where a database is built.
<1>3. ASSUME NEW x \in {"tmp", "sqlite-tmp"}, NEW c \in Content, OpensAsDatabase(c),
             NEW f, Rest(f),
             disk' = [disk EXCEPT ![p][x] = c], export' = [export EXCEPT ![p] = f]
      PROVE  FileInv'
  <2> DEFINE d == [disk[p] EXCEPT ![x] = c]
  <2>1. disk' = [disk EXCEPT ![p] = d]
    BY <1>3 DEF FileInv, FileTypeOK
  <2>2. d \in [Suffix -> Content] /\ d[""] = disk[p][""] /\ OpensAsDatabase(d["sqlite-tmp"])
    BY <1>3, RunningExport DEF Suffix
  <2>3. f \in Export \cup {NoExport} /\ ~(f # NoExport /\ f.phase = "move")
    BY <1>3
  <2> HIDE DEF d
  <2> QED
    BY <1>3, <2>1, <2>2, <2>3, RunningExport, OtherPathsInv
<1>4. ASSUME NEW f, Rest(f), UNCHANGED disk, export' = [export EXCEPT ![p] = f]
      PROVE  FileInv'
  <2>1. disk' = [disk EXCEPT ![p] = disk[p]]
    BY <1>4 DEF FileInv, FileTypeOK
  <2>2. f \in Export \cup {NoExport} /\ ~(f # NoExport /\ f.phase = "move")
    BY <1>4
  <2> QED
    BY <1>4, <2>1, <2>2, RunningExport, OtherPathsInv
<1>5. ASSUME RolledBack(p), EndExport(p)
      PROVE  FileInv'
  BY <1>1, <1>2, <1>3, <1>4, <1>5, RunningExport DEF RolledBack, EndExport, OpensAsDatabase
<1>6. Rest(NoExport) /\ Rest([e EXCEPT !.phase = "clean"])
  BY <1>1 DEF Export
<1>7. OpensAsDatabase(NoFile)
  BY DEF OpensAsDatabase
<1>8. /\ Goto(p, "clean") => export' = [export EXCEPT ![p] = [e EXCEPT !.phase = "clean"]]
      /\ AfterMove(p) => \E f : Rest(f) /\ export' = [export EXCEPT ![p] = f]
  BY <1>6 DEF Goto, AfterMove, EndExport, FileInv, FileTypeOK
<1> HIDE DEF Rest
<1>9. CASE WriteSqliteFails(p)
  BY <1>2, <1>3, <1>5, <1>6, <1>7, <1>9 DEF WriteSqliteFails, EndExport, SqliteSuffix
<1>10. CASE ReadBackFails(p)
  BY <1>2, <1>3, <1>6, <1>7, <1>10 DEF ReadBackFails, EndExport, SqliteSuffix
<1>11. CASE CreateZipFails(p)
  BY <1>4, <1>6, <1>8, <1>11 DEF CreateZipFails
<1>12. CASE AddToZipFails(p)
  BY <1>2, <1>3, <1>6, <1>7, <1>8, <1>12 DEF AddToZipFails, ZipSuffix
<1>13. CASE MoveFails(p)
  BY <1>2, <1>3, <1>7, <1>8, <1>13 DEF MoveFails
<1>14. CASE CleanFails(p)
  BY <1>4, <1>6, <1>14 DEF CleanFails, EndExport
<1>15. CASE CrashInExport(p)
  BY <1>4, <1>5, <1>6, <1>15 DEF CrashInExport, EndExport
<1> QED
  BY <1>9, <1>10, <1>11, <1>12, <1>13, <1>14, <1>15 DEF Fails

\* Every step keeps the invariant.
LEMMA FileInvStep == FileInv /\ [FileNext]_fileVars => FileInv'
<1> SUFFICES ASSUME FileInv, [FileNext]_fileVars PROVE FileInv'
  OBVIOUS
<1>1. CASE UNCHANGED fileVars
  BY <1>1 DEF fileVars, FileInv, FileTypeOK, TargetsWhole, MovesOwnPackage, SqliteTmpIsDatabase,
              Exporting
<1>2. ASSUME NEW p \in Path, NEW pkg \in Package, NEW compress \in BOOLEAN,
             BeginExport(p, pkg, compress)
      PROVE  FileInv'
  <2> DEFINE f == [phase |-> "sqlite", pkg |-> pkg, compress |-> compress]
  <2>1. f \in Export /\ f.phase # "move"
    BY DEF Export
  <2>2. export' = [export EXCEPT ![p] = f] /\ disk' = [disk EXCEPT ![p] = disk[p]]
        /\ faults' \in 0 .. MaxFaults
    BY <1>2 DEF BeginExport, FileInv, FileTypeOK
  <2> HIDE DEF f
  <2> QED
    BY <2>1, <2>2, RunningExport, OtherPathsInv
<1>3. ASSUME NEW p \in Path, WritePackage(p)
      PROVE  FileInv'
  <2>1. faults' \in 0 .. MaxFaults
    BY <1>3, FileAssumption DEF WritePackage, FileInv, FileTypeOK
  <2>2. Fails(p) \/ WriteSqlite(p) \/ CreateZip(p) \/ AddToZip(p) \/ Move(p) \/ Clean(p)
    BY <1>3 DEF WritePackage, Fails, RefusedByLeftover
  <2> QED
    BY <2>1, <2>2, WritesInv, FailsInv
<1> QED
  BY <1>1, <1>2, <1>3 DEF FileNext

\* In every reachable state: a target is whole, what is about to be moved over it is the package of
\* the running export (writeZipAtomic, replaceFileAtomic), and no zip is where a compressed export
\* builds its database.
THEOREM FilesStayWhole == FileSpec => []FileInv
BY FileInvInit, FileInvStep, PTL DEF FileSpec

\* Only a plain writeGdgePackage is ever refused because of what an interrupted one left, and the next
\* export to that path is not, whatever the setting is then.
THEOREM RefusedAtMostOnce == FileSpec => LeftoversRefuseOnce
<1>1. FileInv =>
        \A p \in Path : RefusedByLeftover(p) =>
            /\ ~export[p].compress
            /\ \A compress \in BOOLEAN : OpensAsDatabase(disk'[p][SqliteSuffix(compress)])
  <2> SUFFICES ASSUME FileInv, NEW p \in Path, RefusedByLeftover(p)
               PROVE  /\ ~export[p].compress
                      /\ \A compress \in BOOLEAN : OpensAsDatabase(disk'[p][SqliteSuffix(compress)])
    OBVIOUS
  <2>1. OpensAsDatabase(disk[p]["sqlite-tmp"]) /\ disk[p] \in [Suffix -> Content]
    BY RunningExport
  \* A zip is only ever written to ".tmp", and a compressed export does not open that.
  <2>2. ~export[p].compress
    BY <2>1 DEF RefusedByLeftover, SqliteSuffix
  \* The plain export removes what it could not open, and the other file is left alone.
  <2>3. disk' = [disk EXCEPT ![p]["tmp"] = NoFile]
    BY <2>2 DEF RefusedByLeftover, WriteSqliteFails, SqliteSuffix
  <2>4. disk'[p]["tmp"] = NoFile /\ disk'[p]["sqlite-tmp"] = disk[p]["sqlite-tmp"]
    BY <2>3, <2>1 DEF FileInv, FileTypeOK, Suffix
  <2> QED
    BY <2>1, <2>2, <2>4 DEF OpensAsDatabase, SqliteSuffix
<1> QED
  BY <1>1, FilesStayWhole, PTL DEF LeftoversRefuseOnce

-------------------------------------------------------------------------------
\* The refinement mapping, path by path.
AbsFile(p) == ReadPackage(p)
AbsExporting(p) ==
    IF export[p] = NoExport THEN NoExport
    ELSE IF export[p].phase = "clean" THEN NoExport ELSE export[p].pkg
MappedFile == [p \in Path |-> AbsFile(p)]
MappedExporting == [p \in Path |-> AbsExporting(p)]

\* What a step of one export does to the mapped state.
LEMMA OtherPathsMap ==
    ASSUME FileInv, NEW p \in Path, NEW d, NEW e,
           disk' = [disk EXCEPT ![p] = d], export' = [export EXCEPT ![p] = e]
    PROVE  /\ MappedFile' = [MappedFile EXCEPT ![p] = AbsFile(p)']
           /\ MappedExporting' = [MappedExporting EXCEPT ![p] = AbsExporting(p)']
<1>1. /\ disk'[p] = d /\ export'[p] = e
      /\ \A q \in Path \ {p} : disk'[q] = disk[q] /\ export'[q] = export[q]
  BY DEF FileInv, FileTypeOK
<1>2. \A q \in Path \ {p} : AbsFile(q)' = AbsFile(q) /\ AbsExporting(q)' = AbsExporting(q)
  BY <1>1 DEF AbsFile, AbsExporting, ReadPackage
<1> QED
  BY <1>2 DEF MappedFile, MappedExporting

\* A target that is left alone, and an export that is still the same or over: a stutter or GiveUp.
LEMMA KeepsTarget ==
    ASSUME FileInv, NEW p \in Path, NEW d, NEW e,
           disk' = [disk EXCEPT ![p] = d], export' = [export EXCEPT ![p] = e],
           d[""] = disk[p][""],
           AbsExporting(p)' \in {AbsExporting(p), NoExport}
    PROVE  [Atomic!AtomicNext]_(Atomic!atomicVars)
<1>1. AbsFile(p)' = AbsFile(p)
  BY DEF AbsFile, ReadPackage, FileInv, FileTypeOK
<1>2. MappedFile' = MappedFile /\ MappedExporting' = [MappedExporting EXCEPT ![p] = AbsExporting(p)']
  BY <1>1, OtherPathsMap DEF MappedFile
<1>3. CASE AbsExporting(p)' = AbsExporting(p)
  <2>1. MappedExporting' = MappedExporting
    BY <1>2, <1>3 DEF MappedExporting
  <2>2. UNCHANGED Atomic!atomicVars
    BY <1>2, <2>1 DEF Atomic!atomicVars, MappedFile, MappedExporting, AbsFile, AbsExporting
  <2> QED
    BY <2>2
<1>4. CASE AbsExporting(p)' = NoExport
  <2>1. Atomic!GiveUp(p)
    BY <1>2, <1>4 DEF Atomic!GiveUp, MappedFile, MappedExporting, AbsFile, AbsExporting
  <2> QED
    BY <2>1 DEF Atomic!AtomicNext
<1> QED
  BY <1>3, <1>4

\* What an export that runs is mapped to.
LEMMA RunningMap ==
    ASSUME FileInv, NEW p \in Path, export[p] # NoExport, export[p].phase # "clean"
    PROVE  MappedExporting[p] = export[p].pkg /\ export[p].pkg # NoExport
BY RunningExport, FileAssumption DEF MappedExporting, AbsExporting

\* The steps that write implement the abstract ones: only the move of the finished file is visible.
LEMMA WritesRefine ==
    ASSUME FileInv, NEW p \in Path,
           WriteSqlite(p) \/ CreateZip(p) \/ AddToZip(p) \/ Move(p) \/ Clean(p)
    PROVE  [Atomic!AtomicNext]_(Atomic!atomicVars)
<1> DEFINE e == export[p]
<1>0. e \in Export /\ e # NoExport /\ e.pkg \in Package /\ e.compress \in BOOLEAN
  BY RunningExport DEF WriteSqlite, CreateZip, AddToZip, Move, Clean, Exporting
\* A step of an export that goes on.
<1>1. ASSUME NEW x \in {"tmp", "sqlite-tmp"}, NEW c, NEW phase \in {"create", "add", "move"}, e.phase # "clean",
             disk' = [disk EXCEPT ![p][x] = c], Goto(p, phase)
      PROVE  [Atomic!AtomicNext]_(Atomic!atomicVars)
  <2> DEFINE d == [disk[p] EXCEPT ![x] = c]
             f == [e EXCEPT !.phase = phase]
  <2>1. disk' = [disk EXCEPT ![p] = d] /\ export' = [export EXCEPT ![p] = f]
    BY <1>1 DEF Goto, FileInv, FileTypeOK
  <2>2. d[""] = disk[p][""]
    BY <1>1, RunningExport DEF Suffix
  <2>3. f \in Export /\ f # NoExport /\ f.phase = phase /\ f.pkg = e.pkg
    BY <1>0, <1>1, FileAssumption DEF Export
  <2>4. AbsExporting(p)' = AbsExporting(p)
    BY <1>0, <1>1, <2>1, <2>3 DEF AbsExporting, FileInv, FileTypeOK
  <2> HIDE DEF d, f
  <2> QED
    BY <2>1, <2>2, <2>4, KeepsTarget
<1>2. CASE WriteSqlite(p)
  BY <1>0, <1>1, <1>2 DEF WriteSqlite, Exporting, SqliteSuffix
<1>3. CASE CreateZip(p)
  BY <1>1, <1>3 DEF CreateZip, Exporting, ZipSuffix
<1>4. CASE AddToZip(p)
  BY <1>1, <1>4 DEF AddToZip, Exporting, ZipSuffix
<1>5. CASE Move(p)
  <2> DEFINE d == [disk[p] EXCEPT ![""] = disk[p]["tmp"], !["tmp"] = NoFile]
             f == IF e.compress THEN [e EXCEPT !.phase = "clean"] ELSE NoExport
  <2>1. e.phase = "move" /\ Holds(disk[p]["tmp"], e.pkg)
    BY <1>5 DEF Move, Exporting, FileInv, MovesOwnPackage
  <2>2. disk' = [disk EXCEPT ![p] = d] /\ export' = [export EXCEPT ![p] = f]
    BY <1>5 DEF Move, AfterMove, Goto, EndExport, FileInv, FileTypeOK, Suffix
  <2>3. d[""] = disk[p]["tmp"]
    BY RunningExport DEF Suffix
  <2>4. f = NoExport \/ f.phase = "clean"
    BY <1>0 DEF Export
  <2>5. disk'[p] = d /\ export'[p] = f
    BY <2>2 DEF FileInv, FileTypeOK
  <2> HIDE DEF d, f
  <2>6. AbsFile(p)' = e.pkg /\ AbsExporting(p)' = NoExport
    BY <2>1, <2>3, <2>4, <2>5 DEF AbsFile, ReadPackage, AbsExporting, Holds
  <2>7. MappedExporting[p] = e.pkg /\ e.pkg # NoExport
    BY <1>0, <2>1, RunningMap
  <2>8. /\ MappedExporting[p] # NoExport
        /\ MappedFile' = [MappedFile EXCEPT ![p] = MappedExporting[p]]
        /\ MappedExporting' = [MappedExporting EXCEPT ![p] = NoExport]
    BY <2>2, <2>6, <2>7, OtherPathsMap
  <2>9. Atomic!Publish(p)
    BY <2>8 DEF Atomic!Publish, MappedFile, MappedExporting, AbsFile, AbsExporting
  <2> QED
    BY <2>9 DEF Atomic!AtomicNext
<1>6. CASE Clean(p)
  <2> DEFINE d == [disk[p] EXCEPT !["sqlite-tmp"] = NoFile]
  <2>1. disk' = [disk EXCEPT ![p] = d] /\ export' = [export EXCEPT ![p] = NoExport]
    BY <1>6 DEF Clean, EndExport, SqliteSuffix, FileInv, FileTypeOK
  <2>2. d[""] = disk[p][""]
    BY RunningExport DEF Suffix
  <2>3. AbsExporting(p)' = NoExport
    BY <2>1 DEF AbsExporting, FileInv, FileTypeOK
  <2> HIDE DEF d
  <2> QED
    BY <2>1, <2>2, <2>3, KeepsTarget
<1> QED
  BY <1>2, <1>3, <1>4, <1>5, <1>6

\* A step that fails leaves the target alone, and ends the export as far as its promise goes.
LEMMA FailsRefine ==
    ASSUME FileInv, NEW p \in Path, Fails(p)
    PROVE  [Atomic!AtomicNext]_(Atomic!atomicVars)
<1> DEFINE e == export[p]
           Over(f) == f = NoExport \/ f.phase = "clean"
<1>1. e \in Export
  BY RunningExport DEF Fails, WriteSqliteFails, ReadBackFails, CreateZipFails, AddToZipFails,
                       MoveFails, CleanFails, CrashInExport, Exporting
<1>2. \E f : Over(f) /\ export' = [export EXCEPT ![p] = f]
  <2>1. [e EXCEPT !.phase = "clean"].phase = "clean"
    BY <1>1 DEF Export
  <2> QED
    BY <2>1 DEF Fails, WriteSqliteFails, ReadBackFails, CreateZipFails, AddToZipFails,
                MoveFails, CleanFails, CrashInExport, AfterMove, Goto, EndExport, FileInv, FileTypeOK
<1>3. \/ UNCHANGED disk
      \/ \E x \in {"tmp", "sqlite-tmp"} : \E c : disk' = [disk EXCEPT ![p][x] = c]
  BY DEF Fails, WriteSqliteFails, RolledBack, ReadBackFails, CreateZipFails, AddToZipFails,
         MoveFails, CleanFails, CrashInExport, SqliteSuffix, ZipSuffix
<1>4. \E d : disk' = [disk EXCEPT ![p] = d] /\ d[""] = disk[p][""]
  <2>1. CASE UNCHANGED disk
    BY <2>1 DEF FileInv, FileTypeOK
  <2>2. ASSUME NEW x \in {"tmp", "sqlite-tmp"}, NEW c, disk' = [disk EXCEPT ![p][x] = c]
        PROVE  \E d : disk' = [disk EXCEPT ![p] = d] /\ d[""] = disk[p][""]
    <3> DEFINE d == [disk[p] EXCEPT ![x] = c]
    <3>1. disk' = [disk EXCEPT ![p] = d] /\ d[""] = disk[p][""]
      BY <2>2, RunningExport DEF Suffix, FileInv, FileTypeOK
    <3> HIDE DEF d
    <3> QED
      BY <3>1
  <2> QED
    BY <1>3, <2>1, <2>2
<1>5. PICK d, f : /\ disk' = [disk EXCEPT ![p] = d] /\ d[""] = disk[p][""]
                  /\ export' = [export EXCEPT ![p] = f] /\ Over(f)
  BY <1>2, <1>4
<1>6. AbsExporting(p)' = NoExport
  BY <1>5 DEF AbsExporting, FileInv, FileTypeOK
<1> QED
  BY <1>5, <1>6, KeepsTarget

\* Every step implements a step of the abstract specification or changes nothing of it.
LEMMA FileStepRefines ==
    FileInv /\ [FileNext]_fileVars => [Atomic!AtomicNext]_(Atomic!atomicVars)
<1> SUFFICES ASSUME FileInv, [FileNext]_fileVars PROVE [Atomic!AtomicNext]_(Atomic!atomicVars)
  OBVIOUS
<1>1. CASE UNCHANGED fileVars
  BY <1>1 DEF fileVars, Atomic!atomicVars, ReadPackage
<1>2. ASSUME NEW p \in Path, NEW pkg \in Package, NEW compress \in BOOLEAN,
             BeginExport(p, pkg, compress)
      PROVE  [Atomic!AtomicNext]_(Atomic!atomicVars)
  <2> DEFINE f == [phase |-> "sqlite", pkg |-> pkg, compress |-> compress]
  <2>1. export' = [export EXCEPT ![p] = f] /\ disk' = [disk EXCEPT ![p] = disk[p]]
    BY <1>2 DEF BeginExport, FileInv, FileTypeOK
  <2>2. f \in Export /\ f.phase = "sqlite" /\ f.pkg = pkg
    BY DEF Export
  <2> HIDE DEF f
  <2>3. AbsExporting(p)' = pkg /\ AbsFile(p)' = AbsFile(p) /\ AbsExporting(p) = NoExport
    BY <1>2, <2>1, <2>2, FileAssumption
       DEF AbsExporting, AbsFile, ReadPackage, BeginExport, FileInv, FileTypeOK
  <2>4. /\ MappedExporting[p] = NoExport /\ MappedExporting' = [MappedExporting EXCEPT ![p] = pkg]
        /\ MappedFile' = MappedFile
    BY <2>1, <2>3, OtherPathsMap DEF MappedExporting, MappedFile
  <2>5. Atomic!Begin(p, pkg)
    BY <2>4 DEF Atomic!Begin, MappedFile, MappedExporting, AbsFile, AbsExporting
  <2> QED
    BY <2>5 DEF Atomic!AtomicNext
<1>3. ASSUME NEW p \in Path, WritePackage(p)
      PROVE  [Atomic!AtomicNext]_(Atomic!atomicVars)
  <2>1. Fails(p) \/ WriteSqlite(p) \/ CreateZip(p) \/ AddToZip(p) \/ Move(p) \/ Clean(p)
    BY <1>3 DEF WritePackage, Fails, RefusedByLeftover
  <2> QED
    BY <2>1, WritesRefine, FailsRefine
<1> QED
  BY <1>1, <1>2, <1>3 DEF FileNext

\* Whatever step of writeGdgePackage fails and whenever the process ends, for any number of files,
\* packages and failures: the file at a path changes only in one step, and then to the whole package
\* of the export that runs.
THEOREM ExportIsAtomic == FileSpec => ExportsAreAtomic
<1>1. FileInit => Atomic!AtomicInit
  <2> SUFFICES ASSUME FileInit PROVE Atomic!AtomicInit
    OBVIOUS
  <2>1. \A p \in Path : disk[p][""] = NoFile /\ export[p] = NoExport
    BY DEF FileInit, Suffix
  <2>2. \A p \in Path : ReadPackage(p) = NoFile
    BY <2>1 DEF ReadPackage
  <2> QED
    BY <2>1, <2>2 DEF Atomic!AtomicInit
<1>2. FileInv /\ [FileNext]_fileVars => [Atomic!AtomicNext]_(Atomic!atomicVars)
  BY FileStepRefines
<1> QED
  BY <1>1, <1>2, FilesStayWhole, PTL DEF FileSpec, ExportsAreAtomic, Atomic!AtomicSpec

-------------------------------------------------------------------------------
(***************************************************************************)
(* Files of levels                                                         *)
(***************************************************************************)

HoldsLevel(pkg) == pkg.head \in Level
ContentHoldsLevel(c) == c = NoFile \/ c.form = "torn" \/ c.pkg = NoFile \/ HoldsLevel(c.pkg)

\* Whatever is in a file, of the authors or beside it, was a level once.
FilesHoldLevels ==
    /\ DOMAIN disk = Path /\ DOMAIN export = Path /\ \A p \in Path : DOMAIN disk[p] = Suffix
    /\ \A p \in Path, x \in Suffix : ContentHoldsLevel(disk[p][x])
    /\ \A p \in Path : export[p] # NoExport => HoldsLevel(export[p].pkg)

\* A step of the export to p has these files, and runs on with the same package if at all.
LEMMA FilesOfOneExport ==
    ASSUME FilesHoldLevels, NEW p \in Path,
           DOMAIN disk' = DOMAIN disk /\ DOMAIN export' = DOMAIN export,
           \A q \in Path \ {p} : disk'[q] = disk[q] /\ export'[q] = export[q],
           DOMAIN disk'[p] = DOMAIN disk[p],
           \A x \in Suffix : ContentHoldsLevel(disk'[p][x]),
           export'[p] # NoExport => HoldsLevel(export'[p].pkg)
    PROVE  FilesHoldLevels'
<1>1. DOMAIN disk' = Path /\ DOMAIN export' = Path /\ \A q \in Path : DOMAIN disk'[q] = Suffix
  BY DEF FilesHoldLevels
<1>2. \A q \in Path, x \in Suffix : ContentHoldsLevel(disk'[q][x])
  BY DEF FilesHoldLevels
<1>3. \A q \in Path : export'[q] # NoExport => HoldsLevel(export'[q].pkg)
  BY DEF FilesHoldLevels
<1> QED
  BY <1>1, <1>2, <1>3 DEF FilesHoldLevels, ContentHoldsLevel, HoldsLevel

\* The file of suffix x gets the content c.
LEMMA OneFileWritten ==
    ASSUME FilesHoldLevels, NEW p \in Path, NEW x \in Suffix, NEW c, ContentHoldsLevel(c),
           disk' = [disk EXCEPT ![p][x] = c]
    PROVE  /\ DOMAIN disk' = DOMAIN disk /\ \A q \in Path \ {p} : disk'[q] = disk[q]
           /\ DOMAIN disk'[p] = DOMAIN disk[p]
           /\ \A y \in Suffix : ContentHoldsLevel(disk'[p][y])
<1>1. DOMAIN disk = Path /\ DOMAIN disk[p] = Suffix /\ \A y \in Suffix : ContentHoldsLevel(disk[p][y])
  BY DEF FilesHoldLevels
<1>2. disk'[p] = [disk[p] EXCEPT ![x] = c] /\ DOMAIN disk' = DOMAIN disk
  BY <1>1
<1>3. \A q \in Path \ {p} : disk'[q] = disk[q]
  BY <1>1
<1>4. \A y \in Suffix : disk'[p][y] = IF y = x THEN c ELSE disk[p][y]
  BY <1>1, <1>2
<1> QED
  BY <1>1, <1>2, <1>3, <1>4

\* The export goes on or ends.
LEMMA ExportGoesOn ==
    ASSUME FilesHoldLevels, NEW p \in Path, export[p] # NoExport,
           (\E phase : Goto(p, phase)) \/ EndExport(p)
    PROVE  /\ DOMAIN export' = DOMAIN export /\ \A q \in Path \ {p} : export'[q] = export[q]
           /\ export'[p] # NoExport => HoldsLevel(export'[p].pkg)
<1>1. DOMAIN export = Path /\ HoldsLevel(export[p].pkg)
  BY DEF FilesHoldLevels
<1>2. CASE EndExport(p)
  BY <1>1, <1>2 DEF EndExport
<1>3. ASSUME NEW phase, Goto(p, phase)
      PROVE  /\ DOMAIN export' = DOMAIN export /\ \A q \in Path \ {p} : export'[q] = export[q]
             /\ HoldsLevel(export'[p].pkg)
  <2>1. export' = [export EXCEPT ![p] = [export[p] EXCEPT !.phase = phase]]
    BY <1>3 DEF Goto
  <2>2. export'[p] = [export[p] EXCEPT !.phase = phase]
    BY <1>1, <2>1
  <2>3. export'[p].pkg = export[p].pkg
    BY <2>2
  <2> QED
    BY <1>1, <2>1, <2>3
<1> QED
  BY <1>2, <1>3

LEMMA WritePackageHolds ==
    ASSUME FilesHoldLevels, NEW p \in Path, WritePackage(p)
    PROVE  FilesHoldLevels'
<1> DEFINE Disk == /\ DOMAIN disk' = DOMAIN disk /\ \A q \in Path \ {p} : disk'[q] = disk[q]
                   /\ DOMAIN disk'[p] = DOMAIN disk[p]
                   /\ \A y \in Suffix : ContentHoldsLevel(disk'[p][y])
<1>1. \A x \in BOOLEAN : SqliteSuffix(x) \in Suffix
  BY DEF SqliteSuffix, Suffix
<1>2. /\ SqliteSuffix(export[p].compress) \in Suffix /\ SqliteSuffix(TRUE) \in Suffix
      /\ SqliteSuffix(FALSE) \in Suffix /\ ZipSuffix \in Suffix /\ "tmp" \in Suffix /\ "" \in Suffix
  BY DEF SqliteSuffix, ZipSuffix, Suffix
<1>3. /\ ContentHoldsLevel(NoFile) /\ ContentHoldsLevel([form |-> "torn"])
      /\ ContentHoldsLevel([form |-> "sqlite", pkg |-> NoFile])
  BY DEF ContentHoldsLevel
<1>4. export[p] # NoExport
  BY DEF WritePackage, RefusedByLeftover, Fails, WriteSqlite, CreateZip, AddToZip, Move, Clean, WriteSqliteFails, ReadBackFails,
         CreateZipFails, AddToZipFails, MoveFails, CleanFails, CrashInExport, Exporting
<1>5. /\ ContentHoldsLevel([form |-> "sqlite", pkg |-> export[p].pkg])
      /\ ContentHoldsLevel([form |-> "zip", pkg |-> export[p].pkg])
  BY <1>4 DEF FilesHoldLevels, ContentHoldsLevel
<1>6. (\E phase : Goto(p, phase)) \/ EndExport(p)
  BY DEF WritePackage, RefusedByLeftover, Fails, WriteSqlite, CreateZip, AddToZip, Move, AfterMove, Clean, WriteSqliteFails,
         ReadBackFails, CreateZipFails, AddToZipFails, MoveFails, CleanFails, CrashInExport
<1>7. ASSUME UNCHANGED disk PROVE Disk
  BY <1>7 DEF FilesHoldLevels
<1>8. ASSUME NEW x \in Suffix, NEW c, ContentHoldsLevel(c), disk' = [disk EXCEPT ![p][x] = c] PROVE Disk
  BY <1>8, OneFileWritten
<1>9. ASSUME Move(p) PROVE Disk
  <2>1. disk' = [disk EXCEPT ![p] = [[disk[p] EXCEPT ![""] = disk[p]["tmp"]] EXCEPT !["tmp"] = NoFile]]
    BY <1>9 DEF Move, FilesHoldLevels
  <2>2. DOMAIN disk = Path /\ DOMAIN disk[p] = Suffix /\ \A y \in Suffix : ContentHoldsLevel(disk[p][y])
    BY DEF FilesHoldLevels
  <2>3. disk'[p] = [[disk[p] EXCEPT ![""] = disk[p]["tmp"]] EXCEPT !["tmp"] = NoFile]
    BY <2>1, <2>2
  <2>4. \A y \in Suffix : disk'[p][y] = IF y = "tmp" THEN NoFile ELSE IF y = "" THEN disk[p]["tmp"] ELSE disk[p][y]
    BY <2>2, <2>3
  <2>5. \A y \in Suffix : ContentHoldsLevel(disk'[p][y])
    BY <1>2, <1>3, <2>2, <2>4
  <2> QED
    BY <2>1, <2>2, <2>3, <2>5
<1>10. ASSUME RolledBack(p) PROVE Disk
  <2> HIDE DEF Disk
  <2> QED
    BY <1>2, <1>3, <1>7, <1>8, <1>10 DEF RolledBack
<1>11. Disk
  <2> HIDE DEF Disk
  <2>1. CASE WriteSqlite(p) \/ CreateZip(p) \/ AddToZip(p) \/ Clean(p)
    BY <1>2, <1>3, <1>5, <1>8, <2>1 DEF WriteSqlite, CreateZip, AddToZip, Clean
  <2>2. CASE WriteSqliteFails(p) \/ CrashInExport(p)
    BY <1>2, <1>3, <1>7, <1>8, <1>10, <2>2 DEF WriteSqliteFails, CrashInExport
  <2>3. CASE ReadBackFails(p) \/ CreateZipFails(p) \/ AddToZipFails(p) \/ MoveFails(p) \/ CleanFails(p)
    BY <1>2, <1>3, <1>7, <1>8, <2>3 DEF ReadBackFails, CreateZipFails, AddToZipFails, MoveFails, CleanFails
  <2> QED
    BY <1>9, <2>1, <2>2, <2>3 DEF WritePackage, RefusedByLeftover, Fails
<1>12. /\ DOMAIN export' = DOMAIN export /\ \A q \in Path \ {p} : export'[q] = export[q]
       /\ export'[p] # NoExport => HoldsLevel(export'[p].pkg)
  BY <1>4, <1>6, ExportGoesOn
<1> QED
  BY <1>11, <1>12, FilesOfOneExport

LEMMA ReadLevel ==
    ASSUME FilesHoldLevels, NEW d \in Author, ReadPackage(d) # NoFile
    PROVE  ReadPackage(d).head \in Level
<1>1. ContentHoldsLevel(disk[d][""]) /\ disk[d][""] # NoFile /\ disk[d][""].form \in {"sqlite", "zip"}
      /\ ReadPackage(d) = disk[d][""].pkg
  BY DEF FilesHoldLevels, ReadPackage, Suffix, Author
<1> QED
  BY <1>1 DEF ContentHoldsLevel, HoldsLevel

-------------------------------------------------------------------------------
(***************************************************************************)
(* One merge                                                               *)
(***************************************************************************)

\* A merge of three levels is a level.
LEMMA MergedLevel ==
    ASSUME NEW base \in Level, NEW ours \in Level, NEW theirs \in Level
    PROVE  /\ MergeStates3Way(base, ours, theirs).state \in Level
           /\ MergeStates3Way(base, ours, theirs).conflicts \in Nat
<1> DEFINE m == MergeStates3Way(base, ours, theirs)
<1>1. /\ base.rawHeader \in Text /\ ours.rawHeader \in Text /\ theirs.rawHeader \in Text
      /\ base.header \in FieldMap /\ ours.header \in FieldMap /\ theirs.header \in FieldMap
      /\ base.objects \in ObjectMap /\ ours.objects \in ObjectMap /\ theirs.objects \in ObjectMap
  BY DEF Level
<1>2. m.conflicts \in Nat
  BY <1>1, MergeClashes
<1>3. MergedRawHeader(base.rawHeader, ours.rawHeader, theirs.rawHeader).text \in Text
  BY <1>1, MergedRawText
<1>4. MergedFields(base.header, ours.header, theirs.header) \in FieldMap
  BY <1>1, MergedFieldsType
<1>5. MergeObjects(base.objects, ours.objects, theirs.objects).objects \in ObjectMap
  BY <1>1, MergedObjects DEF MergeOutcome, Acc
<1>6. m.state = [rawHeader |-> MergedRawHeader(base.rawHeader, ours.rawHeader, theirs.rawHeader).text,
                 header |-> MergedFields(base.header, ours.header, theirs.header),
                 objects |-> MergeObjects(base.objects, ours.objects, theirs.objects).objects]
  BY DEF MergeStates3Way
<1>7. m.state \in Level
  <2> HIDE DEF m
  <2> QED
    BY <1>3, <1>4, <1>5, <1>6 DEF Level
<1> QED
  BY <1>2, <1>7

\* What ours has of a level g, the merged object has.
LEMMA ObjectStays ==
    ASSUME NEW b \in FieldMap \cup {Nil}, NEW o \in FieldMap \cup {Nil}, NEW t \in FieldMap \cup {Nil},
           NEW g \in FieldMap \cup {Nil},
           ~ObjectClash(b, o, t), ~TwoVersions(b, o, t),
           ObjectArrives(NormObject(b), NormObject(g), NormObject(o))
    PROVE  ObjectArrives(NormObject(b), NormObject(g), NormObject(MergedObject(b, o, t)))
<1> DEFINE m == MergedObject(b, o, t)
           N(x) == NormObject(x)
<1>1. \A x \in FieldMap \cup {Nil} : (N(x) = Nil <=> x = Nil) /\ (x # Nil => N(x) = NormFields(x))
  BY NormFieldsAre DEF NormObject
<1>2. m \in FieldMap \cup {Nil} /\ ObjectArrives(N(b), N(o), N(m))
  BY MergedObjectIs
<1> HIDE DEF N, m
<1>3. CASE b = Nil
  <2>1. g # Nil => o # Nil /\ N(o) = N(g)
    BY <1>1, <1>3 DEF ObjectArrives, N
  <2>2. o # Nil => N(m) = N(o)
    BY <1>1, <1>2, <1>3 DEF ObjectArrives
  <2> QED
    BY <1>1, <1>3, <2>1, <2>2 DEF ObjectArrives, N, m
<1>4. CASE b # Nil /\ g = Nil
  <2>1. o = Nil
    BY <1>1, <1>4 DEF ObjectArrives, N
  <2>2. N(m) = Nil
    BY <1>1, <1>2, <1>4, <2>1 DEF ObjectArrives
  <2> QED
    BY <1>1, <1>4, <2>2 DEF ObjectArrives, N, m
<1>5. CASE b # Nil /\ g # Nil /\ N(g) # N(b)
  <2>1. N(o) # Nil /\ \A k \in Key : Arrives(N(b)[k], N(g)[k], N(o)[k])
    BY <1>1, <1>5 DEF ObjectArrives, N
  <2>2. PICK k \in Key : N(g)[k] # N(b)[k]
    <3>1. N(g) \in FieldMap /\ N(b) \in FieldMap
      BY <1>1, <1>5, NormFieldsAre
    <3> QED
      BY <1>5, <3>1 DEF FieldMap
  <2>3. N(o) # N(b)
    BY <2>1, <2>2 DEF Arrives
  <2>4. N(b) # Nil /\ N(g) # Nil
    BY <1>1, <1>5
  <2>5. N(m) # Nil /\ \A j \in Key : Arrives(N(b)[j], N(o)[j], N(m)[j])
    BY <1>2, <2>1, <2>3, <2>4 DEF ObjectArrives
  <2>6. \A j \in Key : Arrives(N(b)[j], N(g)[j], N(m)[j])
    BY <2>1, <2>5 DEF Arrives
  <2> QED
    BY <2>4, <2>5, <2>6 DEF ObjectArrives, N, m
<1>6. CASE b # Nil /\ g # Nil /\ N(g) = N(b)
  BY <1>1, <1>6 DEF ObjectArrives, N, m
<1> QED
  BY <1>3, <1>4, <1>5, <1>6

\* A merge without conflicts, of no object in two versions, shows theirs, and what ours showed.
LEMMA MergeShows ==
    ASSUME NEW base \in Level, NEW ours \in Level, NEW theirs \in Level,
           MergeStates3Way(base, ours, theirs).conflicts = 0, AddedTwice(base, ours, theirs) = {}
    PROVE  /\ ShowsIn(base, theirs, MergeStates3Way(base, ours, theirs).state)
           /\ \A g \in Level : ShowsIn(base, g, ours)
                => ShowsIn(base, g, MergeStates3Way(base, ours, theirs).state)
<1> DEFINE s == MergeStates3Way(base, ours, theirs).state
           B(u) == base.objects[u]
           O(u) == ours.objects[u]
           T(u) == theirs.objects[u]
<1>1. base.objects \in ObjectMap /\ ours.objects \in ObjectMap /\ theirs.objects \in ObjectMap
  BY DEF Level
<1>2. \A u \in Uuid : B(u) \in FieldMap \cup {Nil} /\ O(u) \in FieldMap \cup {Nil} /\ T(u) \in FieldMap \cup {Nil}
  BY <1>1 DEF ObjectMap
<1>3. \A u \in Uuid : ~ObjectClash(B(u), O(u), T(u))
  BY <1>1, MergeClashes DEF StatesAgree
<1>4. \A u \in Uuid : ~TwoVersions(B(u), O(u), T(u))
  BY DEF AddedTwice, TwoVersions
<1>5. NewUuids(base, ours, theirs) = {}
  <2>1. Cardinality(AddedTwice(base, ours, theirs)) = 0
    BY FS_EmptySet
  <2>2. NextUuid(ours.objects) \in Nat
    BY <1>1, NextUuidIs, MergeAssumption
  <2> QED
    BY <2>1, <2>2 DEF NewUuids
<1>6. \A u \in Uuid : s.objects[u] = MergedObject(B(u), O(u), T(u))
  <2>1. s.objects = MergeObjects(base.objects, ours.objects, theirs.objects).objects
    BY MergedState
  <2> QED
    BY <1>1, <1>5, <2>1, MergedObjects DEF MergeOutcome
<1>7. \A x : \A u \in Uuid : Norm(x).objects[u] = NormObject(x.objects[u])
  BY NormObjectsAre
<1> HIDE DEF s
<1>8. ASSUME NEW u \in Uuid
      PROVE  ObjectArrives(Norm(base).objects[u], Norm(theirs).objects[u], Norm(s).objects[u])
  <2>1. ObjectArrives(NormObject(B(u)), NormObject(T(u)), NormObject(MergedObject(B(u), O(u), T(u))))
    BY <1>2, <1>3, <1>4, MergedObjectIs
  <2> QED
    BY <1>6, <1>7, <2>1
<1>9. ASSUME NEW g \in Level, ShowsIn(base, g, ours), NEW u \in Uuid
      PROVE  ObjectArrives(Norm(base).objects[u], Norm(g).objects[u], Norm(s).objects[u])
  <2>1. g.objects[u] \in FieldMap \cup {Nil}
    BY DEF Level, ObjectMap
  <2>2. ObjectArrives(NormObject(B(u)), NormObject(g.objects[u]), NormObject(O(u)))
    BY <1>7, <1>9 DEF ShowsIn
  <2>3. ObjectArrives(NormObject(B(u)), NormObject(g.objects[u]), NormObject(MergedObject(B(u), O(u), T(u))))
    BY <1>2, <1>3, <1>4, <2>1, <2>2, ObjectStays
  <2> QED
    BY <1>6, <1>7, <2>3
<1> QED
  BY <1>8, <1>9 DEF ShowsIn, s

\* A level shows itself.
LEMMA ShowsItself ==
    ASSUME NEW root, NEW level
    PROVE  ShowsIn(root, level, level)
BY DEF ShowsIn, ObjectArrives, Arrives

-------------------------------------------------------------------------------
(***************************************************************************)
(* The files of an import                                                  *)
(***************************************************************************)

Batch == [base : Level, ours : Level, begun : BOOLEAN, root : Level, from : [Author -> Level \cup {Nil}],
          conflicts : Nat, twice : BOOLEAN, fits : BOOLEAN]

\* What has been merged so far shows the files that were merged, and the levels G that HEAD showed.
MergingInv(b, G) ==
    /\ b \in Batch /\ b.base = b.root
    /\ b.conflicts = 0 /\ ~b.twice =>
        /\ \A d \in Author : b.from[d] # Nil => ShowsIn(b.root, b.from[d], b.ours)
        /\ \A g \in G : ShowsIn(b.root, g, b.ours)

\* Between the files, a history that has not begun shows nothing yet.
BatchInv(b, G) == MergingInv(b, G) /\ (~b.begun => b.from = NoFiles /\ G = {})

LEMMA MergeFileInv ==
    ASSUME NEW G \in SUBSET Level, NEW b, MergingInv(b, G), NEW d \in Author, ReadPackage(d).head \in Level
    PROVE  MergingInv(MergeFile(b, d), G) /\ MergeFile(b, d).begun = b.begun
<1> DEFINE theirs == ReadPackage(d).head
           merge == MergeStates3Way(b.base, b.ours, theirs)
           two == AddedTwice(b.base, b.ours, theirs) # {}
           fit == Fits(b.base, b.ours, theirs)
           r == MergeFile(b, d)
<1>1. /\ b.base \in Level /\ b.ours \in Level /\ b.base = b.root /\ b.conflicts \in Nat /\ b.twice \in BOOLEAN
      /\ b.from \in [Author -> Level \cup {Nil}] /\ b.fits \in BOOLEAN /\ b.begun \in BOOLEAN /\ b \in Batch
  BY DEF MergingInv, Batch
<1>2. merge.state \in Level /\ merge.conflicts \in Nat
  BY <1>1, MergedLevel
<1>3. r = [b EXCEPT !.ours = merge.state, !.from = [b.from EXCEPT ![d] = theirs],
                    !.conflicts = b.conflicts + merge.conflicts, !.twice = b.twice \/ two, !.fits = b.fits /\ fit]
  BY DEF MergeFile
<1>4. two \in BOOLEAN /\ (two <=> AddedTwice(b.base, b.ours, theirs) # {})
  OBVIOUS
<1>5. fit \in BOOLEAN
  BY DEF Fits
<1>6. ASSUME merge.conflicts = 0, ~two
      PROVE  /\ ShowsIn(b.base, theirs, merge.state)
             /\ \A g \in Level : ShowsIn(b.base, g, b.ours) => ShowsIn(b.base, g, merge.state)
  BY <1>1, <1>6, MergeShows
<1> HIDE DEF theirs, merge, two, fit, r
<1>7. theirs \in Level
  BY DEF theirs
<1>8. [b.from EXCEPT ![d] = theirs] \in [Author -> Level \cup {Nil}]
  BY <1>1, <1>7
<1>9. (b.twice \/ two) \in BOOLEAN /\ (b.fits /\ fit) \in BOOLEAN /\ b.conflicts + merge.conflicts \in Nat
  BY <1>1, <1>2, <1>4, <1>5
<1>10. r \in Batch
  BY <1>1, <1>2, <1>3, <1>8, <1>9 DEF Batch
<1>11. /\ r.ours = merge.state /\ r.from = [b.from EXCEPT ![d] = theirs] /\ r.begun = b.begun
       /\ r.conflicts = b.conflicts + merge.conflicts /\ r.base = b.base /\ r.root = b.root
  BY <1>1, <1>3 DEF Batch
<1>12. r.twice = (b.twice \/ two)
  BY <1>1, <1>3 DEF Batch
<1>13. ASSUME r.conflicts = 0, ~r.twice
       PROVE  /\ \A e \in Author : r.from[e] # Nil => ShowsIn(r.root, r.from[e], r.ours)
              /\ \A g \in G : ShowsIn(r.root, g, r.ours)
  <2>1. b.conflicts = 0 /\ merge.conflicts = 0 /\ ~b.twice /\ ~two
    BY <1>1, <1>2, <1>4, <1>11, <1>12, <1>13
  <2>2. /\ \A e \in Author : b.from[e] # Nil => ShowsIn(b.base, b.from[e], b.ours)
        /\ \A g \in G : ShowsIn(b.base, g, b.ours)
    BY <1>1, <2>1 DEF MergingInv
  <2>3. /\ ShowsIn(b.base, theirs, merge.state)
        /\ \A g \in Level : ShowsIn(b.base, g, b.ours) => ShowsIn(b.base, g, merge.state)
    BY <1>6, <2>1
  <2>4. \A e \in Author : /\ r.from[e] = IF e = d THEN theirs ELSE b.from[e]
                          /\ b.from[e] \in Level \cup {Nil}
    BY <1>1, <1>11
  <2>5. \A e \in Author : r.from[e] # Nil => ShowsIn(b.base, r.from[e], merge.state)
    BY <2>2, <2>3, <2>4
  <2>6. \A g \in G : ShowsIn(b.base, g, merge.state)
    BY <2>2, <2>3
  <2> QED
    BY <1>1, <1>11, <2>5, <2>6
<1>14. MergingInv(r, G) /\ r.begun = b.begun
  BY <1>1, <1>10, <1>11, <1>13 DEF MergingInv
<1> QED
  BY <1>14 DEF r

\* The loop over the files with our root.
LEMMA SmartLoop ==
    ASSUME NEW G \in SUBSET Level, NEW b, MergingInv(b, G), NEW files \in Seq(Author),
           \A n \in 1 .. Len(files) : ReadPackage(files[n]).head \in Level,
           NEW loop,
           loop = CHOOSE f : f = [n \in 0 .. Len(files) |->
                                    IF n = 0 THEN b ELSE MergeFile(f[n - 1], files[n])]
    PROVE  MergingInv(loop[Len(files)], G) /\ loop[Len(files)].begun = b.begun
<1> DEFINE N == Len(files)
           V == {c \in Batch : MergingInv(c, G) /\ c.begun = b.begun}
           D == [p \in V \X (1 .. N) |-> MergeFile(p[1], files[p[2]])]
           body(f) == [n \in 0 .. N |-> IF n = 0 THEN b ELSE MergeFile(f[n - 1], files[n])]
<1>1. N \in Nat /\ \A n \in 1 .. N : files[n] \in Author
  OBVIOUS
<1>2. b \in V
  BY DEF MergingInv
<1>3. ASSUME NEW c \in V, NEW n \in 1 .. N
      PROVE  MergeFile(c, files[n]) \in V
  <2>1. MergingInv(MergeFile(c, files[n]), G) /\ MergeFile(c, files[n]).begun = c.begun
    BY <1>1, MergeFileInv
  <2>2. MergeFile(c, files[n]) \in Batch
    BY <2>1 DEF MergingInv
  <2> QED
    BY <2>1, <2>2
<1>4. PICK g \in [0 .. N -> V] : g = body(g)
  <2>1. D \in [V \X (1 .. N) -> V] /\ \A c \in V, n \in 1 .. N : D[<<c, n>>] = MergeFile(c, files[n])
    <3> HIDE DEF V, N
    <3> QED
      BY <1>3
  <2>2. PICK g \in [0 .. N -> V] : IsRecursive(g, N, b, D)
    <3> HIDE DEF V, D, N
    <3> QED
      BY <1>1, <1>2, <2>1, RecursionExists
  <2> HIDE DEF V, D, N
  <2>3. ASSUME NEW n \in 0 .. N
        PROVE  g[n] = IF n = 0 THEN b ELSE MergeFile(g[n - 1], files[n])
    <3>1. CASE n = 0
      BY <2>2, <3>1 DEF IsRecursive
    <3>2. CASE n # 0
      <4>1. n \in 1 .. N /\ n - 1 \in 0 .. N
        BY <1>1, <3>2
      <4>2. g[n] = D[<<g[n - 1], n>>] /\ g[n - 1] \in V
        BY <2>2, <3>2, <4>1 DEF IsRecursive
      <4> QED
        BY <2>1, <3>2, <4>1, <4>2
    <3> QED
      BY <3>1, <3>2
  <2>4. g = [n \in 0 .. N |-> g[n]]
    BY <2>2
  <2>5. g = body(g)
    BY <2>3, <2>4
  <2> QED
    BY <2>2, <2>5
<1>5. loop = body(loop)
  <2>1. \E f : f = body(f)
    BY <1>4
  <2>2. loop = CHOOSE f : f = body(f)
    OBVIOUS
  <2> HIDE DEF body
  <2> QED
    BY <2>1, <2>2
<1>6. loop[0] = b /\ \A n \in 1 .. N : loop[n] = MergeFile(loop[n - 1], files[n])
  <2> HIDE DEF N
  <2>1. \A n \in 0 .. N : loop[n] = IF n = 0 THEN b ELSE MergeFile(loop[n - 1], files[n])
    BY <1>5
  <2>2. 0 \in 0 .. N /\ \A n \in 1 .. N : n \in 0 .. N /\ n # 0
    BY <1>1
  <2> QED
    BY <2>1, <2>2
<1> DEFINE S == {n \in 0 .. N : loop[n] \in V}
<1>7. 0 .. N \subseteq S
  <2> HIDE DEF N, V
  <2>1. 0 \in S
    BY <1>1, <1>2, <1>6
  <2>2. \A n \in 1 .. N : n - 1 \in S => n \in S
    BY <1>1, <1>3, <1>6
  <2> HIDE DEF S
  <2> QED
    BY <1>1, <2>1, <2>2, UpTo
<1>8. loop[N] \in V
  BY <1>1, <1>7
<1> QED
  BY <1>8

LEMMA SmartMergeInv ==
    ASSUME NEW G \in SUBSET Level, NEW b, BatchInv(b, G), NEW files \in Seq(Author), NEW bad,
           \A n \in 1 .. Len(files) : ReadPackage(files[n]).head \in Level
    PROVE  BatchInv(SmartMerge(b, files, bad), G)
<1>1. PICK loop : loop = CHOOSE f : f = [n \in 0 .. Len(files) |->
                                            IF n = 0 THEN b ELSE MergeFile(f[n - 1], files[n])]
  OBVIOUS
<1> DEFINE m == loop[Len(files)]
           from == [d \in Author |-> IF m.from[d] = Nil THEN Nil ELSE m.ours]
           r == [m EXCEPT !.begun = TRUE, !.base = m.ours, !.root = m.ours, !.from = from]
<1>2. MergingInv(m, G) /\ m.begun = b.begun
  <2>1. MergingInv(b, G)
    BY DEF BatchInv
  <2> QED
    BY <1>1, <2>1, SmartLoop, ZenonT(30)
<1>3. \/ SmartMerge(b, files, bad) = b
      \/ b.begun /\ SmartMerge(b, files, bad) = m
      \/ ~b.begun /\ SmartMerge(b, files, bad) = r
  BY <1>1 DEF SmartMerge
<1> HIDE DEF m
<1>4. CASE SmartMerge(b, files, bad) = b
  BY <1>4
<1>5. CASE b.begun /\ SmartMerge(b, files, bad) = m
  BY <1>2, <1>5 DEF BatchInv
<1>6. CASE ~b.begun /\ SmartMerge(b, files, bad) = r
  <2>1. m \in Batch /\ m.ours \in Level
    BY <1>2 DEF MergingInv, Batch
  <2>2. from \in [Author -> Level \cup {Nil}] /\ \A d \in Author : from[d] # Nil => from[d] = m.ours
    BY <2>1
  <2> HIDE DEF from
  <2>3. r \in Batch /\ r.base = m.ours /\ r.root = m.ours /\ r.ours = m.ours /\ r.from = from /\ r.begun
    BY <2>1, <2>2 DEF Batch
  <2>4. G = {}
    BY <1>6 DEF BatchInv
  <2> HIDE DEF r
  <2>5. MergingInv(r, G)
    BY <2>2, <2>3, <2>4, ShowsItself DEF MergingInv
  <2> QED
    BY <1>6, <2>3, <2>5 DEF BatchInv
<1> QED
  BY <1>3, <1>4, <1>5, <1>6

LEMMA SequentialMergeInv ==
    ASSUME NEW G \in SUBSET Level, NEW b, BatchInv(b, G), NEW d \in Author, ReadPackage(d).head \in Level
    PROVE  BatchInv(SequentialMerge(b, d), G)
<1> DEFINE theirs == ReadPackage(d).head
           r == [b EXCEPT !.base = theirs, !.ours = theirs, !.root = theirs, !.begun = TRUE,
                          !.from = [b.from EXCEPT ![d] = theirs]]
<1>1. CASE b.begun
  <2>1. SequentialMerge(b, d) = MergeFile(b, d)
    BY <1>1 DEF SequentialMerge
  <2>2. MergingInv(MergeFile(b, d), G) /\ MergeFile(b, d).begun = b.begun
    BY MergeFileInv DEF BatchInv
  <2> QED
    BY <1>1, <2>1, <2>2 DEF BatchInv
<1>2. CASE ~b.begun
  <2>1. SequentialMerge(b, d) = r
    BY <1>2 DEF SequentialMerge
  <2>2. b \in Batch /\ b.from = NoFiles /\ G = {} /\ b.from \in [Author -> Level \cup {Nil}]
    BY <1>2 DEF BatchInv, MergingInv, Batch
  <2> HIDE DEF theirs
  <2>3. theirs \in Level
    BY DEF theirs
  <2>4. /\ [b.from EXCEPT ![d] = theirs] \in [Author -> Level \cup {Nil}]
        /\ \A e \in Author : [b.from EXCEPT ![d] = theirs][e] # Nil => [b.from EXCEPT ![d] = theirs][e] = theirs
    BY <2>2, <2>3 DEF NoFiles
  <2>5. r \in Batch /\ r.base = theirs /\ r.root = theirs /\ r.ours = theirs /\ r.begun
        /\ r.from = [b.from EXCEPT ![d] = theirs]
    BY <2>2, <2>3, <2>4 DEF Batch
  <2> HIDE DEF r
  <2>6. MergingInv(r, G)
    BY <2>2, <2>4, <2>5, ShowsItself DEF MergingInv
  <2> QED
    BY <2>1, <2>5, <2>6 DEF BatchInv
<1> QED
  BY <1>1, <1>2

\* The loop over the other files.
LEMMA SequentialLoop ==
    ASSUME NEW G \in SUBSET Level, NEW b, BatchInv(b, G), NEW files \in Seq(Author),
           \A n \in 1 .. Len(files) : ReadPackage(files[n]).head \in Level,
           NEW loop,
           loop = CHOOSE f : f = [n \in 0 .. Len(files) |->
                                    IF n = 0 THEN b ELSE SequentialMerge(f[n - 1], files[n])]
    PROVE  BatchInv(loop[Len(files)], G)
<1> DEFINE N == Len(files)
           V == {c \in Batch : BatchInv(c, G)}
           D == [p \in V \X (1 .. N) |-> SequentialMerge(p[1], files[p[2]])]
           body(f) == [n \in 0 .. N |-> IF n = 0 THEN b ELSE SequentialMerge(f[n - 1], files[n])]
<1>1. N \in Nat /\ \A n \in 1 .. N : files[n] \in Author
  OBVIOUS
<1>2. b \in V
  BY DEF BatchInv, MergingInv
<1>3. ASSUME NEW c \in V, NEW n \in 1 .. N
      PROVE  SequentialMerge(c, files[n]) \in V
  <2>1. BatchInv(SequentialMerge(c, files[n]), G)
    BY <1>1, SequentialMergeInv
  <2>2. SequentialMerge(c, files[n]) \in Batch
    BY <2>1 DEF BatchInv, MergingInv
  <2> QED
    BY <2>1, <2>2
<1>4. PICK g \in [0 .. N -> V] : g = body(g)
  <2>1. D \in [V \X (1 .. N) -> V] /\ \A c \in V, n \in 1 .. N : D[<<c, n>>] = SequentialMerge(c, files[n])
    <3> HIDE DEF V, N
    <3> QED
      BY <1>3
  <2>2. PICK g \in [0 .. N -> V] : IsRecursive(g, N, b, D)
    <3> HIDE DEF V, D, N
    <3> QED
      BY <1>1, <1>2, <2>1, RecursionExists
  <2> HIDE DEF V, D, N
  <2>3. ASSUME NEW n \in 0 .. N
        PROVE  g[n] = IF n = 0 THEN b ELSE SequentialMerge(g[n - 1], files[n])
    <3>1. CASE n = 0
      BY <2>2, <3>1 DEF IsRecursive
    <3>2. CASE n # 0
      <4>1. n \in 1 .. N /\ n - 1 \in 0 .. N
        BY <1>1, <3>2
      <4>2. g[n] = D[<<g[n - 1], n>>] /\ g[n - 1] \in V
        BY <2>2, <3>2, <4>1 DEF IsRecursive
      <4> QED
        BY <2>1, <3>2, <4>1, <4>2
    <3> QED
      BY <3>1, <3>2
  <2>4. g = [n \in 0 .. N |-> g[n]]
    BY <2>2
  <2>5. g = body(g)
    BY <2>3, <2>4
  <2> QED
    BY <2>2, <2>5
<1>5. loop = body(loop)
  <2>1. \E f : f = body(f)
    BY <1>4
  <2>2. loop = CHOOSE f : f = body(f)
    OBVIOUS
  <2> HIDE DEF body
  <2> QED
    BY <2>1, <2>2
<1>6. loop[0] = b /\ \A n \in 1 .. N : loop[n] = SequentialMerge(loop[n - 1], files[n])
  <2> HIDE DEF N
  <2>1. \A n \in 0 .. N : loop[n] = IF n = 0 THEN b ELSE SequentialMerge(loop[n - 1], files[n])
    BY <1>5
  <2>2. 0 \in 0 .. N /\ \A n \in 1 .. N : n \in 0 .. N /\ n # 0
    BY <1>1
  <2> QED
    BY <2>1, <2>2
<1> DEFINE S == {n \in 0 .. N : loop[n] \in V}
<1>7. 0 .. N \subseteq S
  <2> HIDE DEF N, V
  <2>1. 0 \in S
    BY <1>1, <1>2, <1>6
  <2>2. \A n \in 1 .. N : n - 1 \in S => n \in S
    BY <1>1, <1>3, <1>6
  <2> HIDE DEF S
  <2> QED
    BY <1>1, <2>1, <2>2, UpTo
<1>8. loop[N] \in V
  BY <1>1, <1>7
<1> QED
  BY <1>8

LEMMA ImportBatchInv ==
    ASSUME NEW G \in SUBSET Level, NEW a, BatchInv(BatchBegin(a), G), NEW files \in Seq(Author), NEW bad,
           \A n \in 1 .. Len(files) : ReadPackage(files[n]).head \in Level
    PROVE  BatchInv(ImportBatch(a, files, bad), G)
<1> DEFINE ours == {d \in RangeOf(files) :
                      ReadPackage(d).rootHash = HashLevelState(IF roots[a] = Nil THEN EmptyState ELSE roots[a])}
           smart == Selected(files, ours)
           sequential == Selected(files, RangeOf(files) \ (ours \cup bad))
           begin == SmartMerge(BatchBegin(a), smart, bad)
<1>1. \A d \in RangeOf(files) : ReadPackage(d).head \in Level
  BY DEF RangeOf
<1>2. ASSUME NEW s \in Seq(Author), RangeOf(s) \subseteq RangeOf(files)
      PROVE  \A n \in 1 .. Len(s) : ReadPackage(s[n]).head \in Level
  <2>1. \A n \in 1 .. Len(s) : s[n] \in RangeOf(s)
    BY DEF RangeOf
  <2> QED
    BY <1>1, <1>2, <2>1
<1>3. smart \in Seq(Author) /\ RangeOf(smart) \subseteq RangeOf(files)
  <2> HIDE DEF ours
  <2> QED
    BY SelectedIs
<1>4. sequential \in Seq(Author) /\ RangeOf(sequential) \subseteq RangeOf(files)
  <2> HIDE DEF ours
  <2> QED
    BY SelectedIs
<1>5. PICK loop : loop = CHOOSE f : f = [n \in 0 .. Len(sequential) |->
                                IF n = 0 THEN begin ELSE SequentialMerge(f[n - 1], sequential[n])]
  OBVIOUS
<1>6. ImportBatch(a, files, bad) = loop[Len(sequential)]
  BY <1>5 DEF ImportBatch
<1> HIDE DEF smart, sequential
<1>7. BatchInv(begin, G)
  <2>1. \A n \in 1 .. Len(smart) : ReadPackage(smart[n]).head \in Level
    BY <1>2, <1>3
  <2> QED
    BY <1>3, <2>1, SmartMergeInv
<1> HIDE DEF begin
<1>8. BatchInv(loop[Len(sequential)], G)
  <2>1. \A n \in 1 .. Len(sequential) : ReadPackage(sequential[n]).head \in Level
    BY <1>2, <1>4
  <2> QED
    BY <1>4, <1>5, <1>7, <2>1, SequentialLoop
<1> QED
  BY <1>6, <1>8

-------------------------------------------------------------------------------
(***************************************************************************)
(* Everybody's work                                                        *)
(***************************************************************************)

\* Histories are of levels, and who has none got nothing.
HistoriesOfLevels ==
    /\ heads \in [Author -> Level \cup {Nil}] /\ roots \in [Author -> Level \cup {Nil}]
    /\ got \in [Author -> [Author -> Level \cup {Nil}]] /\ twice \in [Author -> BOOLEAN]
    /\ \A a \in Author : IF heads[a] = Nil THEN roots[a] = Nil /\ got[a] = NoFiles ELSE roots[a] # Nil

\* The inductive invariant.
CollabInv == FilesHoldLevels /\ HistoriesOfLevels /\ EverybodysWorkIsThere

\* A step of the author a alone.
LEMMA OneAuthorInv ==
    ASSUME CollabInv, NEW a \in Author, NEW h \in Level, NEW r \in Level,
           NEW g \in [Author -> Level \cup {Nil}], NEW t \in BOOLEAN,
           heads' = [heads EXCEPT ![a] = h], roots' = [roots EXCEPT ![a] = r],
           got' = [got EXCEPT ![a] = g], twice' = [twice EXCEPT ![a] = t],
           ~t => \A d \in Author : g[d] # Nil => ShowsIn(r, g[d], h),
           UNCHANGED <<disk, export>>
    PROVE  CollabInv'
<1>1. Nil \notin Level
  BY CollabAssumption
<1>2. /\ heads'[a] = h /\ roots'[a] = r /\ got'[a] = g /\ twice'[a] = t
      /\ \A c \in Author \ {a} : /\ heads'[c] = heads[c] /\ roots'[c] = roots[c]
                                 /\ got'[c] = got[c] /\ twice'[c] = twice[c]
  BY DEF CollabInv, HistoriesOfLevels
<1>3. HistoriesOfLevels'
  <2>1. /\ heads' \in [Author -> Level \cup {Nil}] /\ roots' \in [Author -> Level \cup {Nil}]
        /\ got' \in [Author -> [Author -> Level \cup {Nil}]] /\ twice' \in [Author -> BOOLEAN]
    BY DEF CollabInv, HistoriesOfLevels
  <2>2. \A c \in Author : IF heads'[c] = Nil THEN roots'[c] = Nil /\ got'[c] = NoFiles ELSE roots'[c] # Nil
    BY <1>1, <1>2 DEF CollabInv, HistoriesOfLevels
  <2> QED
    BY <2>1, <2>2 DEF HistoriesOfLevels, NoFiles
<1>4. EverybodysWorkIsThere'
  BY <1>2 DEF CollabInv, EverybodysWorkIsThere, Shows, ShowsIn
<1>5. FilesHoldLevels'
  BY DEF CollabInv, FilesHoldLevels, ContentHoldsLevel, HoldsLevel
<1> QED
  BY <1>3, <1>4, <1>5 DEF CollabInv

LEMMA OwnWorkInv ==
    ASSUME CollabInv, NEW a \in Author, NEW h \in Level, NEW r \in Level,
           heads' = [heads EXCEPT ![a] = h], roots' = [roots EXCEPT ![a] = r], OwnWork(a, h),
           UNCHANGED <<disk, export>>
    PROVE  CollabInv'
<1> DEFINE g == [d \in Author |-> IF d = a THEN h ELSE Nil]
<1>1. g \in [Author -> Level \cup {Nil}] /\ \A d \in Author : g[d] # Nil => ShowsIn(r, g[d], h)
  BY ShowsItself
<1>2. got' = [got EXCEPT ![a] = g] /\ twice' = [twice EXCEPT ![a] = FALSE]
  BY DEF OwnWork
<1> HIDE DEF g
<1> QED
  BY <1>1, <1>2, OneAuthorInv

LEMMA CommitInv ==
    ASSUME CollabInv, NEW a \in Author, NEW u \in Uuid, NEW object \in Version \cup {Nil}, Commit(a, u, object)
    PROVE  CollabInv'
<1> DEFINE h == IF heads[a] = Nil THEN EmptyState ELSE heads[a]
           s == [h EXCEPT !.objects[u] = object]
           r == IF roots[a] = Nil THEN s ELSE roots[a]
<1>1. h \in Level
  <2>1. EmptyState \in Level
    BY EmptyStateType, GdHeaderAssumption DEF LevelState, Level
  <2> QED
    BY <2>1 DEF CollabInv, HistoriesOfLevels
<1>2. heads' = [heads EXCEPT ![a] = s] /\ OwnWork(a, s) /\ UNCHANGED <<disk, export>>
  BY DEF Commit, fileVars
<1>3. roots' = [roots EXCEPT ![a] = r]
  BY DEF Commit
<1> HIDE DEF h
<1>4. s \in Level
  <2>1. object \in FieldMap \cup {Nil}
    BY CollabAssumption
  <2>2. h.objects \in ObjectMap /\ s = [h EXCEPT !.objects = [h.objects EXCEPT ![u] = object]]
    BY <1>1 DEF Level
  <2>3. [h.objects EXCEPT ![u] = object] \in ObjectMap
    BY <2>1, <2>2 DEF ObjectMap
  <2> QED
    BY <1>1, <2>2, <2>3 DEF Level
<1> HIDE DEF s
<1>5. r \in Level
  BY <1>4 DEF CollabInv, HistoriesOfLevels
<1> HIDE DEF r
<1> QED
  BY <1>2, <1>3, <1>4, <1>5, OwnWorkInv

LEMMA SquashAllInv ==
    ASSUME CollabInv, NEW a \in Author, SquashAll(a)
    PROVE  CollabInv'
<1>1. heads[a] \in Level
  BY DEF CollabInv, HistoriesOfLevels, SquashAll
<1>2. /\ heads' = [heads EXCEPT ![a] = heads[a]] /\ roots' = [roots EXCEPT ![a] = heads[a]]
      /\ OwnWork(a, heads[a]) /\ UNCHANGED <<disk, export>>
  BY DEF SquashAll, fileVars, CollabInv, HistoriesOfLevels
<1> QED
  BY <1>1, <1>2, OwnWorkInv

\* Steps that only touch files.
LEMMA FilesInv ==
    ASSUME CollabInv, FilesHoldLevels', UNCHANGED <<roots, heads, got, twice>>
    PROVE  CollabInv'
BY DEF CollabInv, HistoriesOfLevels, NoFiles, EverybodysWorkIsThere, Shows, ShowsIn

LEMMA ExportLevelInv ==
    ASSUME CollabInv, NEW a \in Author, NEW compress, ExportLevel(a, compress)
    PROVE  CollabInv'
<1> DEFINE pkg == [rootHash |-> HashLevelState(roots[a]), head |-> heads[a]]
<1>1. HoldsLevel(pkg)
  BY DEF HoldsLevel, ExportLevel, CollabInv, HistoriesOfLevels
<1>2. /\ export' = [export EXCEPT ![a] = [phase |-> "sqlite", pkg |-> pkg, compress |-> compress]]
      /\ UNCHANGED disk /\ a \in Path
  BY DEF ExportLevel, BeginExport, Author
<1> HIDE DEF pkg
<1>3. /\ DOMAIN export' = DOMAIN export /\ \A q \in Path \ {a} : export'[q] = export[q]
      /\ export'[a].pkg = pkg
  BY <1>2 DEF CollabInv, FilesHoldLevels
<1>4. FilesHoldLevels'
  BY <1>1, <1>2, <1>3, FilesOfOneExport DEF CollabInv, FilesHoldLevels
<1> QED
  BY <1>4, FilesInv DEF ExportLevel, dbVars, ghostVars

LEMMA WriteFileInv ==
    ASSUME CollabInv, NEW a \in Author, WriteFile(a)
    PROVE  CollabInv'
<1>1. FilesHoldLevels'
  BY WritePackageHolds DEF WriteFile, CollabInv, Author
<1> QED
  BY <1>1, FilesInv DEF WriteFile, dbVars, ghostVars

LEMMA ImportManyInv ==
    ASSUME CollabInv, NEW a \in Author, NEW files \in FileLists, NEW bad, ImportMany(a, files, bad)
    PROVE  CollabInv'
<1> DEFINE b == ImportBatch(a, files, bad)
           G == IF twice[a] THEN {} ELSE {l \in Level : \E d \in Author : l = got[a][d]}
           g == [d \in Author |-> IF b.conflicts > 0 THEN Nil
                                  ELSE IF d # a /\ b.from[d] # Nil THEN b.from[d] ELSE got[a][d]]
           t == twice[a] \/ b.twice
<1>1. files \in Seq(Author) /\ DOMAIN files = 1 .. Len(files)
  <2>1. PICK n \in 1 .. Cardinality(Author) : files \in [1 .. n -> Author]
    BY DEF FileLists
  <2>2. n \in Nat
    OBVIOUS
  <2> QED
    BY <2>1, <2>2
<1>2. \A n \in 1 .. Len(files) : ReadPackage(files[n]).head \in Level
  BY <1>1, ReadLevel DEF ImportMany, CollabInv
<1>3. EmptyState \in Level
  BY EmptyStateType, GdHeaderAssumption DEF LevelState, Level
<1>4. G \in SUBSET Level
  OBVIOUS
<1>5. /\ heads[a] \in Level \cup {Nil} /\ roots[a] \in Level \cup {Nil} /\ got[a] \in [Author -> Level \cup {Nil}]
      /\ twice[a] \in BOOLEAN /\ Nil \notin Level
      /\ IF heads[a] = Nil THEN roots[a] = Nil /\ got[a] = NoFiles ELSE roots[a] # Nil
  BY CollabAssumption DEF CollabInv, HistoriesOfLevels
<1>6. BatchInv(BatchBegin(a), G)
  <2>1. NoFiles \in [Author -> Level \cup {Nil}] /\ \A d \in Author : NoFiles[d] = Nil
    BY DEF NoFiles
  <2>2. CASE heads[a] = Nil
    <3>1. G = {}
      BY <1>5, <2>1, <2>2
    <3>2. BatchBegin(a) = [base |-> EmptyState, ours |-> EmptyState, begun |-> FALSE, root |-> EmptyState,
                           from |-> NoFiles, conflicts |-> 0, twice |-> FALSE, fits |-> TRUE]
      BY <2>2 DEF BatchBegin
    <3> HIDE DEF G
    <3> QED
      BY <1>3, <2>1, <3>1, <3>2 DEF BatchInv, MergingInv, Batch
  <2>3. CASE heads[a] # Nil
    <3>1. BatchBegin(a) = [base |-> roots[a], ours |-> heads[a], begun |-> TRUE, root |-> roots[a],
                           from |-> NoFiles, conflicts |-> 0, twice |-> FALSE, fits |-> TRUE]
      BY <2>3 DEF BatchBegin
    <3>2. heads[a] \in Level /\ roots[a] \in Level
      BY <1>5, <2>3
    <3>3. \A l \in G : ShowsIn(roots[a], l, heads[a])
      BY <1>5 DEF CollabInv, EverybodysWorkIsThere, Shows
    <3> HIDE DEF G
    <3> QED
      BY <2>1, <3>1, <3>2, <3>3 DEF BatchInv, MergingInv, Batch
  <2> QED
    BY <2>2, <2>3
<1> HIDE DEF b, G
<1>7. BatchInv(b, G)
  BY <1>1, <1>2, <1>4, <1>6, ImportBatchInv DEF b
<1>8. /\ b.ours \in Level /\ b.root \in Level /\ b.from \in [Author -> Level \cup {Nil}]
      /\ b.conflicts \in Nat /\ b.twice \in BOOLEAN
  BY <1>7 DEF BatchInv, MergingInv, Batch
<1>9. /\ heads' = [heads EXCEPT ![a] = b.ours] /\ roots' = [roots EXCEPT ![a] = b.root]
      /\ UNCHANGED <<disk, export>>
  BY DEF ImportMany, b, fileVars
<1>10. got' = [got EXCEPT ![a] = g]
  BY <1>5 DEF ImportMany, b
<1>11. twice' = [twice EXCEPT ![a] = t]
  BY DEF ImportMany, b
<1>12. g \in [Author -> Level \cup {Nil}] /\ t \in BOOLEAN
  BY <1>5, <1>8
<1>13. ASSUME ~t, NEW d \in Author, g[d] # Nil
       PROVE  ShowsIn(b.root, g[d], b.ours)
  <2>1. ~twice[a] /\ ~b.twice
    BY <1>13
  <2>2. b.conflicts = 0
    BY <1>8, <1>13
  <2>3. /\ \A e \in Author : b.from[e] # Nil => ShowsIn(b.root, b.from[e], b.ours)
        /\ \A l \in G : ShowsIn(b.root, l, b.ours)
    BY <1>7, <2>1, <2>2 DEF BatchInv, MergingInv
  <2>4. CASE g[d] = b.from[d] /\ b.from[d] # Nil
    BY <2>3, <2>4
  <2>5. CASE g[d] = got[a][d]
    <3>1. g[d] \in G
      BY <1>5, <1>13, <2>1, <2>5 DEF G
    <3> QED
      BY <2>3, <3>1
  <2> QED
    BY <1>8, <2>2, <2>4, <2>5
<1> HIDE DEF g, t
<1> QED
  BY <1>8, <1>9, <1>10, <1>11, <1>12, <1>13, OneAuthorInv

LEMMA CollabInvInit == CollabInit => CollabInv
<1> SUFFICES ASSUME CollabInit PROVE CollabInv
  OBVIOUS
<1>1. FilesHoldLevels
  BY DEF CollabInit, FileInit, FilesHoldLevels, ContentHoldsLevel
<1>2. HistoriesOfLevels
  BY DEF CollabInit, HistoriesOfLevels, NoFiles
<1>3. EverybodysWorkIsThere
  BY DEF CollabInit, EverybodysWorkIsThere
<1> QED
  BY <1>1, <1>2, <1>3 DEF CollabInv

\* Whoever exchanges files with whom, in whatever order and selection, with whatever failures of
\* exports: the files are of levels, and an import that reports no conflict, and finds no added object
\* in two versions, keeps everybody's work (GdgeImportMerge.cpp, over mergeStates3Way).
THEOREM CollabInvariant == CollabSpec => []CollabInv
<1>1. CollabInv /\ [CollabNext]_collabVars => CollabInv'
  <2> SUFFICES ASSUME CollabInv, [CollabNext]_collabVars PROVE CollabInv'
    OBVIOUS
  <2>1. CASE UNCHANGED collabVars
    <3>1. UNCHANGED <<roots, heads, got, twice, disk, export>>
      BY <2>1 DEF collabVars, dbVars, ghostVars, fileVars
    <3>2. FilesHoldLevels'
      BY <3>1 DEF CollabInv, FilesHoldLevels, ContentHoldsLevel, HoldsLevel
    <3> QED
      BY <3>1, <3>2, FilesInv
  <2> QED
    BY <2>1, CommitInv, SquashAllInv, ExportLevelInv, WriteFileInv, ImportManyInv DEF CollabNext
<1> QED
  BY <1>1, CollabInvInit, PTL DEF CollabSpec

\* In the exchange of .gdge files nobody's work is lost silently, for any number of authors: what each
\* of them changed of the root is in every level that imported it, as long as no conflict was reported
\* and no added object came back in another version.
THEOREM NobodysWorkIsLost == CollabSpec => []EverybodysWorkIsThere
<1>1. CollabInv => EverybodysWorkIsThere
  BY DEF CollabInv
<1> QED
  BY <1>1, CollabInvariant, PTL
===============================================================================
