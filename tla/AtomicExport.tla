---------------------------- MODULE AtomicExport ----------------------------
(***************************************************************************)
(* What exporting a level promises: the file that a path names is what the *)
(* last successful export wrote, whole, and an export either puts its      *)
(* package there in one step or leaves the file alone.                     *)
(***************************************************************************)
CONSTANTS Path, Package, NoFile, NoExport

VARIABLES
    file,        \* path -> package, NoFile if there is none
    exporting    \* path -> the package of the export that runs, NoExport if there is none

atomicVars == <<file, exporting>>

AtomicInit ==
    /\ file = [p \in Path |-> NoFile]
    /\ exporting = [p \in Path |-> NoExport]

Begin(p, pkg) ==
    /\ exporting[p] = NoExport
    /\ exporting' = [exporting EXCEPT ![p] = pkg]
    /\ UNCHANGED file

Publish(p) ==
    /\ exporting[p] # NoExport
    /\ file' = [file EXCEPT ![p] = exporting[p]]
    /\ exporting' = [exporting EXCEPT ![p] = NoExport]

GiveUp(p) ==
    /\ exporting' = [exporting EXCEPT ![p] = NoExport]
    /\ UNCHANGED file

AtomicNext == \E p \in Path : Publish(p) \/ GiveUp(p) \/ \E pkg \in Package : Begin(p, pkg)

AtomicSpec == AtomicInit /\ [][AtomicNext]_atomicVars
=============================================================================
