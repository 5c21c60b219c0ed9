--------------------------- MODULE CommitDatabase ---------------------------
(***************************************************************************)
(* Opening the commit database: CommitStore::init with ensureSchema of     *)
(* src/store/CommitSchema.cpp, around the store's operations.  The         *)
(* statements are not in one transaction: each is committed by itself, and *)
(* the process may end, or a statement fail, between any two.  The version *)
(* of the mod may change from one session to the next.                     *)
(***************************************************************************)
EXTENDS CommitStore, Integers

CONSTANTS
    ModVersion,    \* values of kSchemaVersion in the mods that are installed in turn
    NotOpening,
    NoLayout       \* layout of a table that is not there

ASSUME DatabaseAssumption == ModVersion \subseteq Nat \ {0} /\ NoLayout = 0

VARIABLES
    tables,     \* the tables that exist
    stamp,      \* 'version' in schema_meta, NoStamp if there is no such row
    opening,    \* the version of the mod that opens, and the statements it has still to run
    \* History variables, not in the code:
    layout,     \* the version whose createSchemaObjects made the table commits
    closed,     \* what the tables held when the database was closed
    newestMod,  \* the newest mod that was installed
    odd         \* the version was misread, or an older mod was installed over a newer one

schemaVars == <<tables, stamp, opening>>
schemaGhosts == <<layout, closed, newestMod, odd>>
databaseVars == <<storeVars, schemaVars, schemaGhosts>>

NoTable == -2
NoStamp == -1
Contents == [rows |-> commits, heads |-> refs, last |-> lastId, layout |-> layout]
NoContents == [rows |-> [i \in {} |-> {}], heads |-> [k \in LevelKey |-> NoId], last |-> 0,
               layout |-> NoLayout]

DatabaseInit ==
    /\ StoreInit
    /\ tables = {} /\ stamp = NoStamp /\ opening = NotOpening
    /\ layout = NoLayout /\ closed = NoContents /\ newestMod = 0 /\ odd = FALSE

-------------------------------------------------------------------------------
ReadSchemaVersion == IF "schema_meta" \in tables THEN stamp ELSE NoTable

\* Mutant: the new version is written before the old tables are dropped.
Statements_StampFirst(wipe) ==
    <<"create schema_meta", "stamp">>
    \o (IF wipe THEN <<"drop refs", "drop commits">> ELSE <<>>)
    \o <<"create commits", "create refs">>

\* dropSchemaObjects, createSchemaObjects and upsertSchemaVersion.
Statements(wipe) ==
    (IF wipe THEN <<"drop refs", "drop commits", "drop schema_meta">> ELSE <<>>)
    \o <<"create commits", "create refs", "create schema_meta", "stamp">>

\* A version that cannot be read is -1 or -2, too.
BeginOpen(v) ==
    /\ ~open /\ opening = NotOpening
    /\ \E current \in {ReadSchemaVersion, NoStamp, NoTable} :
        /\ opening' = [version |-> v, todo |-> Statements(current < v)]
        /\ odd' = (odd \/ current # ReadSchemaVersion \/ v < newestMod)
        /\ newestMod' = IF v < newestMod THEN newestMod ELSE v
    /\ UNCHANGED <<storeVars, tables, stamp, layout, closed>>

\* The next statement runs.
Executes(statement) ==
    /\ opening # NotOpening /\ opening.todo # <<>> /\ Head(opening.todo) = statement
    /\ opening' = [opening EXCEPT !.todo = Tail(@)]
    /\ UNCHANGED <<open, closed, newestMod, odd>>

DropRefs ==
    /\ Executes("drop refs")
    /\ tables' = tables \ {"refs"}
    /\ refs' = [k \in LevelKey |-> NoId]
    /\ UNCHANGED <<commits, lastId, stamp, layout>>

\* The rows are deleted first, which the foreign keys of refs allow if it has no rows.  The
\* AUTOINCREMENT counter goes with the table.
DropCommits ==
    /\ Executes("drop commits")
    /\ \A k \in LevelKey : refs[k] = NoId
    /\ tables' = tables \ {"commits"}
    /\ commits' = NoContents.rows /\ lastId' = 0 /\ layout' = NoLayout
    /\ UNCHANGED <<refs, stamp>>

DropMeta ==
    /\ Executes("drop schema_meta")
    /\ tables' = tables \ {"schema_meta"}
    /\ stamp' = NoStamp
    /\ UNCHANGED <<commits, refs, lastId, layout>>

\* CREATE TABLE IF NOT EXISTS
CreateCommits ==
    /\ Executes("create commits")
    /\ tables' = tables \cup {"commits"}
    /\ layout' = IF "commits" \in tables THEN layout ELSE opening.version
    /\ UNCHANGED <<commits, refs, lastId, stamp>>

CreateTable(statement, t) ==
    /\ Executes(statement)
    /\ tables' = tables \cup {t}
    /\ UNCHANGED <<commits, refs, lastId, stamp, layout>>

UpsertSchemaVersion ==
    /\ Executes("stamp")
    /\ stamp' = opening.version
    /\ UNCHANGED <<commits, refs, lastId, tables, layout>>

\* prepareStatements, and the database is open.
Opened ==
    /\ opening # NotOpening /\ opening.todo = <<>>
    /\ open' = TRUE /\ opening' = NotOpening /\ closed' = NoContents
    /\ UNCHANGED <<commits, refs, lastId, tables, stamp, layout, newestMod, odd>>

\* A statement fails, or the process ends.
OpenFails ==
    /\ opening # NotOpening /\ opening' = NotOpening
    /\ UNCHANGED <<storeVars, tables, stamp, schemaGhosts>>

Close ==
    /\ CloseStore
    /\ closed' = Contents
    /\ UNCHANGED <<schemaVars, layout, newestMod, odd>>

Operate == open /\ StoreOp /\ UNCHANGED <<schemaVars, schemaGhosts>>

DatabaseNext ==
    \/ \E v \in ModVersion : BeginOpen(v)
    \/ DropRefs \/ DropCommits \/ DropMeta
    \/ CreateCommits \/ CreateTable("create refs", "refs")
    \/ CreateTable("create schema_meta", "schema_meta") \/ UpsertSchemaVersion
    \/ Opened \/ OpenFails \/ Close \/ Operate

DatabaseSpec == DatabaseInit /\ [][DatabaseNext]_databaseVars
-------------------------------------------------------------------------------
\* However often opening was interrupted, and by whichever statement: when the database is open, it
\* holds all that it held when it was closed, if the mod that opens it is the one that made the tables,
\* and nothing of it, if that was an older one.  Except if the version could not be read at some time,
\* or a mod with an older schema was installed over a newer one.
OpenedWholeOrWiped ==
    [][Opened /\ ~odd =>
        Contents' = IF closed.layout \in {NoLayout, opening.version} THEN [closed EXCEPT !.layout = opening.version]
                   ELSE [NoContents EXCEPT !.layout = opening.version]]_databaseVars
=============================================================================
