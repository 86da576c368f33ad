--------------------------- MODULE BaselinePostgres ---------------------------
(***************************************************************************)
(* The engine's PostgreSQL store (internal/store/postgres): several        *)
(* processes start against one database, each migrates or verifies it      *)
(* under an advisory lock, and those that may then observe concurrently,   *)
(* one transaction per call. The database may be new, at the previous      *)
(* layout, at a later one, or restored so that its version cannot be told. *)
(* PostgreSQL itself is external: a transaction's writes take effect at    *)
(* its commit, a row lock is held to the end of the transaction, and a     *)
(* commit whose answer is lost may or may not have happened.               *)
(***************************************************************************)
EXTENDS Integers, FiniteSets

CONSTANTS Processes, Keys, Calls, KeyOf, ProcessOf, None, MaxLost

SchemaVersion == 2
schemaVersionUnscoped == 1

VARIABLES
    versions,   \* the rows of trustvian_schema_version
    scoped,     \* whether the table has the scope column and its key
    rows,       \* key -> None or the row: [learned, stamp, observations]
    advisory,   \* the process that holds the migration lock, or None
    process,    \* process -> "off", "migrating", "serving" or "refused"
    pc,         \* call -> where its transaction is
    read,       \* call -> the row it read under its lock
    rowLock,    \* key -> the call that holds its row, or None
    returned,   \* ghost: calls that returned success
    sent,       \* ghost: calls whose commit the server carried out
    original,   \* ghost: versions, rows and layout at the start
    lost        \* answers lost
vars == <<versions, scoped, rows, advisory, process, pc, read, rowLock, returned, sent, original, lost>>
database == <<versions, scoped, rows>>
ghosts == <<returned, sent, original, lost>>

Row(l, v) == [learned |-> l, stamp |-> v, observations |-> Cardinality(l)]
\* A row as it is stored: the counter beside a baseline is derived from it.
Rows == {Row(l, v) : l \in SUBSET Calls, v \in {schemaVersionUnscoped, SchemaVersion}}
\* Assumed of the constants; every instance for TLC says so with an ASSUME.
CallsAssumption ==
    /\ KeyOf \in [Calls -> Keys] /\ ProcessOf \in [Calls -> Processes] /\ MaxLost \in Nat
    /\ None \notin Calls /\ None \notin Processes /\ None \notin Rows
NoRows == [k \in Keys |-> None]
OneRow(v) == [k \in Keys |-> IF k = CHOOSE x \in Keys : TRUE THEN Row({}, v) ELSE None]

\* A database as an operator may present it: new, initialised at a version,
\* with rows or without, or with version rows missing or in excess.
Init ==
    /\ \/ versions = {} /\ rows \in {NoRows, OneRow(2)} /\ scoped = TRUE
       \/ versions = {1} /\ rows \in {NoRows, OneRow(1)} /\ scoped = FALSE
       \/ versions \in {{2}, {3}} /\ rows \in {NoRows, OneRow(2)} /\ scoped = TRUE
       \/ versions = {1, 3} /\ rows = OneRow(2) /\ scoped = TRUE
    /\ advisory = None /\ process = [p \in Processes |-> "off"]
    /\ pc = [c \in Calls |-> "start"] /\ read = [c \in Calls |-> None] /\ rowLock = [k \in Keys |-> None]
    /\ returned = {} /\ sent = {} /\ lost = 0
    /\ original = [versions |-> versions, rows |-> rows, scoped |-> scoped]

-----------------------------------------------------------------------------
\* Migrate

pg_advisory_xact_lock(p) ==
    /\ process[p] = "off" /\ advisory = None
    /\ advisory' = p
    /\ process' = [process EXCEPT ![p] = "migrating"]
    /\ UNCHANGED <<database, pc, read, rowLock, ghosts>>

Held == {k \in Keys : rows[k] # None}
\* The metadata cannot be read with confidence.
ErrAmbiguousSchemaState == Cardinality(versions) > 1 \/ (versions = {} /\ Held # {})
ErrSchemaVersionMismatch == versions # {} /\ versions \notin {{SchemaVersion}, {schemaVersionUnscoped}}

\* Every row of the previous layout keeps its baseline, takes the default scope
\* and is restamped.
upgradeUnscoped == [k \in Keys |-> IF rows[k] = None THEN None ELSE [rows[k] EXCEPT !.stamp = SchemaVersion]]

\* A new database is stamped, the previous layout rewritten and every row
\* restamped, the current one left as it is; all at the commit.
Migrate(p) ==
    /\ process[p] = "migrating" /\ advisory = p
    /\ ~ErrAmbiguousSchemaState /\ ~ErrSchemaVersionMismatch
    /\ versions' = {SchemaVersion}
    /\ scoped' = TRUE
    /\ rows' = IF versions = {schemaVersionUnscoped} THEN upgradeUnscoped ELSE rows
    /\ advisory' = None
    /\ process' = [process EXCEPT ![p] = "serving"]
    /\ UNCHANGED <<pc, read, rowLock, ghosts>>

\* Every refusal, and a process killed before its commit, rolls back; a killed
\* one is started again.
MigrateFails(p) ==
    /\ process[p] = "migrating" /\ advisory = p
    /\ advisory' = None
    /\ process' = [process EXCEPT ![p] =
                     IF ErrAmbiguousSchemaState \/ ErrSchemaVersionMismatch THEN "refused" ELSE "off"]
    /\ UNCHANGED <<database, pc, read, rowLock, ghosts>>

-----------------------------------------------------------------------------
\* Observe

\* Faulty variant: the row is read without FOR UPDATE.
ReadUnlocked(c) ==
    /\ pc[c] = "start" /\ process[ProcessOf[c]] = "serving"
    /\ rowLock' = rowLock
    /\ read' = [read EXCEPT ![c] = IF rows[KeyOf[c]] = None THEN Row({}, SchemaVersion) ELSE rows[KeyOf[c]]]
    /\ pc' = [pc EXCEPT ![c] = "locked"]
    /\ UNCHANGED <<database, advisory, process, ghosts>>

\* The INSERT ... ON CONFLICT DO NOTHING and the SELECT ... FOR UPDATE: a row
\* not committed yet and a row locked make the call wait alike.
LockRow(c) ==
    /\ pc[c] = "start" /\ process[ProcessOf[c]] = "serving"
    /\ rowLock[KeyOf[c]] = None
    /\ rowLock' = [rowLock EXCEPT ![KeyOf[c]] = c]
    /\ read' = [read EXCEPT ![c] = IF rows[KeyOf[c]] = None THEN Row({}, SchemaVersion) ELSE rows[KeyOf[c]]]
    /\ pc' = [pc EXCEPT ![c] = "locked"]
    /\ UNCHANGED <<database, advisory, process, ghosts>>

Release(c) == rowLock' = [k \in Keys |-> IF rowLock[k] = c THEN None ELSE rowLock[k]]

\* The UPDATE: the baseline learned into, its stamp, and the columns derived
\* from it in the same statement.
Updated(c) == Row(read[c].learned \cup {c}, SchemaVersion)

\* The commit, answered or not.
Commit(c) ==
    /\ pc[c] = "locked"
    /\ rows' = [rows EXCEPT ![KeyOf[c]] = Updated(c)]
    /\ sent' = sent \cup {c}
    /\ \/ returned' = returned \cup {c} /\ UNCHANGED lost
       \/ returned' = returned /\ lost < MaxLost /\ lost' = lost + 1
    /\ pc' = [pc EXCEPT ![c] = "ended"] /\ read' = [read EXCEPT ![c] = None]
    /\ Release(c)
    /\ UNCHANGED <<versions, scoped, advisory, process, original>>

\* Any statement fails, or the process dies: the transaction is rolled back.
Rollback(c) ==
    /\ pc[c] = "locked" /\ lost < MaxLost
    /\ lost' = lost + 1
    /\ pc' = [pc EXCEPT ![c] = "ended"] /\ read' = [read EXCEPT ![c] = None]
    /\ Release(c)
    /\ UNCHANGED <<database, advisory, process, returned, sent, original>>

Next ==
    \/ \E p \in Processes : pg_advisory_xact_lock(p) \/ Migrate(p) \/ MigrateFails(p)
    \/ \E c \in Calls : LockRow(c) \/ Commit(c) \/ Rollback(c)
Spec == Init /\ [][Next]_vars

-----------------------------------------------------------------------------
\* The learned state is right whatever raced: a database whose version cannot
\* be told, or is not one this build knows, is left exactly as it was found
\* (Migrate fails closed); no process serves but on the current layout, with
\* every row stamped with the one recorded version, as the restore check
\* demands; each row holds exactly the calls whose commit took place, so no
\* concurrent Observe of a key is lost, every acknowledged one is held, and
\* the columns an operator reads agree with the baseline beside them.
StoredBaselinesAreRight ==
    /\ (\/ Cardinality(original.versions) > 1 \/ (original.versions = {} /\ original.rows # NoRows)
        \/ original.versions = {3})
       => /\ original = [versions |-> versions, rows |-> rows, scoped |-> scoped]
          /\ \A p \in Processes : process[p] # "serving"
    /\ (\E p \in Processes : process[p] = "serving") =>
          versions = {SchemaVersion} /\ scoped /\ \A k \in Held : rows[k].stamp = SchemaVersion
    /\ returned \subseteq sent
    /\ \A k \in Keys : (IF rows[k] = None THEN {} ELSE rows[k].learned) = {c \in sent : KeyOf[c] = k}
    /\ \A k \in Held : rows[k].observations = Cardinality(rows[k].learned)

\* The table implements LearnedStore: a migration keeps what every row has
\* learned, a commit adds one call to it, and only that is acknowledged.
Store == INSTANCE LearnedStore WITH
    durable <- [k \in Keys |-> IF rows[k] = None THEN {} ELSE rows[k].learned],
    acknowledged <- returned

ImplementsStore == Store!SSpec
=============================================================================
