-------------------------- MODULE SchemaMigration --------------------------
(***************************************************************************)
(* Opening the platform's database: OpenSQLiteStore and its chain of       *)
(* fourteen single-step migrations (platform/sqlite.go), and the PostgreSQL *)
(* migration that does the same in one transaction under an advisory lock  *)
(* (platform/postgres_schema.go).                                          *)
(*                                                                         *)
(* A schema object is a group of tables, columns or indexes that one step  *)
(* adds. No statement says IF NOT EXISTS, so a step that has already been  *)
(* applied fails on its first statement and its transaction rolls back.    *)
(* SQLite openers are separate processes without a common lock: each one   *)
(* reads the tables, the stamp and the tables again before it migrates,    *)
(* and every step is a transaction of its own.                             *)
(***************************************************************************)
EXTENDS Integers, FiniteSets

CONSTANTS
    Openers,      \* processes that open the same database
    Backends,     \* subset of {"sqlite", "postgres"}
    Damaged,      \* the backends whose databases may also contradict their stamp
    MaxFaults     \* bound on lock timeouts and crashes

\* Assumed of the constants; every instance for TLC says so with an ASSUME.
BackendAssumption ==
    Backends \subseteq {"sqlite", "postgres"} /\ Damaged \subseteq {"sqlite"} /\ MaxFaults \in Nat

VARIABLES
    backend,      \* where the store keeps its database
    stamp,        \* schema_version.version; 0 = the table holds no row
    has,          \* the schema objects present
    filled,       \* steps whose backfill has reached the rows that existed
    fresh,        \* an opened process has written rows of its own
    lost,         \* steps whose backfill ran over fresh rows
    pc, at,       \* per opener: where it is, and the version it has reached
    faulted,      \* openers that met a lock timeout
    faults,
    born          \* the database as it was found
vars == <<backend, stamp, has, filled, fresh, lost, pc, at, faulted, faults, born>>

SchemaVersion == 15
Versions == 1..SchemaVersion

(* The objects each step adds, and whether it backfills existing rows. *)
V1 == {"version", "core"}
V1ToV2 == [adds |-> {"ingest_state"}, backfills |-> FALSE]
V2ToV3 == [adds |-> {"environments"}, backfills |-> TRUE]
V3ToV4 == [adds |-> {"promotions"}, backfills |-> FALSE]
V4ToV5 == [adds |-> {"v5_indexes"}, backfills |-> FALSE]
V5ToV6 == [adds |-> {"aggregate_operational"}, backfills |-> TRUE]
V6ToV7 == [adds |-> {"observations"}, backfills |-> FALSE]
V7ToV8 == [adds |-> {"promotion_gate"}, backfills |-> FALSE]
V8ToV9 == [adds |-> {"scenarios"}, backfills |-> FALSE]
V9ToV10 == [adds |-> {"recency"}, backfills |-> TRUE]
V10ToV11 == [adds |-> {"entry_operational"}, backfills |-> TRUE]
V11ToV12 == [adds |-> {"scenario_provenance"}, backfills |-> FALSE]
V12ToV13 == [adds |-> {"entry_fidelity"}, backfills |-> TRUE]
V13ToV14 == [adds |-> {"scenario_gate"}, backfills |-> FALSE]
V14ToV15 == [adds |-> {"scenario_producer"}, backfills |-> FALSE]

\* The step that leaves version v.
Step == <<V1ToV2, V2ToV3, V3ToV4, V4ToV5, V5ToV6, V6ToV7, V7ToV8, V8ToV9,
          V9ToV10, V10ToV11, V11ToV12, V12ToV13, V13ToV14, V14ToV15>>

ObjectsOf(v) == IF v = 0 THEN {} ELSE V1 \union UNION {Step[u].adds : u \in 1..(v - 1)}
Tables == V1 \union {"ingest_state", "environments", "promotions", "observations", "scenarios"}

\* schemaTablesByVersion: the tables a complete database of a version holds.
schemaTablesV(v) == ObjectsOf(v) \intersect Tables

\* The columns that go when a table goes.
ColumnsOf == [observations |-> {}, promotions |-> {"promotion_gate"},
              scenarios |-> {"recency", "scenario_provenance", "scenario_gate", "scenario_producer"}]
Without(gone) == (ObjectsOf(SchemaVersion) \ gone) \ UNION {ColumnsOf[t] : t \in gone}

Found(s, o) == [stamp |-> s, has |-> o]

\* A database of a later version holds at least what the current one does.
WholeAt(v) == ObjectsOf(IF v > SchemaVersion THEN SchemaVersion ELSE v)

\* Databases this program and its predecessors and successors leave behind.
Kept == {Found(v, WholeAt(v)) : v \in 0..(SchemaVersion + 1)}

(* What a restored or hand-edited database may look like: any version's     *)
(* objects under any stamp, a lost version row or version table, tables     *)
(* dropped under the current stamp.                                         *)
Contradictory ==
    {Found(s, ObjectsOf(v)) : s \in 0..(SchemaVersion + 1), v \in Versions}
    \union {Found(0, ObjectsOf(v) \ {"version"}) : v \in Versions}
    \union {Found(SchemaVersion, Without(gone)) :
                gone \in SUBSET {"observations", "promotions", "scenarios"}}

Init ==
    /\ backend \in Backends
    /\ born \in Kept \union (IF backend \in Damaged THEN Contradictory ELSE {})
    /\ stamp = born.stamp
    /\ has = born.has
    /\ filled = {v \in 1..(born.stamp - 1) : v < SchemaVersion}
    /\ fresh = FALSE
    /\ lost = {}
    /\ pc = [p \in Openers |-> "idle"]
    /\ at = [p \in Openers |-> 0]
    /\ faulted = {}
    /\ faults = 0

Database == <<stamp, has, filled, lost>>
Goto(p, l) == pc' = [pc EXCEPT ![p] = l]

(* ------------------------------- SQLite ------------------------------- *)

\* migrate: which tables are there decides between verifying, refusing and creating.
tablesPresent(p) ==
    /\ backend = "sqlite"
    /\ pc[p] = "idle"
    /\ Goto(p, IF "version" \in has THEN "verify"
               ELSE IF has \intersect Tables # {} THEN "refused" ELSE "create")
    /\ UNCHANGED <<Database, fresh, at, faulted, faults, born, backend>>

\* createSchemaOnce: every statement and the stamp, or nothing at all.
Creates(p) ==
    /\ has' = ObjectsOf(SchemaVersion)
    /\ stamp' = SchemaVersion
    /\ filled' = 1..(SchemaVersion - 1)
    /\ UNCHANGED lost
    /\ Goto(p, "opened")

\* createSchema: whoever loses the race to create verifies what the winner left.
createSchema(p) ==
    /\ pc[p] = "create"
    /\ \/ has = {} /\ Creates(p)
       \/ has # {} /\ Goto(p, "verify") /\ UNCHANGED Database
    /\ UNCHANGED <<fresh, at, faulted, faults, born, backend>>

\* verifySchema, the version it reads: none, or one it has no case for, is refused.
storedSchemaVersion(p) ==
    /\ pc[p] = "verify"
    /\ at' = [at EXCEPT ![p] = stamp]
    /\ Goto(p, IF stamp \in Versions THEN "require" ELSE "refused")
    /\ UNCHANGED <<Database, fresh, faulted, faults, born, backend>>

\* requireTables: the stamp is a claim, and the tables must bear it out.
requireTables(p) ==
    /\ pc[p] = "require"
    /\ Goto(p, IF ~(schemaTablesV(at[p]) \subseteq has) THEN "refused"
               ELSE IF at[p] = SchemaVersion THEN "opened" ELSE "chain")
    /\ UNCHANGED <<Database, fresh, at, faulted, faults, born, backend>>

\* Faulty variant: a step is applied again without an error.
IdempotentStep(v) == TRUE

\* Nothing says IF NOT EXISTS: a step can be applied only where it has not been.
Applies(v) == Step[v].adds \intersect has = {}

\* UPDATE ... SET version = v WHERE id = 1: no row, no stamp.
Stamped(v) == IF stamp = 0 THEN 0 ELSE v

\* The version a step leaves in the row.
StampAfter(v) == Stamped(v + 1)

\* The old rows a step's backfill reaches, and the fresh ones it would run over.
Backfill(steps) ==
    /\ filled' = filled \union steps
    /\ lost' = lost \union (IF fresh THEN {v \in steps : Step[v].backfills} ELSE {})

\* migrateVxToVyOnce in its own transaction.
Commits(p) ==
    LET v == at[p] IN
    /\ Applies(v)
    /\ has' = has \union Step[v].adds
    /\ stamp' = StampAfter(v)
    /\ Backfill({v})
    /\ at' = [at EXCEPT ![p] = v + 1]
    /\ Goto(p, IF v + 1 = SchemaVersion THEN "opened" ELSE "chain")

\* Another opener has applied the step: the first statement fails, and all rolls back.
Duplicate(p) ==
    /\ ~Applies(at[p])
    /\ Goto(p, "recover")
    /\ UNCHANGED <<Database, at>>

migrateOnce(p) ==
    /\ pc[p] = "chain"
    /\ Commits(p) \/ Duplicate(p)
    /\ UNCHANGED <<fresh, faulted, faults, born, backend>>

\* The busy timeout runs out while another opener holds the write lock.
Busy(p) ==
    /\ pc[p] = "chain"
    /\ faults < MaxFaults
    /\ faults' = faults + 1
    /\ faulted' = faulted \union {p}
    /\ Goto(p, "recover")
    /\ UNCHANGED <<Database, fresh, at, born, backend>>

(* migrationRaceRecovered: the step is done if the database is at least at  *)
(* its target and holds the tables of the version it has reached.           *)
migrationRaceRecovered(atLeast) ==
    /\ stamp \in Versions
    /\ stamp >= atLeast
    /\ schemaTablesV(stamp) \subseteq has

\* A recovered step counts as taken, and the chain goes on from its target.
Recover(p) ==
    /\ pc[p] = "recover"
    /\ IF migrationRaceRecovered(at[p] + 1)
       THEN /\ at' = [at EXCEPT ![p] = @ + 1]
            /\ Goto(p, IF at[p] + 1 = SchemaVersion THEN "opened" ELSE "chain")
       ELSE Goto(p, "refused") /\ UNCHANGED at
    /\ UNCHANGED <<Database, fresh, faulted, faults, born, backend>>

(* ----------------------------- PostgreSQL ----------------------------- *)

present == has \intersect Tables
Exactly(v) == present = schemaTablesV(v)

(* What the table set and the stamp decide, in migrate's order: the version *)
(* to migrate from, SchemaVersion to accept, 0 to refuse.                   *)
verifyPostgresVersion == IF stamp = SchemaVersion THEN SchemaVersion ELSE 0
StartsFrom ==
    IF Exactly(6) THEN IF stamp \in 4..6 THEN stamp ELSE verifyPostgresVersion
    ELSE IF Exactly(8) THEN IF stamp \in 7..8 THEN stamp
                            ELSE IF stamp \in {9, SchemaVersion} THEN 0
                            ELSE verifyPostgresVersion
    ELSE IF Exactly(SchemaVersion)
         THEN IF stamp \in 9..14 THEN stamp ELSE verifyPostgresVersion
    ELSE IF Exactly(1) THEN 1
    ELSE IF Exactly(2) THEN 2
    ELSE IF Exactly(3) THEN 3 ELSE 0

\* The steps from v on, all in the transaction that holds the advisory lock.
MigratesFrom(p, v) ==
    LET steps == v..(SchemaVersion - 1) IN
    /\ v > 0
    /\ \A u \in steps : Applies(u)
    /\ has' = has \union UNION {Step[u].adds : u \in steps}
    /\ stamp' = IF steps = {} THEN stamp ELSE StampAfter(SchemaVersion - 1)
    /\ Backfill(steps)
    /\ Goto(p, "opened")

\* Refused, or failed on a statement: nothing is left of the transaction.
Refuses(p, v) ==
    /\ v > 0 => \E u \in v..(SchemaVersion - 1) : ~Applies(u)
    /\ Goto(p, "refused")
    /\ UNCHANGED Database

migratePostgres(p) ==
    /\ backend = "postgres"
    /\ pc[p] = "idle"
    /\ \/ present = {} /\ Creates(p)
       \/ present # {} /\ MigratesFrom(p, StartsFrom)
       \/ present # {} /\ Refuses(p, StartsFrom)
    /\ UNCHANGED <<fresh, at, faulted, faults, born, backend>>

(* --------------------------- Faults and use --------------------------- *)

\* The process dies and starts again: what it had not committed is gone.
Crash(p) ==
    /\ pc[p] \notin {"idle", "refused"}
    /\ faults < MaxFaults
    /\ faults' = faults + 1
    /\ Goto(p, "idle")
    /\ UNCHANGED <<Database, fresh, at, faulted, born, backend>>

\* The one transaction fails: the lock, a statement or the commit.
PostgresFails(p) ==
    /\ backend = "postgres"
    /\ pc[p] = "idle"
    /\ faults < MaxFaults
    /\ faults' = faults + 1
    /\ faulted' = faulted \union {p}
    /\ Goto(p, "refused")
    /\ UNCHANGED <<Database, fresh, at, born, backend>>

\* An opened store is written to.
Write(p) ==
    /\ pc[p] = "opened"
    /\ ~fresh
    /\ fresh' = TRUE
    /\ UNCHANGED <<Database, pc, at, faulted, faults, born, backend>>

Next ==
    \E p \in Openers :
        \/ tablesPresent(p) \/ createSchema(p) \/ storedSchemaVersion(p)
        \/ requireTables(p) \/ migrateOnce(p) \/ Busy(p) \/ Recover(p)
        \/ migratePostgres(p) \/ PostgresFails(p) \/ Crash(p) \/ Write(p)

Spec == Init /\ [][Next]_vars

(* ------------------------------ Properties ------------------------------ *)

Opened == \E p \in Openers : pc[p] = "opened"
Sound == born.has = WholeAt(born.stamp)

(* A store that opened holds every table this binary uses: "A version row is *)
(* a claim, not proof" (requireTables), and the PostgreSQL comments say the  *)
(* same of a stamp without its tables.                                       *)
OpenedHasItsTables == Opened => schemaTablesV(SchemaVersion) \subseteq has

(* Of a database that was whole, the stamp always tells exactly which objects *)
(* are there and which rows are filled, at every point two openers and a      *)
(* crash can leave it, and an opened one is current.                          *)
StampIsEarned ==
    Sound =>
        /\ has = WholeAt(stamp)
        /\ \A v \in 1..(SchemaVersion - 1) : v < stamp => v \in filled
        /\ Opened => stamp = SchemaVersion

(* An opener that met no lock timeout is never turned away from a database   *)
(* of a known version: losing every race still ends in an open store.        *)
NoFalseRefusal ==
    Sound /\ born.stamp <= SchemaVersion =>
        \A p \in Openers : pc[p] = "refused" => p \in faulted

(* A database of a newer version, or with tables and no stamp, is left as it *)
(* was found.                                                                *)
UnknownIsUntouched ==
    (born.stamp > SchemaVersion \/ (born.stamp = 0 /\ born.has # {})) =>
        stamp = born.stamp /\ has = born.has /\ ~Opened

(* Opening is safe whoever else opens, and no backfill runs over rows that   *)
(* an opened store has written since.                                        *)
MigrationIsSafe ==
    /\ OpenedHasItsTables
    /\ StampIsEarned
    /\ NoFalseRefusal
    /\ UnknownIsUntouched
    /\ lost = {}
=============================================================================
