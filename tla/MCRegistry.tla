----------------------------- MODULE MCRegistry -----------------------------
(* The control plane's registers for TLC, with requests that interleave at  *)
(* every transaction: environments and promotions, scenario executions, and *)
(* a run's evidence on PostgreSQL. Each initial state chooses the component *)
(* that runs; the variables of the others rest, those of                    *)
(* EnvironmentPromotion, which this module extends, in an initial state.    *)
EXTENDS EnvironmentPromotion, TLC

CONSTANTS
    Resting, i1, i2, i3, prj, agentA, agentB, a1, a2, b1, b2, h1, h2, ra, rb, rc,
    rd, s1, s2, ca, cb, fa, fb,
    \* who executes scenarios over which runs, and who ingests which records
    ExecutionHandlers, ExecutionIds, ScenarioRuns, CompletedRuns, OwnRuns,
    Repetitions, StatedReferences,
    IngestHandlers, Contents, Shapes, Shape, MaxBehaviors, MaxRetained, MaxRequests

VARIABLES
    part,   \* the component this behaviour is of
    \* ScenarioExecution
    executions, project, executing,
    \* ControlPlaneIngest
    status, aggregate, snapshot, cursor, history, observations, owner, pc, handling, view,
    fold, requests, answers, sent, told

execVars == <<executions, project, executing>>
ingestVars == <<status, aggregate, snapshot, cursor, history, observations, owner, pc, handling,
                view, fold, requests, answers, sent, told>>
all == <<part, vars, execVars, ingestVars>>

\* The other components rest.
EnvRests == Init /\ envs = [k \in Keys |-> None]
ExecRests ==
    /\ executions = Resting /\ project = Resting /\ executing = Resting
IngestRests ==
    /\ status = Resting /\ aggregate = Resting /\ snapshot = Resting /\ cursor = Resting
    /\ history = Resting /\ observations = Resting /\ owner = Resting /\ pc = Resting
    /\ handling = Resting /\ view = Resting /\ fold = Resting /\ requests = Resting
    /\ answers = Resting /\ sent = Resting /\ told = Resting

\* Two agents, each with two runs in an environment of its own.
MCRunInfo ==
    (a1 :> [project |-> prj, agent |-> agentA, env |-> 1]) @@
    (a2 :> [project |-> prj, agent |-> agentA, env |-> 1]) @@
    (b1 :> [project |-> prj, agent |-> agentB, env |-> 2]) @@
    (b2 :> [project |-> prj, agent |-> agentB, env |-> 2])
\* Three executions over four runs, one of which never completes.
Exec == INSTANCE ScenarioExecutionProofs WITH
    Handlers <- ExecutionHandlers, Ids <- ExecutionIds, Runs <- ScenarioRuns,
    done <- CompletedRuns, OwnAgent <- OwnRuns, RunCounts <- Repetitions,
    Stated <- StatedReferences, req <- executing
\* Three handlers on pooled connections, for two records of different behaviors.
MCShape == (ca :> fa) @@ (cb :> fb)
Ingest == INSTANCE ControlPlaneIngestProofs WITH
    Handlers <- IngestHandlers, Migrated <- TRUE, req <- handling

ASSUME ExecutionAssumption == Exec!RunsAssumption
ASSUME IngestAssumption ==
    /\ Ingest!ShapeAssumption /\ Ingest!LimitAssumption /\ Ingest!StoreAssumption
    /\ Ingest!NobodyAssumption /\ Ingest!NoRowAssumption

\* The three requests, executions or handlers of a part are interchangeable.
Symmetry == Permutations({i1, i2, i3})

EnvAlone == ExecRests /\ IngestRests
EnvOnly  == UNCHANGED <<part, execVars, ingestVars>>
ExecAlone == EnvRests /\ IngestRests
ExecOnly  == UNCHANGED <<part, vars, ingestVars>>
IngestAlone == EnvRests /\ ExecRests
IngestOnly  == UNCHANGED <<part, vars, execVars>>

RegistryInit ==
    \/ part = "environments" /\ Init /\ EnvAlone
    \/ part = "executions" /\ Exec!Init /\ ExecAlone
    \/ part = "ingest" /\ Ingest!Init /\ IngestAlone

RegistryNext ==
    \/ part = "environments" /\ Next /\ EnvOnly
    \/ part = "executions" /\ Exec!Next /\ ExecOnly
    \/ part = "ingest" /\ Ingest!Next /\ IngestOnly

RegistrySpec == RegistryInit /\ [][RegistryNext]_all

\* Completed executions are numbered without a gap, hold the runs they asked for,
\* each completed and none twice, and quote the reference they inherit
\* (scenario_execution_store.go, scenario_execution_service.go).
ExecutionsAreSound == part = "executions" => Exec!ExecutionsAreSound

\* An execution that has ended never changes again (scenario_execution.go).
EndedIsFinal == [][part = "executions" => Exec!EndedStays]_all

\* On pooled connections too, the snapshot is the fold of a prefix of the run
\* and a record is called fresh exactly when it is the first of its behavior
\* (controlplane.go, applyRecord; postgres.go).
StoredEvidenceIsRight == part = "ingest" => Ingest!SnapshotIsPrefix /\ Ingest!FreshIsFirst
=============================================================================
