# TLA+ models of Trustvian

Trustvian scores the behavior of AI agents. A *Collector processor* turns spans
into decision records with the *engine*, an *evaluation sink* delivers the
records of one evaluation run to a *control plane*, which folds them into the
run's evidence, keeps that in SQLite or PostgreSQL, and announces what it
committed on a realtime bus. Comparisons, gates, promotions and scenario
executions are decided from the stored evidence, and a command line drives all
of it. These modules model how a record gets into a run, exactly once and in
order; how the engine learns from it; what is concluded from a run's evidence;
and how the processes around it start, report, stop and fail.

    spans -> processor -> engine.Evaluate -> sink --POST--> control plane -> store
               |  ^            ^               |             |        |
      counters |  |            +---- learn ----+ journal     |        +-> realtime bus -> SSE -> dashboard
               v  |                 |                        v
        status reports         baseline store      comparison, gate, promotion, execution
                                                             ^
                         trustvian dev, trustvian eval run --+

## 1. Inventory

`PROJECT.json` lists every component with its sources. The parts with state:

| Component (under `src/`) | State | Operations | Hard because |
|---|---|---|---|
| Evaluation sink, `processor/internal/evaluation` | cursor, pending record, one-entry journal on disk | `Initialize`, `Record` (`attempt`, `reconcile`, `settle`) | crashes of process and host between evidence and learning, lost and late replies, failing directory syncs, a second writer |
| Collector processor, `processor/processor.go` | the engine, atomic counters, a tracker | `Start`, `ConsumeTraces`, `processSpan`, `observe`, `statusSnapshot` | a record is learned from after it is evidence, and once; counters are loaded while spans move them |
| Reporter and pipeline status, `processor/internal/status`, `platform/status*.go` | the reports held per Collector, the time of the last ingest | `send`, `Stop`, `ReportCollectorStatus`, `noteIngest`, the status page | posts that time out and arrive late, restarts, a bounded registry, two clocks |
| Engine, `engine.go`, `internal/baseline`, `anomaly`, `trust`, `policy` | the baseline of a key | `Analyze`, `Observe` | events out of order, saturated maps, a decision made on a baseline that has moved on |
| Engine stores, `internal/store` | baselines by key; a file; a table | `Observe`, `Freeze`, flush, migrate | crash in a file replacement; concurrent writers of one baseline; commits whose answer is lost |
| Control plane, `platform/controlplane.go` | none of its own; a handler's locals | ingest, progress, run transitions, environments, promotions, comparisons | several transactions per request; what one reads is stale in the next |
| Stores, `platform/sqlite.go`, `platform/postgres.go` | the rows of runs, environments, promotions, executions | reads, commits, compare-and-swaps | one connection versus a pool with READ COMMITTED; commits whose outcome is lost |
| Schemas, `platform/sqlite.go`, `platform/postgres_schema.go` | the version stamp and the tables | open, create, fourteen migrations | two processes opening one old database, a crash between two steps, a stamp that contradicts the tables |
| Evidence of a run, `platform/aggregate.go`, `behavior*.go`, `operational.go`, `evidence_columns.go` | counters, sums, extrema, histograms | `AddRecord`, `ObserveOperational`, encode, decode, validate | machine width; nothing of a record survives but its counts |
| Observation history, `platform/observation*.go`, `evidence.go` | retained observations, a completeness flag | `retainObservation`, paging, `comparisonEvidence` | bounded; may begin in the middle of a migrated run; read page by page while it grows |
| Comparison and gates, `platform/counting.go`, `frequency*.go`, `repeated.go`, `gate.go`, `scorecard.go`, `cost.go`, `operational_*.go` | none | fold, reduce, compare, gate, price, rate | any order of observations, cycles, limits, zero denominators, missing evidence |
| Environments and promotions, `platform/environment*.go`, `promotion*.go` | rows with revisions, promotion records | create, configure, archive, activate, `Promote` | a promotion is decided before the transaction that records it; two row locks |
| Scenario executions, `platform/scenario_*.go` | executions, repetitions, gate records | begin, complete, fail | completion races failure and other completions; references reused through chains |
| Realtime bus and stream, `platform/realtime.go`, `platform/httpapi/realtime.go` | subscriptions with bounded queues | `Subscribe`, `Publish`, `Close`, the SSE handler | overflow, cancellation and close race; a slow reader must never delay a commit |
| Dashboard, `cmd/trustvian/tui_*.go` | a buffer of events, the view shown | connect, read, buffer, resynchronise | events arrive before, during and after the snapshot they belong to |
| Local runtime, `platform/localruntime` | a listener, a store, a bus, the discovery file | `Start`, `Stop`, `Wait` | processes that start, stop and are killed in one state directory |
| Development session, `cmd/trustvian/dev*.go` | lock, runtime, Collector, workload, run, signal relay | compose, supervise, take down | a signal or the deadline at any step, calls whose answer is lost, a lock file |
| Suite runner, `cmd/trustvian/eval_run.go`, `eval_suite.go` | the executions of a suite and their outcomes | begin, repeat, complete, fail, reconcile, report | a deadline while the control plane commits; requests given up and still travelling |

The rest (HTTP decoding, configuration, rendering, alerts, the web UI) is listed
in `PROJECT.json` with the reason it is not modelled.

What makes the parts correct, in one line each:

- sink: a record the run holds was learned from once, or somebody was told that
  nobody knows, or the journal still says so; nothing else is ever learned from;
- control plane: a run is an append-only log; a client told "applied" or
  "replayed" will find that very record at that sequence for ever; a record is
  published once; nothing changes once the run has ended;
- evidence: cursor, aggregate, snapshot and history describe the same log, each
  counter is what the records say or the record is refused, and the bounded
  parts say when they no longer describe all of it;
- conclusions: a count, a verdict, a report or an answer equals its definition
  over the records, and one that rests on missing evidence says so or fails;
- registers: an acknowledged change is not overwritten, a promotion rests on
  what is authoritative when it is recorded, an execution ends once;
- engine and stores: what was learned is the history, and an acknowledged
  observation survives;
- processes: whatever is started is taken down, every call and every stop
  returns, and what is shown or reported is what happened.

## 2. Modules

| Module | Models | Specification |
|---|---|---|
| `RunLifecycle` | the run's state machine (`platform/domain.go`) | operators only |
| `RecordDelivery` | abstract: what the sink promises of each record | `DSpec` |
| `EvaluationSink` | the sink, its journal, the network and the run it feeds | `Spec`, `FairSpec` |
| `EvidenceLog` | abstract: a run as an append-only log | `LSpec` |
| `ControlPlaneIngest` | request handlers over the store of one run | `Spec`, `FairSpec` |
| `EvidenceSummaries`, `EvidenceReports` | what a run keeps of its records at machine width; the reports drawn from it | `Spec` |
| `ChangeCounting` | counted changes, their gate and its stored columns | `Spec` |
| `RepeatedComparison` | N repetitions a side, the frequency gate, the gate record | `Spec` |
| `FindingEvidence` | retention, and the pages behind a finding | `Spec` |
| `EnvironmentPromotion` | environments, runs in them, promotions | `Spec` |
| `ScenarioExecution` | the executions of one scope | `Spec` |
| `RealtimeBus` | the bus, its publishers, an SSE handler and a watcher per stream | `Spec`, `FairSpec` |
| `Dashboard` | the terminal dashboard over a run that changes | `Spec`, `FairSpec` |
| `BehaviorEngine` | Analyze and Observe for one baseline key | `Spec` |
| `LearnedStore` | abstract: what any store promises of what was learned | `SSpec` |
| `BaselineFileStore`, `BaselinePostgres` | the engine's stores | `Spec` |
| `CollectorReporting`, `PipelineStatus` | a Collector's counters and reports; the registry and page they feed | `Spec` |
| `SchemaMigration` | opening either database | `Spec` |
| `LocalRuntime`, `DevSession`, `DevBaselineLock`, `ScenarioRunner` | the processes of the command line | `Spec` |
| `EvaluationSinkProofs`, `ControlPlaneIngestProofs`, `EnvironmentPromotionProofs`, `ScenarioExecutionProofs`, `RealtimeBusProofs`, `PipelineStatusProofs`, `BaselineFileStoreProofs`, `RepeatedComparisonProofs` | theorems about the module each is named after and, in the four that extend an MC module, about the components that module composes (section 5) | |
| `MCEvaluationSink`, `MCControlPlaneIngest` | symmetry and constants | |
| `MCProgress`, `MCRegistry`, `MCEvidence`, `MCCollection` | the other components, composed for TLC | `Spec` |

Operators commented "Faulty variant" are not part of any specification: they are
the plausible mistakes against which a property is measured.

*Composition.* The last four MC modules are sums. Each EXTENDS one component,
whose properties it then checks under the names the proofs use, and INSTANCEs the
others over variables of their own. One whose theorems are in a module of their
own is instantiated through that module, so that they carry over:

| MC module | extends | instantiates | proved about in |
|---|---|---|---|
| `MCProgress` | `BaselineFileStore` | `RealtimeBus`, `Dashboard`, `DevSession`, `LocalRuntime` | `BaselineFileStoreProofs` |
| `MCRegistry` | `EnvironmentPromotion` | `ScenarioExecutionProofs`, `ControlPlaneIngestProofs` | `EnvironmentPromotionProofs` |
| `MCEvidence` | `RealtimeBus` | `ChangeCounting`, `RepeatedComparisonProofs` (which extends `RepeatedComparison`), `FindingEvidence`, `EvidenceSummaries`, `EvidenceReports`, `ScenarioRunner`, `DevBaselineLock`, `SchemaMigration`, `BaselinePostgres` | `RealtimeBusProofs` |
| `MCCollection` | `PipelineStatus` | `BehaviorEngine`, `CollectorReporting`, `EvaluationSinkProofs`, `Dashboard` | `PipelineStatusProofs` |

`part` names the component a behavior belongs to, is chosen in the initial state
and never changes; meanwhile the variables of the others hold the model value
`Resting`, and those of the extended component stay in one of its initial
states. A property `part = "x" => P` is therefore P of that component, and one
run checks several. Fairness is stated per component over that component's own
variables. The constants of the composed components are constants of the MC
module, given values in its cfg, so that a theorem about the composition holds for
all of them. An extended component's assumptions are `ASSUME`d where it declares
them, the others' by name in the MC module (`ExecutionAssumption ==
Exec!RunsAssumption`).

*Interaction between modules.* `EvaluationSink` uses of the control plane what
`ControlPlaneIngest` shows (`Applied`, `Replayed`); `BaselineFileStore` and
`BaselinePostgres` keep the set of calls learned, `BehaviorEngine` is what one
such call learns; `ScenarioRunner` uses of `ScenarioExecution` that completing
and failing are compare-and-swaps from running, and of `DevSession` the outcome
of one repetition; `Dashboard` relies on the gapless streams of `RealtimeBus`;
`PipelineStatus` receives the reports whose consistency `CollectorReporting`
shows; `FindingEvidence` and `EvidenceSummaries` take a record as
`ControlPlaneIngest` commits it, one at a time.

### 2.1 EvaluationSink

| Variable | Code |
|---|---|
| `status`, `cursor`, `evidence`, `foreign` | the run at the control plane; a claim binds a record to a sequence of a run |
| `inflight` | requests whose sender gave up on the response |
| `entry`, `shadows` | the journal file, and the older contents a host crash may bring back because a directory sync did not happen (`pending.go`) |
| `pc`, `runID`, `next`, `stage`, `pending`, `arg` | the goroutine holding `Sink.mu`, and the fields of `Sink` |
| `learned` | the engine's durable store, a count per record |
| `calls`, `indeterminate`, `discarded` | what callers were told |

`Start`, `SeedCursor`, `RecoverIndeterminate`, `RecoverDiscard`,
`RecoverRepresent` and `InitializeFails` are the branches of `Sink.Initialize`;
`Record`, `WriteIntent`, `AttemptAccepted`, `AttemptDeclined`, `AttemptUnknown`
and `ReconcileFails` are `Sink.Record` with `attempt` and `reconcile`;
`ConfirmEntry`, `LearnSucceeds`, `LearnFails` and `Release` are `Sink.settle`.
`CrashProcess` may strike between any two of them and loses memory;
`CrashHost` also undoes unsynced file operations. `Transition`, `ForeignWrite`
and `LateArrival` are the world.

A journal write is one step with three outcomes: durable, replaced but not
synced, and not written. `Applied` and `Replayed` are what the sink may rely on
of the control plane; `ControlPlaneIngest` shows the control plane does it.
`AttemptDeclined` is enabled whatever the run holds, as a refusal may have any
cause; the code treats every 4xx, and every request that was never sent, alike.
At the first attempt the run cannot already hold the record.
Two faults are constants so that a run can be asked with and without them:
`LateDelivery` (a request outlives the process that sent it) and
`RecoverySyncFails` (recovery fails after it removed a confirmed entry).

### 2.2 ControlPlaneIngest

| Variable | Code |
|---|---|
| `status`, `aggregate`, `snapshot`, `cursor`, `history`, `observations` | the rows of the run |
| `owner` | SQLite: who holds the only connection. PostgreSQL: who holds the run's row lock |
| `pc`, `req`, `view`, `fold` | a handler: where it is, its request, what its read transaction saw, the evidence it will commit |
| `requests`, `answers`, `sent`, `told` | what the outside asked and was told |

A handler that ingests a record goes through two read transactions
(`ReadCursor` .. `ReadState` is `EvaluationIngestState`; `ReadAggregate` ..
`FoldRecord` is `EvaluationEvidence` and `applyRecord` up to its commit), then
the commit (`Lock`, `Reread`, `Write` or `WriteFails` is
`CommitEvaluationIngest`), then `Publish`. A transition is `Lock`, `Swap` or
`SwapFails` (`UpdateEvaluationRun`), `Announce`. `CrashPlane` rolls back and
forgets everything in progress.

`Pooled` selects the store. On SQLite (`FALSE`) even a reading transaction holds
`owner`, so its statements see one state. On PostgreSQL (`TRUE`) readers take no
lock and each statement sees what is committed when it runs, so the read steps
of one handler interleave with the commits of another.

What is abstracted: a record is its content, and its digest too (SHA-256 is
taken to be injective); an aggregate is the sequence of records folded into it
and an entry of the snapshot is a count; the question whether a row exists and
the load that follows are one step, rows never being deleted; a request the
run's status refuses at once is left out because it changes nothing, and so are
the counters of `noteIngest`; sequences are naturals, their width being kept in
`EvidenceSummaries`. The
initial states are a fresh run and, with `Migrated`, a running run whose rows
come from an older schema: one record, no history, and on SQLite perhaps no
cursor row.

### 2.3 RealtimeBus

| Variable | Code |
|---|---|
| `closed`, `nextID`, `subscribers` | the fields of `InMemoryRealtimeBus` under its lock |
| `filter`, `queue`, `ended` | a `busSubscription`: its filter, its buffered channel, and how often it was finished |
| `handler`, `hand` | the goroutine in `Handler.realtime`, and the event it is writing |
| `watcher`, `cancelled` | the goroutine `Subscribe` starts, and the requests whose client went away |
| `published`, `since`, `written` | what was published, what preceded a stream, what its client was sent |

`Subscribe`, `Publish`, `Remove` and `CloseBus` are the operations of the bus,
each one step because each holds the lock. `Handshake`, `Receive`, `WriteEvent`,
`WriteFails`, `HeartbeatFails`, `Leave` and `Close` are `Handler.realtime` with
its `sseWriter`; `Watch` is the goroutine that removes a stream whose context
ended; `Disconnect` is the client. An event is its position in the order of
publication. Filters ask for a project, an agent and a run; here they ask for
one run or for nothing, which is all that matching tells apart. A subscription
that is refused, and a heartbeat that succeeds, change nothing and are left out.
Receiving an event and writing it are two steps, so that a stream may be
finished, or its client leave, while a frame is on its way.

### 2.4 Dashboard

| Variable | Code |
|---|---|
| `status`, `records`, `due`, `skipped` | the run, and the events of its committed changes that are not published yet or never will be (`resolveScope` failed) |
| `conn`, `wire`, `cut` | by generation: a connection, the frames between the bus and the model, and whether it has ended |
| `reads`, `timers` | commands in progress: `resync` with its two requests, and the tick of `scheduleReconnect` |
| `state`, `gen`, `shown`, `live`, `pending`, `resyncing`, `everLive`, `quitting` | the fields of `tuiModel`; `shown` is its snapshot, a status and a count |

`Subscribe`, `OpenFails` and `StreamOpened` are `openStream` with its message;
`HandleReady`, `HandleWhileResyncing`, `HandleOverflow`, `HandleLive` and
`RejectFrame` are the branches of `handleFrame`; `StreamEnds` is the end the
reader reports; `ReadRun`, `ReadProgress`, `ReadFails`, `ResyncDone` and
`IgnoreRead` are `resync` and `applySnapshot`; `Tick`, `PressReconnect` and
`PressQuit` are the timer and the keys. A command finishes whenever it likes,
in its own generation or a later one. A frame is taken from the wire and handled
in one step: only one read of the stream is outstanding, so a frame read and not
yet handled is like one not read. `CutStream` is every way in which a connection
ends (EOF, read error, overflow of the reader, missed handshake, silence), and
takes along any part of what was under way. Until then a stream has no gap,
which `RealtimeBus` shows. `Generations` is as large as the bounds let `gen`
grow: the guards that name it are never what holds an action back. A server that keeps the protocol is assumed
otherwise: a handshake out of turn is one of the frames `RejectFrame` takes.

### 2.5 Evidence and reports

`EvidenceSummaries` keeps, per view (a run of a comparison), the stored
aggregate, the stored entries as columns of counters, the completeness flag and
the cursor; `accepted` and `counted` are the inputs that went in. One action,
`ApplyRecord`, is `applyRecord` between its read and its commit: read back and
validate what is stored (`Readable`), validate the record and its facts, fold
both halves, encode. Integers keep their width: `MaxUint` stands for
2^64 - 1, the additions wrap (`Plus`), and the guards of the code are what keeps
them from it. `EvidenceReports` adds the operators that draw reports from the
entries: `OperationalSummary.Add` and `operationalSide`, `OperationalByTarget`
with its pages, `costSide`, the scorecard's rates. They change no state, so
their property is an invariant over every pair of stored runs. Times, names and
durations are small numbers; scores live on a grid of three; texts are usable or
not.

`ChangeCounting`: `Retain` builds any retained history, `Compare` fixes the added
identities and how much was retained, `Learn`, `Classify`, `Fold`, `Peel` and
`Close` are the passes of `countChanges` over the observations in any order,
`EvaluateGate` the counted-change check, `Store` the columns a promotion keeps
of it and their restoration. The map iteration order of Go is the nondeterminism
of the passes. `RepeatedComparison`: `LoadRun` and `ReadEvidence` are the reads
of `CompareRepeated`, run by run; `Reduce` is `reduceRepeated`; `Compare`
computes presence, checks, frequency gates, verdict and the record kept of them.
`FindingEvidence`: `Ingest`, `Complete` and `Upgrade` change the two runs and the
schema while a reader's `walk` (`Open`, `Page`, `Close`) follows the pages of one
answer.

### 2.6 Registers of the control plane

`EnvironmentPromotion` has a row per environment (`rank`, `status`, `rev`), the
runs, the promotions, the locks `held` and a request's progress `req`.
`LockProject`, `CountEnvironments` and `InsertEnvironment` create;
`MutateLoad` and `UpdateEnvironment` are load, apply, compare-and-swap on the
revision; `CheckRun` and `CreateEvaluationRun` create a run; `Promote`,
`ReadTarget` and `Decide` are the reads of `ControlPlane.Promote` one by one,
`LockEnvironment` (twice, in `promotionEnvironmentOrder`), `Revalidate` and
`InsertPromotion` its transaction; `Cancel` is a request that dies and rolls
back. The gate's verdict is any verdict. Refs are numbers with the byte order
the code sorts by.

`ScenarioExecution`: `Begin` with `CreateScenarioExecution`; `CompleteCheck`,
`CompleteLoad`, `CompleteNumber` (the project's row, then the next sequence) and
`CompleteCommit`; `FailLoad` and `FailCommit`. A reference side is supplied or
taken from a completed execution, named or last, whose own may be inherited.

### 2.7 Engine and its stores

`BehaviorEngine` has the baseline of one key, the baseline `before` the last
observation (a decision may have been made on it), and the ghost `history`.
`Learn` and `Refuse` are `Observe` with a decision that allows it or not. A mean
and its variance are kept as the set of values they were taken over, which tells
whether a deviation is none, certain or graded; scores are 0, 1 or 2.

`BaselineFileStore`: a call goes through the shard map, the shard's lock, the
snapshot shard by shard under `flushMu`, the rename, and returns; `Crash` keeps
the file only, `NewFileStore` reads it. The engine's `learned` becomes the set of
calls. `BaselinePostgres`: `pg_advisory_xact_lock`, `Migrate`, `MigrateFails`
for a starting process, `LockRow`, `Commit`, `Rollback` for a call, with a commit
whose answer is lost.

### 2.8 Reporting and status

`CollectorReporting`: spans go through `Arrive`, `Fail` or `Evaluate` and
`ObserveLearning`, each moving one counter or the tracker; the reporter loads
counter by counter (`Load`), posts, and `Stop` cancels the post, waits and sends
a last report. `PipelineStatus`: reports travel, are lost, delayed up to
`MaxDelay` and recorded in any order; Collectors restart under a new instance;
`Receive`, `NoteLoad`, `NoteSwap` are the compare-and-swap of `noteIngest`. One
clock is common to all processes, as the code compares only ages and its own
receipt times.

### 2.9 Schemas

`SchemaMigration`: an opener goes through `tablesPresent`, `createSchema`,
`storedSchemaVersion`, `requireTables`, one `migrateOnce` per version with
`Busy` and `Recover` for a lost race (SQLite, each step its own transaction), or
`migratePostgres` (one transaction under an advisory lock). An object is what one
step adds; `filled` says whose backfill reached the rows there were. `Damaged`
starts also from stamps that contradict the tables.

### 2.10 Processes of the command line

`LocalRuntime`: `Start` (read the discovery file, dial what it names, open the
store, listen, write the file), serving, and `Stop` (close the bus, shut down, wait
for `Serve`, close the store, read the file again, remove it), for several
processes in one directory, whose starts and stops overlap in any way and each of
which may be killed at any step. A port is free again as soon as its listener is
closed. Graceful shutdown may run out of time under a request or a stream.
`raced` is history: it says of a runtime whether, when it published, another
process was between reading the file and acting on it (`Rivals`). `DevSession`: one goroutine composes (`Prepare` ..
`awaitDevCheckReport`), runs the workload (`startChild`, `setTarget`, `Wait`,
`clearTarget`) and takes down (`finalizeWithinDeadline`, `teardown`) beside the
signal relay (`run_take`, `run_forward`), the deadline's `expire` and the
escalation's `terminate`; every call to the control plane may be applied and
answered, applied and not answered, or not applied. With `--check` the instance
that reported last is read (`previous`), and then awaited is any other; reports come
from the session's own Collectors and from those of other checks on the same
control plane, earlier and concurrent ones, in any order (`CollectorReports`). `DevBaselineLock`: create
exclusively, write the pid, read an owner, reclaim. `ScenarioRunner`: preflight,
then per member begin, repetitions, complete, and on doubt reconcile by reading
the execution; a request given up stays in `net` and is handled whenever it
arrives. `CommitAckLost` lets a store commit and report an error; the run has it
off (see section 4, observations).

## 3. Runs

| Run | Instance | Shows |
|---|---|---|
| `sink` | 1 run, 3 records, 1 foreign write, no late requests | evidence and learning never part silently, every call returns, the sink implements `RecordDelivery` |
| `ingest_sqlite` | 2 handlers, 3 requests, 2 contents, fresh or migrated | `IngestInv`, the stored rows, the answers, `EvidenceLog` is implemented, requests end |
| `progress` | bus with 1 slot, 2 streams, 2 events; dashboard with 1 record, 1 failure; file store with 3 calls for 2 keys, 1 crash, 1 failed write, 1 freeze; session in 3 modes with 3 signals, 2 failures, 2 ports, 2 other checks; 2 local runtimes on 2 ports, which overlap | what must eventually happen, under each scheduler's fairness, and the safety of file store, session and runtime |
| `registry` | environments: 3 requests, 3 refs, at most 2 environments, 2 ranks, 4 runs of 2 agents; executions: 2 handlers, 3 ids, 4 runs; ingest on PostgreSQL: 3 handlers, 3 requests | requests that interleave at every transaction |
| `evidence` | counting: 3 observations of 4 identities; repeated: up to 2 runs a side, with and without blocks and critical risks; finding: 1 and 3 records; summaries: 4 accepted records of 25 kinds, word of 5 values; reports: 3; bus: 2 slots and, apart, 1 slot for 2 clients; suite: 2 scenarios of 2 repetitions; lock: 3 successive processes; schemas: 2 openers, 2 faults; baselines in PostgreSQL: 2 processes, 3 calls | algorithms equal their definitions, readers are told the truth |
| `collection` | engine: 4 observations of 3 fingerprints at 3 times; reporting: 2 spans, 1 report and the last; status: 2 Collectors, one of them restarting, or 1 beside 2 ingests; sink: 2 runs, 2 records, every fault on; dashboard: 1 record, 1 failure, 1 key | the Collector learns what happened and says so, and the dashboard shows it |
| `sink_late` | 1 run, 2 records, late requests | **violated**, finding 1 |
| `sink_recovery_sync` | 1 run, 2 records, failing recovery syncs | **violated**, finding 2 |
| `ingest_torn_read` | 2 handlers, 3 requests, PostgreSQL | **violated**, finding 3 |
| `ingest_retry_race` | 2 handlers, 3 requests, PostgreSQL | **violated**, finding 4 |
| `dashboard_overlap` | 1 record, no failures, overlapping transitions | **violated**, finding 5 |
| `baseline_lock_race` | 3 processes that overlap | **violated**, finding 6 |

Bounds. Three records are enough for a record left pending by one call, the call
that finishes it and goes on, and a later one; one foreign write is enough to
make a sequence prove nothing; crashes of the sink are unbounded. Two handlers
race for one sequence, and three requests let a third observe the race. Three
handlers on PostgreSQL put a reader between two writers. `MaxBehaviors = 1` with
two shapes saturates the collector at the second; `MaxRetained` of 1 or 2 fills
the history within the run. Two events overflow a queue of one, and a second
subscriber meets the first one's slot taken or just freed. A run seen by the
dashboard has three events, started, observed, ended, against a buffer of one.
Three requests on environments are two that race and one that changes what they
read; two environments of three refs reach the cap; two ranks can be turned
around. Three executions with one repetition form a chain of inherited
references while a fourth run never completes. A word of five values overflows
within four records, in a count, a sum and a price. Four observations saturate
every bounded map of a baseline (bounds of one or two) and then learn once more.
Two openers and two faults meet in each of the fourteen steps from every version
the code knows. Three signals are the interrupt, the second one that forwards
again and one more. Every map, list and registry has a bound of one or two with
one more candidate than fits.

Symmetry is used where no liveness is checked: the three requests, executions or
handlers of `registry`, and in `collection` two fingerprints, producers of a
report or runs of the sink, which share their names. Deadlock checking is off
except for the sink: once the bounded number of requests, events or calls is
used up the systems may stop.

Fairness. The sink is owed steps only while a call is in progress
(`WF_vars(Sink)`): each request is bounded by the client's timeout and every
file operation returns. A handler is owed steps while it serves a request (`WF`
of `Serve(h)`): handlers are goroutines, `database/sql` hands its connections on
in the order they were asked for, and PostgreSQL queues waiters for a row lock;
the number of requests is bounded, so no handler is overtaken for ever. An SSE
handler and a watcher are owed steps as goroutines: every write has a deadline.
The dashboard is owed the steps of its loop and its commands (`Work`): every
request has a timeout, timers fire, and a stream that ended or fell silent is
noticed. A call to the file store is a goroutine, and a crashed process is
started again. The session's goroutine, its relay, the deadline watcher and the
escalation timer run; no workload is obliged to end. A local runtime is owed its
`Stop` and its `Wait`, not the return of a request or a stream. No
publication, heartbeat, transition, key, signal, start or end of a workload is
promised.

### Properties

Sink: `LearningIsSafe` (at most once per record, only from evidence, never behind
a posting entry, in the order of the calls), `NothingIsLostSilently` (write-ahead,
no silent divergence, nothing discarded is in the run; without the two faults),
`GivenUpStaysUnlearned`, `CallsReturn`, `ImplementsDelivery`; `SinkInvUnderFaults`
with every fault on.

Control plane: `IngestInv` (which implies the cursor, retry and publication
properties), `StoredEvidenceIsRight` (the snapshot is the fold of a prefix of the
log, the history quotes it, a behavior is fresh once), `AnswersAreHonest`
(conflicts are real, corruption is never reported of a healthy run, lifecycle
events agree), `EndedRunsAreFrozen`, `IncompleteIsSticky`, `RequestsEnd`,
`ImplementsLog`.

Registers: `RegistryIsSound` (the cap holds, every acknowledged change moved the
revision, nobody waits in a circle), `PromotionsAreAuthoritative`,
`ExecutionsAreSound`, `EndedIsFinal`.

Evidence: `EvidenceIsExact`, `ReportsAreExact`, `CountIsRight`, `VerdictIsRight`,
`AnswersAreTrue`, each against a definition over the records themselves.

Readers: `StreamIsGapless`, `DisconnectedForOwnReasons`, `SlotsComeBack`;
`ShowsTheRun` (no record falls between snapshot and stream, a live dashboard is
current, an ended run shows its final counts), `Recovers`.

Collector: `ProcessorIsSound` (what the engine learned is its history, what is
reported is consistent and the last report complete), `AcknowledgedIsDurable`,
`StoredBaselinesAreRight`, `StatusIsTrue`, `StatusNeverGoesBack`.

Processes: `MigrationIsSafe`, `RuntimeIsSound`, `StopReturns`, `SessionIsSound`,
`CallsAndSessionsEnd`, `StaleLocksAreTakenOver`, `SuiteIsTruthful`.

## 4. Findings

1. *A discarded record may still arrive* (`sink.go:349`). Recovery reads a cursor
   that still expects the entry's sequence and concludes the record never
   reached the control plane. A request the dead process had already sent can be
   applied afterwards: the run then holds a record reported as discarded, and it
   is never learned from. What is proved stands: it is not counted twice, and
   nothing is learned that is not evidence.
2. *Recovery can lose its only note* (`sink.go:342`, `pending.go:258`). For a
   confirmed entry recovery removes the file before it reports anything; if the
   directory sync then fails, the start fails without the report and the next
   one finds a clean journal.
3. *A healthy run can be reported corrupt on PostgreSQL* (`postgres.go:868`,
   `888`). The statements of a read see different commits, although the comment
   says they describe the same moment; a commit in between makes the halves
   contradict each other. Nothing stored is wrong, and a retry succeeds.
4. *An identical retry can be refused as different* (`postgres.go:888`). A
   retry that reads no cursor row before the first commit and the evidence after
   it derives a cursor without a digest, and cannot recognise its own record.
5. *A late announcement overwrites a newer status* (`tui_model.go:430`). Events are
   published after their commits without a common lock. If two transitions
   overlap, "started" may follow "completed"; the dashboard applies it over the
   status it read and stays LIVE on it.
6. *Two processes can hold the lock on one baseline* (`dev_baseline.go:101`). The
   lock is created empty and its pid written afterwards; a process that reads it
   in between, or two that find the same dead owner, take it over while another
   holds it. Runs that follow one another are safe (`StaleLocksAreTakenOver`).

Observations made while modelling, for a reader of the code:

- `sameAggregate` says it compares every persisted field and leaves out durations
  and statuses (`sqlite.go:2990`). An ingest commit always brings one record more
  and does not reach it; `SaveEvaluationEvidence` does, and only tests call it.
- With version 6's tables and the current stamp, PostgreSQL opens
  (`postgres_schema.go:396`), while SQLite refuses such a database; and the
  oldest table sets are migrated without reading the stamp. `MigrationIsSafe` is
  therefore asked of undamaged PostgreSQL databases.
- A late report of an earlier process of one Collector replaces the newer one's
  until the next report (ADR 0065:61-64 accepts it); within one process nothing
  goes back.
- The comment on `promotionEnvironmentOrder` calls source-then-target locking
  provably safe today because ranks only go forward (`promotion_store.go:540`).
  It is not: a change of ranks between two promotions' reads turns the pair
  around, and each waits for the other. The byte order the code uses is safe, and
  `RegistryIsSound` needs it.
- An interrupt while `startRun`'s two calls are under way leaves the run pending
  or running, because `runStarted` is set after both (`dev.go:460`). A workload
  that crashes just before Ctrl-C is forwarded counts as stopped by the
  developer. The escalation's timer can fire between the reaping of the leader
  and the clearing of the target (`dev_signals.go:204`).
- A PostgreSQL commit whose acknowledgement is lost is answered with an error
  envelope, which `definitiveRefusal` takes for "nothing was completed"
  (`eval_run.go:681`); `CommitAckLost` turns this on. A begin whose answer is lost
  leaves an execution running.
- Nothing locks the state directory (`runtime.go:528`), and the runs have such
  overlaps: two starts that both find nobody serve both, and the file names the
  one that published last. `removeOwnedDiscovery` compares endpoints and then
  removes by path (`runtime.go:471-480`): a late stop that is between the two, or
  whose port a newer runtime has been given (always with a fixed `--listen`),
  removes the newer one's file, which the comment above it rules out. What does
  hold is `RuntimeIsSound`: a runtime beside which no such rival stood when it
  published keeps its file, and every later start is refused.
- `Stop` gives shutdown 5 s (`runtime.go:81`), as long as one write of a stream may
  take (`httpapi/realtime.go:50`); a stream writes what is queued after the bus is
  closed, so a slow reader can make shutdown give up and the store be closed under
  the stream. Closing the bus first only tells it to end.
- `trustvian dev --check` takes the report of any instance but the one it read for
  its own Collector's (`dev_check.go:208`). All checks share one collector id, so a
  concurrent check, or an earlier one that reports late, can make it exit 0.

## 5. Proofs

TLAPS proves, for every value of the constants that satisfies the named
assumptions (any number of records, handlers, requests, streams, Collectors,
calls; any bound):

| Theorem | States | Checked by the run |
|---|---|---|
| `SinkInvariant`, `TypeCorrect` | `SinkInv` and `TypeOK` are invariants of the sink, with every fault | `collection` (`SinkInvUnderFaults`) |
| `LearnsAtMostOnce`, `LearnsOnlyEvidence`, `PostingProvesUnlearned`, `RunsHoldRecordsInOrder`, and `LearningSafe` for their conjunction `LearningIsSafe` | learning happens at most once, only from evidence, never behind a posting entry, in call order | `sink` |
| `GivenUpNeverLearned` | a record reported indeterminate or discarded is never learned from | `sink` |
| `SinkRefinesDelivery` | `EvaluationSink` implements `RecordDelivery`, with every fault | `sink` |
| `NothingLost` | `NothingIsLostSilently`, without late delivery and failing recovery syncs | `sink` |
| `IngestInvHolds`, `IngestTypes`, `CursorAgrees`, `RetryContract`, `PublishedOnce` | `IngestInv` and its parts, on either store | `ingest_sqlite`, `registry` |
| `EndedFrozen` | no step changes a row of a run that has ended | `ingest_sqlite` |
| `IngestRefinesLog` | `ControlPlaneIngest` implements `EvidenceLog` | `ingest_sqlite` |
| `StoredEvidenceRight`, `IncompleteSticks` | the snapshot is the fold of a prefix of the log, the history quotes it; what is incomplete stays so; on either store | `ingest_sqlite`, `registry` |
| `AnswersHonest` | `AnswersAreHonest`, on the store with one connection | `ingest_sqlite` |
| `EventsAgree` | its part about lifecycle events, on either store | `ingest_sqlite` |
| `RegistryInvariant`, `RegistrySound` | the cap, the revisions, and nobody waits in a circle | `registry` |
| `OnlyAuthoritativePromotions` | a promotion rests on what is authoritative when it is recorded | `registry` |
| `ExecutionInvariant`, `ExecutionsSound`, `EndedForGood` | executions: numbers, repetitions, reference chains; an ended one never changes | `registry` (`ExecutionsAreSound`, `EndedIsFinal`) |
| `FileInvariant`, `FileIsDurable` | what the file store acknowledged survives any crash | `progress` |
| `KeysApart` | a baseline holds calls of its own key alone | |
| `PostgresInvariant`, `BaselinesRight` | the same of the table, and of starting against any database | `evidence` (`StoredBaselinesAreRight`) |
| `FileIsAStore`, `PostgresIsAStore` | both stores implement `LearnedStore` | |
| `BusInvariant`, `StreamsAreGapless`, `LeaveForOwnReasons` | each stream is sent what it asked for, in order, up to its end; none ends because of another | `evidence` |
| `StatusInvariant`, `StatusTrue`, `NeverGoesBack` | the status page is true within its delay, and never goes back within one process | `collection` |
| `RuntimeSound`, `SessionSound` | a runtime that published beside no rival is found while it serves, two that serve were rivals, a clean end leaves nothing behind; a session takes down what it started and exits with what happened | `progress` |
| `RegistryExecutionsSound`, `RegistryEndedFinal`, `RegistryEvidenceRight` | the executions, and the rows beside the log on PostgreSQL, as the run composes them | `registry` |
| `MigrationSafe` | `MigrationIsSafe`, from any version, with any number of openers and faults | `evidence` |
| `SuiteTruthful`, `StaleLocksTakenOver`, `LearnedRowsRight` | the suite runner, the lock on a baseline, the table of baselines | `evidence` |
| `CountRight` | the changes counted between two runs are the new behaviors nothing else explains, or all of them where the evidence is not conclusive | `evidence` (`CountIsRight`) |
| `VerdictRight` | the gate over repeated runs passes exactly when the repetitions show what was asked, in all six checks; its figures are theirs and its record is valid | `evidence` (`VerdictIsRight`) |
| `AnswersTrue` | what a reader is told about a finding is true of the records behind it, page after page | `evidence` (`AnswersAreTrue`) |
| `SinkUnderFaults`, `DashboardShowsTheRun`, `ProcessorSound` | the sink with every fault on; what the dashboard shows; what the Collector learns and reports | `collection` |

*Assumptions.* They say of the constants what their declarations mean: bounds and
limits are naturals (`queueCapacity` and `maxSubscribers` positive), faults and
`Pooled` are booleans, `None` is none of the values it stands beside. Besides:
`ShapeAssumption` (every record has one of finitely many shapes);
`NoRowAssumption` (a missing row is not a row); `EnvironmentAssumption` (refs are
finitely many numbers, the byte order); `ShardsAssumption` (allocation finds a
shard object for every key); `BoundsAssumption` of the status page (the window of
freshness is shorter than the expiry, `status.go`); `EngineAssumption` (the
bounds of a baseline's tables and the times are naturals); `ShapesAssumption` of
`ChangeCounting` (finitely many identities); `CountsAssumption` of
`RepeatedComparison` (finitely many fingerprints, those of the model layer among
them, and the limits of a gate are naturals or not given).
A component that the runs only instantiate cannot `ASSUME` (TLC would not see it):
`RunsAssumption` and the `CallsAssumption` of `BaselinePostgres` are hypotheses of
their theorems, and the MC modules `ASSUME` these and the others' by name
(`PartsAssumption`, `ExecutionAssumption`, `IngestAssumption`, `EngineAssumption`,
`ReporterAssumption`, `SinkAssumption`, `TuiAssumption`). TLC evaluates all of
them.

Three theorems need more, and say so. `NothingLost` assumes `~LateDelivery` and
`~RecoverySyncFails`: with either, runs `sink_late` and `sink_recovery_sync` show
the loss (findings 1 and 2). `AnswersHonest` assumes `~Pooled`: on PostgreSQL runs
`ingest_torn_read` and `ingest_retry_race` refute it (findings 3 and 4).
`NeverGoesBack` assumes `MaxDelay <= Expiry`: a report that outlives the entry it
would be compared with is taken for new. In the code a request lives five seconds
at most and an entry five minutes.

*The sink.* `LearnedAtMostOnce` is not inductive: a state in which the journal
says *posting* about a record already learned from satisfies it, and its next
recovery breaks it. `SinkInv` adds what each place remembers. `ControlInv` ties
the program counter to what memory holds. `BoundInv` says that a record is bound
to one sequence, before the run could have passed it and after every record the
run then held: re-presenting it can therefore only meet itself. `EvidenceInv` is
the same of what the run holds. `LearnInv` says that learning follows
confirmation and that the journal says so first, in all its readings. The step
lemmas describe what any step does to one of these (`BoundStep`, `EvidenceStep`,
`PostingStep`, `StoreStep`), and the invariant's conjuncts follow from them
without looking at the actions again. For the refinement `DeliveryInv` adds what
an abstract record can no longer become: what is remembered as posting was never
given up, nothing later than a remembered record was learned from, a confirmed
record is in its run. For `NothingLost`, `NamedInv` adds that the journal names
the pending record, and it alone, in every reading a host crash could leave,
before its call ends; and that a sink with nothing pending leaves nothing in
flight or in doubt. This is the part both faults break.

*The control plane.* `IngestInv` says of each handler (`HandlerInv`): what it has
read is a prefix of the log (`ViewInv`), whatever it read it when; the evidence
it computed is a prefix of the log followed by its record (`FoldInv`); a handler
inside a write transaction owns the lock, and one about to write has the log's
next sequence and evidence exactly one longer than the log (`CommitInv`); one
about to publish is the only one with its sequence (`PublishInv`). The heart is
`Reread`: under the lock the stored cursor is the log's length plus one, so an
equal sequence, together with evidence that may not move backwards, leaves only
the fold that is the log with this record appended. Torn reads therefore cost an
error answer at worst, never a wrong commit. `StepOfLog` then says what a step
can do to the log, from which `EndedFrozen` and `IngestRefinesLog` follow.
`StoreInv` carries the same argument to the snapshot and the history: the length
of the log is a version (`VersionInv`), so whatever a handler read or folded at
the present length describes the present snapshot. That a counter is the number
of records of its shape in a prefix is stated with cardinalities of sets of
positions, so that it needs no induction over the log. `ReaderInv` and
`HonestInv` say, for one connection only, that what a handler has read in an open
transaction is what is stored.

*Environments and promotions.* `RegistryInv`: which lock each request holds at
each step, and no other (`LockInv`, from which `NoCircularWait` follows by the
order of the two row locks); a count stays right until the insert that rests on
it (`CountInv`); a row is as many revisions old as it has acknowledged changes
(`RevisionInv`); and a row read earlier still exists and is the current one
unless its revision has moved on (`ReadInv`), which is why comparing revisions
under the locks makes a decision authoritative again.

*Executions.* `ExecutionInv`: rows only grow (`Grows`: nothing is removed, what
an execution was begun with stays, an ended one does not change), so what a
request read of the rows stays true (`StaysRight`); and the one request with a
completion number holds the project's row, hence has the next number. That the
reference chain ends in an execution completed earlier follows from the numbers.

*Stores of the engine.* `FileInv`: a call points to its key's only shard and,
once it learned, is in it (`CallInv`); a flush holds `flushMu`, what it read is in
memory, and covers the file and its own call (`FlushInv`), so a rename never
takes away what an earlier one made durable. `KeyInv` adds that no two keys share
a shard: a fresh one is nobody's, and restoring gives each key its own.
`PostgresInv`: what a transaction
read under its row lock is still the row it will replace, which a migration
cannot break because nobody serves before the database is current, and a current
one is not rewritten. Both stores implement `LearnedStore`: the file store's
rename maps to one `Save` of everything it makes durable, a commit to a `Save` of
one call, every other step to a stutter. No run lists these refinements; TLC was
run with them once, on the same instances.

*Bus.* `BusInv`: of what a stream has written, holds in hand and has queued, taken
together, nothing is missing, doubled or out of order until its handler gives up,
and nothing wanted is missing while it is registered (`StreamOK`). A gap can open
only behind an event that was not written, after which nothing is.

*Status.* `StatusInv`: of two reports of one process under way or held, the one
numbered first was made first and counted no more (`OrderInv`); none is from the
future of its process; a compare-and-swap of `noteIngest` is tried only with a
later time than was read (`IngestInv`); whoever reads when notified has seen the
facts held (`ToldInv`).

*Local runtime.* `RuntimeInv`: a process holds its port, its store, its bus and
the file exactly between the steps of `Start` and `Stop` that take and release
them (`StepInv`). `Apart` is what keeps an unchallenged runtime's file: two
listeners have two ports; nobody else is about to publish or to remove; whoever
dials dials it, and is refused; whoever stops has another port, and leaves the file
alone.

*Session.* `SessionInv`: each stage of the composition has left exactly what the
stage after it relies on, for the Collector, the workload's group, the run and
the relay; what the relay and the timers may still do is bounded by the target
they were given, which the reaping clears. From the step at which a check has read
who reported last, the control plane holds that report or one made since
(`EarnedInv`), so an instance that differs has reported meanwhile.

*Schemas.* `SchemaInv`: an opener that has passed a step has that step's objects
and backfill beneath it; a stamp is no further than the steps taken; whoever
lost a race finds the winner's step whole. On PostgreSQL the advisory lock makes
the sequence one step.

*Suite.* `SuiteInv`: what the runner remembers of a member is what the control
plane answered or still may; a request given up and still under way can only end
the execution it belongs to, and a compare-and-swap from running ends it once.

*Dashboard.* `TuiInv`: of each record and each transition, the snapshot, the rows
held back while it was read, the frames on the wire and the events not yet
published together hold all; a read begun after a handshake sees no less than the
stream had been sent; frames and reads of an older generation change nothing.

*Reporter.* `ReporterInv`: counters only grow, so what a report loaded was true when
it was loaded and is no more than what is true now; outcomes are loaded before
what covers them (the spans received, the fidelity), so a report never shows an
outcome without its span; lists never hold more than their bound and are marked
as soon as one did not fit; after `Stop` nothing moves.

*Engine.* `EngineInv(bl, h)`: each counter of the baseline is the number of
positions of the history that it counts, each table holds what came first until
it was full (`RoomOK`), the recent entries are the last ones in order (`TailOK`),
the sums and deviations are those of the values learned (`StatsOK`). It is stated
with sets of positions of the history, so an observation adds one position to
each set it belongs to, and no fold is unrolled. What the signals then compute
from the baseline is rewritten as what they compute from the history.

*Counting changes.* `CountingInv`: each pass holds exactly what the observations it
has read so far say (first seen, parents, roots). The last pass peels identities
from the roots down. A set each of whose members has a parent inside it is never
peeled, and without a cycle the identities beneath no root would be such a set;
so what is peeled is what has a root above it.

*Repeated runs.* `FoldAgrees`: after any number of repetitions each accumulator of
`reduceRepeated` is right about the completed runs of its side (total, extremes,
the runs a behavior is present in, the bounds of its mean). It is shown for a least
repetition that would break it. `RepeatedInv` ties what is stored at each step to
that fold, and each check of the gate is then matched with its conjunct of the
definition of a pass (`PassMeans`, `RowsMean`, `SingleMeans`, `RecordMeans`).

*Findings.* `FindingInv`: what is retained and what a snapshot says are right about
the log of the run; what a reader has got is the beginning of the set behind the
answer, up to the last number it saw; once both runs have completed nothing behind
a comparison changes; and a reader who follows the cursor has seen everything
after as many pages as there are records.

Proving these found arms of `CASE` expressions in `FindingEvidence`,
`EvidenceReports` and `EvidenceSummaries` that overlapped, where TLC took the first:
TLA+ leaves the choice open. They are disjoint now.

*Induction over data* is needed in a few places (the greatest position with a
property, a bound on every entry of a recursive function, a finite set built
element by element). The library's induction theorems take an operator, which
the provers cannot instantiate; `LeastNat` and `SetInduction` obtain the same from
the well-foundedness of the naturals, in terms of a set: a set of naturals that
is not empty has a least element. What a recursive function computes is reached in
the same way (`FoldAgrees`), its existence included.

TLC checked each inductive invariant on a small instance as well.

*Only model-checked.*

- Liveness: `CallsReturn`, `RequestsEnd`, `SlotsComeBack`, `Recovers`,
  `StopReturns`, `CallsAndSessionsEnd`. Fairness and ENABLED are out of the
  prover's reach.
- `EvidenceIsExact`, `ReportsAreExact`: each equates sums, extrema and encoded
  columns, at machine width, with a definition over the records. They are pure
  functions of what was stored, which TLC evaluates for every input within the
  bounds; for every input they need an induction over each sum.

## 6. Plan

Done: every component of the inventory has a module and a run, and the parts in
which requests, crashes and deliveries interleave have their invariants proved.
What is left, in order of importance:

1. A proof of `EvidenceIsExact`, and from it of `ReportsAreExact`.
2. `LearnedStore` in place of `learned` in `EvaluationSink`, so that what is
   learned once is also what survives.

## 7. Not modelled

- Handlers of the HTTP API, their DTOs and mappings: they decode, bound and
  encode around one call of the control plane and keep no state.
- Rendering: CI documents and comments, the terminal and the web UI, wording of
  reports and errors.
- Configuration and telemetry conventions: parsing and validation of input; the
  mapping of spans to events and of results to decision records.
- Alerts: a condition on one result and a webhook call nothing waits for.
- Floating point: scores live on a grid, averages are sets of values, and the sums
  of metrics, `float64` in the code (`aggregate.go:172`), are exact integers.
- Conditions of a policy on attributes (`policy.go:119`); a default without a
  reason is an invalid default. No property is about which decision a policy makes.
- A promotion whose identifier exists (`promotion_store.go:155`): every request of
  the model brings its own.
- Listings, trace summaries, the discovery of scenario files and plain inserts,
  which change nothing or change it once; creating versions and runs makes the
  initial state, except for runs in environments. `SaveEvaluationEvidence` is
  called by tests alone.
- In `PipelineStatus`, the rules that restate one counter. The record of a report
  and the event that announces it (`status.go:645`, `:652`) are one step, and the
  time of receipt is the time of the record, though the handler reads it before it
  has the lock (`httpapi/status.go:291`).
- In `CollectorReporting`, the tracker's three lists are loaded in one step
  (`processor.go:776`), and `fitReport` shortens producers and models but not
  scopes and transport targets (`reporter.go:298`).
- In `LocalRuntime`, the exit codes: no property tells one failed start from
  another.
- In `progress` the dashboard has no keys (`MaxKeys` is 0): key `r` against the
  reconnect timer is in `collection`, for safety.

`PROJECT.json` gives the reason for each component.
