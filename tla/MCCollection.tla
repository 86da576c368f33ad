---------------------------- MODULE MCCollection ----------------------------
(* The Collector and what it tells, for TLC: the engine that judges and     *)
(* learns, the reports a Collector makes of its own work and the status     *)
(* page they feed, the evaluation sink with every fault on, and the         *)
(* dashboard a developer watches it all on. Each initial state chooses the  *)
(* component that runs; the variables of the others rest, those of the      *)
(* status page in its initial state.                                        *)
EXTENDS PipelineStatus, TLC

CONSTANTS
    Resting, s1, s2, s3, d1, d2, c1, c2,
    \* the engine: its events, the tables of a baseline, its signals and its policy
    Fingerprints, NoFingerprint, Times, Volatiles, NoLatency, NoDelegator,
    maxFingerprints, maxPredecessors, maxTrigramPredecessors, maxDelegators,
    MinObservations, MinTransitionObservations, MinNGramObservations, Weights,
    SensitiveTargetFloor, Hours, Rules, DefaultAction, MaxObserved,
    \* the Collector that reports: what it hears of, its bounds, the room it has
    ServiceNames, ServiceModels, ServiceOperations, ReportedSpans, ReportBound,
    ProducerRoom, ModelRoom, OperationRoom, BodyRoom,
    \* the evaluation sink: its runs, and the records of its own and of others
    SinkRuns, SinkRecords, SinkForeign,
    \* the dashboard: what the run goes through, its buffers, its bounds
    ShownStatuses, tuiPendingEventCapacity, tuiObservationCapacity,
    ShownRecords, DropBound, KeyBound

VARIABLES
    part,   \* the component this behaviour is of
    \* BehaviorEngine
    baseline, before, history,
    \* CollectorReporting
    spans, count, tracker, receiving, reporter, stop, sent,
    \* EvaluationSink
    status, cursor, evidence, foreign, inflight, entry, shadows, pc, runID, next, stage,
    pending, arg, learned, calls, indeterminate, discarded,
    \* Dashboard
    runStatus, records, due, skipped, conn, wire, cut, reads, timers, shownState, gen,
    shown, live, buffered, resyncing, everLive, quitting, drops, keys

engineVars == <<baseline, before, history>>
reportingVars == <<spans, count, tracker, receiving, reporter, stop, sent>>
sinkVars == <<status, cursor, evidence, foreign, inflight, entry, shadows, pc, runID, next,
              stage, pending, arg, learned, calls, indeterminate, discarded>>
tuiVars == <<runStatus, records, due, skipped, conn, wire, cut, reads, timers, shownState,
             gen, shown, live, buffered, resyncing, everLive, quitting, drops, keys>>
all == <<part, engineVars, reportingVars, vars, sinkVars, tuiVars>>

\* The other components rest.
EngineRests ==
    /\ baseline = Resting /\ before = Resting /\ history = Resting
ReportingRests ==
    /\ spans = Resting /\ count = Resting /\ tracker = Resting /\ receiving = Resting
    /\ reporter = Resting /\ stop = Resting /\ sent = Resting
SinkRests ==
    /\ status = Resting /\ cursor = Resting /\ evidence = Resting /\ foreign = Resting
    /\ inflight = Resting /\ entry = Resting /\ shadows = Resting /\ pc = Resting
    /\ runID = Resting /\ next = Resting /\ stage = Resting /\ pending = Resting
    /\ arg = Resting /\ learned = Resting /\ calls = Resting /\ indeterminate = Resting
    /\ discarded = Resting
TuiRests ==
    /\ runStatus = Resting /\ records = Resting /\ due = Resting /\ skipped = Resting
    /\ conn = Resting /\ wire = Resting /\ cut = Resting /\ reads = Resting
    /\ timers = Resting /\ shownState = Resting /\ gen = Resting /\ shown = Resting
    /\ live = Resting /\ buffered = Resting /\ resyncing = Resting /\ everLive = Resting
    /\ quitting = Resting /\ drops = Resting /\ keys = Resting

\* s1 and s2 are treated alike; s3 has a floor and a rule of its own. Critical is
\* blocked unless approved, a high risk asks for approval, s3 alerts.
MCFingerprints == {s1, s2, s3}
MCVolatiles ==
    {[error |-> FALSE, latency |-> 1, delegator |-> d2], [error |-> TRUE, latency |-> 0, delegator |-> d1]}
Anyhow == {"unspecified", "approved"}
Never == [fps |-> {}, minRisk |-> 1, approvals |-> {}]
MCRules ==
    <<[when |-> [fps |-> MCFingerprints, minRisk |-> 4, approvals |-> Anyhow],
       unless |-> [fps |-> MCFingerprints, minRisk |-> 1, approvals |-> {"approved"}],
       action |-> "block"],
      [when |-> [fps |-> MCFingerprints, minRisk |-> 3, approvals |-> {"unspecified"}],
       unless |-> Never, action |-> "require_approval"],
      [when |-> [fps |-> {s3}, minRisk |-> 1, approvals |-> Anyhow],
       unless |-> Never, action |-> "alert"]>>
MCWeights ==
    [s \in {"categorical_novelty", "latency_deviation", "frequency_deviation",
            "time_pattern_deviation", "transition_deviation", "transition_rarity",
            "markov_surprisal", "ngram_deviation", "ngram_rarity", "error_deviation",
            "delegation_deviation"} |-> IF s = "categorical_novelty" THEN 2 ELSE 1]
MCSensitiveTargetFloor == [f \in MCFingerprints |-> IF f = s3 THEN 1 ELSE 0]
Engine == INSTANCE BehaviorEngine

\* A Collector that reports on itself.
Reporter == INSTANCE CollectorReporting WITH
    Producers <- ServiceNames, Models <- ServiceModels, Operations <- ServiceOperations,
    MaxSpans <- ReportedSpans, MaxReports <- ReportBound, MaxProducers <- ProducerRoom,
    MaxModels <- ModelRoom, MaxOperations <- OperationRoom

\* The status page: one Collector that restarts and one that competes for the
\* only slot; or one Collector beside two records committed at the same time.
MCMaxSpans     == (c1 :> 1) @@ (c2 :> 0)
MCMaxReports   == (c1 :> 2) @@ (c2 :> 1)
MCMaxInstances == (c1 :> 2) @@ (c2 :> 1)
Ingesting == INSTANCE PipelineStatus WITH
    MaxReports <- (c1 :> 1) @@ (c2 :> 0), MaxInstances <- (c1 :> 1) @@ (c2 :> 1)

\* Requests that outlive their sender, a recovery that fails half way. With the
\* lemmas about the sink, for the proofs about this composition.
Faulty == INSTANCE EvaluationSinkProofs WITH
    Runs <- SinkRuns, MaxRecords <- SinkRecords, MaxForeign <- SinkForeign,
    LateDelivery <- TRUE, RecoverySyncFails <- TRUE

\* A dashboard and the run it watches, one change of status at a time.
Tui == INSTANCE Dashboard WITH
    Statuses <- ShownStatuses, Overlapping <- FALSE,
    MaxRecords <- ShownRecords, MaxDrops <- DropBound, MaxKeys <- KeyBound,
    status <- runStatus, state <- shownState, pending <- buffered

ASSUME EngineAssumption == Engine!EngineAssumption
ASSUME ReporterAssumption == Reporter!BoundsAssumption
ASSUME SinkAssumption ==
    Faulty!BoundsAssumption /\ Faulty!FaultAssumption /\ Faulty!NoneAssumption
ASSUME TuiAssumption == Tui!DashboardAssumption

\* s1 and s2 are two fingerprints, two producers of a report, or two runs of the
\* sink: in each part they are interchangeable.
Symmetry == Permutations({s1, s2})

EngineAlone == TuiRests /\ ReportingRests /\ Init /\ SinkRests
EngineOnly  == UNCHANGED <<part, tuiVars, reportingVars, vars, sinkVars>>
ReportingAlone == TuiRests /\ EngineRests /\ Init /\ SinkRests
ReportingOnly  == UNCHANGED <<part, tuiVars, engineVars, vars, sinkVars>>
StatusAlone == TuiRests /\ EngineRests /\ ReportingRests /\ SinkRests
StatusOnly  == UNCHANGED <<part, tuiVars, engineVars, reportingVars, sinkVars>>
SinkAlone == TuiRests /\ EngineRests /\ ReportingRests /\ Init
SinkOnly  == UNCHANGED <<part, tuiVars, engineVars, reportingVars, vars>>
TuiAlone == EngineRests /\ ReportingRests /\ Init /\ SinkRests
TuiOnly  == UNCHANGED <<part, engineVars, reportingVars, vars, sinkVars>>

CollectionInit ==
    \/ part = "engine" /\ Engine!Init /\ EngineAlone
    \/ part = "reporting" /\ Reporter!Init /\ ReportingAlone
    \/ part \in {"status", "ingesting"} /\ Init /\ StatusAlone
    \/ part = "sink" /\ Faulty!Init /\ SinkAlone
    \/ part = "dashboard" /\ Tui!Init /\ TuiAlone

CollectionNext ==
    \/ part = "engine" /\ Engine!Next /\ EngineOnly
    \/ part = "reporting" /\ Reporter!Next /\ ReportingOnly
    \/ part = "status" /\ Next /\ StatusOnly /\ UNCHANGED <<ingest, lastIngest>>
    \/ part = "ingesting" /\ Ingesting!Next /\ StatusOnly
    \/ part = "sink" /\ Faulty!Next /\ SinkOnly
    \/ part = "dashboard" /\ Tui!Next /\ TuiOnly

CollectionSpec == CollectionInit /\ [][CollectionNext]_all

\* What was learned is exactly the history it was learned from, in whatever order
\* the events came, the signals and the trust a decision rests on are sound, and
\* a report of this work agrees with itself although its parts are loaded one
\* after the other, the last one being complete (internal/baseline,
\* internal/anomaly, internal/trust, processor reporter.go).
ProcessorIsSound ==
    /\ part = "engine" => Engine!BaselineIsHistory /\ Engine!DecisionsAreSound
    /\ part = "reporting" => Reporter!ReportsAreConsistent /\ Reporter!LastReportIsComplete

\* The sink's inductive invariant holds with every fault on: late deliveries, a
\* recovery that fails after removing its entry, and two runs (sink.go).
SinkInvUnderFaults == part = "sink" => Faulty!SinkInv

\* No record falls between snapshot and stream, a live dashboard shows the run's
\* status, and an ended run its final count (tui_model.go, handleFrame and
\* applySnapshot).
ShowsTheRun ==
    part = "dashboard" =>
        Tui!NothingFallsBetween /\ Tui!LiveIsCurrent /\ Tui!EndedShowsFinalCounts
=============================================================================
