----------------------------- MODULE MCEvidence -----------------------------
(* What is concluded from evidence, for TLC: the summaries of a run and the *)
(* reports made of them, the changes counted between two runs, the verdict  *)
(* over repeated runs, and the observations shown behind a finding; how     *)
(* changes reach a reader, the realtime bus with its streams; and the tools *)
(* and stores beside them: the scenario runner of the command line, the     *)
(* lock on a learning baseline, the schemas of the two databases, and the   *)
(* baselines a Collector keeps in PostgreSQL. Each initial state chooses    *)
(* the component that runs; the variables of the others rest, those of the  *)
(* bus in an initial state.                                                 *)
EXTENDS RealtimeBus, Integers, TLC

CONSTANTS
    Resting, new1, new2, new3, old1, t1, t2, s1, s2, s3, tool, llm, host,
    misspelt, r1, c1, c2, c3, k1, k2, p1, p2, p3,
    \* the identities and spans whose changes are counted
    CountedIdentities, KnownIdentities, CountedSpans, CountedObservations, ChangeLimits,
    \* the behaviors compared over repetitions, and the limits asked of them
    ComparedFingerprints, ComparedTarget, ComparedModels, ComparedRuns, ComparedCalls,
    ComparedAlarms, ComparedWord, ComparedLimits,
    \* the records behind a finding, how many are retained, and the pages of an answer
    FindingRecords, FindingRetained, FindingBehaviors, FindingPage, FindingBounds,
    \* the suite of the scenario runner, the owners of a baseline's lock, who
    \* opens a database, and who learns into one
    SuiteMembers, SuiteRuns, SuiteSizes, SuiteLimit, SuiteOverhead, LockOwners,
    Openers, OpenFaults, LearningProcesses, LearnedKeys, LearningCalls, LearnedKeyOf,
    LearningProcessOf, LostAnswers

VARIABLES
    part,   \* the component this behaviour is of
    \* ChangeCounting
    observations, history, added, todo, identityOf, degraded, parents, independent,
    left, changes, state, gate, row, pc,
    \* RepeatedComparison
    runsPerSide, inputs, reduced, result, repeatedPc,
    \* FindingEvidence
    schema, sides, log, rows, hist, snap, walk,
    \* EvidenceSummaries, EvidenceReports
    stored, accepted, counted,
    \* ScenarioRunner
    options, runnerPc, member, side, rep, cause, waiting, answer, requests, execution,
    verdict, ctx, aborted, outcome, stopped, retained, overflowed, exitCode, complete,
    \* DevBaselineLock
    lockFile, ownerPc,
    \* SchemaMigration
    backend, stamp, has, filled, fresh, lost, openPc, at, faulted, faults, born,
    \* BaselinePostgres
    versions, scoped, baselines, advisory, processes, callPc, read, rowLock, returned,
    committed, original, lostAnswers

countingVars == <<observations, history, added, todo, identityOf, degraded, parents,
                  independent, left, changes, state, gate, row, pc>>
repeatedVars == <<runsPerSide, inputs, reduced, result, repeatedPc>>
findingVars == <<schema, sides, log, rows, hist, snap, walk>>
summaryVars == <<stored, accepted, counted>>
suiteVars == <<options, runnerPc, member, side, rep, cause, waiting, answer, requests, execution,
               verdict, ctx, aborted, outcome, stopped, retained, overflowed, exitCode,
               complete>>
lockVars == <<lockFile, ownerPc>>
schemaVars == <<backend, stamp, has, filled, fresh, lost, openPc, at, faulted, faults, born>>
pgVars == <<versions, scoped, baselines, advisory, processes, callPc, read, rowLock,
            returned, committed, original, lostAnswers>>
all == <<part, countingVars, repeatedVars, findingVars, summaryVars, vars, suiteVars, lockVars,
         schemaVars, pgVars>>

\* The other components rest.
CountingRests ==
    /\ observations = Resting /\ history = Resting /\ added = Resting /\ todo = Resting
    /\ identityOf = Resting /\ degraded = Resting /\ parents = Resting
    /\ independent = Resting /\ left = Resting /\ changes = Resting /\ state = Resting
    /\ gate = Resting /\ row = Resting /\ pc = Resting
RepeatedRests ==
    /\ runsPerSide = Resting /\ inputs = Resting /\ reduced = Resting /\ result = Resting
    /\ repeatedPc = Resting
FindingRests ==
    /\ schema = Resting /\ sides = Resting /\ log = Resting /\ rows = Resting
    /\ hist = Resting /\ snap = Resting /\ walk = Resting
SummaryRests ==
    /\ stored = Resting /\ accepted = Resting /\ counted = Resting
SuiteRests ==
    /\ options = Resting /\ runnerPc = Resting /\ member = Resting /\ side = Resting
    /\ rep = Resting /\ cause = Resting /\ waiting = Resting /\ answer = Resting
    /\ requests = Resting /\ execution = Resting /\ verdict = Resting /\ ctx = Resting
    /\ aborted = Resting /\ outcome = Resting /\ stopped = Resting /\ retained = Resting
    /\ overflowed = Resting /\ exitCode = Resting /\ complete = Resting
LockRests ==
    /\ lockFile = Resting /\ ownerPc = Resting
SchemaRests ==
    /\ backend = Resting /\ stamp = Resting /\ has = Resting /\ filled = Resting /\ fresh = Resting
    /\ lost = Resting /\ openPc = Resting /\ at = Resting /\ faulted = Resting
    /\ faults = Resting /\ born = Resting
PgRests ==
    /\ versions = Resting /\ scoped = Resting /\ baselines = Resting /\ advisory = Resting
    /\ processes = Resting /\ callPc = Resting /\ read = Resting /\ rowLock = Resting
    /\ returned = Resting /\ committed = Resting /\ original = Resting
    /\ lostAnswers = Resting

\* Three new identities and a known one, spans of one trace, and a span of
\* another trace under the same name.
Parents == {None, s1, s2, s3}
Spans ==
    [trace : {t1}, span : {s1, s2}, parent : Parents, id : {new1, new2}]
        \cup [trace : {t1}, span : {s3}, parent : Parents, id : {new3, old1}]
        \cup [trace : {t2}, span : {s1}, parent : {s2}, id : {new1, old1}]
        \cup [trace : {None}, span : {s1}, parent : {s1}, id : {new1}]
        \cup [trace : {t1}, span : {None}, parent : {s1}, id : {new2}]
Counting == INSTANCE ChangeCounting WITH
    Identities <- CountedIdentities, Known <- KnownIdentities, Shapes <- CountedSpans,
    MaxObservations <- CountedObservations, Limits <- ChangeLimits

\* Two behaviors of one target, one of them a model call, and limits that each
\* ask one more question.
Strict == [k |-> 1, j |-> 0, maxAdded |-> 0, maxBlocks |-> 0, maxCritical |-> 0,
           minFrequency |-> None, maxLost |-> None, maxCalls |-> None, maxModelCalls |-> None]
\* A run raises no alarm, or more critical-risk readings than blocks, which the
\* limits below tolerate together, apart or not at all.
ReadAlarms == {[blocks |-> 0, critical |-> 0], [blocks |-> 1, critical |-> 2]}
AskedLimits ==
    {Strict,
     [Strict EXCEPT !.k = 2, !.j = 1],
     [Strict EXCEPT !.k = 2, !.maxAdded = 1, !.maxBlocks = 1, !.maxCritical = 2],
     [Strict EXCEPT !.maxAdded = 2, !.maxBlocks = 1, !.maxCritical = 1, !.minFrequency = 1],
     [Strict EXCEPT !.maxAdded = 2, !.maxLost = 0, !.maxCalls = [t \in {host} |-> 2]],
     [Strict EXCEPT !.maxAdded = 2, !.maxCalls = [t \in {host, misspelt} |-> 2]],
     [Strict EXCEPT !.maxAdded = 2, !.maxCritical = 2, !.maxModelCalls = 1]}
MCComparedTarget == [f \in {tool, llm} |-> host]
Repeated == INSTANCE RepeatedComparisonProofs WITH
    Fingerprints <- ComparedFingerprints, target <- ComparedTarget,
    ModelLayer <- ComparedModels, RunCounts <- ComparedRuns, MaxCalls <- ComparedCalls,
    Alarms <- ComparedAlarms, MaxUint <- ComparedWord,
    Limits <- ComparedLimits, n <- runsPerSide, pc <- repeatedPc

\* A reference of up to one record, a candidate of up to three, three identities
\* of which the third describes the first one's behavior.
Records ==
    {[id |-> 1, behavior |-> "A", mark |-> "block"],
     [id |-> 2, behavior |-> "B", mark |-> "critical"],
     [id |-> 3, behavior |-> "A", mark |-> "plain"]}
MCFindingBounds == [s \in {"reference", "candidate"} |-> IF s = "reference" THEN 1 ELSE 3]
Finding == INSTANCE FindingEvidence WITH
    Shapes <- FindingRecords, MaxRetained <- FindingRetained, MaxBehaviors <- FindingBehaviors,
    MaxListPage <- FindingPage, MaxRecords <- FindingBounds, status <- sides

\* A machine word of five values; one input per dimension of a record, usable
\* and not.
Signals == {"identity_confidence", "anomaly_score", "anomaly_confidence", "trust_score",
            "context_risk"}
NotFinite == 99
Same(value) == [s \in Signals |-> value]
Call == [name |-> "m1", target |-> 1, recognised |-> TRUE]
Other == [name |-> "m2", target |-> 2, recognised |-> TRUE]

Plain == [hasId |-> TRUE, time |-> 2, ownEnvironment |-> TRUE, behaviorAgrees |-> TRUE,
          decision |-> "allow", risk |-> "low", approval |-> "", matchedDefault |-> TRUE,
          namesRule |-> FALSE, metrics |-> Same(1), duration |-> <<>>,
          status |-> "unavailable", fingerprint |-> 1, behavior |-> Call]
NoFacts == [http |-> 0, input |-> <<>>, output |-> <<>>, unsplit |-> <<>>,
            fidelity |-> "", layer |-> ""]
In(record, facts) == [record |-> record, facts |-> facts]
Usual == [Plain EXCEPT !.fingerprint = 2, !.behavior = Other]

Inputs == <<
  In(Plain, NoFacts),
  In([Plain EXCEPT !.duration = <<2>>, !.status = "ok", !.time = 1],
     [NoFacts EXCEPT !.http = 429, !.input = <<2>>, !.output = <<1>>, !.fidelity = "semantic"]),
  In([Plain EXCEPT !.duration = <<1>>, !.status = "error", !.time = 3, !.decision = "block",
        !.risk = "critical", !.approval = "denied", !.matchedDefault = FALSE,
        !.namesRule = TRUE, !.metrics = Same(2)],
     [NoFacts EXCEPT !.http = 503, !.unsplit = <<1>>, !.fidelity = "transport",
        !.layer = "transport"]),
  In([Usual EXCEPT !.duration = <<2>>, !.status = "unset", !.decision = "alert",
        !.approval = "approved", !.metrics = Same(0)],
     [NoFacts EXCEPT !.http = 200, !.input = <<2>>, !.fidelity = "semantic", !.layer = "tool"]),
  In([Usual EXCEPT !.duration = <<0>>, !.decision = "require_approval", !.risk = "high"],
     [NoFacts EXCEPT !.http = 302, !.output = <<0>>]),
  In([Plain EXCEPT !.fingerprint = 3, !.behavior.name = "m3", !.duration = <<1>>],
     [NoFacts EXCEPT !.input = <<1>>]),
  In([Plain EXCEPT !.fingerprint = 3, !.behavior.name = "m3", !.duration = <<0>>,
        !.status = "ok"], NoFacts),
  (* what must be refused *)
  In([Plain EXCEPT !.hasId = FALSE], NoFacts),
  In([Plain EXCEPT !.time = 0], NoFacts),
  In([Plain EXCEPT !.ownEnvironment = FALSE], NoFacts),
  In([Plain EXCEPT !.behaviorAgrees = FALSE], NoFacts),
  In([Plain EXCEPT !.decision = "permit"], NoFacts),
  In([Plain EXCEPT !.namesRule = TRUE], NoFacts),
  In([Plain EXCEPT !.metrics["trust_score"] = NotFinite], NoFacts),
  In([Plain EXCEPT !.metrics["context_risk"] = 3], NoFacts),
  In([Plain EXCEPT !.duration = <<3>>], NoFacts),
  In([Plain EXCEPT !.duration = <<-1>>], NoFacts),
  In([Plain EXCEPT !.status = "failed"], NoFacts),
  In([Plain EXCEPT !.fingerprint = 2], NoFacts),
  In([Plain EXCEPT !.behavior = Other], NoFacts),
  In([Plain EXCEPT !.behavior.recognised = FALSE], NoFacts),
  In(Plain, [NoFacts EXCEPT !.http = 99]),
  In(Plain, [NoFacts EXCEPT !.unsplit = <<1>>, !.input = <<1>>]),
  In(Plain, [NoFacts EXCEPT !.input = <<3>>]),
  In(Plain, [NoFacts EXCEPT !.fidelity = "transport", !.layer = "tool"]) >>

Prices == [m \in {"m1", "m2"} |->
  IF m = "m1" THEN [input |-> 1, output |-> 3] ELSE [input |-> 1, output |-> 1]]
Summaries == INSTANCE EvidenceReports WITH
    MaxUint <- 4, MaxDuration <- 2, MaxTokenCount <- 2, BucketUppers <- <<0, 1>>, UnitTop <- 2,
    MaxBehaviorEntries <- 2, Views <- 1 .. 2, PerMillion <- 4, MaxAccepted <- 4
Reports == INSTANCE EvidenceReports WITH
    MaxUint <- 4, MaxDuration <- 2, MaxTokenCount <- 2, BucketUppers <- <<0, 1>>, UnitTop <- 2,
    MaxBehaviorEntries <- 2, Views <- 1 .. 2, PerMillion <- 4, MaxAccepted <- 3

\* One slot of the bus, for which two clients come one after the other.
Full == INSTANCE RealtimeBus WITH
    maxSubscribers <- 1
\* Two scenarios of two repetitions a side, documents that together exceed the limit.
Suite == INSTANCE ScenarioRunner WITH
    Members <- SuiteMembers, Runs <- SuiteRuns, DocumentSizes <- SuiteSizes,
    OutputLimit <- SuiteLimit, Overhead <- SuiteOverhead, CommitAckLost <- FALSE,
    i <- member, cancelled <- aborted, net <- requests, stop <- stopped, pc <- runnerPc
Lock == INSTANCE DevBaselineLock WITH
    Procs <- LockOwners, Overlapping <- FALSE, file <- lockFile, pc <- ownerPc
\* Two processes open one database, of any earlier version or, with SQLite, damaged.
Schema == INSTANCE SchemaMigration WITH
    Backends <- {"sqlite", "postgres"}, Damaged <- {"sqlite"}, MaxFaults <- OpenFaults,
    pc <- openPc
\* Two processes race for k1; the second also observes k2.
MCLearnedKeyOf == (c1 :> k1) @@ (c2 :> k1) @@ (c3 :> k2)
MCLearningProcessOf == (c1 :> p1) @@ (c2 :> p2) @@ (c3 :> p2)
Learned == INSTANCE BaselinePostgres WITH
    Processes <- LearningProcesses, Keys <- LearnedKeys, Calls <- LearningCalls,
    KeyOf <- LearnedKeyOf, ProcessOf <- LearningProcessOf, MaxLost <- LostAnswers,
    rows <- baselines, process <- processes, sent <- committed, pc <- callPc, lost <- lostAnswers

ASSUME PartsAssumption ==
       /\ Counting!ShapesAssumption /\ Repeated!CountsAssumption /\ Finding!BoundsAssumption
       /\ Summaries!WidthAssumption /\ Reports!WidthAssumption
       /\ Suite!RunnerAssumption /\ Schema!BackendAssumption
       /\ Learned!CallsAssumption /\ Lock!ProcsAssumption

CountingAlone == RepeatedRests /\ FindingRests /\ SummaryRests /\ Init /\ SuiteRests /\ LockRests /\ SchemaRests /\ PgRests
CountingOnly  == UNCHANGED <<part, repeatedVars, findingVars, summaryVars, vars, suiteVars, lockVars, schemaVars, pgVars>>
RepeatedAlone == CountingRests /\ FindingRests /\ SummaryRests /\ Init /\ SuiteRests /\ LockRests /\ SchemaRests /\ PgRests
RepeatedOnly  == UNCHANGED <<part, countingVars, findingVars, summaryVars, vars, suiteVars, lockVars, schemaVars, pgVars>>
FindingAlone == CountingRests /\ RepeatedRests /\ SummaryRests /\ Init /\ SuiteRests /\ LockRests /\ SchemaRests /\ PgRests
FindingOnly  == UNCHANGED <<part, countingVars, repeatedVars, summaryVars, vars, suiteVars, lockVars, schemaVars, pgVars>>
SummaryAlone == CountingRests /\ RepeatedRests /\ FindingRests /\ Init /\ SuiteRests /\ LockRests /\ SchemaRests /\ PgRests
SummaryOnly  == UNCHANGED <<part, countingVars, repeatedVars, findingVars, vars, suiteVars, lockVars, schemaVars, pgVars>>
BusAlone == CountingRests /\ RepeatedRests /\ FindingRests /\ SummaryRests /\ SuiteRests /\ LockRests /\ SchemaRests /\ PgRests
BusOnly  == UNCHANGED <<part, countingVars, repeatedVars, findingVars, summaryVars, suiteVars, lockVars, schemaVars, pgVars>>
SuiteAlone == CountingRests /\ RepeatedRests /\ FindingRests /\ SummaryRests /\ Init /\ LockRests /\ SchemaRests /\ PgRests
SuiteOnly  == UNCHANGED <<part, countingVars, repeatedVars, findingVars, summaryVars, vars, lockVars, schemaVars, pgVars>>
LockAlone == CountingRests /\ RepeatedRests /\ FindingRests /\ SummaryRests /\ Init /\ SuiteRests /\ SchemaRests /\ PgRests
LockOnly  == UNCHANGED <<part, countingVars, repeatedVars, findingVars, summaryVars, vars, suiteVars, schemaVars, pgVars>>
SchemaAlone == CountingRests /\ RepeatedRests /\ FindingRests /\ SummaryRests /\ Init /\ SuiteRests /\ LockRests /\ PgRests
SchemaOnly  == UNCHANGED <<part, countingVars, repeatedVars, findingVars, summaryVars, vars, suiteVars, lockVars, pgVars>>
PgAlone == CountingRests /\ RepeatedRests /\ FindingRests /\ SummaryRests /\ Init /\ SuiteRests /\ LockRests /\ SchemaRests
PgOnly  == UNCHANGED <<part, countingVars, repeatedVars, findingVars, summaryVars, vars, suiteVars, lockVars, schemaVars>>

EvidenceInit ==
    \/ part = "counting" /\ Counting!Init /\ CountingAlone
    \/ part = "repeated" /\ Repeated!Init /\ RepeatedAlone
    \/ part = "finding" /\ Finding!Init /\ FindingAlone
    \/ part = "summaries" /\ Summaries!Init /\ SummaryAlone
    \/ part = "reports" /\ Reports!Init /\ SummaryAlone
    \/ part = "bus" /\ Init /\ BusAlone
    \/ part = "full" /\ Full!Init /\ BusAlone
    \/ part = "suite" /\ Suite!Init /\ SuiteAlone
    \/ part = "lock" /\ Lock!Init /\ LockAlone
    \/ part = "schema" /\ Schema!Init /\ SchemaAlone
    \/ part = "learned" /\ Learned!Init /\ PgAlone

EvidenceNext ==
    \/ part = "counting" /\ Counting!Next /\ CountingOnly
    \/ part = "repeated" /\ Repeated!Next /\ RepeatedOnly
    \/ part = "finding" /\ Finding!Next /\ FindingOnly
    \/ part = "summaries" /\ Summaries!Next /\ SummaryOnly
    \/ part = "reports" /\ Reports!Next /\ SummaryOnly
    \/ part = "bus" /\ Next /\ BusOnly
    \/ part = "full" /\ Full!Next /\ BusOnly
    \/ part = "suite" /\ Suite!Next /\ SuiteOnly
    \/ part = "lock" /\ Lock!Next /\ LockOnly
    \/ part = "schema" /\ Schema!Next /\ SchemaOnly
    \/ part = "learned" /\ Learned!Next /\ PgOnly

EvidenceSpec == EvidenceInit /\ [][EvidenceNext]_all

\* The changes counted between two runs are the new behaviors nothing else
\* explains, or all of them where the evidence is not conclusive, and the gate
\* and its stored columns say so (counting.go, gate.go).
CountIsRight == part = "counting" => Counting!CountIsRight

\* A verdict over repeated runs passes exactly when every limit allows it, its
\* counts are exact, and one run a side is the single comparison (repeated.go,
\* frequency.go, frequency_gate.go).
VerdictIsRight == part = "repeated" => Repeated!VerdictIsRight

\* What a reader is told about a finding is true of all the records the runs
\* accepted, page by page (evidence.go, observation.go).
AnswersAreTrue == [][part = "finding" => Finding!NewAnswerIsTrue]_all

\* A run's summaries are exactly what its records say; none has wrapped
\* (aggregate.go, operational.go, ingest.go).
EvidenceIsExact == part = "summaries" => Summaries!EvidenceIsExact

\* A report on two sides says what their records say or is refused
\* (operational_comparison.go, cost.go, scorecard.go).
ReportsAreExact == part = "reports" => Reports!ReportsAreExact

\* A suite reports each scenario as it ended at the control plane, its exit code
\* covers every one, and a usage error begins none (eval_run.go, eval_suite.go).
SuiteIsTruthful == part = "suite" => Suite!SuiteIsTruthful

\* Of development runs that follow one another none is turned away by a lock a
\* killed one left, and no two learn at once (dev_baseline.go, acquireBaseline).
StaleLocksAreTakenOver == part = "lock" => Lock!StaleLocksAreTakenOver

\* Whoever else opens the database, and whatever fails on the way: what opens
\* has its tables, a stamp is earned, unknown schemas are left alone and no
\* backfill runs over newer rows (sqlite.go, postgres_schema.go).
MigrationIsSafe == part = "schema" => Schema!MigrationIsSafe

\* Learned rows hold exactly the calls whose commit took place, on the current
\* layout, whatever raced or was lost (internal/store/postgres).
StoredBaselinesAreRight == part = "learned" => Learned!StoredBaselinesAreRight
=============================================================================
