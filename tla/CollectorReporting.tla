-------------------------- MODULE CollectorReporting --------------------------
(***************************************************************************)
(* What a Collector counts and reports of itself (ConsumeTraces,           *)
(* processSpan, observe and statusSnapshot of src/processor/processor.go,  *)
(* src/processor/internal/status/status.go and reporter.go).               *)
(*                                                                         *)
(* Several goroutines process spans and count them, one counter at a time, *)
(* while the reporter loads the counters in its own order, without a lock  *)
(* over all of them, and posts what it loaded.  A post may hang; stopping  *)
(* the reporter cancels it, waits for the loop and sends one last report.  *)
(***************************************************************************)
EXTENDS Naturals, FiniteSets, Sequences

CONSTANTS
    Producers,     \* service names
    Models,        \* (provider, model) pairs
    Operations,    \* of one HTTP target
    MaxSpans,      \* spans the process handles
    MaxReports,    \* reports sent before the last one
    MaxProducers, MaxModels, MaxOperations,   \* the tracker's bounds
    BodyRoom,      \* entries of lists a report's body has room for
    None

\* Assumed of the constants; every instance for TLC says so with an ASSUME.
BoundsAssumption ==
    {MaxSpans, MaxReports, MaxProducers, MaxModels, MaxOperations, BodyRoom} \subseteq Nat

VARIABLES
    spans,      \* the spans taken in: [producer, what, stage]
    count,      \* the processor's atomic counters
    tracker,    \* the tracker, one lock over all of it
    receiving,  \* the receivers still deliver spans
    reporter,   \* [phase, next, loaded]
    stop,       \* the Stop call: "no", "closing", "waiting", "final", "returned"
    sent        \* the reports posted, in order

vars == <<spans, count, tracker, receiving, reporter, stop, sent>>

Counters == {"processed", "analyzed", "invalid", "analyzeErrors"}

\* Nothing loaded yet.
Idle == [phase |-> "idle", next |-> 1, loaded |-> [what \in {} |-> 0]]

Init ==
    /\ spans = << >>
    /\ count = [f \in Counters |-> 0]
    /\ tracker = [producers |-> {}, producersTruncated |-> FALSE, fidelity |-> 0,
                  models |-> {}, modelsTruncated |-> FALSE,
                  operations |-> {}, saturated |-> FALSE, targetSpans |-> 0,
                  learned |-> 0, notLearned |-> 0, observeErrors |-> 0]
    /\ receiving = TRUE
    /\ reporter = Idle /\ stop = "no" /\ sent = << >>

--------------------------------------------------------------------------------
\* The span path.

\* What a span turns out to be: one that is no valid event, one the engine
\* failed on, a model call, or an HTTP operation seen only as transport.
Whats == [kind : {"invalid", "error"}] \cup [kind : {"model"}, model : Models]
            \cup [kind : {"http"}, operation : Operations]

\* The tracker hears of a scope's spans before any is processed; a producer
\* it has no room for marks the list.
ObserveScope(p) ==
    IF p \in tracker.producers \/ Cardinality(tracker.producers) < MaxProducers
    THEN [tracker EXCEPT !.producers = @ \cup {p}]
    ELSE [tracker EXCEPT !.producersTruncated = TRUE]

ConsumeTraces(p, w) ==
    /\ receiving /\ Len(spans) < MaxSpans
    /\ tracker' = ObserveScope(p)
    /\ spans' = Append(spans, [producer |-> p, what |-> w, stage |-> "waiting"])
    /\ UNCHANGED <<count, receiving, reporter, stop, sent>>

At(i, stage) == i \in DOMAIN spans /\ spans[i].stage = stage
Bump(i, counter, stage) ==
    /\ count' = [count EXCEPT ![counter] = @ + 1]
    /\ spans' = [spans EXCEPT ![i].stage = stage]
    /\ UNCHANGED <<tracker, receiving, reporter, stop, sent>>
Track(i, t, stage) ==
    /\ tracker' = t
    /\ spans' = [spans EXCEPT ![i].stage = stage]
    /\ UNCHANGED <<count, receiving, reporter, stop, sent>>

Arrive(i) == At(i, "waiting") /\ Bump(i, "processed", "processed")

Fail(i) ==
    /\ At(i, "processed")
    /\ \/ spans[i].what.kind = "invalid" /\ Bump(i, "invalid", "done")
       \/ spans[i].what.kind = "error" /\ Bump(i, "analyzeErrors", "done")

\* Fidelity, models and the operations of a transport target, each list
\* bounded and marked when something did not fit.
ObserveEvaluated(w) ==
    IF w.kind = "model"
    THEN IF w.model \in tracker.models \/ Cardinality(tracker.models) < MaxModels
         THEN [tracker EXCEPT !.fidelity = @ + 1, !.models = @ \cup {w.model}]
         ELSE [tracker EXCEPT !.fidelity = @ + 1, !.modelsTruncated = TRUE]
    ELSE IF w.operation \in tracker.operations \/ Cardinality(tracker.operations) < MaxOperations
    THEN [tracker EXCEPT !.fidelity = @ + 1, !.targetSpans = @ + 1,
                         !.operations = @ \cup {w.operation}]
    ELSE [tracker EXCEPT !.fidelity = @ + 1, !.targetSpans = @ + 1, !.saturated = TRUE]

Evaluate(i) ==
    \/ At(i, "processed") /\ spans[i].what.kind \in {"model", "http"}
          /\ Track(i, ObserveEvaluated(spans[i].what), "observed")
    \/ At(i, "observed") /\ Bump(i, "analyzed", "analyzed")

\* observe, without an evaluation run: the engine learned from the span, did
\* not, or failed.
ObserveLearning(i) ==
    /\ At(i, "analyzed")
    /\ \E outcome \in {"learned", "notLearned", "observeErrors"} :
          Track(i, [tracker EXCEPT ![outcome] = @ + 1], "done")

\* The Collector stops its receivers and lets the spans drain before the
\* processor is shut down.
StopReceiving ==
    /\ receiving
    /\ receiving' = FALSE
    /\ UNCHANGED <<spans, count, tracker, reporter, stop, sent>>

--------------------------------------------------------------------------------
\* The reporter.

\* The order statusSnapshot loads in: the tracker's lists, the outcomes, the
\* total, the fidelity, the learning.
statusSnapshot ==
    <<"tracker", "analyzed", "invalid", "analyzeErrors", "processed", "fidelity", "learning">>

Sequence == Len(sent)

\* The loop sends at once and then on every tick.
Tick ==
    /\ reporter.phase = "idle" /\ stop = "no" /\ Sequence < MaxReports
    /\ reporter' = [Idle EXCEPT !.phase = "loading"]
    /\ UNCHANGED <<spans, count, tracker, receiving, stop, sent>>

Lists ==
    [producers |-> tracker.producers, producersTruncated |-> tracker.producersTruncated,
     models |-> tracker.models, modelsTruncated |-> tracker.modelsTruncated,
     operations |-> Cardinality(tracker.operations), saturated |-> tracker.saturated,
     targetSpans |-> tracker.targetSpans, before |-> Len(spans)]
ValueOf(what) ==
    IF what = "tracker" THEN Lists
    ELSE IF what = "fidelity" THEN tracker.fidelity
    ELSE IF what = "learning" THEN tracker.learned + tracker.notLearned + tracker.observeErrors
    ELSE count[what]

Load ==
    /\ reporter.phase \in {"loading", "final"} /\ reporter.next <= Len(statusSnapshot)
    /\ LET what == statusSnapshot[reporter.next] IN
       reporter' = [reporter EXCEPT !.next = @ + 1,
                       !.loaded = [w \in DOMAIN @ \cup {what} |-> IF w = what THEN ValueOf(what) ELSE @[w]]]
    /\ UNCHANGED <<spans, count, tracker, receiving, stop, sent>>

Loaded(what) == reporter.loaded[what]

\* As many entries of a list as a body that holds the others has room for.
Cut(list, others) ==
    IF Cardinality(list) + others <= BodyRoom THEN list
    ELSE CHOOSE S \in SUBSET list :
            Cardinality(S) = IF others <= BodyRoom THEN BodyRoom - others ELSE 0

\* Lists are cut, producers first, until the body fits, and marked.
fitReport(r) ==
    LET P == Cut(r.producers, Cardinality(r.models))
        M == Cut(r.models, Cardinality(P))
    IN [r EXCEPT !.producers = P, !.models = M,
                 !.producersTruncated = @ \/ P # r.producers,
                 !.modelsTruncated = @ \/ M # r.models]

Report ==
    [lists |-> fitReport(Loaded("tracker")), received |-> Loaded("processed"),
     evaluated |-> Loaded("analyzed"), invalid |-> Loaded("invalid"),
     analyzeErrors |-> Loaded("analyzeErrors"), fidelity |-> Loaded("fidelity"),
     learning |-> Loaded("learning")]

post ==
    /\ reporter.phase \in {"loading", "final"} /\ reporter.next > Len(statusSnapshot)
    /\ sent' = Append(sent, Report)
    /\ reporter' = [Idle EXCEPT !.phase =
                       IF reporter.phase = "final" THEN "finalPosting" ELSE "posting"]
    /\ UNCHANGED <<spans, count, tracker, receiving, stop>>

\* The answer, the timeout, or the cancellation by Stop.
PostReturns ==
    /\ reporter.phase \in {"posting", "finalPosting"}
    /\ reporter' = [Idle EXCEPT !.phase = IF reporter.phase = "finalPosting" THEN "ended" ELSE "idle"]
    /\ UNCHANGED <<spans, count, tracker, receiving, stop, sent>>

\* Shutdown: the receivers are stopped and the spans have drained.
Stop ==
    /\ stop = "no" /\ ~receiving
    /\ \A i \in DOMAIN spans : spans[i].stage = "done"
    /\ stop' = "closing"
    /\ UNCHANGED <<spans, count, tracker, receiving, reporter, sent>>

\* The loop saw the closed channel and is done; the first Stop then sends.
FinalReport ==
    /\ stop = "closing" /\ reporter.phase = "idle"
    /\ reporter' = [Idle EXCEPT !.phase = "final"] /\ stop' = "final"
    /\ UNCHANGED <<spans, count, tracker, receiving, sent>>

Return ==
    /\ \/ stop = "final" /\ reporter.phase = "ended"
       \/ stop = "closing" /\ reporter.phase # "idle"     \* the caller's deadline passed first
    /\ stop' = "returned"
    /\ UNCHANGED <<spans, count, tracker, receiving, reporter, sent>>

Next ==
    \/ \E p \in Producers, w \in Whats : ConsumeTraces(p, w)
    \/ \E i \in DOMAIN spans : Arrive(i) \/ Fail(i) \/ Evaluate(i) \/ ObserveLearning(i)
    \/ StopReceiving
    \/ Tick \/ Load \/ post \/ PostReturns
    \/ Stop \/ FinalReport \/ Return

Spec == Init /\ [][Next]_vars

--------------------------------------------------------------------------------
\* What the control plane requires of a report; it refuses any other.
validate(r) ==
    /\ r.evaluated <= r.received /\ r.invalid <= r.received /\ r.analyzeErrors <= r.received
    /\ Cardinality(r.lists.producers) <= MaxProducers
    /\ Cardinality(r.lists.models) <= MaxModels
    /\ r.lists.operations <= MaxOperations /\ r.lists.operations <= r.lists.targetSpans

\* What the spans really were.
Taken(r)   == {spans[i] : i \in 1..r.lists.before}
Evaluated  == {i \in DOMAIN spans : spans[i].stage \in {"analyzed", "done"}
                                     /\ spans[i].what.kind \in {"model", "http"}}

\* A report is consistent although its parts were loaded at
\* different moments: its outcomes together never exceed the spans received
\* (the control plane refuses a report that says otherwise), every span it
\* counts evaluated is in its breakdown; a producer heard before the load is missing only
\* from a list marked truncated, and a count of operations is short only if
\* it is marked saturated (statusSnapshot, Tracker, fitReport).
ReportsAreConsistent ==
    \A n \in DOMAIN sent : LET r == sent[n] IN
        /\ validate(r) /\ r.evaluated + r.invalid + r.analyzeErrors <= r.received
        /\ r.evaluated <= r.fidelity
        /\ r.lists.producersTruncated \/ {s.producer : s \in Taken(r)} \subseteq r.lists.producers

\* Once Stop has returned after its last report, that report tells
\* of everything the process did (Reporter.Stop, Shutdown).
LastReportIsComplete ==
    reporter.phase = "ended" =>
        LET r == sent[Len(sent)] IN
        /\ sent # << >> /\ r.received = Len(spans)
        /\ r.evaluated = Cardinality(Evaluated) /\ r.fidelity = r.evaluated
        /\ r.learning = r.evaluated
        /\ r.lists.modelsTruncated \/
              r.lists.models = {spans[i].what.model : i \in {j \in Evaluated : spans[j].what.kind = "model"}}
        /\ r.lists.saturated \/ r.lists.operations =
              Cardinality({spans[i].what.operation :
                              i \in {j \in Evaluated : spans[j].what.kind = "http"}})
================================================================================
