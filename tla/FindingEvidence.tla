---------------------------- MODULE FindingEvidence ----------------------------
(***************************************************************************)
(* From a finding to its evidence (src/platform/evidence.go,               *)
(* observation_store.go, observation.go, CompareBehaviorSnapshots in       *)
(* behavior.go, retainedHistory and comparisonEvidence in                  *)
(* controlplane.go).                                                       *)
(*                                                                         *)
(* A finding of a comparison is a gate check or a behavior.  A reader      *)
(* resolves it page by page to the behaviors or the retained observations  *)
(* behind it, and is told whether it has evidence, how often the gate      *)
(* counted it and whether what it reads is all there was.  Retention       *)
(* stops at a bound, and a run may have begun before the schema retained   *)
(* anything; records arrive between the pages of a run still open.  What   *)
(* the ingest itself guarantees is ControlPlaneIngest; here a record is    *)
(* accepted in one step.                                                   *)
(***************************************************************************)
EXTENDS Naturals, FiniteSets, Sequences

CONSTANTS
    Shapes,            \* records: [id, behavior, mark]; ids are positive naturals
    MaxRecords,        \* [Sides -> Nat]
    MaxRetained,       \* MaxRetainedObservations
    MaxBehaviors,      \* maxBehaviorEntries
    MaxListPage,       \* rows of a page
    None               \* no side, no check, no history row, no walk

Sides  == {"reference", "candidate"}
Checks == {"added_behaviors", "added_behavior_changes", "block_decisions",
           "critical_risk_observations", "reference_evidence", "candidate_evidence"}
Ids    == {r.id : r \in Shapes}

\* Assumed of the constants; every instance for TLC says so with an ASSUME.
BoundsAssumption ==
    /\ Ids \subseteq Nat \ {0}
    /\ MaxRecords \in [Sides -> Nat]
    /\ MaxRetained \in Nat /\ MaxBehaviors \in Nat
    /\ MaxListPage \in Nat \ {0}
    /\ None \notin Ids /\ None \notin Sides /\ None \notin Checks
    /\ None \notin [retained : Nat, complete : BOOLEAN]
    /\ None \notin [by : {"id"}, id : Ids]
    /\ None \notin [by : {"mark"}, mark : {"block", "critical"}]

VARIABLES
    schema,   \* "old": the store retains no observations yet
    status,   \* [Sides -> {"running", "completed"}]
    log,      \* [Sides -> the records accepted, in order]
    rows,     \* [Sides -> the sequence numbers retained]
    hist,     \* [Sides -> None or [retained, complete]], the history row
    snap,     \* [Sides -> [entries, complete]], the behavior snapshot
    walk      \* None, or a reader's walk over the pages of one answer

vars == <<schema, status, log, rows, hist, snap, walk>>

Init ==
    /\ schema \in {"old", "retaining"}
    /\ status = [s \in Sides |-> "running"]
    /\ log = [s \in Sides |-> << >>]
    /\ rows = [s \in Sides |-> {}]
    /\ hist = [s \in Sides |-> None]
    /\ snap = [s \in Sides |-> [entries |-> {}, complete |-> TRUE]]
    /\ walk = None

--------------------------------------------------------------------------------
\* Accepting records.

\* Faulty variant: a history that began late is called complete.
BeginsComplete(row, sequence) ==
    IF row = None THEN [insert |-> TRUE, row |-> [retained |-> 1, complete |-> TRUE]]
    ELSE IF row.retained >= MaxRetained
    THEN [insert |-> FALSE, row |-> [row EXCEPT !.complete = FALSE]]
    ELSE [insert |-> TRUE, row |-> [row EXCEPT !.retained = @ + 1]]

planObservationRetention(row, sequence) ==
    IF row = None
    THEN [insert |-> TRUE, row |-> [retained |-> 1, complete |-> sequence = 1]]
    ELSE IF row.retained >= MaxRetained
    THEN [insert |-> FALSE, row |-> [row EXCEPT !.complete = FALSE]]
    ELSE [insert |-> TRUE, row |-> [row EXCEPT !.retained = @ + 1]]

Count(s, Test(_)) == Cardinality({i \in DOMAIN log[s] : Test(log[s][i])})

\* One identity per behavior and one behavior per identity, within a run.
Conflicts(s, r) ==
    \E e \in snap[s].entries : (e.id = r.id) # (e.behavior = r.behavior)

\* The collector: a new identity beyond the bound leaves the snapshot
\* incomplete, and it then stands still.
ObserveOperational(s, r) ==
    LET known == {e \in snap[s].entries : e.id = r.id} IN
    IF ~snap[s].complete THEN snap[s]
    ELSE IF known # {}
    THEN [snap[s] EXCEPT !.entries =
              (@ \ known) \cup {[e EXCEPT !.count = @ + 1] : e \in known}]
    ELSE IF Cardinality(snap[s].entries) >= MaxBehaviors
    THEN [snap[s] EXCEPT !.complete = FALSE]
    ELSE [snap[s] EXCEPT !.entries =
              @ \cup {[id |-> r.id, behavior |-> r.behavior, count |-> 1]}]

Ingest(s, r) ==
    LET sequence == Len(log[s]) + 1
        plan     == planObservationRetention(hist[s], sequence)
    IN /\ status[s] = "running" /\ sequence <= MaxRecords[s]
       /\ ~Conflicts(s, r)
       /\ log' = [log EXCEPT ![s] = Append(@, r)]
       /\ snap' = [snap EXCEPT ![s] = ObserveOperational(s, r)]
       /\ IF schema = "old" THEN UNCHANGED <<rows, hist>>
          ELSE /\ rows' = IF plan.insert THEN [rows EXCEPT ![s] = @ \cup {sequence}] ELSE rows
               /\ hist' = [hist EXCEPT ![s] = plan.row]
       /\ UNCHANGED <<schema, status, walk>>

Complete(s) ==
    /\ status[s] = "running"
    /\ status' = [status EXCEPT ![s] = "completed"]
    /\ UNCHANGED <<schema, log, rows, hist, snap, walk>>

\* The upgrade that brings retention; no reader is connected meanwhile.
Upgrade ==
    /\ schema = "old" /\ walk = None
    /\ schema' = "retaining"
    /\ UNCHANGED <<status, log, rows, hist, snap, walk>>

--------------------------------------------------------------------------------
\* What a reader is told.  Every page reads the history row, the record
\* count and the rows in one snapshot of the store.

NewObservationHistory(s) ==
    IF hist[s] = None
    THEN IF Len(log[s]) = 0 THEN "complete" ELSE "unavailable"
    ELSE IF hist[s].complete THEN "complete" ELSE "partial"

Matching(s, filter) ==
    {i \in rows[s] : \/ filter = None
                     \/ filter.by = "id" /\ log[s][i].id = filter.id
                     \/ filter.by = "mark" /\ log[s][i].mark = filter.mark}

\* The members of S above `after` that a page of at most n holds.
PageOf(S, after, n) ==
    {i \in S : i > after /\ Cardinality({j \in S : after < j /\ j <= i}) <= n}

runObservationPage(s, filter, after, n) ==
    [rows |-> PageOf(Matching(s, filter), after, n),
     matched |-> Matching(s, filter) # {}, history |-> NewObservationHistory(s)]

Refused == [outcome |-> "refused", page |-> {}]

--------------------------------------------------------------------------------
\* The comparison behind a finding, read from two completed runs.

assertConsistentIdentity ==
    \A c \in snap["candidate"].entries : \A e \in snap["reference"].entries :
        (c.id = e.id) = (c.behavior = e.behavior)

\* Evidence of both runs exists, or the run has genuinely none, and the two
\* snapshots compare.
Comparable ==
    /\ \A s \in Sides : status[s] = "completed" /\ snap[s].complete
    /\ assertConsistentIdentity

IdsOf(s)    == {e.id : e \in snap[s].entries}
CountIn(s, id) == LET E == {e \in snap[s].entries : e.id = id}
                  IN IF E = {} THEN 0 ELSE (CHOOSE e \in E : TRUE).count
Presence(id) ==
    IF id \notin IdsOf("reference") THEN "added"
    ELSE IF id \notin IdsOf("candidate") THEN "removed" ELSE "shared"
Added == IdsOf("candidate") \ IdsOf("reference")

\* The run a behavior's observations are in, or None when the finding leaves
\* it open or contradicts the comparison.
sideForDelta(id, side) ==
    LET forced == CASE Presence(id) = "added"   -> "candidate"
                    [] Presence(id) = "removed" -> "reference"
                    [] OTHER                    -> side
    IN IF side \in {None, forced} THEN forced ELSE None

Marked(mark) == LET Has(r) == r.mark = mark IN
    [kind |-> "rows", side |-> "candidate", recorded |-> Count("candidate", Has),
     filter |-> [by |-> "mark", mark |-> mark]]

planForCheck(check) ==
    CASE check = "added_behaviors" ->
             [kind |-> "behaviors", side |-> "candidate", recorded |-> Cardinality(Added)]
      [] check = "block_decisions"            -> Marked("block")
      [] check = "critical_risk_observations" -> Marked("critical")
      [] check = "reference_evidence" ->
             [kind |-> "aggregate_only", recorded |-> Len(log["reference"])]
      [] check = "candidate_evidence" ->
             [kind |-> "aggregate_only", recorded |-> Len(log["candidate"])]
      [] check = "added_behavior_changes" -> [kind |-> "refused"]

observationStatus(matched, history) ==
    CASE matched                -> "resolved"
      [] ~matched /\ history = "complete" -> "none_found"
      [] OTHER                  -> "indeterminate"

AggregateOnly(plan) ==
    [outcome |-> "aggregate_only", recorded |-> plan.recorded, page |-> {}]

BehaviorPage(side, recorded, candidates, after, n) ==
    [outcome |-> IF candidates = {} THEN "none_found" ELSE "resolved", side |-> side,
     recorded |-> recorded, page |-> PageOf(candidates, after, n)]

ResolveFindingBehaviors(f, after, n) ==
    IF ~Comparable THEN Refused
    ELSE IF f.behavior # None
    THEN LET side == sideForDelta(f.behavior, f.side) IN
         IF f.behavior \notin IdsOf("candidate") \cup IdsOf("reference") \/ side = None
         THEN Refused
         ELSE BehaviorPage(side, CountIn(side, f.behavior), {f.behavior}, after, n)
    ELSE LET plan == planForCheck(f.check) IN
         CASE plan.kind = "aggregate_only" -> AggregateOnly(plan)
           [] plan.kind = "behaviors"      ->
                  BehaviorPage(plan.side, plan.recorded, Added, after, n)
           [] OTHER                        -> Refused

ObservationAnswer(side, recorded, filter, after, n) ==
    LET page == runObservationPage(side, filter, after, n) IN
    [outcome |-> observationStatus(page.matched, page.history), side |-> side,
     recorded |-> recorded, exhaustive |-> page.history = "complete", page |-> page.rows]

ResolveFindingObservations(f, after, n) ==
    IF ~Comparable THEN Refused
    ELSE IF f.behavior # None
    THEN LET side == sideForDelta(f.behavior, f.side) IN
         IF f.behavior \notin IdsOf("candidate") \cup IdsOf("reference") \/ side = None
         THEN Refused
         ELSE ObservationAnswer(side, CountIn(side, f.behavior),
                                [by |-> "id", id |-> f.behavior], after, n)
    ELSE LET plan == planForCheck(f.check) IN
         CASE plan.kind = "aggregate_only" -> AggregateOnly(plan)
           [] plan.kind = "rows"           ->
                  ObservationAnswer(plan.side, plan.recorded, plan.filter, after, n)
           [] OTHER                        -> Refused

--------------------------------------------------------------------------------
\* The reader: one walk at a time, from the first page to an empty one.

\* Exactly one of a check and a behavior; a side only beside a behavior.
Findings ==
    {f \in [check : Checks \cup {None}, behavior : Ids \cup {None}, side : Sides \cup {None}] :
        /\ (f.check = None) # (f.behavior = None)
        /\ f.side # None => f.behavior # None}

Walk(route, f, s, n) ==
    [route |-> route, finding |-> f, side |-> s, limit |-> n, after |-> 0,
     pages |-> 0, got |-> {}, answer |-> None]

Open ==
    /\ walk = None
    /\ \/ \E f \in Findings, route \in {"behaviors", "observations"}, n \in 1..MaxListPage :
             walk' = Walk(route, f, None, n)
       \/ \E s \in Sides, n \in 1..MaxListPage : walk' = Walk("list", None, s, n)
       \* a comparison reads the candidate's whole history
       \/ Comparable /\ walk' = Walk("history", None, "candidate", MaxListPage)
    /\ UNCHANGED <<schema, status, log, rows, hist, snap>>

ListAnswer(s, after, n) ==
    LET page == runObservationPage(s, None, after, n) IN
    [outcome |-> page.history, page |-> page.rows]

Answer ==
    CASE walk.route = "behaviors" ->
             ResolveFindingBehaviors(walk.finding, walk.after, walk.limit)
      [] walk.route = "observations" ->
             ResolveFindingObservations(walk.finding, walk.after, walk.limit)
      [] OTHER -> ListAnswer(walk.side, walk.after, walk.limit)

Top(S, otherwise) == IF S = {} THEN otherwise ELSE CHOOSE x \in S : \A y \in S : y <= x

HistoryPages == MaxRetained \div MaxListPage + 1

Ended(w) ==
    \/ w.answer # None /\ w.answer.page = {}
    \/ w.route = "history" /\ w.pages = HistoryPages

Page ==
    /\ walk # None /\ ~Ended(walk)
    /\ walk' = [walk EXCEPT !.answer = Answer,
                            !.pages = IF walk.route = "history" THEN @ + 1 ELSE 1,
                            !.got = @ \cup Answer.page,
                            !.after = Top(Answer.page, @)]
    /\ UNCHANGED <<schema, status, log, rows, hist, snap>>

Close ==
    /\ walk # None /\ Ended(walk)
    /\ walk' = None
    /\ UNCHANGED <<schema, status, log, rows, hist, snap>>

Next ==
    \/ \E s \in Sides, r \in Shapes : Ingest(s, r)
    \/ \E s \in Sides : Complete(s)
    \/ Upgrade
    \/ Open \/ Page \/ Close

Spec == Init /\ [][Next]_vars

--------------------------------------------------------------------------------
\* Correctness, against the records that were really accepted.

\* What the comparison would find in everything both runs accepted.
SeenIn(s)    == {log[s][i].id : i \in DOMAIN log[s]}
TrulyAdded   == SeenIn("candidate") \ SeenIn("reference")

Supports(f, s, i) ==
    IF f.behavior # None THEN log[s][i].id = f.behavior
    ELSE CASE f.check = "block_decisions"            -> log[s][i].mark = "block"
           [] f.check = "critical_risk_observations" -> log[s][i].mark = "critical"
           [] OTHER                                  -> log[s][i].id \in TrulyAdded

SupportingRecords(f, s) == {i \in DOMAIN log[s] : Supports(f, s, i)}

\* The side the finding is about: the only run that has the behavior, or the
\* one the reader named.
SideIsRight(f, s) ==
    IF f.behavior = None THEN s = "candidate"
    ELSE f.behavior \in SeenIn(s) /\ f.side \in {None, s}
         /\ (f.side = None => \A t \in Sides \ {s} : f.behavior \notin SeenIn(t))

AnswerIsTrue(w) ==
    LET f == w.finding  a == w.answer IN
    a # None =>
    /\ w.route \in {"behaviors", "observations"} /\ a.outcome \notin {"refused", "aggregate_only"} =>
        LET all == SupportingRecords(f, a.side) IN
        /\ SideIsRight(f, a.side)
        /\ a.outcome = "resolved" => all # {}
        /\ a.outcome = "none_found" => all = {}
        /\ a.recorded = IF f.check = "added_behaviors" THEN Cardinality(TrulyAdded)
                        ELSE Cardinality(all)
        /\ w.route = "observations" /\ a.exhaustive => all \subseteq rows[a.side]
        \* read to the end: everything retained, nothing else
        /\ Ended(w) => w.got = CASE w.route = "observations" -> all \cap rows[a.side]
                                 [] w.route = "behaviors" /\ f.behavior # None -> {f.behavior}
                                 [] OTHER                    -> TrulyAdded
    /\ w.route \in {"list", "history"} =>
        /\ Ended(w) => w.got = rows[w.side]
        /\ a.outcome = "complete" /\ Ended(w) => w.got = DOMAIN log[w.side]

\* Whatever the reader is told about a finding is true of the
\* records the runs accepted, not only of those retained: evidence is
\* reported absent only if there never was any, found only if there is some,
\* in the run that has it and with the gate's own count; and the pages, read
\* to the end, hold every retained observation behind the finding and only
\* those, all of them when the answer calls itself exhaustive
\* (ResolveFindingBehaviors, ResolveFindingObservations, runObservationPage,
\* retainedHistory).
NewAnswerIsTrue == walk' # walk /\ walk' # None => AnswerIsTrue(walk)'
================================================================================
