------------------------- MODULE EvidenceSummaries -------------------------
(***************************************************************************)
(* What a run keeps of the records it accepted: the aggregate of the run   *)
(* (platform/aggregate.go, operational.go) and one summary per behavior    *)
(* (behavior_operational.go, behavior_fidelity.go), folded one record at a *)
(* time by applyRecord, written as columns of counters                     *)
(* (evidence_columns.go) and re-validated whenever they are read back      *)
(* (sqlite.go).  Nothing of a record survives but these counters, so a     *)
(* count that wrapped, a record folded into one half only or an extremum   *)
(* taken from an empty side could never be noticed afterwards.             *)
(*                                                                         *)
(* Machine integers keep their width: MaxUint stands for 2^64 - 1.         *)
(***************************************************************************)
EXTENDS Integers, Sequences, FiniteSets

CONSTANTS
  MaxUint,        \* the largest uint64
  MaxDuration,    \* event.MaxDurationNanos
  MaxTokenCount,  \* event.MaxTokenCount
  BucketUppers,   \* durationBucketUpperMillis, ascending
  UnitTop,        \* the 1 of the unit interval the scores live in
  NotFinite,      \* a score that is NaN or infinite
  MaxBehaviorEntries,
  Views,          \* evidence being gathered: the runs of a comparison
  Inputs,         \* the records that may arrive, [record, facts]
  MaxAccepted     \* bound: records accepted by all views

\* Assumed of the constants; every instance for TLC says so with an ASSUME.
WidthAssumption == /\ MaxUint \in Nat \ {0}
                   /\ MaxDuration \in 0 .. MaxUint
                   /\ MaxTokenCount \in 0 .. MaxUint

VARIABLES
  stored,    \* the evidence and the cursor of each view, as the store has them
  accepted,  \* the inputs each view accepted, as an ascending sequence (a bag)
  counted    \* those of them its behavior collector admitted

vars == <<stored, accepted, counted>>

Members(order) == {order[i] : i \in DOMAIN order}

DecisionOrder == <<"allow", "observe_only", "alert", "challenge", "require_approval", "block">>
RiskOrder == <<"low", "medium", "high", "critical">>
ApprovalOrder == <<"", "not_required", "required", "approved", "denied">>
SelectionOrder == <<"rule", "default">>
Decisions == Members(DecisionOrder)
Risks == Members(RiskOrder)
Approvals == Members(ApprovalOrder)
Selections == Members(SelectionOrder)
Signals == {"identity_confidence", "anomaly_score", "anomaly_confidence",
            "trust_score", "context_risk"}
StatusOrder == <<"unavailable", "unset", "ok", "error">>
ClassOrder == <<"1xx", "2xx", "3xx", "4xx", "5xx", "unavailable">>
TokenOrder == <<"input", "output", "unsplit", "observed", "unobserved">>
FidelityOrder == <<"semantic", "transport", "unrecorded">>
LayerOrder == <<"model", "tool", "retrieval", "transport", "unclassified", "unrecorded">>
Statuses == Members(StatusOrder)
Tokens == Members(TokenOrder)
Buckets == 1 .. Len(BucketUppers) + 1

Zero(keys) == [k \in keys |-> 0]

\* The addition of the machine: it wraps.
Plus(a, b) == (a + b) % (MaxUint + 1)
Min2(a, b) == IF a < b THEN a ELSE b
Max2(a, b) == IF a < b THEN b ELSE a

TotalOf(s) ==
  LET upTo[i \in 0 .. Len(s)] == IF i = 0 THEN 0 ELSE upTo[i - 1] + s[i]
  IN upTo[Len(s)]

\* sumNoOverflow: the total of the parts, or no number.
NoTotal == -1
sumNoOverflow(parts) ==
  IF TotalOf(parts) > MaxUint THEN NoTotal ELSE TotalOf(parts)

addMulNoOverflow(base, factor, value) ==
  IF base + factor * value > MaxUint THEN NoTotal ELSE base + factor * value

Listed(counts, order) == [i \in DOMAIN order |-> counts[order[i]]]

(***************************************************************************)
(* The empty evidence of a new run.                                        *)
(***************************************************************************)
EmptyDurations == [count |-> 0, unobserved |-> 0, sum |-> 0, min |-> 0, max |-> 0]
EmptyMetric == [count |-> 0, sum |-> 0, min |-> 0, max |-> 0]

NewEvaluationAggregate ==
  [count |-> 0, first |-> 0, last |-> 0,
   decisions |-> Zero(Decisions), risks |-> Zero(Risks), approvals |-> Zero(Approvals),
   policy |-> Zero(Selections), metrics |-> [s \in Signals |-> EmptyMetric],
   durations |-> EmptyDurations, statuses |-> Zero(Statuses)]

EmptyOperational ==
  [buckets |-> Zero(Buckets), durations |-> EmptyDurations,
   status |-> Zero(Statuses), http |-> Zero(Members(ClassOrder)),
   http429 |-> 0, tokens |-> Zero(Tokens)]

EmptyFidelity == [fidelity |-> Zero(Members(FidelityOrder)), layer |-> Zero(Members(LayerOrder))]

\* An entry written before operational evidence was kept.
unavailableOperational(observations) ==
  [EmptyOperational EXCEPT !.durations.unobserved = observations,
                           !.status["unavailable"] = observations,
                           !.http["unavailable"] = observations,
                           !.tokens["unobserved"] = observations]

unrecordedFidelity(observations) ==
  [EmptyFidelity EXCEPT !.fidelity["unrecorded"] = observations,
                        !.layer["unrecorded"] = observations]

(***************************************************************************)
(* What makes a record and its facts usable.                               *)
(***************************************************************************)
\* A score: NaN and the infinities compare false with everything.
validateUnitInterval(v) == v # NotFinite /\ v \in 0 .. UnitTop

\* ValidateDurationNanos: absent, or canonical decimal text within the bound.
ValidateDurationNanos(record) ==
  record.duration # <<>> => record.duration[1] \in 0 .. MaxDuration

RecordIsUsable(record) ==
  /\ record.hasId /\ record.time # 0
  /\ record.ownEnvironment /\ record.behaviorAgrees
  /\ record.decision \in Decisions /\ record.risk \in Risks /\ record.approval \in Approvals
  /\ record.matchedDefault = ~record.namesRule
  /\ \A s \in Signals : validateUnitInterval(record.metrics[s])
  /\ ValidateDurationNanos(record)
  /\ record.status \in Statuses

validateFidelityPair(fidelity, layer) ==
  /\ fidelity = "transport" => layer \notin {"model", "tool", "retrieval"}
  /\ fidelity = "semantic" => layer # "transport"

FactsAreValid(facts) ==
  /\ facts.fidelity \in {"", "semantic", "transport"}
  /\ facts.layer \in {"", "model", "tool", "retrieval", "transport"}
  /\ validateFidelityPair(facts.fidelity, facts.layer)
  /\ facts.http # 0 => facts.http \in 100 .. 599
  /\ facts.unsplit # <<>> => facts.input = <<>> /\ facts.output = <<>>
  /\ \A part \in {facts.input, facts.output, facts.unsplit} :
       part # <<>> => part[1] <= MaxTokenCount

\* validateBehaviorIdentity: every dimension recognised, every text usable.
validateBehaviorIdentity(record) ==
  record.fingerprint # 0 /\ record.behavior.recognised /\ record.behavior.name # ""

(***************************************************************************)
(* Folding a record in.                                                    *)
(***************************************************************************)
\* Faulty variant: the sum may pass the last number.
SumMayWrap(durations, statuses, record) ==
  IF record.duration = <<>> THEN durations.unobserved < MaxUint
  ELSE durations.count < MaxUint

OperationalFits(durations, statuses, record) ==
  /\ IF record.duration = <<>>
     THEN durations.unobserved < MaxUint
     ELSE durations.count < MaxUint /\ durations.sum <= MaxUint - record.duration[1]
  /\ statuses[record.status] < MaxUint

ObserveDuration(d, record) ==
  IF record.duration = <<>> THEN [d EXCEPT !.unobserved = Plus(@, 1)]
  ELSE LET nanos == record.duration[1] IN
       IF d.count = 0
       THEN [d EXCEPT !.count = 1, !.sum = nanos, !.min = nanos, !.max = nanos]
       ELSE [d EXCEPT !.count = Plus(@, 1), !.sum = Plus(@, nanos),
                      !.min = Min2(@, nanos), !.max = Max2(@, nanos)]

ObserveMetric(m, v) ==
  IF m.count = 0 THEN [count |-> 1, sum |-> v, min |-> v, max |-> v]
  ELSE [count |-> Plus(m.count, 1), sum |-> m.sum + v,
        min |-> Min2(m.min, v), max |-> Max2(m.max, v)]

Count(counts, key) == [counts EXCEPT ![key] = Plus(@, 1)]

AggregateAccepts(a, record) ==
  /\ a.count # MaxUint
  /\ RecordIsUsable(record)
  /\ OperationalFits(a.durations, a.statuses, record)

AddRecord(a, record) ==
  [count |-> Plus(a.count, 1),
   first |-> IF a.first = 0 \/ record.time < a.first THEN record.time ELSE a.first,
   last |-> Max2(a.last, record.time),
   decisions |-> Count(a.decisions, record.decision),
   risks |-> Count(a.risks, record.risk),
   approvals |-> Count(a.approvals, record.approval),
   policy |-> Count(a.policy, IF record.matchedDefault THEN "default" ELSE "rule"),
   metrics |-> [s \in Signals |-> ObserveMetric(a.metrics[s], record.metrics[s])],
   durations |-> ObserveDuration(a.durations, record),
   statuses |-> Count(a.statuses, record.status)]

durationBucket(nanos) ==
  LET within == {i \in DOMAIN BucketUppers : nanos <= BucketUppers[i]} IN
  IF within = {} THEN Len(BucketUppers) + 1
  ELSE CHOOSE i \in within : \A j \in within : i <= j

StatusClass(code) ==
  CASE code = 0 -> "unavailable"
    [] code \in 1 .. 199 -> "1xx"
    [] code \in 200 .. 299 -> "2xx"
    [] code \in 300 .. 399 -> "3xx"
    [] code \in 400 .. 499 -> "4xx"
    [] OTHER -> "5xx"

Reported(part) == IF part = <<>> THEN 0 ELSE part[1]
UsageObserved(facts) == \E part \in {facts.input, facts.output, facts.unsplit} : part # <<>>

\* What one observation adds to the token counters.
TokenParts(facts) ==
  [input |-> Reported(facts.input), output |-> Reported(facts.output),
   unsplit |-> Reported(facts.unsplit),
   observed |-> IF UsageObserved(facts) THEN 1 ELSE 0,
   unobserved |-> IF UsageObserved(facts) THEN 0 ELSE 1]

SummaryFits(s, record, facts) ==
  /\ OperationalFits(s.durations, s.status, record)
  /\ record.duration # <<>> => s.buckets[durationBucket(record.duration[1])] < MaxUint
  /\ s.http[StatusClass(facts.http)] < MaxUint
  /\ facts.http = 429 => s.http429 < MaxUint
  /\ \A k \in Tokens : s.tokens[k] <= MaxUint - TokenParts(facts)[k]

ObserveSummary(s, record, facts) ==
  [buckets |-> IF record.duration = <<>> THEN s.buckets
               ELSE Count(s.buckets, durationBucket(record.duration[1])),
   durations |-> ObserveDuration(s.durations, record),
   status |-> Count(s.status, record.status),
   http |-> Count(s.http, StatusClass(facts.http)),
   http429 |-> IF facts.http = 429 THEN Plus(s.http429, 1) ELSE s.http429,
   tokens |-> [k \in Tokens |-> Plus(s.tokens[k], TokenParts(facts)[k])]]

\* A layer is counted with a stated fidelity only; transport needs both.
FidelityOf(facts) ==
  CASE facts.fidelity = "semantic" -> "semantic"
    [] facts.fidelity = "transport" /\ facts.layer = "transport" -> "transport"
    [] OTHER -> "unrecorded"

LayerOf(facts) ==
  CASE FidelityOf(facts) = "semantic" /\ facts.layer # "" -> facts.layer
    [] FidelityOf(facts) = "semantic" /\ facts.layer = "" -> "unclassified"
    [] OTHER -> FidelityOf(facts)

FidelityFits(f, facts) ==
  f.fidelity[FidelityOf(facts)] < MaxUint /\ f.layer[LayerOf(facts)] < MaxUint

ObserveFidelity(f, facts) ==
  [fidelity |-> Count(f.fidelity, FidelityOf(facts)), layer |-> Count(f.layer, LayerOf(facts))]

(***************************************************************************)
(* The columns.  The number of observed durations of an entry is not one   *)
(* of them: it is the total of its buckets.                                *)
(***************************************************************************)
encodeOperationalCounts(s) ==
  [i \in Buckets |-> s.buckets[i]]
    \o <<s.durations.unobserved, s.durations.sum, s.durations.min, s.durations.max>>
    \o Listed(s.status, StatusOrder) \o Listed(s.http, ClassOrder)
    \o <<s.http429>> \o Listed(s.tokens, TokenOrder)

At(order, key) == CHOOSE i \in DOMAIN order : order[i] = key

decodeOperationalCounts(columns) ==
  LET n == Len(BucketUppers) + 1
      rest == SubSeq(columns, n + 1, Len(columns))
  IN [buckets |-> [i \in Buckets |-> columns[i]],
      durations |-> [count |-> sumNoOverflow(SubSeq(columns, 1, n)), unobserved |-> rest[1],
                     sum |-> rest[2], min |-> rest[3], max |-> rest[4]],
      status |-> [k \in Statuses |-> rest[4 + At(StatusOrder, k)]],
      http |-> [k \in Members(ClassOrder) |-> rest[8 + At(ClassOrder, k)]],
      http429 |-> rest[15],
      tokens |-> [k \in Tokens |-> rest[15 + At(TokenOrder, k)]]]

encodeFidelityCounts(f) == Listed(f.fidelity, FidelityOrder) \o Listed(f.layer, LayerOrder)

decodeFidelityCounts(columns) ==
  [fidelity |-> [k \in Members(FidelityOrder) |-> columns[At(FidelityOrder, k)]],
   layer |-> [k \in Members(LayerOrder) |-> columns[3 + At(LayerOrder, k)]]]

(***************************************************************************)
(* Re-validation of what the columns hold.                                 *)
(***************************************************************************)
validateRestoredMetric(m, records) ==
  /\ m.count = records
  /\ IF m.count = 0 THEN m.sum = 0 /\ m.min = 0 /\ m.max = 0
     ELSE m.min \in 0 .. m.max /\ m.max <= UnitTop /\ m.sum >= 0

validateRestoredOperational(d, statuses, records) ==
  /\ sumNoOverflow(<<d.count, d.unobserved>>) = records
  /\ sumNoOverflow(Listed(statuses, StatusOrder)) = records
  /\ CASE d.count = 0 -> d.sum = 0 /\ d.min = 0 /\ d.max = 0
       [] d.count = 1 -> d.min = d.max /\ d.sum = d.min /\ d.max <= MaxDuration
       [] OTHER ->
            LET lower == addMulNoOverflow(d.max, d.count - 1, d.min)
                upper == addMulNoOverflow(d.min, d.count - 1, d.max)
            IN /\ d.min <= d.max /\ d.max <= MaxDuration
               /\ lower # NoTotal /\ d.sum >= lower
               /\ upper # NoTotal => d.sum <= upper

validateRestoredAggregate(a) ==
  /\ sumNoOverflow(Listed(a.decisions, DecisionOrder)) = a.count
  /\ sumNoOverflow(Listed(a.risks, RiskOrder)) = a.count
  /\ sumNoOverflow(Listed(a.approvals, ApprovalOrder)) = a.count
  /\ sumNoOverflow(Listed(a.policy, SelectionOrder)) = a.count
  /\ \A s \in Signals : validateRestoredMetric(a.metrics[s], a.count)
  /\ validateRestoredOperational(a.durations, a.statuses, a.count)
  /\ IF a.count = 0 THEN a.first = 0 /\ a.last = 0 ELSE a.first \in 1 .. a.last

\* The bucket counts bound the sum from both sides.
checkSumAgainstBuckets(buckets, sum) ==
  LET lowest(i) == IF i = 1 THEN 0 ELSE BucketUppers[i - 1] + 1
      highest(i) == IF i \in DOMAIN BucketUppers THEN BucketUppers[i] ELSE MaxDuration
      lower == TotalOf([i \in Buckets |-> buckets[i] * lowest(i)])
      upper == TotalOf([i \in Buckets |-> buckets[i] * highest(i)])
  IN lower <= MaxUint /\ sum >= lower /\ (upper <= MaxUint => sum <= upper)

validateOperationalSummary(s, observations) ==
  /\ validateRestoredOperational(s.durations, s.status, observations)
  /\ s.durations.count > 0 =>
       LET lo == durationBucket(s.durations.min)
           hi == durationBucket(s.durations.max)
       IN /\ checkSumAgainstBuckets(s.buckets, s.durations.sum)
          /\ s.buckets[lo] # 0 /\ s.buckets[hi] # 0
          /\ \A i \in Buckets \ (lo .. hi) : s.buckets[i] = 0
  /\ sumNoOverflow([i \in Buckets |-> s.buckets[i]]) = s.durations.count
  /\ sumNoOverflow(Listed(s.http, ClassOrder)) = observations
  /\ s.http429 <= s.http["4xx"]
  /\ sumNoOverflow(<<s.tokens["observed"], s.tokens["unobserved"]>>) = observations
  /\ s.tokens["observed"] = 0 => \A k \in {"input", "output", "unsplit"} : s.tokens[k] = 0

validateBehaviorFidelity(f, observations) ==
  /\ sumNoOverflow(Listed(f.fidelity, FidelityOrder)) = observations
  /\ sumNoOverflow(<<f.layer["model"], f.layer["tool"], f.layer["retrieval"],
                     f.layer["unclassified"]>>) = f.fidelity["semantic"]
  /\ f.layer["transport"] = f.fidelity["transport"]
  /\ f.layer["unrecorded"] = f.fidelity["unrecorded"]

\* Entries are kept and read in the order of their fingerprints.
Ascending(S) ==
  [i \in 1 .. Cardinality(S) |-> CHOOSE x \in S : Cardinality({y \in S : y < x}) = i - 1]

\* An entry with its counters decoded.
Restored(entry) ==
  [behavior |-> entry.behavior, observations |-> entry.observations,
   operational |-> decodeOperationalCounts(entry.operational),
   fidelity |-> decodeFidelityCounts(entry.fidelity)]

Entries(v) == [f \in DOMAIN stored[v].entries |-> Restored(stored[v].entries[f])]

validateRestoredSnapshot(entries, observations) ==
  LET fingerprints == DOMAIN entries IN
  /\ Cardinality(fingerprints) <= MaxBehaviorEntries
  /\ \A f \in fingerprints :
       /\ entries[f].observations > 0
       /\ validateOperationalSummary(entries[f].operational, entries[f].observations)
       /\ validateBehaviorFidelity(entries[f].fidelity, entries[f].observations)
       /\ \A g \in fingerprints : entries[f].behavior = entries[g].behavior => f = g
  /\ sumNoOverflow([i \in DOMAIN Ascending(fingerprints) |->
                      entries[Ascending(fingerprints)[i]].observations]) = observations

Readable(v) ==
  /\ validateRestoredAggregate(stored[v].aggregate)
  /\ validateRestoredSnapshot(Entries(v), stored[v].observations)

(***************************************************************************)
(* The store: nothing yet, or one record of a run that an older schema     *)
(* kept and the migrations completed.                                      *)
(***************************************************************************)
\* Refuses to wrap: a cursor that did would expect the first record again.
NoSequence == -1
nextSequenceAfter(sequence) == IF sequence = MaxUint THEN NoSequence ELSE sequence + 1
initialSequenceFor(recordCount) == nextSequenceAfter(recordCount)

Nothing == [aggregate |-> NewEvaluationAggregate, entries |-> <<>>, observations |-> 0,
            complete |-> TRUE, cursor |-> initialSequenceFor(0)]

\* Input 1 carries no operational facts: what the old schema saw of a record.
Migrated ==
  LET record == Inputs[1].record
      old == [AddRecord(NewEvaluationAggregate, record)
                EXCEPT !.durations = EmptyDurations, !.statuses = Zero(Statuses)]
  IN [aggregate |-> [old EXCEPT !.durations.unobserved = old.count,
                                !.statuses["unavailable"] = old.count],
      entries |-> [f \in {record.fingerprint} |->
                     [behavior |-> record.behavior, observations |-> 1,
                      operational |-> encodeOperationalCounts(unavailableOperational(1)),
                      fidelity |-> encodeFidelityCounts(unrecordedFidelity(1))]],
      observations |-> 1, complete |-> TRUE, cursor |-> initialSequenceFor(old.count)]

Init ==
  /\ \E old \in SUBSET Views :
       /\ stored = [v \in Views |-> IF v \in old THEN Migrated ELSE Nothing]
       /\ accepted = [v \in Views |-> IF v \in old THEN <<1>> ELSE <<>>]
  /\ counted = accepted

(***************************************************************************)
(* applyRecord: both reducers, then one commit.                            *)
(***************************************************************************)
Conflicts(entries, record) ==
  IF record.fingerprint \in DOMAIN entries
  THEN entries[record.fingerprint].behavior # record.behavior
  ELSE \E f \in DOMAIN entries : entries[f].behavior = record.behavior

Entry(entries, record) ==
  IF record.fingerprint \in DOMAIN entries THEN entries[record.fingerprint]
  ELSE [behavior |-> record.behavior, observations |-> 0,
        operational |-> EmptyOperational, fidelity |-> EmptyFidelity]

\* The collector is, or now becomes, full.
AtCapacity(v, entries, record) ==
  \/ ~stored[v].complete
  \/ /\ validateBehaviorIdentity(record) /\ ~Conflicts(entries, record)
     /\ record.fingerprint \notin DOMAIN entries
     /\ Cardinality(DOMAIN entries) >= MaxBehaviorEntries

CollectorAccepts(v, entries, record, facts) ==
  LET entry == Entry(entries, record) IN
  /\ stored[v].observations # MaxUint /\ entry.observations # MaxUint
  /\ validateBehaviorIdentity(record) /\ ~Conflicts(entries, record)
  /\ SummaryFits(entry.operational, record, facts)
  /\ FidelityFits(entry.fidelity, facts)

\* The row of the entry after the record.
ObserveOperational(entries, record, facts) ==
  LET entry == Entry(entries, record) IN
  [behavior |-> record.behavior, observations |-> Plus(entry.observations, 1),
   operational |-> encodeOperationalCounts(ObserveSummary(entry.operational, record, facts)),
   fidelity |-> encodeFidelityCounts(ObserveFidelity(entry.fidelity, facts))]

Insert(s, i) ==
  SelectSeq(s, LAMBDA x : x <= i) \o <<i>> \o SelectSeq(s, LAMBDA x : x > i)

WithEntry(rows, f, row) == [g \in DOMAIN rows \cup {f} |-> IF g = f THEN row ELSE rows[g]]

Accepts(v, entries, record, facts) ==
  /\ FactsAreValid(facts)
  /\ AggregateAccepts(stored[v].aggregate, record)
  /\ nextSequenceAfter(stored[v].cursor) # NoSequence

ApplyRecord(v, i) ==
  LET record == Inputs[i].record
      facts == Inputs[i].facts
      entries == Entries(v)
  IN /\ Readable(v)
     /\ Accepts(v, entries, record, facts)
     /\ accepted' = [accepted EXCEPT ![v] = Insert(@, i)]
     /\ \/ /\ AtCapacity(v, entries, record)
           /\ stored' = [stored EXCEPT ![v].aggregate = AddRecord(@, record),
                                       ![v].complete = FALSE,
                                       ![v].cursor = nextSequenceAfter(@)]
           /\ UNCHANGED counted
        \/ /\ ~AtCapacity(v, entries, record)
           /\ CollectorAccepts(v, entries, record, facts)
           /\ stored' = [stored EXCEPT
                           ![v].aggregate = AddRecord(@, record),
                           ![v].entries = WithEntry(@, record.fingerprint,
                                            ObserveOperational(entries, record, facts)),
                           ![v].observations = Plus(@, 1),
                           ![v].cursor = nextSequenceAfter(@)]
           /\ counted' = [counted EXCEPT ![v] = Insert(@, i)]

Next ==
  /\ TotalOf([v \in 1 .. Cardinality(Views) |-> Len(accepted[v])]) < MaxAccepted
  /\ \E v \in Views, i \in DOMAIN Inputs : ApplyRecord(v, i)

Spec == Init /\ [][Next]_vars

(***************************************************************************)
(* Properties.                                                             *)
(***************************************************************************)
Records(bag) == [j \in DOMAIN bag |-> Inputs[bag[j]].record]
Facts(bag) == [j \in DOMAIN bag |-> Inputs[bag[j]].facts]
Stating(bag) == SelectSeq(bag, LAMBDA i : Inputs[i].record.duration # <<>>)
DurationsOf(bag) == {Inputs[i].record.duration[1] : i \in Members(Stating(bag))}
Least(S) == IF S = {} THEN 0 ELSE CHOOSE x \in S : \A y \in S : x <= y
Greatest(S) == IF S = {} THEN 0 ELSE CHOOSE x \in S : \A y \in S : y <= x

\* How many of the bag's inputs satisfy P, and the exact sum of F over them.
Number(bag, P(_)) == Cardinality({j \in DOMAIN bag : P(Inputs[bag[j]])})
SumOver(bag, F(_)) == TotalOf([j \in DOMAIN bag |-> F(Inputs[bag[j]])])

DurationsAreExact(d, bag) ==
  /\ d.count = Len(Stating(bag)) /\ d.unobserved = Len(bag) - Len(Stating(bag))
  /\ d.sum = SumOver(bag, LAMBDA in : Reported(in.record.duration))
  /\ d.min = Least(DurationsOf(bag)) /\ d.max = Greatest(DurationsOf(bag))

AggregateIsExact(a, bag) ==
  /\ a.count = Len(bag)
  /\ a.first = Least({Inputs[i].record.time : i \in Members(bag)})
  /\ a.last = Greatest({Inputs[i].record.time : i \in Members(bag)})
  /\ \A k \in Decisions : a.decisions[k] = Number(bag, LAMBDA in : in.record.decision = k)
  /\ \A k \in Risks : a.risks[k] = Number(bag, LAMBDA in : in.record.risk = k)
  /\ \A k \in Approvals : a.approvals[k] = Number(bag, LAMBDA in : in.record.approval = k)
  /\ a.policy["default"] = Number(bag, LAMBDA in : in.record.matchedDefault)
  /\ a.policy["rule"] = Number(bag, LAMBDA in : in.record.namesRule)
  /\ \A s \in Signals :
       LET values == {Inputs[i].record.metrics[s] : i \in Members(bag)} IN
       a.metrics[s] = [count |-> Len(bag), sum |-> SumOver(bag, LAMBDA in : in.record.metrics[s]),
                       min |-> Least(values), max |-> Greatest(values)]
  /\ DurationsAreExact(a.durations, bag)
  /\ \A k \in Statuses :
       a.statuses[k] = Number(bag, LAMBDA in : in.record.status = k)

SummaryIsExact(s, bag) ==
  /\ DurationsAreExact(s.durations, bag)
  /\ \A b \in Buckets :
       s.buckets[b] = Number(Stating(bag), LAMBDA in :
         /\ b > 1 => in.record.duration[1] > BucketUppers[b - 1]
         /\ b < Len(BucketUppers) + 1 => in.record.duration[1] <= BucketUppers[b])
  /\ \A k \in Statuses :
       s.status[k] = Number(bag, LAMBDA in : in.record.status = k)
  /\ \A c \in 1 .. 5 :
       s.http[ClassOrder[c]] = Number(bag, LAMBDA in : in.facts.http \div 100 = c)
  /\ s.http["unavailable"] = Number(bag, LAMBDA in : in.facts.http = 0)
  /\ s.http429 = Number(bag, LAMBDA in : in.facts.http = 429)
  /\ s.tokens = [input |-> SumOver(bag, LAMBDA in : Reported(in.facts.input)),
                 output |-> SumOver(bag, LAMBDA in : Reported(in.facts.output)),
                 unsplit |-> SumOver(bag, LAMBDA in : Reported(in.facts.unsplit)),
                 observed |-> Number(bag, LAMBDA in : UsageObserved(in.facts)),
                 unobserved |-> Number(bag, LAMBDA in : ~UsageObserved(in.facts))]

\* The counted inputs of one behavior.
OfBehavior(bag, f) == SelectSeq(bag, LAMBDA i : Inputs[i].record.fingerprint = f)

\* The evidence of a run is what its accepted records say, exactly: every
\* counter, sum and extremum of the aggregate and of every behavior equals its
\* definition over the records, migrated ones included; none has wrapped; the
\* cursor counts the records; and what is stored passes the validation of a
\* read (AddRecord, ObserveOperational, encode/decode, validateRestored*).
EvidenceIsExact ==
  \A v \in Views :
    /\ AggregateIsExact(stored[v].aggregate, accepted[v])
    /\ stored[v].cursor = Len(accepted[v]) + 1
    /\ stored[v].complete <=> accepted[v] = counted[v]
    /\ stored[v].observations = Len(counted[v])
    /\ DOMAIN stored[v].entries = {Inputs[i].record.fingerprint : i \in Members(counted[v])}
    /\ \A f \in DOMAIN stored[v].entries :
         LET entry == Entries(v)[f]
             bag == OfBehavior(counted[v], f)
         IN /\ entry.observations = Len(bag)
            /\ SummaryIsExact(entry.operational, bag)
            /\ entry.fidelity.fidelity["semantic"] =
                 Number(bag, LAMBDA in : in.facts.fidelity = "semantic")
            /\ entry.fidelity.layer["transport"] =
                 Number(bag, LAMBDA in : in.facts.fidelity = "transport"
                                         /\ in.facts.layer = "transport")
    /\ Readable(v)
=============================================================================
