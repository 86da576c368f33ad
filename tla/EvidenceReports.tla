-------------------------- MODULE EvidenceReports --------------------------
(***************************************************************************)
(* What a comparison reports of two sides' evidence: the operational sums  *)
(* (platform/operational_comparison.go), their split by target             *)
(* (operational_targets.go), the cost of the tokens (cost.go) and the      *)
(* scorecard's rates (scorecard.go).  All of it is computed from the       *)
(* stored entries of EvidenceSummaries and must say what the records said. *)
(***************************************************************************)
EXTENDS EvidenceSummaries

CONSTANTS
  Prices,      \* micro-units per PerMillion tokens of each priced model
  PerMillion   \* the number of tokens a price is stated for

Overflow == [ok |-> FALSE, sum |-> EmptyOperational]
Sum(s) == [ok |-> TRUE, sum |-> s]

AddGroup(a, b) == [k \in DOMAIN a |-> a[k] + b[k]]
Fits(group) == \A k \in DOMAIN group : group[k] <= MaxUint

\* Faulty variant: an empty side's extrema, which are zero, are folded in.
FoldsEmptyExtrema(d, e) ==
  [count |-> d.count + e.count, unobserved |-> d.unobserved + e.unobserved,
   sum |-> d.sum + e.sum, min |-> Min2(d.min, e.min), max |-> Max2(d.max, e.max)]

\* The extrema of a side that observed nothing are not extrema.
AddDurations(d, e) ==
  [count |-> d.count + e.count, unobserved |-> d.unobserved + e.unobserved,
   sum |-> d.sum + e.sum,
   min |-> IF d.count = 0 THEN e.min ELSE IF e.count = 0 THEN d.min ELSE Min2(d.min, e.min),
   max |-> IF d.count = 0 THEN e.max ELSE IF e.count = 0 THEN d.max ELSE Max2(d.max, e.max)]

\* OperationalSummary.Add: every counter, or an error.
Add(s, o) ==
  LET out == [buckets |-> AddGroup(s.buckets, o.buckets),
              durations |-> AddDurations(s.durations, o.durations),
              status |-> AddGroup(s.status, o.status), http |-> AddGroup(s.http, o.http),
              http429 |-> s.http429 + o.http429, tokens |-> AddGroup(s.tokens, o.tokens)]
  IN IF /\ Fits(out.buckets) /\ Fits(out.status) /\ Fits(out.http) /\ Fits(out.tokens)
        /\ Fits(out.durations) /\ out.http429 <= MaxUint
     THEN Sum(out) ELSE Overflow

\* The sum of a sequence of summaries, as a loop adds them up.
SumAll(summaries) ==
  LET upTo[i \in 0 .. Len(summaries)] ==
        IF i = 0 THEN Sum(EmptyOperational)
        ELSE IF upTo[i - 1].ok THEN Add(upTo[i - 1].sum, summaries[i]) ELSE Overflow
  IN upTo[Len(summaries)]

(***************************************************************************)
(* operationalSide: the runs of a side, each the sum of its entries.       *)
(***************************************************************************)
OfTarget(entries, t) ==
  SelectSeq(Ascending(DOMAIN entries), LAMBDA f : entries[f].behavior.target \in t)

SumOfEntries(entries, named) ==
  SumAll([i \in DOMAIN named |-> entries[named[i]].operational])

\* addRun's sum of one run's entries on the targets t.
RunSummary(v, t) ==
  SumOfEntries(Entries(v), OfTarget(Entries(v), t))

LatencyAvailable(s) == s.durations.count > 0
ErrorsAvailable(s) ==
  \/ s.status["unset"] + s.status["ok"] + s.status["error"] > 0
  \/ \E c \in 1 .. 5 : s.http[ClassOrder[c]] > 0
TokensAvailable(s) == s.tokens["observed"] > 0

\* The runs of a side and what they sum to; ok is FALSE where a sum overflows.
SideOf(runs, each) ==
  LET all == IF \A i \in DOMAIN runs : each[i].ok
             THEN SumAll([i \in DOMAIN runs |-> each[i].sum]) ELSE Overflow
      With(Available(_)) == Cardinality({i \in DOMAIN runs : Available(each[i].sum)})
  IN [ok |-> all.ok, sum |-> all.sum,
      latencyRuns |-> With(LatencyAvailable), errorRuns |-> With(ErrorsAvailable),
      tokenRuns |-> With(TokensAvailable)]

OperationalSide(runs, t) == SideOf(runs, [i \in DOMAIN runs |-> RunSummary(runs[i], t)])

unavailability(reference, candidate) ==
  CASE reference /\ candidate -> ""
    [] candidate /\ ~reference -> "reference_unavailable"
    [] reference /\ ~candidate -> "candidate_unavailable"
    [] OTHER -> "both_unavailable"

compareOperational(reference, candidate) ==
  [latency |-> unavailability(LatencyAvailable(reference.sum), LatencyAvailable(candidate.sum)),
   errors |-> unavailability(ErrorsAvailable(reference.sum), ErrorsAvailable(candidate.sum)),
   tokens |-> unavailability(TokensAvailable(reference.sum), TokensAvailable(candidate.sum))]

(***************************************************************************)
(* OperationalByTarget: a row per target of either side, in pages.         *)
(***************************************************************************)
Targets(runs) ==
  UNION {{Entries(runs[i])[f].behavior.target : f \in DOMAIN stored[runs[i]].entries} :
           i \in DOMAIN runs}

TargetObservations(runs, t) ==
  TotalOf([i \in DOMAIN runs |->
    LET entries == Entries(runs[i]) IN
    TotalOf([j \in DOMAIN OfTarget(entries, {t}) |->
               entries[OfTarget(entries, {t})[j]].observations])])

\* The targets of one page, and whether there are more; 0 is no cursor.
TargetPage(reference, candidate, after, limit) ==
  LET wanted == Ascending({t \in Targets(reference) \cup Targets(candidate) : t > after})
  IN [rows |-> SubSeq(wanted, 1, Min2(limit, Len(wanted))), more |-> Len(wanted) > limit]

\* Every row a reader gets who follows the cursor to the end.
AllPages(reference, candidate, limit) ==
  LET n == Cardinality(Targets(reference) \cup Targets(candidate))
      from[i \in 0 .. n] ==
        IF i = 0 THEN TargetPage(reference, candidate, 0, limit)
        ELSE LET before == from[i - 1] IN
             IF ~before.more THEN before
             ELSE LET next == TargetPage(reference, candidate, before.rows[Len(before.rows)], limit)
                  IN [rows |-> before.rows \o next.rows, more |-> next.more]
  IN from[n]

(***************************************************************************)
(* The cost of a side's tokens.                                            *)
(***************************************************************************)
\* modelCost: 128 bits wide before the division, refused when the quotient
\* is not a uint64.
modelCost(input, output, price) ==
  LET cost == (input * price.input + output * price.output) \div PerMillion
  IN IF cost > MaxUint THEN NoTotal ELSE cost

SideEntries(runs) ==
  LET of(i) == LET entries == Entries(runs[i]) IN
               [j \in 1 .. Cardinality(DOMAIN entries) |-> entries[Ascending(DOMAIN entries)[j]]]
      upTo[i \in 0 .. Len(runs)] == IF i = 0 THEN <<>> ELSE upTo[i - 1] \o of(i)
  IN upTo[Len(runs)]

\* The tokens of a kind over the entries of some models.
TokensOf(entries, kind, models) ==
  TotalOf([i \in DOMAIN entries |->
             IF entries[i].behavior.name \in models THEN entries[i].operational.tokens[kind] ELSE 0])

CostOfEntries(runs, entries) ==
  LET names == {entries[i].behavior.name : i \in DOMAIN entries}
      models == names \cap DOMAIN Prices
      others == names \ models
      in(m) == TokensOf(entries, "input", {m})
      out(m) == TokensOf(entries, "output", {m})
      costs == [m \in models |-> modelCost(in(m), out(m), Prices[m])]
      CostOf(e) == IF e \in models THEN costs[e] ELSE 0
      order == Ascending({i \in DOMAIN entries :
                 /\ entries[i].behavior.name \in models
                 /\ \A j \in 1 .. i - 1 : entries[j].behavior.name # entries[i].behavior.name})
      total == TotalOf([i \in DOMAIN order |-> CostOf(entries[order[i]].behavior.name)])
      priced == TokensOf(entries, "input", models) + TokensOf(entries, "output", models)
      unpriced == TokensOf(entries, "input", others) + TokensOf(entries, "output", others)
                    + TokensOf(entries, "unsplit", names)
      observed == TokensOf(entries, "observed", names)
      without == TokensOf(entries, "unobserved", names)
  IN [ok |-> /\ \A m \in models : costs[m] # NoTotal
             /\ total <= MaxUint /\ priced <= MaxUint /\ unpriced <= MaxUint
             /\ observed <= MaxUint /\ without <= MaxUint,
      cost |-> total, priced |-> priced, unpriced |-> unpriced,
      observations |-> observed, without |-> without,
      runs |-> Cardinality({i \in DOMAIN runs :
                 \E f \in DOMAIN stored[runs[i]].entries :
                   Entries(runs[i])[f].operational.tokens["observed"] > 0})]

CostEvidence(runs) == CostOfEntries(runs, SideEntries(runs))

(***************************************************************************)
(* The scorecard.                                                          *)
(***************************************************************************)
\* Total(): the machine's sum of a group.
GroupTotal(counts, order) == TotalOf(Listed(counts, order)) % (MaxUint + 1)

validateAggregateEvidence(a) ==
  /\ GroupTotal(a.decisions, DecisionOrder) = a.count
  /\ GroupTotal(a.risks, RiskOrder) = a.count
  /\ GroupTotal(a.approvals, ApprovalOrder) = a.count
  /\ GroupTotal(a.policy, SelectionOrder) = a.count
  /\ \A s \in Signals : a.metrics[s].count = a.count

\* Both halves of a side saw the same records, and both sides are complete.
assertSameComparison(v) == stored[v].aggregate.count = stored[v].observations

ScorecardIsMade(reference, candidate) ==
  \A v \in {reference, candidate} :
    /\ Readable(v) /\ stored[v].complete
    /\ validateAggregateEvidence(stored[v].aggregate)
    /\ assertSameComparison(v)

\* A rate of nothing has no value, and neither has its difference.
NoRate == [count |-> 0, total |-> 0]
Rate(count, total) == IF total = 0 THEN NoRate ELSE [count |-> count, total |-> total]

\* The difference of two rates, over their common denominator.
RateDelta(reference, candidate) ==
  IF reference.total = 0 \/ candidate.total = 0 THEN <<>>
  ELSE <<candidate.count * reference.total - reference.count * candidate.total>>

DecisionDelta(v, w, decision) ==
  RateDelta(Rate(stored[v].aggregate.decisions[decision], stored[v].aggregate.count),
            Rate(stored[w].aggregate.decisions[decision], stored[w].aggregate.count))

(***************************************************************************)
(* Properties.                                                             *)
(***************************************************************************)
\* The records of a side's runs, and those about one target.
Bag(runs) ==
  LET upTo[i \in 0 .. Len(runs)] == IF i = 0 THEN <<>> ELSE upTo[i - 1] \o counted[runs[i]]
  IN upTo[Len(runs)]
About(bag, T) == SelectSeq(bag, LAMBDA i : Inputs[i].record.behavior.target \in T)

Representable(bag) ==
  /\ Len(bag) <= MaxUint
  /\ SumOver(bag, LAMBDA in : Reported(in.record.duration)) <= MaxUint
  /\ \A part \in {"input", "output", "unsplit"} :
       SumOver(bag, LAMBDA in : Reported(in.facts[part])) <= MaxUint

Saying(runs, T, P(_)) ==
  Cardinality({i \in DOMAIN runs : Number(About(counted[runs[i]], T), P) > 0})

SaysOf(side, runs, T, bag) ==
  /\ side.ok <=> Representable(bag)
  /\ side.ok =>
       /\ SummaryIsExact(side.sum, bag)
       /\ side.latencyRuns = Saying(runs, T, LAMBDA in : in.record.duration # <<>>)
       /\ side.tokenRuns = Saying(runs, T, LAMBDA in : UsageObserved(in.facts))
       /\ side.errorRuns = Saying(runs, T, LAMBDA in :
            in.record.status # "unavailable" \/ in.facts.http # 0)

SideIsExact(runs, T) == SaysOf(OperationalSide(runs, T), runs, T, About(Bag(runs), T))

\* What one observation's priced tokens cost, in 1/PerMillion of a micro-unit.
Worth(in) ==
  LET model == in.record.behavior.name IN
  IF model \notin DOMAIN Prices THEN 0
  ELSE Reported(in.facts.input) * Prices[model].input
         + Reported(in.facts.output) * Prices[model].output

CostAgrees(cost, bag) ==
  LET tokens == SumOver(bag, LAMBDA in : Reported(in.facts.input) + Reported(in.facts.output)
                                           + Reported(in.facts.unsplit))
      models == {Inputs[i].record.behavior.name : i \in Members(bag)} \cap DOMAIN Prices
      roundedOff == SumOver(bag, Worth) - cost.cost * PerMillion
  IN cost.ok =>
       /\ cost.priced + cost.unpriced = tokens
       /\ cost.observations + cost.without = Len(bag)
       /\ roundedOff \in 0 .. (PerMillion - 1) * Cardinality(models)

CostIsExact(runs) == CostAgrees(CostEvidence(runs), Bag(runs))

Comparisons == {<< <<1>>, <<2>> >>, << <<1, 2>>, <<2, 1>> >>}

SectionsAgree(left, right, reference, candidate) ==
  left.ok /\ right.ok =>
    compareOperational(left, right).latency =
      unavailability(DurationsOf(Bag(reference)) # {}, DurationsOf(Bag(candidate)) # {})

ReportIsExact(reference, candidate, everything) ==
  /\ SideIsExact(reference, everything) /\ SideIsExact(candidate, everything)
  /\ SectionsAgree(OperationalSide(reference, everything), OperationalSide(candidate, everything),
                   reference, candidate)
  /\ \A t \in everything :
       /\ SideIsExact(reference, {t})
       /\ TargetObservations(reference, t) = Len(About(Bag(reference), {t}))
  /\ \A limit \in 1 .. 2 :
       AllPages(reference, candidate, limit).rows = Ascending(everything)
  /\ CostIsExact(reference) /\ CostIsExact(candidate)
  /\ ScorecardIsMade(reference[1], candidate[1])
  /\ \A d \in Decisions :
       DecisionDelta(1, 2, d) = <<>> <=> accepted[1] = <<>> \/ accepted[2] = <<>>

\* A report says what the records of its sides say: sums, extrema and run
\* counts are exact or the report is refused, never wrapped or mixed with an
\* empty side's zeros; a section is comparable exactly when both sides
\* observed something; the rows by target split a side's observations and a
\* reader who follows the pages sees each once; every token is priced or
\* unpriced and the cost is rounded once per model; evidence the store
\* accepted as complete always makes a scorecard.
ReportsAreExact ==
  \A c \in Comparisons :
    (\A i \in DOMAIN c[1] : stored[c[1][i]].complete /\ stored[c[2][i]].complete) =>
      ReportIsExact(c[1], c[2], Targets(c[1]) \cup Targets(c[2]))
=============================================================================
