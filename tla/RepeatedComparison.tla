-------------------------- MODULE RepeatedComparison --------------------------
(***************************************************************************)
(* Comparing N repetitions per side (src/platform/repeated.go,             *)
(* frequency.go, frequency_gate.go, comparison_rules.go), the gate record  *)
(* an execution keeps of it (scenario_gate_record.go), and the single-run  *)
(* comparison it generalises (behavior.go, scorecard.go, gate.go).         *)
(*                                                                         *)
(* Every run is loaded first, its status read, and only then the evidence  *)
(* of those that had completed.  A run's status, profile, environment and  *)
(* evidence are chosen when they are read, which is the only time they     *)
(* matter: a completed run no longer changes.                              *)
(***************************************************************************)
EXTENDS Naturals, Sequences, FiniteSets, FiniteSetsExt, SequencesExt

CONSTANTS
    Fingerprints,  \* behavioral identities, each of one behavior
    target,        \* [Fingerprints -> the target it calls]
    ModelLayer,    \* the fingerprints that are model calls
    RunCounts,     \* N, the repetitions per side
    MaxCalls,      \* how often one run calls one behavior at most
    Alarms,        \* the block decisions and critical-risk observations a run may have
    MaxUint,       \* the largest count that fits
    Limits,        \* the limits a caller may set
    None           \* an omitted limit

\* Assumed of the constants; every instance for TLC says so with an ASSUME.
CountsAssumption ==
    /\ IsFiniteSet(Fingerprints) /\ ModelLayer \subseteq Fingerprints
    /\ RunCounts \subseteq Nat \ {0} /\ {MaxCalls, MaxUint} \subseteq Nat
    /\ Alarms \subseteq [blocks : Nat, critical : Nat]
    /\ None \notin Nat
    /\ \A l \in Limits :
         /\ {l.k, l.j, l.maxAdded, l.maxBlocks, l.maxCritical} \subseteq Nat
         /\ {l.minFrequency, l.maxLost, l.maxModelCalls} \subseteq Nat \cup {None}
         /\ l.maxCalls # None => \A t \in DOMAIN l.maxCalls : l.maxCalls[t] \in Nat

VARIABLES
    n,       \* the repetitions per side
    inputs,  \* the repetitions read so far: reference 1..n, then candidate
    reduced, \* the repetitions reduced to counts
    result,  \* the comparison, once made
    pc

vars == <<n, inputs, reduced, result, pc>>

Side(i) == IF i <= n THEN "reference" ELSE "candidate"
Entries == [Fingerprints -> 0..MaxCalls]
NoEntries == [f \in Fingerprints |-> 0]

\* The sum of F over S, counted.
SumOver(S, F(_)) == Cardinality(UNION {{x} \X (1..F(x)) : x \in S})

Records(e) == SumOver(Fingerprints, LAMBDA f : e[f])

Init ==
    /\ n \in RunCounts
    /\ inputs = << >> /\ reduced = None /\ result = None
    /\ pc = "load"

-----------------------------------------------------------------------------
(* compareRepeatedWithInputs: the runs, then their evidence. *)

\* The next run.  A profile an earlier repetition ran under, another
\* environment or another project refuses the whole comparison.
LoadRun(status, shared, elsewhere) ==
    /\ pc = "load" /\ Len(inputs) < 2 * n
    /\ inputs # << >> \/ ~(shared \/ elsewhere)
    /\ IF shared \/ elsewhere THEN pc' = "refused" /\ inputs' = inputs
       ELSE /\ inputs' = Append(inputs, [side |-> Side(Len(inputs) + 1), status |-> status,
                                         entries |-> NoEntries, blocks |-> 0, critical |-> 0,
                                         read |-> FALSE])
            /\ pc' = pc
    /\ UNCHANGED <<n, reduced, result>>

NextUnread == SelectInSeq(inputs, LAMBDA in : ~in.read)

\* The next run's evidence.  A run that is not completed brings none, one that
\* ingested nothing has empty evidence.  A saturated snapshot, or a fingerprint
\* and a behavior that earlier repetitions paired otherwise, is refused.
ReadEvidence(e, alarms, unusable) ==
    /\ pc = "load" /\ Len(inputs) = 2 * n /\ NextUnread # 0
    /\ LET i == NextUnread
           done == inputs[i].status = "completed"
       IN /\ ~done => e = NoEntries /\ ~unusable
          /\ alarms.blocks <= Records(e) /\ alarms.critical <= Records(e)
          /\ Side(i) = "reference" => alarms.blocks = 0 /\ alarms.critical = 0
          /\ IF unusable THEN pc' = "refused" /\ inputs' = inputs
             ELSE /\ inputs' = [inputs EXCEPT ![i] = [@ EXCEPT !.entries = e, !.blocks = alarms.blocks,
                                                              !.critical = alarms.critical,
                                                              !.read = TRUE]]
                  /\ pc' = pc
    /\ UNCHANGED <<n, reduced, result>>

-----------------------------------------------------------------------------
(* reduceRepeated: one pass over the repetitions. *)

\* frequencyAccumulator: a key's calls over the runs it appeared in.
NoCalls == [total |-> 0, max |-> 0, minPresent |-> 0, presentRuns |-> 0]

addRun(acc, calls) ==
    IF calls = 0 THEN acc
    ELSE [total |-> acc.total + calls,
          max |-> IF calls > acc.max THEN calls ELSE acc.max,
          minPresent |-> IF acc.presentRuns = 0 \/ calls < acc.minPresent THEN calls
                         ELSE acc.minPresent,
          presentRuns |-> acc.presentRuns + 1]

\* Faulty variant: the minimum is taken over the runs that made the call.
StatsOfPresent(acc, runs) ==
    IF runs = 0 THEN [runs |-> 0]
    ELSE [runs |-> runs, total |-> acc.total, min |-> acc.minPresent, max |-> acc.max,
          mean |-> (acc.total * 1000) \div runs]

\* stats: a run in which the key did not appear is a run of zero calls.
stats(acc, runs) ==
    IF runs = 0 THEN [runs |-> 0]
    ELSE [runs |-> runs, total |-> acc.total,
          min |-> IF acc.presentRuns < runs THEN 0 ELSE acc.minPresent,
          max |-> acc.max,
          mean |-> (acc.total * 1000) \div runs]

Targets == {target[f] : f \in Fingerprints}

CallsTo(e, t) == SumOver({f \in Fingerprints : target[f] = t}, LAMBDA f : e[f])

ModelCalls(e) == SumOver(ModelLayer, LAMBDA f : e[f])

\* layerEvidenceOf, one entry per completed candidate run.
Layers(seq) ==
    [i \in {x \in DOMAIN seq : seq[x].side = "candidate" /\ seq[x].status = "completed"}
        |-> ModelCalls(seq[i].entries)]

Side0 == [completed |-> 0, behaviors |-> [f \in Fingerprints |-> NoCalls],
          targets |-> [t \in Targets |-> NoCalls]]

\* One completed repetition folded into its side; any count past MaxUint is an
\* error, never a wrapped figure.
FoldRun(acc, in) ==
    LET s == acc[in.side]
        behaviors == [f \in Fingerprints |-> addRun(s.behaviors[f], in.entries[f])]
        targets == [t \in Targets |-> addRun(s.targets[t], CallsTo(in.entries, t))]
    IN IF in.status # "completed" THEN acc
       ELSE [acc EXCEPT
               ![in.side] = [completed |-> s.completed + 1, behaviors |-> behaviors,
                             targets |-> targets],
               !.failingMinimum = @ + (IF Records(in.entries) = 0 THEN 1 ELSE 0),
               !.worstBlock = IF in.side = "candidate" /\ in.blocks > @ THEN in.blocks ELSE @,
               !.worstCR = IF in.side = "candidate" /\ in.critical > @ THEN in.critical ELSE @,
               !.overflow = @ \/ \E t \in Targets : targets[t].total > MaxUint]

reduceRepeated(seq) ==
    LET after[i \in 0..Len(seq)] ==
            IF i = 0 THEN [reference |-> Side0, candidate |-> Side0, failingMinimum |-> 0,
                           worstBlock |-> 0, worstCR |-> 0, overflow |-> FALSE]
            ELSE FoldRun(after[i - 1], seq[i])
    IN after[Len(seq)]

Present(r, side, f) == r[side].behaviors[f].presentRuns

\* The identities any completed repetition observed.
Seen(r) == {f \in Fingerprints : Present(r, "reference", f) + Present(r, "candidate", f) > 0}

classifyPresence(reference, candidate, k, j) ==
    CASE candidate >= k /\ reference <= j -> "added"
      [] reference >= k /\ candidate <= j -> "removed"
      [] OTHER -> "neither"

isLost(r, f) == Present(r, "reference", f) = n /\ Present(r, "candidate", f) < n

-----------------------------------------------------------------------------
(* The gate: six checks, and the optional frequency checks. *)

validateLimits(l) ==
    /\ l.k \in 1..n /\ l.j < l.k
    /\ l.minFrequency # None => l.minFrequency <= n

Deferred(c) == [check |-> c, state |-> "deferred"]
Omitted(c) == [check |-> c, state |-> "not_evaluated"]
Evaluated(c, rule, actual, bound) ==
    [check |-> c, state |-> "evaluated", rule |-> rule, actual |-> actual, bound |-> bound,
     passed |-> IF rule = "at_most" THEN actual <= bound
                ELSE IF rule = "at_least" THEN actual >= bound ELSE actual = bound]

AddedBehaviors(r, l) ==
    {f \in Seen(r) : classifyPresence(Present(r, "reference", f), Present(r, "candidate", f),
                                      l.k, l.j) = "added"}

Checks(r, l) ==
    << Evaluated("reference_repetitions_completed", "equals", r.reference.completed, n),
       Evaluated("candidate_repetitions_completed", "equals", r.candidate.completed, n),
       Evaluated("repetitions_failing_minimum_evidence", "at_most", r.failingMinimum, 0),
       Evaluated("repeatedly_added_behaviors", "at_most", Cardinality(AddedBehaviors(r, l)),
                 l.maxAdded),
       Evaluated("worst_candidate_block_decisions", "at_most", r.worstBlock, l.maxBlocks),
       Evaluated("worst_candidate_critical_risk_observations", "at_most", r.worstCR,
                 l.maxCritical) >>

missingSide(r) == r.reference.completed = 0 \/ r.candidate.completed = 0

\* The lowest candidate presence among behaviors of every reference run.
MinFrequency(r, l) ==
    LET qualifying == {f \in Seen(r) : Present(r, "reference", f) = n}
        lowest == Min({Present(r, "candidate", f) : f \in qualifying})
    IN IF l.minFrequency = None THEN Omitted("min_candidate_frequency")
       ELSE IF missingSide(r) \/ qualifying = {} THEN Deferred("min_candidate_frequency")
       ELSE Evaluated("min_candidate_frequency", "at_least", lowest, l.minFrequency)

MaxLost(r, l) ==
    IF l.maxLost = None THEN Omitted("max_lost_behaviors")
    ELSE IF missingSide(r) THEN Deferred("max_lost_behaviors")
    ELSE Evaluated("max_lost_behaviors", "at_most",
                   Cardinality({f \in Seen(r) : isLost(r, f)}), l.maxLost)

\* One outcome per configured target: a target neither side called fails, so
\* that a misspelt one does not pass.
MaxCallsPerRun(r, l) ==
    LET called(side, t) == t \in Targets /\ r[side].targets[t].presentRuns > 0
        actual(t) == IF called("candidate", t) THEN r.candidate.targets[t].max ELSE 0
        outcome(t) == CASE ~called("candidate", t) /\ ~called("reference", t) -> "not_observed"
                        [] called("candidate", t) /\ actual(t) > l.maxCalls[t] -> "fail"
                        [] OTHER -> "pass"
        outcomes == [t \in DOMAIN l.maxCalls |-> outcome(t)]
    IN IF l.maxCalls = None THEN Omitted("max_calls_per_run")
       ELSE IF r.candidate.completed = 0 THEN Deferred("max_calls_per_run")
       ELSE [check |-> "max_calls_per_run", state |-> "evaluated", targets |-> outcomes,
             passed |-> \A t \in DOMAIN outcomes : outcomes[t] = "pass"]

\* Deferred unless every candidate run shows a model call.
MaxLLMCallsPerRun(r, l, layers) ==
    IF l.maxModelCalls = None THEN Omitted("max_llm_calls_per_run")
    ELSE IF r.candidate.completed = 0 \/ \E i \in DOMAIN layers : layers[i] = 0
      THEN Deferred("max_llm_calls_per_run")
    ELSE Evaluated("max_llm_calls_per_run", "at_most", Max({layers[i] : i \in DOMAIN layers}),
                   l.maxModelCalls)

evaluateFrequencyGates(r, l, layers) ==
    << MinFrequency(r, l), MaxLost(r, l), MaxCallsPerRun(r, l), MaxLLMCallsPerRun(r, l, layers) >>

failsVerdict(c) == c.state = "deferred" \/ (c.state = "evaluated" /\ ~c.passed)

VerdictOf(checks, frequency) ==
    IF \A i \in DOMAIN checks : checks[i].passed
       /\ \A m \in DOMAIN frequency : ~failsVerdict(frequency[m])
      THEN "pass" ELSE "fail"

-----------------------------------------------------------------------------
(* The rules beside the gate (comparison_rules.go). *)

ruleAddedInAllRuns(r) ==
    {f \in Seen(r) : Present(r, "candidate", f) = n /\ Present(r, "reference", f) = 0}

ruleLostInHalf(r) ==
    {f \in Seen(r) : Present(r, "reference", f) = n /\ Present(r, "candidate", f) * 2 <= n}

-----------------------------------------------------------------------------

\* Every repetition has been read and is folded in.
Reduce ==
    /\ pc = "load" /\ Len(inputs) = 2 * n /\ NextUnread = 0
    /\ reduced' = reduceRepeated(inputs)
    /\ pc' = "reduced"
    /\ UNCHANGED <<n, inputs, result>>

\* compareRepeated: refused limits and overflows give no comparison at all.
Compare(l) ==
    /\ pc = "reduced"
    /\ LET r == reduced
           checks == Checks(r, l)
           frequency == evaluateFrequencyGates(r, l, Layers(inputs))
       IN IF ~validateLimits(l) \/ r.overflow THEN result' = [limits |-> l, refused |-> TRUE]
          ELSE result' =
            [limits |-> l, refused |-> FALSE, checks |-> checks, frequency |-> frequency,
             verdict |-> VerdictOf(checks, frequency),
             behaviors |-> [f \in Seen(r) |->
                [reference |-> stats(r.reference.behaviors[f], r.reference.completed),
                 candidate |-> stats(r.candidate.behaviors[f], r.candidate.completed),
                 class |-> classifyPresence(Present(r, "reference", f),
                                            Present(r, "candidate", f), l.k, l.j),
                 lost |-> isLost(r, f)]],
             suggested |-> [added |-> ruleAddedInAllRuns(r), lost |-> ruleLostInHalf(r)]]
    /\ pc' = "compared"
    /\ UNCHANGED <<n, inputs, reduced>>

Next ==
    \/ \E status \in {"completed", "failed"}, shared, elsewhere \in BOOLEAN :
         LoadRun(status, shared, elsewhere)
    \/ \E e \in Entries, alarms \in Alarms, unusable \in BOOLEAN :
         ReadEvidence(e, alarms, unusable)
    \/ Reduce \/ \E l \in Limits : Compare(l)

Spec == Init /\ [][Next]_vars

-----------------------------------------------------------------------------
(* The record an execution keeps of the gate. *)

\* ScenarioGateRecord.validate: bounds are the limits, outcomes agree with
\* their numbers, states agree with the limits supplied, and the verdict is
\* what the checks give.
RecordValid(rec, l) ==
    LET bounds == <<n, n, 0, l.maxAdded, l.maxBlocks, l.maxCritical>>
        supplied == <<l.minFrequency, l.maxLost, l.maxCalls, l.maxModelCalls>>
        holds(c) == CASE c.rule = "at_most" -> c.actual <= c.bound
                      [] c.rule = "at_least" -> c.actual >= c.bound /\ c.actual <= n
                      [] c.rule = "equals" -> c.actual = c.bound
    IN /\ validateLimits(l)
       /\ \A i \in 1..6 : rec.checks[i].bound = bounds[i] /\ rec.checks[i].passed = holds(rec.checks[i])
       /\ \A m \in 1..4 : LET c == rec.frequency[m] IN
            /\ (c.state = "not_evaluated") <=> (supplied[m] = None)
            /\ c.state = "evaluated" /\ m # 3 => c.bound = supplied[m] /\ c.passed = holds(c)
            /\ c.state = "evaluated" /\ m = 3 =>
                 /\ DOMAIN c.targets = DOMAIN l.maxCalls
                 /\ c.passed = \A t \in DOMAIN c.targets : c.targets[t] = "pass"
       /\ rec.verdict = VerdictOf(rec.checks, rec.frequency)

-----------------------------------------------------------------------------
(* The comparison's meaning, said of the repetitions as sets. *)

Repetitions(side) == {i \in DOMAIN inputs : inputs[i].side = side}
Finished(side) == {i \in Repetitions(side) : inputs[i].status = "completed"}
Shows(side, f) == {i \in Finished(side) : inputs[i].entries[f] > 0}

\* What a passing verdict may rest on.
MayPass(l) ==
    /\ Finished("reference") = Repetitions("reference")
    /\ Finished("candidate") = Repetitions("candidate")
    /\ \A i \in DOMAIN inputs : Records(inputs[i].entries) > 0
    /\ \A i \in Repetitions("candidate") :
         inputs[i].blocks <= l.maxBlocks /\ inputs[i].critical <= l.maxCritical
    /\ Cardinality({f \in Fingerprints :
           Cardinality(Shows("candidate", f)) >= l.k /\ Cardinality(Shows("reference", f)) <= l.j})
         <= l.maxAdded
    /\ l.minFrequency # None =>
         /\ \E f \in Fingerprints : Shows("reference", f) = Repetitions("reference")
         /\ \A f \in Fingerprints : Shows("reference", f) = Repetitions("reference") =>
              Cardinality(Shows("candidate", f)) >= l.minFrequency
    /\ l.maxLost # None =>
         Cardinality({f \in Fingerprints : /\ Shows("reference", f) = Repetitions("reference")
                                           /\ Shows("candidate", f) # Repetitions("candidate")})
           <= l.maxLost
    /\ l.maxCalls # None => \A t \in DOMAIN l.maxCalls :
         /\ \E i \in DOMAIN inputs : CallsTo(inputs[i].entries, t) > 0
         /\ \A i \in Repetitions("candidate") : CallsTo(inputs[i].entries, t) <= l.maxCalls[t]
    /\ l.maxModelCalls # None => \A i \in Repetitions("candidate") :
         ModelCalls(inputs[i].entries) \in 1..l.maxModelCalls

\* EvaluateEvaluationGate over the diff and the scorecard of one run per side.
SingleRunVerdict(reference, candidate, l) ==
    LET added == {f \in Fingerprints : candidate.entries[f] > 0 /\ reference.entries[f] = 0}
    IN IF /\ Records(reference.entries) >= 1 /\ Records(candidate.entries) >= 1
          /\ Cardinality(added) <= l.maxAdded /\ candidate.blocks <= l.maxBlocks
          /\ candidate.critical <= l.maxCritical
         THEN "pass" ELSE "fail"

Given(l) == [m \in {"minFrequency", "maxLost", "maxCalls", "maxModelCalls"} |-> l[m]]

(* The gate passes exactly when what the caller asked is shown by the
   repetitions, whatever their order within a side, and never on evidence that
   is missing; the figures are the true ones, never wrapped (repeated.go
   reduceRepeated, frequency.go).  With one run a side, k = 1, j = 0 and no
   frequency limit the verdict is the single-run gate's.  The execution's own
   record of the gate is always one its validation accepts, and what the rules
   suggest never contradicts the classification. *)
VerdictIsRight ==
    pc = "compared" /\ ~result.refused =>
      LET l == result.limits
          sum(side, f) == SumOver(Finished(side), LAMBDA i : inputs[i].entries[f])
      IN /\ (result.verdict = "pass") <=> MayPass(l)
         /\ \A f \in DOMAIN result.behaviors, side \in {"reference", "candidate"} :
              LET s == result.behaviors[f][side] IN
              Finished(side) # {} =>
                /\ s.total = sum(side, f) /\ s.total <= MaxUint
                /\ s.min = Min({inputs[i].entries[f] : i \in Finished(side)})
                /\ s.max = Max({inputs[i].entries[f] : i \in Finished(side)})
                /\ s.min * 1000 <= s.mean /\ s.mean <= s.max * 1000
         /\ n = 1 /\ l.k = 1 /\ l.j = 0 /\ (\A m \in DOMAIN Given(l) : Given(l)[m] = None)
              /\ Finished("reference") # {} /\ Finished("candidate") # {}
              => result.verdict = SingleRunVerdict(inputs[1], inputs[2], l)
         /\ RecordValid(result, l)
         /\ \A f \in result.suggested.added : result.behaviors[f].class = "added"
         /\ \A f \in result.suggested.lost : result.behaviors[f].lost
=============================================================================
