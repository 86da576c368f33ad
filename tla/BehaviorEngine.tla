---------------------------- MODULE BehaviorEngine ----------------------------
(***************************************************************************)
(* The engine of the root package for one baseline key: Analyze scores an  *)
(* event against what was learned, turns the score into trust and a risk   *)
(* level, and lets the policy decide; Observe later learns from the result *)
(* if the decision allows it. Analyze changes nothing, so it needs no step *)
(* of its own: a decision observed now was made on the baseline as it is   *)
(* or, when another observation came in between, as it was before that.    *)
(* Timestamps may run backwards.                                           *)
(*                                                                         *)
(* Averages and variances are kept as the set of values they were taken    *)
(* over, which decides whether a deviation is none, certain or graded.     *)
(* Scores are the grid 0 (none), 1 (partial, one half) and 2 (full).       *)
(***************************************************************************)
EXTENDS Integers, Sequences, FiniteSets

CONSTANTS
    Fingerprints,               \* behaviour identities (internal/fingerprint)
    NoFingerprint,              \* the empty string in LastFingerprintID
    Times,                      \* event timestamps
    Volatiles,                  \* VolatileFeatures: [error, latency, delegator]
    NoLatency, NoDelegator,
    maxFingerprints, maxPredecessors, maxTrigramPredecessors, maxDelegators,
    MinObservations, MinTransitionObservations, MinNGramObservations,
    Weights,                    \* signal name -> 0, 1 or 2
    SensitiveTargetFloor,       \* fingerprint -> the floor of its target, 0 if none
    Hours,                      \* hours in a day
    Rules, DefaultAction,       \* the policy; an invalid DefaultAction is also one without a reason
    MaxObserved                 \* bound on the observations of a behaviour

\* Assumed of the constants; every instance for TLC says so with an ASSUME.
EngineAssumption ==
    /\ NoFingerprint \notin Fingerprints /\ Times \subseteq Nat
    /\ {maxFingerprints, maxPredecessors, maxTrigramPredecessors, maxDelegators} \subseteq Nat

VARIABLES
    baseline,                   \* baseline.Baseline of the one key
    before,                     \* what it was before the last observation
    history                     \* ghost: the observations learned from, in order
vars == <<baseline, before, history>>

NonFinite == 3                  \* NaN or an infinity
Grid == 0..2
Decisions == {"allow", "observe_only", "alert", "challenge", "require_approval", "block"}
Risks == <<"low", "medium", "high", "critical">>
Approvals == {"unspecified", "approved"}
Events == [fp : Fingerprints, at : Times, vol : Volatiles]

-----------------------------------------------------------------------------
\* Baseline

Empty == [x \in {} |-> 0]
Stats0 == [count |-> 0, first |-> 0, last |-> 0, intervals |-> {}, latencies |-> {}, errors |-> 0, hours |-> {},
           predecessors |-> Empty, outgoing |-> 0, trigrams |-> Empty, continuations |-> Empty]
New == [stats |-> [f \in {} |-> Stats0], lastObserved |-> 0, last |-> NoFingerprint, lastTime |-> 0,
        previous |-> NoFingerprint, delegators |-> Empty]

\* recordPredecessor, recordTrigram, recordTrigramContinuation and
\* recordDelegator are this one bounded counter: a tracked key always counts,
\* a new one only while there is room, and nothing is evicted.
Bump(counts, key, bound) ==
    IF key \in DOMAIN counts THEN [counts EXCEPT ![key] = @ + 1]
    ELSE IF Cardinality(DOMAIN counts) >= bound THEN counts
    ELSE [k \in DOMAIN counts \cup {key} |-> IF k = key THEN 1 ELSE counts[k]]
recordPredecessor(counts, p) == Bump(counts, p, maxPredecessors)
recordTrigram(counts, g, p) == Bump(counts, <<g, p>>, maxTrigramPredecessors)
recordTrigramContinuation(counts, g) == Bump(counts, g, maxTrigramPredecessors)
recordDelegator(counts, d) == IF d = NoDelegator THEN counts ELSE Bump(counts, d, maxDelegators)

HourOf(at) == at % Hours

observe(s, e, predecessor, grandparent) ==
    [s EXCEPT !.count = @ + 1,
              !.first = IF s.count = 0 THEN e.at ELSE @,
              !.intervals = IF s.count > 0 /\ e.at > s.last THEN @ \cup {e.at - s.last} ELSE @,
              !.last = IF e.at > @ THEN e.at ELSE @,
              !.hours = @ \cup {HourOf(e.at)},
              !.latencies = IF e.vol.latency # NoLatency THEN @ \cup {e.vol.latency} ELSE @,
              !.errors = IF e.vol.error THEN @ + 1 ELSE @,
              !.predecessors = IF predecessor # NoFingerprint THEN recordPredecessor(@, predecessor) ELSE @,
              !.trigrams = IF predecessor # NoFingerprint /\ grandparent # NoFingerprint
                           THEN recordTrigram(@, grandparent, predecessor) ELSE @]

\* What the predecessor learns: it was left once more, and from where it had come.
left(s, grandparent) ==
    [s EXCEPT !.outgoing = @ + 1,
              !.continuations = IF grandparent # NoFingerprint THEN recordTrigramContinuation(@, grandparent) ELSE @]

\* Faulty variant: an event that comes late still ends a transition.
AnyOrder(bl, e) == bl.last # NoFingerprint

\* A transition needs a predecessor and a strictly later time.
validTransition(bl, e) == bl.last # NoFingerprint /\ e.at > bl.lastTime

advances(bl, e) == bl.last = NoFingerprint \/ e.at > bl.lastTime
admit(bl, e) == e.fp \in DOMAIN bl.stats \/ Cardinality(DOMAIN bl.stats) < maxFingerprints

BaselineObserve(bl, e) ==
    LET predecessor == IF validTransition(bl, e) THEN bl.last ELSE NoFingerprint
        grandparent == IF validTransition(bl, e) THEN bl.previous ELSE NoFingerprint
        known == DOMAIN bl.stats
        kept == IF admit(bl, e) THEN known \cup {e.fp} ELSE known
        learnt == [f \in kept |->
                     LET s == IF f \in known THEN bl.stats[f] ELSE Stats0
                     IN IF f = e.fp THEN observe(s, e, predecessor, grandparent) ELSE s]
        moved == advances(bl, e) /\ admit(bl, e)
    IN [stats |-> [f \in kept |-> IF f = predecessor THEN left(learnt[f], grandparent) ELSE learnt[f]],
        lastObserved |-> e.at,
        last |-> IF moved THEN e.fp ELSE bl.last,
        lastTime |-> IF moved THEN e.at ELSE bl.lastTime,
        previous |-> IF moved THEN bl.last ELSE bl.previous,
        delegators |-> recordDelegator(bl.delegators, e.vol.delegator)]

-----------------------------------------------------------------------------
\* Anomaly signals. Each is the set of strengths it may have.

StatsOf(bl, f) == IF f \in DOMAIN bl.stats THEN bl.stats[f] ELSE Stats0
At(counts, k) == IF k \in DOMAIN counts THEN counts[k] ELSE 0

\* familiarity: the share of MinObservations reached, and the score's confidence
familiarity(bl, e) ==
    LET n == StatsOf(bl, e.fp).count
    IN IF e.fp \notin DOMAIN bl.stats THEN 0
       ELSE IF n >= MinObservations THEN 2 ELSE IF n = 0 THEN 0 ELSE 1
novelty(bl, e) == {2 - familiarity(bl, e)}

\* A value against the average of those seen: no spread makes any difference
\* full; with a spread the z-score may be anything, none included.
Deviation(seen, value) ==
    IF seen = {} \/ seen = {value} THEN {0} ELSE IF Cardinality(seen) = 1 THEN {2} ELSE Grid
latencySignal(s, e) == IF e.vol.latency = NoLatency THEN {0} ELSE Deviation(s.latencies, e.vol.latency)
frequencySignal(s, e) == IF e.at <= s.last THEN {0} ELSE Deviation(s.intervals, e.at - s.last)
\* The share of this hour against a uniform day; an hour never seen is full.
timePatternSignal(s, e) ==
    IF s.count = 0 \/ s.count < MinObservations \/ s.hours = {HourOf(e.at)} THEN {0}
    ELSE IF HourOf(e.at) \in s.hours THEN {0, 1} ELSE {2}
\* The share of errors so far: an error is no news where every one failed.
errorSignal(s, e) ==
    IF ~e.vol.error THEN {0}
    ELSE IF s.errors = 0 THEN {2} ELSE IF s.errors = s.count THEN {0} ELSE {1}
delegationSignal(bl, e) ==
    {IF e.vol.delegator = NoDelegator \/ At(bl.delegators, e.vol.delegator) > 0 THEN 0 ELSE 2}

\* A pair never seen is a deviation; a pair seen is as rare as its share.
transitionSignal(bl, s) == {IF At(s.predecessors, bl.last) > 0 THEN 0 ELSE 2}
Rarity(count, total, minimum) ==
    {IF count = 0 \/ total = 0 \/ total < minimum \/ count >= total THEN 0 ELSE 1}
transitionRaritySignal(bl, s) ==
    Rarity(At(s.predecessors, bl.last), StatsOf(bl, bl.last).outgoing, MinTransitionObservations)
markovSurprisalSignal(bl, s) == transitionRaritySignal(bl, s)
ngramDeviationSignal(bl, s) == {IF At(s.trigrams, <<bl.previous, bl.last>>) > 0 THEN 0 ELSE 2}
ngramRaritySignal(bl, s) ==
    Rarity(At(s.trigrams, <<bl.previous, bl.last>>),
           At(StatsOf(bl, bl.last).continuations, bl.previous), MinNGramObservations)

\* Sequence signals look at an event only when it would extend the sequence.
Sequenced(bl, e) == validTransition(bl, e)

Names == {"categorical_novelty", "latency_deviation", "frequency_deviation", "time_pattern_deviation",
          "transition_deviation", "transition_rarity", "markov_surprisal", "ngram_deviation", "ngram_rarity",
          "error_deviation", "delegation_deviation", "sensitive_target"}
Strengths(bl, e) ==
    LET s == StatsOf(bl, e.fp)
        inOrder(signal) == IF Sequenced(bl, e) THEN signal ELSE {0}
        afterTwo(signal) == IF Sequenced(bl, e) /\ bl.previous # NoFingerprint THEN signal ELSE {0}
    IN [categorical_novelty |-> novelty(bl, e),
        latency_deviation |-> latencySignal(s, e),
        frequency_deviation |-> frequencySignal(s, e),
        time_pattern_deviation |-> timePatternSignal(s, e),
        transition_deviation |-> inOrder(transitionSignal(bl, s)),
        transition_rarity |-> inOrder(transitionRaritySignal(bl, s)),
        markov_surprisal |-> inOrder(markovSurprisalSignal(bl, s)),
        ngram_deviation |-> afterTwo(ngramDeviationSignal(bl, s)),
        ngram_rarity |-> afterTwo(ngramRaritySignal(bl, s)),
        error_deviation |-> errorSignal(s, e),
        delegation_deviation |-> delegationSignal(bl, e),
        sensitive_target |-> {SensitiveTargetFloor[e.fp]}]

\* The Markov signal replaces the rarity it is a transform of.
WeightOf(n) == IF n = "sensitive_target" THEN 2
               ELSE IF n = "transition_rarity" /\ Weights["markov_surprisal"] > 0 THEN 0
               ELSE Weights[n]
Contribution(strength, weight) == IF strength * weight = 4 THEN 2 ELSE IF strength * weight = 0 THEN 0 ELSE 1

\* combine: one minus the product of what the contributions leave.
combine(strengths) ==
    LET contributions == {{Contribution(x, WeightOf(n)) : x \in strengths[n]} : n \in Names}
    IN {x \in Grid : CASE x = 0 -> \A c \in contributions : 0 \in c
                        [] x = 1 -> {2} \notin contributions /\ \E c \in contributions : 1 \in c
                        [] x = 2 -> \E c \in contributions : 2 \in c}
Score(bl, e) == combine(Strengths(bl, e))

-----------------------------------------------------------------------------
\* Trust and policy

clampFavorable(v) == IF v = NonFinite THEN 0 ELSE v
clampAdverse(v) == IF v = NonFinite THEN 2 ELSE v

\* identity * (1 - anomaly * confidence) * (1 - context), over 16
Compute(anomaly, confidence, identity, context) ==
    clampFavorable(identity) * (4 - clampAdverse(anomaly) * clampAdverse(confidence)) * (2 - clampAdverse(context))
riskRank(score) ==
    IF 16 - score >= 12 THEN 4 ELSE IF 16 - score >= 8 THEN 3 ELSE IF 16 - score >= 4 THEN 2 ELSE 1

\* Every risk a score and a confidence may come to, over identities and contexts.
RiskRanks == [x \in Grid, c \in Grid |->
                 {riskRank(Compute(x, c, i, k)) : i \in Grid, k \in Grid \cup {NonFinite}}]

\* A rule is [when, unless, action]; a condition [fps, minRisk, approvals], a
\* field that is not set being the full set or the lowest risk. Conditions on
\* attributes, which tell events of one fingerprint apart, are left out.
Matches(c, e, rank, approval) == e.fp \in c.fps /\ rank >= c.minRisk /\ approval \in c.approvals
Evaluate(e, rank, approval) ==
    LET fires(i) == /\ Matches(Rules[i].when, e, rank, approval)
                    /\ ~Matches(Rules[i].unless, e, rank, approval)
        firing == {i \in DOMAIN Rules : fires(i)}
    IN IF firing # {} THEN Rules[CHOOSE i \in firing : \A j \in firing : i <= j].action
       ELSE IF DefaultAction \in Decisions THEN DefaultAction ELSE "block"

\* Every risk the event may be judged to have on a baseline.
RanksOf(bl, e) == UNION {RiskRanks[x, familiarity(bl, e)] : x \in Score(bl, e)}

\* Analyze: every decision the event may be given, on the baseline as it is now or
\* on the one before, where another event was learned in between.
Analyze(e) ==
    {Evaluate(e, rank, approval) :
        rank \in RanksOf(baseline, e) \cup RanksOf(before, e), approval \in Approvals}

eligibleForLearning(d) == d \in {"allow", "observe_only", "alert"}

-----------------------------------------------------------------------------
Init == baseline = New /\ before = New /\ history = <<>>

\* Observe of a result whose decision permits learning.
Learn(e, decision) ==
    /\ eligibleForLearning(decision)
    /\ baseline' = BaselineObserve(baseline, e)
    /\ before' = baseline
    /\ history' = Append(history, e)

\* Observe of any other result returns before it reaches the store.
Refuse(decision) ==
    /\ ~eligibleForLearning(decision)
    /\ UNCHANGED vars

Next ==
    /\ Len(history) < MaxObserved
    /\ \E e \in Events : \E decision \in Analyze(e) : Learn(e, decision) \/ Refuse(decision)
Spec == Init /\ [][Next]_vars

-----------------------------------------------------------------------------
\* What the history says, counted from its events rather than step by step.

\* Reading the history: the observations of the first maxFingerprints different
\* behaviours were admitted; one is ahead when it is later than every admitted
\* one before it; those both admitted and ahead are the actor's sequence, and
\* "after" gives each observation, and the next one to come, its place in it.
Reading ==
    LET seen == DOMAIN history
        first == {i \in seen : \A j \in 1..(i - 1) : history[j].fp # history[i].fp}
        room == {history[k].fp : k \in {k \in first : Cardinality({j \in first : j <= k}) <= maxFingerprints}}
        admitted == {i \in seen : history[i].fp \in room}
        ahead == {i \in seen : \A j \in admitted : j < i => history[j].at < history[i].at}
        before_(i) == {j \in admitted \cap ahead : j < i}
    IN [room |-> room, ahead |-> ahead,
        after |-> [i \in 1..(Len(history) + 1) |->
                     IF before_(i) = {} THEN 0 ELSE CHOOSE j \in before_(i) : \A k \in before_(i) : k <= j]]
FpOf(i) == IF i = 0 THEN NoFingerprint ELSE history[i].fp
\* The observations that followed p, and g before p; they need not have been admitted.
Followers(r, p) == {i \in r.ahead : FpOf(r.after[i]) = p}
FollowersOfTwo(r, g, p) == {i \in Followers(r, p) : FpOf(r.after[r.after[i]]) = g}
OfFp(f) == {i \in DOMAIN history : history[i].fp = f}

\* A bounded counter agrees with the history: what it tracks is exact, and what
\* it does not track never happened or found it full.
Agrees(counts, k, events, bound) ==
    IF k \in DOMAIN counts THEN counts[k] = Cardinality(events)
    ELSE events = {} \/ Cardinality(DOMAIN counts) = bound

\* Learned behaviour (internal/baseline) is exactly the history it was learned
\* from, whatever order the timestamps came in: every count of a behaviour, of
\* a transition and of a sequence of three equals what the events themselves
\* say, a late event invents no transition, and a full table loses only what is
\* new to it. So no transition can be counted more often than its predecessor
\* was left, which is what keeps a rarity within [0, 1].
BaselineIsHistory ==
    LET r == Reading
    IN /\ DOMAIN baseline.stats = r.room
       /\ \A f \in r.room :
            LET s == baseline.stats[f]
            IN /\ s.count = Cardinality(OfFp(f))
               /\ \A i \in OfFp(f) : history[i].at <= s.last
               /\ s.outgoing = Cardinality(Followers(r, f))
               /\ \A p \in Fingerprints :
                    /\ Agrees(s.predecessors, p, OfFp(f) \cap Followers(r, p), maxPredecessors)
                    /\ Agrees(s.continuations, p, FollowersOfTwo(r, p, f), maxTrigramPredecessors)
                    /\ \A g \in Fingerprints :
                         Agrees(s.trigrams, <<g, p>>, OfFp(f) \cap FollowersOfTwo(r, g, p), maxTrigramPredecessors)
       /\ \A v \in Volatiles :
            v.delegator # NoDelegator =>
               Agrees(baseline.delegators, v.delegator,
                      {i \in DOMAIN history : history[i].vol.delegator = v.delegator}, maxDelegators)

\* The anomaly signals of internal/anomaly say what the history says: an event
\* out of order is never scored for its place in the sequence; a transition the
\* actor has made and the table holds is never reported as never made; a
\* rarity never exceeds its bound (its count within its total); and a
\* transition is reported as new or as rare, never as both.
SignalsAreTrue ==
    LET r == Reading
        tail == r.after[Len(history) + 1]
        after_ == Followers(r, FpOf(tail))
    IN \A f \in Fingerprints, t \in Times :
      LET x == Strengths(baseline, [fp |-> f, at |-> t, vol |-> CHOOSE v \in Volatiles : TRUE])
          s == StatsOf(baseline, f)
          inOrder == tail # 0 /\ history[tail].at < t
          made == IF tail = 0 THEN {} ELSE OfFp(f) \cap after_
          new == made = {} \/ f \notin r.room \/ Cardinality(DOMAIN s.predecessors) = maxPredecessors
      IN /\ x.transition_deviation = {2} => inOrder /\ new
         /\ inOrder /\ made = {} => x.transition_deviation = {2}
         /\ x.transition_rarity # {0} => inOrder /\ made # {} /\ Cardinality(made) < Cardinality(after_)
         /\ x.ngram_rarity # {0} =>
               At(s.trigrams, <<baseline.previous, baseline.last>>)
                  < At(baseline.stats[baseline.last].continuations, baseline.previous)

\* Trust is cautious (internal/trust): whatever the baseline and the event, a
\* context risk that is not a number is treated no better than any number, and
\* more anomaly, more context risk or less identity never lowers the risk.
TrustIsCautious ==
    history = <<>> => \A a, c, i \in Grid, k \in Grid \cup {NonFinite} :
      LET risk == riskRank(Compute(a, c, i, k))
      IN /\ k = NonFinite => \A n \in Grid : risk >= riskRank(Compute(a, c, i, n))
         /\ \A b, j, n \in Grid : (b <= a /\ i <= j /\ n <= k) => riskRank(Compute(b, c, j, n)) <= risk

\* What Analyze rests its decision on is sound: the signals and the trust.
DecisionsAreSound == SignalsAreTrue /\ TrustIsCautious
=============================================================================
