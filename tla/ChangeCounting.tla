---------------------------- MODULE ChangeCounting ----------------------------
(***************************************************************************)
(* Counting behavioral changes and gating them (src/platform/counting.go,  *)
(* gate.go, and the columns promotion_store.go keeps of the check).        *)
(*                                                                         *)
(* A comparison's added identities are folded: one that was only ever      *)
(* recorded beneath other added identities is part of their change.  The   *)
(* candidate's retained observations are read in whatever order they were  *)
(* stored, a child perhaps before its parent; ambiguous or cyclic records  *)
(* refuse the whole fold.  The gate consumes the count under an optional   *)
(* limit, and the promotion stores what it consumed, column by column.     *)
(***************************************************************************)
EXTENDS Naturals, FiniteSets

CONSTANTS
    Identities,       \* behavioral identities
    Known,            \* those of the reference run
    Shapes,           \* what an observation may be: [trace, span, parent, id]
    MaxObservations,  \* how many the candidate retained at most
    Limits,           \* what a caller may set as a maximum
    None              \* an absent field, limit or column

\* Assumed of the constants; every instance for TLC says so with an ASSUME.
ShapesAssumption ==
    /\ Known \subseteq Identities /\ IsFiniteSet(Identities)
    /\ MaxObservations \in Nat /\ Limits \subseteq Nat
    /\ \A o \in Shapes : o.id \in Identities
    /\ None \notin Identities \cup Nat \cup BOOLEAN \cup {"complete", "partial", "unavailable"}

VARIABLES
    observations,  \* the candidate's retained history
    history,       \* how much of it was retained
    added,         \* the comparison's added identities
    todo,          \* observations the present pass has not read
    identityOf,    \* [span reference -> None or the identity it first carried]
    degraded,      \* a span was reported under two identities
    parents,       \* [Identities -> the identities recorded above it]
    independent,   \* identities with an occurrence nothing else explains
    left,          \* identities the cycle search has not removed
    changes,       \* the counted changes: [root -> its contributors]
    state,         \* the correlation state the count carries
    gate,          \* the counted-change check
    row,           \* its columns
    pc

vars == <<observations, history, added, todo, identityOf, degraded, parents, independent,
          left, changes, state, gate, row, pc>>

SpanRefs == {<<o.trace, o.span>> : o \in Shapes} \cup {<<o.trace, o.parent>> : o \in Shapes}

NotEvaluated == [state |-> "not_evaluated"]

Init ==
    /\ observations = {} /\ todo = {} /\ added = {}
    /\ identityOf = [r \in SpanRefs |-> None]
    /\ degraded = FALSE
    /\ parents = [i \in Identities |-> {}]
    /\ independent = {} /\ left = {}
    /\ changes = << >> /\ history = "unavailable" /\ state = "unavailable"
    /\ gate = NotEvaluated /\ row = None
    /\ pc = "running"

\* The candidate run retains an observation.
Retain(o) ==
    /\ pc = "running" /\ o \notin observations
    /\ Cardinality(observations) < MaxObservations
    /\ observations' = observations \cup {o}
    /\ UNCHANGED <<history, added, todo, identityOf, degraded, parents, independent, left,
                   changes, state, gate, row, pc>>

\* correlationStateFor: a run from before schema 7 retained nothing; only a
\* complete history holds every identity of the candidate's snapshot.
Compare(h) ==
    /\ pc = "running"
    /\ h = "unavailable" => observations = {}
    /\ history' = h /\ state' = h
    /\ added' = (IF h = "complete" THEN {o.id : o \in observations} ELSE Identities) \ Known
    /\ todo' = observations
    /\ pc' = "learn"
    /\ UNCHANGED <<observations, identityOf, degraded, parents, independent, left, changes,
                   gate, row>>

-----------------------------------------------------------------------------
(* buildBehaviorParentage: two passes, in any order. *)

\* The first pass keeps the identity a span was first seen under.
Learn(o) ==
    /\ pc = "learn" /\ o \in todo
    /\ todo' = todo \ {o}
    /\ LET ref == <<o.trace, o.span>>
           named == o.trace # None /\ o.span # None
       IN /\ identityOf' = IF named /\ identityOf[ref] = None
                             THEN [identityOf EXCEPT ![ref] = o.id] ELSE identityOf
          /\ degraded' = (degraded \/ (named /\ identityOf[ref] \notin {None, o.id}))
    /\ UNCHANGED <<observations, history, added, parents, independent, left, changes, state,
                   gate, row, pc>>

LearnedAll ==
    /\ pc = "learn" /\ todo = {}
    /\ todo' = observations /\ pc' = "classify"
    /\ UNCHANGED <<observations, history, added, identityOf, degraded, parents, independent,
                   left, changes, state, gate, row>>

\* Faulty variant: the parent is looked up in whatever trace names the span.
ParentInAnyTrace(o) ==
    LET refs == {r \in SpanRefs : r[2] = o.parent /\ identityOf[r] \notin {None, o.id}}
    IN IF o.parent = None \/ refs = {} THEN None ELSE identityOf[CHOOSE r \in refs : TRUE]

\* The identity recorded above an occurrence, None when nothing explains it.
ParentOf(o) ==
    LET above == IF o.parent = None \/ o.trace = None THEN None
                 ELSE identityOf[<<o.trace, o.parent>>]
    IN IF above = o.id THEN None ELSE above

\* The second pass: beneath another identity, or independent.
Classify(o) ==
    /\ pc = "classify" /\ o \in todo
    /\ todo' = todo \ {o}
    /\ IF ParentOf(o) = None
         THEN independent' = independent \cup {o.id} /\ parents' = parents
         ELSE parents' = [parents EXCEPT ![o.id] = @ \cup {ParentOf(o)}]
              /\ independent' = independent
    /\ UNCHANGED <<observations, history, added, identityOf, degraded, left, changes, state,
                   gate, row, pc>>

-----------------------------------------------------------------------------
(* foldAddedChanges. *)

unfoldedChanges == [i \in added |-> {i}]

\* Every occurrence of the identity is beneath an added one.
foldEligible(i) ==
    /\ i \notin independent
    /\ parents[i] # {}
    /\ parents[i] \subseteq added

AddedParents(i) == parents[i] \cap added

\* The added subgraph, parent above child.
AddedEdges == {e \in added \X added : e[1] \in parents[e[2]]}

\* The root and every added identity recorded beneath it: what each set holds
\* that has the root and, with an identity, everything beneath it.
reachableFrom(root) ==
    {i \in added : \A S \in SUBSET added :
        root \in S /\ (\A e \in AddedEdges : e[1] \in S => e[2] \in S) => i \in S}

\* Without a complete history, or with an ambiguous one, nothing is folded.
Fold ==
    /\ pc = "classify" /\ todo = {}
    /\ IF history # "complete" \/ degraded
         THEN /\ changes' = unfoldedChanges
              /\ state' = IF history = "complete" THEN "partial" ELSE history
              /\ left' = {} /\ pc' = "counted"
         ELSE left' = added /\ pc' = "peel" /\ UNCHANGED <<changes, state>>
    /\ UNCHANGED <<observations, history, added, todo, identityOf, degraded, parents,
                   independent, gate, row>>

\* hasCycle: an identity with no remaining added parent is removed, in any order.
Peel(i) ==
    /\ pc = "peel" /\ i \in left
    /\ AddedParents(i) \cap left = {}
    /\ left' = left \ {i}
    /\ UNCHANGED <<observations, history, added, todo, identityOf, degraded, parents,
                   independent, changes, state, gate, row, pc>>

\* Whatever is left sits on or behind a cycle, and refuses the whole fold.
Close ==
    /\ pc = "peel" /\ \A i \in left : AddedParents(i) \cap left # {}
    /\ IF left # {}
         THEN changes' = unfoldedChanges /\ state' = "partial"
         ELSE /\ changes' = [r \in {i \in added : ~foldEligible(i)} |-> reachableFrom(r)]
              /\ state' = state
    /\ pc' = "counted"
    /\ UNCHANGED <<observations, history, added, todo, identityOf, degraded, parents,
                   independent, left, gate, row>>

-----------------------------------------------------------------------------
(* EvaluateEvaluationGate, the counted-change check, and its columns. *)

Count == Cardinality(DOMAIN changes)

\* validateChangeCountArithmetic and validateChangeCountEvidence: the fold only
\* lowers a count, never to zero, and an incomplete one is the identity count.
ChangeCountValid ==
    /\ Count <= Cardinality(added)
    /\ added # {} => Count > 0
    /\ state # "complete" => Count = Cardinality(added)

\* An omitted limit is not evaluated, and neither passes nor fails.
EvaluateGate(maximum) ==
    /\ pc = "counted"
    /\ gate' = IF maximum = None THEN NotEvaluated
               ELSE IF ~ChangeCountValid THEN [state |-> "refused"]
               ELSE [state |-> "evaluated", actual |-> Count, maximum |-> maximum,
                     passed |-> Count <= maximum, correlation |-> state]
    /\ pc' = "gated"
    /\ UNCHANGED <<observations, history, added, todo, identityOf, degraded, parents,
                   independent, left, changes, state, row>>

\* changeGateColumns: NULL wherever the check carries no value.
changeGateColumns(g) ==
    IF g.state # "evaluated"
      THEN [check |-> g.state, maximum |-> None, actual |-> None, passed |-> None,
            correlation |-> None]
      ELSE [check |-> g.state, maximum |-> g.maximum, actual |-> g.actual,
            passed |-> g.passed, correlation |-> g.correlation]

\* A row written before schema 8 holds the column's default.
Store ==
    /\ pc = "gated" /\ gate.state # "refused"
    /\ row' \in {changeGateColumns(gate)} \cup
                (IF gate = NotEvaluated THEN {[changeGateColumns(gate) EXCEPT !.check = "not_recorded"]}
                 ELSE {})
    /\ pc' = "stored"
    /\ UNCHANGED <<observations, history, added, todo, identityOf, degraded, parents,
                   independent, left, changes, state, gate>>

\* restoreChangeGate, validateStoredChangeGate: the flag is taken as written; a
\* state whose columns do not fit it is corruption.
restoreChangeGate(r) ==
    LET present == {f \in DOMAIN r \ {"check"} : r[f] # None}
    IN IF present # IF r.check = "evaluated" THEN DOMAIN r \ {"check"} ELSE {}
         THEN [state |-> "corrupt"]
         ELSE IF r.check # "evaluated" THEN [state |-> r.check]
         ELSE [state |-> "evaluated", actual |-> r.actual, maximum |-> r.maximum,
               passed |-> r.passed, correlation |-> r.correlation]

Next ==
    \/ \E o \in Shapes : Retain(o) \/ Learn(o) \/ Classify(o)
    \/ \E h \in {"complete", "partial", "unavailable"} : Compare(h)
    \/ LearnedAll \/ Fold \/ Close \/ Store
    \/ \E i \in Identities : Peel(i)
    \/ \E maximum \in Limits \cup {None} : EvaluateGate(maximum)

Spec == Init /\ [][Next]_vars

-----------------------------------------------------------------------------
(* What the count means, said of the observations themselves. *)

\* An occurrence some added identity other than its own explains.
Explained(o) ==
    \E p \in observations :
        /\ o.trace # None /\ o.parent # None
        /\ p.trace = o.trace /\ p.span = o.parent
        /\ p.id \in added \ {o.id}

\* Two identities were reported for one span.
Ambiguous ==
    \E o, p \in observations :
        o.trace # None /\ o.span # None /\ o.trace = p.trace /\ o.span = p.span /\ o.id # p.id

\* An identity lies beneath itself, through added identities only.
Cyclic == \E S \in (SUBSET added) \ {{}} : \A i \in S : \E o, p \in observations :
    /\ o.id = i /\ p.id \in S \ {i}
    /\ o.trace # None /\ o.parent # None /\ p.trace = o.trace /\ p.span = o.parent

\* The identities that must be counted: some occurrence of theirs is not explained.
Unexplained == {i \in added : \E o \in observations : o.id = i /\ ~Explained(o)}

(* However the observations were ordered, a complete, unambiguous and acyclic
   history counts exactly the identities with an unexplained occurrence, every
   added identity contributes to some change, and any other history counts them
   all and says so (counting.go foldAddedChanges).  The gate passes on that
   count only, an omitted limit leaves no outcome, and what the promotion's
   columns restore is what was decided (promotion_store.go restoreChangeGate). *)
CountIsRight ==
    /\ pc \in {"counted", "gated", "stored"} =>
         /\ UNION {changes[r] : r \in DOMAIN changes} = added
         /\ ChangeCountValid
         /\ (state = "complete") <=> (history = "complete" /\ ~Ambiguous /\ ~Cyclic)
         /\ DOMAIN changes = IF state = "complete" THEN Unexplained ELSE added
    /\ gate.state # "refused"
    /\ pc \in {"gated", "stored"} /\ gate.state = "evaluated" =>
         (gate.passed <=> Cardinality(DOMAIN changes) <= gate.maximum)
    /\ pc = "stored" => restoreChangeGate(row) \in
         {gate} \cup (IF gate = NotEvaluated THEN {[state |-> "not_recorded"]} ELSE {})
=============================================================================
