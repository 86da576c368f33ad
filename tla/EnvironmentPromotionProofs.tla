--------------------- MODULE EnvironmentPromotionProofs ---------------------
(***************************************************************************)
(* Proofs about environments and promotions, for every set of requests,    *)
(* projects, refs and runs, every cap, and both stores; and, over their    *)
(* own proof modules, about the parts MCRegistry runs beside them: the     *)
(* executions of a scope, and the evidence of a run on PostgreSQL.         *)
(***************************************************************************)
EXTENDS MCRegistry, FiniteSetTheorems, TLAPS

-----------------------------------------------------------------------------
(* The inductive invariant. *)

OptionalRank == Ranks \cup {None}
PositionType == [ref : Refs, rank : OptionalRank, rev : Nat \ {0}]
DecisionType ==
    [project : Projects, reference : Runs, candidate : Runs, source : PositionType,
     target : PositionType, verdict : {"pass", "fail"}, outcome : {"accepted", "rejected"},
     id : Requests]

\* What a request may carry from one of its steps to the next.
Creating == [at : {"creating", "counted"}, key : Keys, rank : OptionalRank]
Updating == [at : {"updating"}, key : Keys, previous : Row, next : Row]
Admitted == [at : {"admitted"}, run : Runs]
Sourced  == [at : {"sourced"}, reference : Runs, candidate : Runs, from : Keys,
             source : Row, to : Keys]
Ordered  == [at : {"ordered"}, reference : Runs, candidate : Runs, from : Keys,
             source : Row, to : Keys, target : Row]
Decided  == [at : {"decided", "revalidated"}, locked : 0..2, decision : DecisionType]

RequestType ==
    {Idle, Ended} \cup Creating \cup Updating \cup Admitted \cup Sourced \cup Ordered
        \cup Decided

Typed == TypeOK /\ req \in [Requests -> RequestType]

\* The rows a decision locks, first and second.
RowLock(d, i) == Lock(<<d.project, promotionEnvironmentOrder(d)[i]>>)

\* A request holds the locks its progress says, and no other.
HoldsProject(q, r, h) ==
    r.at \in {"creating", "counted"} => h[Lock(<<r.key[1]>>)] = q
HoldsRows(q, r, h) ==
    r.at \in {"decided", "revalidated"} =>
        /\ r.locked >= 1 => h[RowLock(r.decision, 1)] = q
        /\ r.locked = 2 => h[RowLock(r.decision, 2)] = q
        /\ r.at = "revalidated" => r.locked = 2
HoldsNoMore(q, r, h) ==
    \A l \in Locks : h[l] = q =>
        \/ r.at \in {"creating", "counted"}
        \/ /\ r.at \in {"decided", "revalidated"}
           /\ \/ r.locked >= 1 /\ l = RowLock(r.decision, 1)
              \/ r.locked = 2 /\ l = RowLock(r.decision, 2)
Holding(q, r, h) == HoldsProject(q, r, h) /\ HoldsRows(q, r, h) /\ HoldsNoMore(q, r, h)
LockInv == \A q \in Requests : Holding(q, req[q], held)

\* The count is right until the insert that rests on it, and a row is as many
\* revisions old as it has acknowledged changes.
Present(e, p) == {r \in Refs : e[<<p, r>>] # None}
Count(e, p) == Cardinality(Present(e, p))
CountInv ==
    /\ \A p \in Projects : Count(envs, p) <= MaxEnvironments
    /\ \A q \in Requests : req[q].at = "counted" =>
           /\ envs[req[q].key] = None
           /\ Count(envs, req[q].key[1]) < MaxEnvironments
RevisionInv ==
    /\ \A k \in Keys : IF envs[k] = None THEN acked[k] = 0 ELSE envs[k].rev = 1 + acked[k]
    /\ \A q \in Requests : req[q].at = "updating" =>
           envs[req[q].key] # None /\ req[q].next.rev = req[q].previous.rev + 1

\* A row read earlier: it still exists, and is the current one unless the
\* revision has moved on.
Remembers(e, k, rank, rev) ==
    /\ e[k] # None
    /\ rev <= e[k].rev
    /\ rev = e[k].rev => rank = e[k].rank
SamePair(u, reference, candidate, owning, env) ==
    /\ \A r \in {reference, candidate} :
           u[r] = "completed" /\ RunInfo[r].project = owning /\ RunInfo[r].env = env
    /\ RunInfo[reference].agent = RunInfo[candidate].agent
Unmoved(e, d) ==
    /\ e[<<d.project, d.source.ref>>].rev = d.source.rev
    /\ e[<<d.project, d.target.ref>>].rev = d.target.rev
    /\ CanPromote(e[<<d.project, d.source.ref>>], e[<<d.project, d.target.ref>>])
ReadSource(e, u, r) ==
    /\ Remembers(e, r.from, r.source.rank, r.source.rev)
    /\ SamePair(u, r.reference, r.candidate, r.from[1], r.from[2])
    /\ r.to[1] = r.from[1]
ReadPair(e, u, d) ==
    /\ Remembers(e, <<d.project, d.source.ref>>, d.source.rank, d.source.rev)
    /\ Remembers(e, <<d.project, d.target.ref>>, d.target.rank, d.target.rev)
    /\ SamePair(u, d.reference, d.candidate, d.project, d.source.ref)
    /\ d.outcome = "accepted" <=> d.verdict = "pass"
\* What a promotion under way has read, with e for the rows and u for the runs.
HasRead(e, u, r) ==
    /\ r.at \in {"sourced", "ordered"} => ReadSource(e, u, r)
    /\ r.at = "ordered" => Remembers(e, r.to, r.target.rank, r.target.rev)
    /\ r.at \in {"decided", "revalidated"} => ReadPair(e, u, r.decision)
    /\ r.at = "revalidated" => Unmoved(e, r.decision)
ReadInv == \A q \in Requests : HasRead(envs, runs, req[q])

RegistryInv == Typed /\ LockInv /\ CountInv /\ RevisionInv /\ ReadInv

-----------------------------------------------------------------------------
(* Lemmas. *)

\* The step a request is at tells what it carries.
LEMMA RequestShape ==
  ASSUME NEW x \in RequestType
  PROVE  /\ x.at \in {"creating", "counted"} => x \in Creating
         /\ x.at = "updating" => x \in Updating
         /\ x.at = "admitted" => x \in Admitted
         /\ x.at = "sourced" => x \in Sourced
         /\ x.at = "ordered" => x \in Ordered
         /\ x.at \in {"decided", "revalidated"} => x \in Decided
  BY DEF RequestType, Creating, Updating, Admitted, Sourced, Ordered, Decided, Idle, Ended

\* Every lock a request may ask for is one of the locks.
LEMMA LockIsLock ==
  ASSUME NEW p \in Projects, NEW r \in Refs
  PROVE  Lock(<<p>>) \in Locks /\ Lock(<<p, r>>) \in Locks
  BY EnvironmentAssumption DEF Lock, Locks, Keys, Database

\* Both rows of a decision are rows, and each of the two is locked.
LEMMA OrderIsBoth ==
  ASSUME NEW d \in DecisionType
  PROVE  LET o == promotionEnvironmentOrder(d)
         IN /\ o[1] \in Refs /\ o[2] \in Refs /\ o[1] <= o[2]
            /\ d.source.ref \in {o[1], o[2]} /\ d.target.ref \in {o[1], o[2]}
            /\ RowLock(d, 1) \in Locks /\ RowLock(d, 2) \in Locks
  <1>1. d.source.ref \in Refs /\ d.target.ref \in Refs /\ d.project \in Projects
    BY DEF DecisionType, PositionType
  <1>2. d.source.ref \in Nat /\ d.target.ref \in Nat
    BY <1>1, EnvironmentAssumption
  <1>3. /\ promotionEnvironmentOrder(d)[1] \in Refs /\ promotionEnvironmentOrder(d)[2] \in Refs
        /\ promotionEnvironmentOrder(d)[1] <= promotionEnvironmentOrder(d)[2]
        /\ d.source.ref \in {promotionEnvironmentOrder(d)[1], promotionEnvironmentOrder(d)[2]}
        /\ d.target.ref \in {promotionEnvironmentOrder(d)[1], promotionEnvironmentOrder(d)[2]}
    <2>1. CASE d.target.ref < d.source.ref
      <3>1. /\ promotionEnvironmentOrder(d)[1] = d.target.ref
            /\ promotionEnvironmentOrder(d)[2] = d.source.ref
        BY <2>1 DEF promotionEnvironmentOrder
      <3>2. d.target.ref <= d.source.ref
        BY <1>2, <2>1
      <3>. QED BY <1>1, <3>1, <3>2
    <2>2. CASE ~(d.target.ref < d.source.ref)
      <3>1. /\ promotionEnvironmentOrder(d)[1] = d.source.ref
            /\ promotionEnvironmentOrder(d)[2] = d.target.ref
        BY <2>2 DEF promotionEnvironmentOrder
      <3>2. d.source.ref <= d.target.ref
        BY <1>2, <2>2
      <3>. QED BY <1>1, <3>1, <3>2
    <2>. QED BY <2>1, <2>2
  <1>. QED
    BY <1>1, <1>3, LockIsLock DEF RowLock

\* Applying a change to a row gives a row, one revision on.
LEMMA ApplyType ==
  ASSUME NEW row \in Row, NEW change \in Changes
  PROVE  Apply(row, change) \in Row /\ Apply(row, change).rev = row.rev + 1
  BY EnvironmentAssumption DEF Apply, Row, Changes, Ranks

\* A new environment is a row at revision one.
LEMMA NewType ==
  ASSUME NEW rank \in OptionalRank
  PROVE  NewEnvironment(rank) \in Row /\ NewEnvironment(rank).rev = 1
  BY DEF NewEnvironment, Row, OptionalRank

-----------------------------------------------------------------------------
(* Types. *)

\* The rows, requests and locks a project begins with are well formed.
LEMMA InitTyped == Init => Typed
  <1> SUFFICES ASSUME Init PROVE Typed
    OBVIOUS
  <1>1. envs \in [Keys -> Row \cup {None}]
    <2>1. \A rank \in InitialRanks : NewEnvironment(rank) \in Row
      BY NewType, EnvironmentAssumption DEF OptionalRank, Ranks
    <2>2. {None} \cup {NewEnvironment(rank) : rank \in InitialRanks} \subseteq Row \cup {None}
      BY <2>1
    <2>3. envs \in [Keys -> {None} \cup {NewEnvironment(rank) : rank \in InitialRanks}]
      BY DEF Init
    <2>. QED BY <2>2, <2>3
  <1>2. req \in [Requests -> RequestType]
    BY DEF Init, RequestType
  <1>. QED
    BY <1>1, <1>2 DEF Init, Typed, TypeOK

\* Ending a request frees what it held and nothing else.
LEMMA EndsType ==
  ASSUME Typed, NEW q \in Requests, Ends(q)
  PROVE  /\ held' \in [Locks -> Requests \cup {None}]
         /\ req' \in [Requests -> RequestType]
         /\ req'[q] = Ended
         /\ \A x \in Requests \ {q} : req'[x] = req[x]
         /\ \A l \in Locks : held'[l] = IF held[l] = q THEN None ELSE held[l]
  BY DEF Ends, Typed, TypeOK, RequestType

\* Every statement of a request keeps rows, locks and requests well formed.
LEMMA TypedStep == ASSUME Typed, [Next]_vars PROVE Typed'
  <1> USE DEF Typed
  <1>0. /\ envs \in [Keys -> Row \cup {None}]
        /\ runs \in [Runs -> {"absent", "created", "completed"}]
        /\ held \in [Locks -> Requests \cup {None}]
        /\ acked \in [Keys -> Nat]
        /\ req \in [Requests -> RequestType]
    BY DEF TypeOK
  <1>1. CASE UNCHANGED vars
    BY <1>1 DEF vars, TypeOK
  <1>2. ASSUME NEW r \in Runs, RunCompletes(r) PROVE Typed'
    BY <1>0, <1>2 DEF RunCompletes, TypeOK
  <1>3. ASSUME NEW q \in Requests, Begin(q) PROVE Typed'
    <2>1. CASE LockProject(q)
      <3>1. PICK p \in Projects, r \in Refs, rank \in Ranks \cup {None} :
               /\ held' = [held EXCEPT ![Lock(<<p>>)] = q]
               /\ req' = [req EXCEPT ![q] = [at |-> "creating", key |-> <<p, r>>, rank |-> rank]]
        BY <2>1 DEF LockProject, Takes
      <3>2. [at |-> "creating", key |-> <<p, r>>, rank |-> rank] \in RequestType
        BY DEF RequestType, Creating, Keys, OptionalRank
      <3>3. req' \in [Requests -> RequestType]
        BY <1>0, <3>1, <3>2
      <3>4. held' \in [Locks -> Requests \cup {None}]
        BY <1>0, <3>1
      <3>. QED BY <1>0, <2>1, <3>3, <3>4 DEF LockProject, TypeOK
    <2>2. CASE MutateLoad(q)
      <3>1. PICK k \in Keys, change \in Changes, current \in BOOLEAN :
               req' = [req EXCEPT ![q] =
                  IF envs[k] = None \/ ~current
                  THEN Ended
                  ELSE [at |-> "updating", key |-> k, previous |-> envs[k],
                        next |-> Apply(envs[k], change)]]
        BY <2>2 DEF MutateLoad
      <3>2. ASSUME envs[k] # None
            PROVE  [at |-> "updating", key |-> k, previous |-> envs[k],
                        next |-> Apply(envs[k], change)] \in RequestType
        <4>1. envs[k] \in Row
          BY <1>0, <3>2
        <4>. QED BY <4>1, ApplyType DEF RequestType, Updating
      <3>3. req' \in [Requests -> RequestType]
        BY <1>0, <3>1, <3>2 DEF RequestType
      <3>. QED BY <1>0, <2>2, <3>3 DEF MutateLoad, TypeOK
    <2>3. CASE CheckRun(q)
      <3>1. PICK r \in Runs :
               \/ req' = [req EXCEPT ![q] = [at |-> "admitted", run |-> r]]
               \/ req' = [req EXCEPT ![q] = Ended]
        BY <2>3 DEF CheckRun
      <3>2. [at |-> "admitted", run |-> r] \in RequestType /\ Ended \in RequestType
        BY DEF RequestType, Admitted
      <3>3. req' \in [Requests -> RequestType]
        BY <1>0, <3>1, <3>2
      <3>. QED BY <1>0, <2>3, <3>3 DEF CheckRun, TypeOK
    <2>4. CASE Promote(q)
      <3>1. PICK reference \in Runs, candidate \in Runs, target \in Refs :
              LET source == <<RunInfo[candidate].project, RunInfo[candidate].env>>
              IN req' = [req EXCEPT ![q] =
                     IF Comparable(reference, candidate) /\ envs[source] # None
                     THEN [at |-> "sourced", reference |-> reference, candidate |-> candidate,
                           from |-> source, source |-> envs[source],
                           to |-> <<source[1], target>>]
                     ELSE Ended]
        BY <2>4 DEF Promote
      <3> DEFINE source == <<RunInfo[candidate].project, RunInfo[candidate].env>>
      <3>2. source \in Keys /\ <<source[1], target>> \in Keys
        BY EnvironmentAssumption DEF Keys
      <3>3. ASSUME envs[source] # None
            PROVE  [at |-> "sourced", reference |-> reference, candidate |-> candidate,
                           from |-> source, source |-> envs[source],
                           to |-> <<source[1], target>>] \in RequestType
        <4>1. envs[source] \in Row
          BY <1>0, <3>2, <3>3
        <4>. HIDE DEF source
        <4>. QED BY <4>1, <3>2 DEF RequestType, Sourced
      <3>4. req' \in [Requests -> RequestType]
        BY <1>0, <3>1, <3>3 DEF RequestType
      <3>. QED BY <1>0, <2>4, <3>4 DEF Promote, TypeOK
    <2>. QED BY <1>3, <2>1, <2>2, <2>3, <2>4 DEF Begin
  <1>4. ASSUME NEW q \in Requests, Continue(q) PROVE Typed'
    <2>0. req[q] \in RequestType
      BY <1>0
    <2>1. CASE CountEnvironments(q)
      <3>1. req[q] \in Creating
        BY <2>0, <2>1, RequestShape DEF CountEnvironments
      <3>2. [req[q] EXCEPT !.at = "counted"] \in RequestType
        BY <3>1 DEF RequestType, Creating
      <3>3. held' \in [Locks -> Requests \cup {None}] /\ req' \in [Requests -> RequestType]
        BY <1>0, <2>1, <3>2, EndsType DEF CountEnvironments
      <3>. QED BY <1>0, <2>1, <3>3 DEF CountEnvironments, TypeOK
    <2>2. CASE InsertEnvironment(q)
      <3>1. req[q] \in Creating
        BY <2>0, <2>2, RequestShape DEF InsertEnvironment
      <3>2. envs' \in [Keys -> Row \cup {None}]
        BY <1>0, <2>2, <3>1, NewType DEF InsertEnvironment, Creating
      <3>. QED BY <1>0, <2>2, <3>2, EndsType DEF InsertEnvironment, TypeOK
    <2>3. CASE UpdateEnvironment(q)
      <3>1. req[q] \in Updating
        BY <2>0, <2>3, RequestShape DEF UpdateEnvironment
      <3>2. req[q].key \in Keys /\ req[q].next \in Row
        BY <3>1 DEF Updating
      <3>3. envs' \in [Keys -> Row \cup {None}] /\ acked' \in [Keys -> Nat]
        BY <1>0, <2>3, <3>2 DEF UpdateEnvironment
      <3>. QED BY <1>0, <2>3, <3>3, EndsType DEF UpdateEnvironment, TypeOK
    <2>4. CASE CreateEvaluationRun(q)
      <3>1. runs' \in [Runs -> {"absent", "created", "completed"}]
        BY <1>0, <2>4 DEF CreateEvaluationRun
      <3>. QED BY <1>0, <2>4, <3>1, EndsType DEF CreateEvaluationRun, TypeOK
    <2>5. CASE ReadTarget(q)
      <3>1. req[q] \in Sourced
        BY <2>0, <2>5, RequestShape DEF ReadTarget
      <3> DEFINE x == req[q]
                 y == [at |-> "ordered", reference |-> x.reference, candidate |-> x.candidate,
                        from |-> x.from, source |-> x.source,
                        to |-> x.to, target |-> envs[x.to]]
      <3>2. ASSUME envs[x.to] # None PROVE y \in RequestType
        <4>1. envs[x.to] \in Row
          BY <1>0, <3>1, <3>2 DEF Sourced
        <4>. QED BY <3>1, <4>1 DEF RequestType, Sourced, Ordered
      <3>3. req' = [req EXCEPT ![q] = IF envs[x.to] # None /\ CanPromote(x.source, envs[x.to])
                                      THEN y ELSE Ended]
        BY <1>0, <2>5 DEF ReadTarget
      <3> HIDE DEF y, x
      <3>4. req' \in [Requests -> RequestType]
        BY <1>0, <3>2, <3>3 DEF RequestType
      <3>. QED BY <1>0, <2>5, <3>4 DEF ReadTarget, TypeOK
    <2>6. CASE Decide(q)
      <3>1. req[q] \in Ordered
        BY <2>0, <2>6, RequestShape DEF Decide
      <3>2. PICK verdict \in {"pass", "fail", "error"} :
              req' = [req EXCEPT ![q] =
                  IF verdict = "error"
                  THEN Ended
                  ELSE [at |-> "decided", locked |-> 0,
                        decision |-> [project |-> @.from[1], reference |-> @.reference,
                                      candidate |-> @.candidate,
                                      source |-> Position(@.from[2], @.source),
                                      target |-> Position(@.to[2], @.target),
                                      verdict |-> verdict, outcome |-> outcomeFor(verdict),
                                      id |-> q]]]
        BY <2>6 DEF Decide
      <3> DEFINE x == req[q]
                 d == [project |-> x.from[1], reference |-> x.reference,
                       candidate |-> x.candidate,
                       source |-> Position(x.from[2], x.source),
                       target |-> Position(x.to[2], x.target),
                       verdict |-> verdict, outcome |-> outcomeFor(verdict), id |-> q]
      <3>3. ASSUME verdict # "error" PROVE [at |-> "decided", locked |-> 0, decision |-> d] \in RequestType
        <4>1. x.from[1] \in Projects /\ x.from[2] \in Refs /\ x.to[2] \in Refs
          BY <3>1 DEF Ordered, Keys
        <4>2. x.source \in Row /\ x.target \in Row /\ x.reference \in Runs /\ x.candidate \in Runs
          BY <3>1 DEF Ordered
        <4>3. Position(x.from[2], x.source) \in PositionType /\ Position(x.to[2], x.target) \in PositionType
          BY <4>1, <4>2 DEF Position, PositionType, Row, OptionalRank
        <4>4. verdict \in {"pass", "fail"} /\ outcomeFor(verdict) \in {"accepted", "rejected"}
          BY <3>3 DEF outcomeFor
        <4>5. d \in DecisionType
          BY <4>1, <4>2, <4>3, <4>4 DEF DecisionType
        <4>. HIDE DEF d
        <4>. QED BY <4>5 DEF RequestType, Decided
      <3>4. req' = [req EXCEPT ![q] = IF verdict = "error" THEN Ended
                         ELSE [at |-> "decided", locked |-> 0, decision |-> d]]
        BY <1>0, <3>2
      <3> HIDE DEF d
      <3>5. req' \in [Requests -> RequestType]
        BY <1>0, <3>3, <3>4 DEF RequestType
      <3>. QED BY <1>0, <2>6, <3>5 DEF Decide, TypeOK
    <2>7. CASE LockEnvironment(q)
      <3>1. req[q] \in Decided
        BY <2>0, <2>7, RequestShape DEF LockEnvironment
      <3>2. [req[q] EXCEPT !.locked = @ + 1] \in RequestType
        BY <3>1, <2>7 DEF RequestType, Decided, LockEnvironment
      <3>3. held' \in [Locks -> Requests \cup {None}] /\ req' \in [Requests -> RequestType]
        BY <1>0, <2>7, <3>2 DEF LockEnvironment, Takes
      <3>. QED BY <1>0, <2>7, <3>3 DEF LockEnvironment, TypeOK
    <2>8. CASE Revalidate(q)
      <3>1. req[q] \in Decided
        BY <2>0, <2>8, RequestShape DEF Revalidate
      <3>2. [req[q] EXCEPT !.at = "revalidated"] \in RequestType
        BY <3>1, <2>8 DEF RequestType, Decided
      <3>3. held' \in [Locks -> Requests \cup {None}] /\ req' \in [Requests -> RequestType]
        BY <1>0, <2>8, <3>2, EndsType DEF Revalidate
      <3>. QED BY <1>0, <2>8, <3>3 DEF Revalidate, TypeOK
    <2>9. CASE InsertPromotion(q)
      BY <1>0, <2>9, EndsType DEF InsertPromotion, TypeOK
    <2>. QED BY <1>4, <2>1, <2>2, <2>3, <2>4, <2>5, <2>6, <2>7, <2>8, <2>9 DEF Continue
  <1>5. ASSUME NEW q \in Requests, Cancel(q) PROVE Typed'
    BY <1>0, <1>5, EndsType DEF Cancel, TypeOK
  <1>. QED
    BY <1>1, <1>2, <1>3, <1>4, <1>5 DEF Next

-----------------------------------------------------------------------------
(* Locks. *)

\* At first no request holds a row.
LEMMA InitLock == Init => LockInv
  <1> SUFFICES ASSUME Init, NEW q \in Requests PROVE Holding(q, req[q], held)
    BY DEF LockInv
  <1>1. req[q].at = "idle" /\ \A l \in Locks : held[l] = None
    BY DEF Init, Idle
  <1>. QED
    BY <1>1, NoneAssumption DEF Holding, HoldsProject, HoldsRows, HoldsNoMore

\* A request that ends gives back exactly its own locks.
LEMMA LockEnds ==
  ASSUME Typed, LockInv, NEW q \in Requests, Ends(q)
  PROVE  LockInv'
  <1>1. /\ req'[q].at = "ended"
        /\ \A x \in Requests \ {q} : req'[x] = req[x]
        /\ \A l \in Locks : held'[l] = IF held[l] = q THEN None ELSE held[l]
    BY EndsType DEF Ended
  <1>2. ASSUME NEW x \in Requests PROVE Holding(x, req'[x], held')
    <2>1. CASE x = q
      BY <1>1, <2>1, NoneAssumption DEF Holding, HoldsProject, HoldsRows, HoldsNoMore
    <2>2. CASE x # q
      <3>1. req'[x] = req[x] /\ req[x] \in RequestType
        BY <1>1, <2>2 DEF Typed
      <3>2. HoldsProject(x, req'[x], held')
        <4>1. ASSUME req[x].at \in {"creating", "counted"} PROVE Lock(<<req[x].key[1]>>) \in Locks
          BY <3>1, <4>1, RequestShape, LockIsLock DEF Creating, Keys
        <4>. QED BY <1>1, <2>2, <3>1, <4>1 DEF LockInv, Holding, HoldsProject, Lock
      <3>3. HoldsRows(x, req'[x], held')
        <4>1. ASSUME req[x].at \in {"decided", "revalidated"}
              PROVE  RowLock(req[x].decision, 1) \in Locks /\ RowLock(req[x].decision, 2) \in Locks
          BY <3>1, <4>1, RequestShape, OrderIsBoth DEF Decided
        <4>. QED BY <1>1, <2>2, <3>1, <4>1 DEF LockInv, Holding, HoldsRows, RowLock, Lock
      <3>4. HoldsNoMore(x, req'[x], held')
        BY <1>1, <2>2, <3>1, NoneAssumption DEF LockInv, Holding, HoldsNoMore, RowLock, Lock
      <3>. QED BY <3>2, <3>3, <3>4 DEF Holding
    <2>. QED BY <2>1, <2>2
  <1>. QED BY <1>2 DEF LockInv

\* Nothing about locks changes for the requests that do not move.
LEMMA LockOthers ==
  ASSUME Typed, LockInv, NEW q \in Requests,
         \A x \in Requests \ {q} : req'[x] = req[x],
         \A l \in Locks : held'[l] = held[l] \/ (held[l] \in {None, q} /\ held'[l] = q)
  PROVE  \A x \in Requests \ {q} : Holding(x, req'[x], held')
  <1> SUFFICES ASSUME NEW x \in Requests \ {q}
               PROVE  Holding(x, req'[x], held')
    OBVIOUS
  <1>1. req[x] \in RequestType /\ req'[x] = req[x]
    BY DEF Typed
  <1>2. HoldsProject(x, req'[x], held')
    <2>1. ASSUME req[x].at \in {"creating", "counted"} PROVE Lock(<<req[x].key[1]>>) \in Locks
      BY <1>1, <2>1, RequestShape, LockIsLock DEF Creating, Keys
    <2>. QED BY <1>1, <2>1, NoneAssumption DEF LockInv, Holding, HoldsProject, Lock
  <1>3. HoldsRows(x, req'[x], held')
    <2>1. ASSUME req[x].at \in {"decided", "revalidated"}
          PROVE  RowLock(req[x].decision, 1) \in Locks /\ RowLock(req[x].decision, 2) \in Locks
      BY <1>1, <2>1, RequestShape, OrderIsBoth DEF Decided
    <2>. QED BY <1>1, <2>1, NoneAssumption DEF LockInv, Holding, HoldsRows, RowLock, Lock
  <1>4. HoldsNoMore(x, req'[x], held')
    BY <1>1, NoneAssumption DEF LockInv, Holding, HoldsNoMore, RowLock, Lock
  <1>. QED BY <1>2, <1>3, <1>4 DEF Holding

\* A request holds exactly the rows its place in the code says, one at a time
\* per row.
LEMMA LockStep == ASSUME Typed, LockInv, [Next]_vars PROVE LockInv'
  <1>0. /\ held \in [Locks -> Requests \cup {None}]
        /\ req \in [Requests -> RequestType]
    BY DEF Typed, TypeOK
  <1>1. CASE UNCHANGED vars
    BY <1>1 DEF vars, LockInv
  <1>2. ASSUME NEW r \in Runs, RunCompletes(r) PROVE LockInv'
    BY <1>2 DEF RunCompletes, LockInv
  \* A request that holds nothing and goes on to hold nothing.
  <1>3. ASSUME NEW q \in Requests, UNCHANGED held, NEW y, req' = [req EXCEPT ![q] = y],
               req[q].at \notin {"creating", "counted", "decided", "revalidated"},
               y.at \notin {"creating", "counted", "revalidated"},
               y.at = "decided" => y.locked = 0
        PROVE  LockInv'
    <2>1. req'[q] = y /\ \A x \in Requests \ {q} : req'[x] = req[x]
      BY <1>0, <1>3
    <2>2. Holding(q, req'[q], held')
      <3>1. HoldsNoMore(q, req[q], held)
        BY DEF LockInv, Holding
      <3>2. \A l \in Locks : held[l] # q
        BY <1>3, <3>1 DEF HoldsNoMore
      <3>3. HoldsRows(q, req'[q], held')
        BY <1>3, <2>1 DEF HoldsRows
      <3>. QED BY <1>3, <2>1, <3>2, <3>3 DEF Holding, HoldsProject, HoldsNoMore
    <2>3. \A x \in Requests \ {q} : Holding(x, req'[x], held')
      BY <1>3, <2>1, LockOthers
    <2>. QED BY <2>2, <2>3 DEF LockInv
  <1>4. ASSUME NEW q \in Requests, Begin(q) PROVE LockInv'
    <2>0. ASSUME req[q] = Idle
          PROVE  req[q].at \notin {"creating", "counted", "decided", "revalidated"}
      BY <2>0 DEF Idle
    <2>1. CASE LockProject(q)
      <3>1. PICK p \in Projects, r \in Refs, rank \in Ranks \cup {None} :
               /\ held[Lock(<<p>>)] \in {None, q}
               /\ held' = [held EXCEPT ![Lock(<<p>>)] = q]
               /\ req' = [req EXCEPT ![q] = [at |-> "creating", key |-> <<p, r>>, rank |-> rank]]
        BY <2>1 DEF LockProject, Takes, Free
      <3>2. Lock(<<p>>) \in Locks
        BY LockIsLock
      <3>3. \A x \in Requests \ {q} : Holding(x, req'[x], held')
        BY <1>0, <3>1, LockOthers
      <3>4. req'[q].at = "creating" /\ req'[q].key[1] = p
        BY <1>0, <3>1
      <3>5. Holding(q, req'[q], held')
        BY <1>0, <3>1, <3>2, <3>4 DEF Holding, HoldsProject, HoldsRows, HoldsNoMore, Lock
      <3>. QED BY <3>3, <3>5 DEF LockInv
    <2>2. CASE MutateLoad(q)
      <3>1. PICK k \in Keys, change \in Changes, current \in BOOLEAN :
               /\ req[q] = Idle /\ UNCHANGED held
               /\ req' = [req EXCEPT ![q] =
                  IF envs[k] = None \/ ~current
                  THEN Ended
                  ELSE [at |-> "updating", key |-> k, previous |-> envs[k],
                        next |-> Apply(envs[k], change)]]
        BY <2>2 DEF MutateLoad
      <3> DEFINE y == IF envs[k] = None \/ ~current
                      THEN Ended
                      ELSE [at |-> "updating", key |-> k, previous |-> envs[k],
                            next |-> Apply(envs[k], change)]
      <3>2. y.at \in {"ended", "updating"}
        BY DEF Ended
      <3>. HIDE DEF y
      <3>. QED BY <1>3, <2>0, <3>1, <3>2 DEF y
    <2>3. CASE CheckRun(q)
      <3>1. PICK y \in {[at |-> "admitted", run |-> r] : r \in Runs} \cup {Ended} :
              req[q] = Idle /\ UNCHANGED held /\ req' = [req EXCEPT ![q] = y]
        BY <2>3 DEF CheckRun
      <3>2. y.at \in {"admitted", "ended"}
        BY DEF Ended
      <3>. QED BY <1>3, <2>0, <3>1, <3>2
    <2>4. CASE Promote(q)
      <3>1. PICK reference \in Runs, candidate \in Runs, target \in Refs :
              LET source == <<RunInfo[candidate].project, RunInfo[candidate].env>>
              IN /\ req[q] = Idle /\ UNCHANGED held
                 /\ req' = [req EXCEPT ![q] =
                     IF Comparable(reference, candidate) /\ envs[source] # None
                     THEN [at |-> "sourced", reference |-> reference, candidate |-> candidate,
                           from |-> source, source |-> envs[source],
                           to |-> <<source[1], target>>]
                     ELSE Ended]
        BY <2>4 DEF Promote
      <3> DEFINE source == <<RunInfo[candidate].project, RunInfo[candidate].env>>
                 y == IF Comparable(reference, candidate) /\ envs[source] # None
                     THEN [at |-> "sourced", reference |-> reference, candidate |-> candidate,
                           from |-> source, source |-> envs[source],
                           to |-> <<source[1], target>>]
                     ELSE Ended
      <3>2. y.at \in {"sourced", "ended"}
        BY DEF Ended
      <3>3. req' = [req EXCEPT ![q] = y]
        BY <3>1
      <3>. HIDE DEF y
      <3>. QED BY <1>3, <2>0, <3>1, <3>2, <3>3
    <2>. QED BY <1>4, <2>1, <2>2, <2>3, <2>4 DEF Begin
  <1>5. ASSUME NEW q \in Requests, Continue(q) PROVE LockInv'
    <2>0. req[q] \in RequestType
      BY <1>0
    <2>1. CASE CountEnvironments(q)
      <3>1. CASE Ends(q)
        BY <3>1, LockEnds
      <3>2. CASE ~Ends(q)
        <4>1. UNCHANGED held /\ req' = [req EXCEPT ![q].at = "counted"] /\ req[q].at = "creating"
          BY <2>1, <3>2 DEF CountEnvironments
        <4>2. req'[q].at = "counted" /\ req'[q].key = req[q].key
              /\ \A x \in Requests \ {q} : req'[x] = req[x]
          BY <1>0, <4>1, <2>0, RequestShape DEF Creating
        <4>3. Holding(q, req'[q], held')
          BY <4>1, <4>2 DEF LockInv, Holding, HoldsProject, HoldsRows, HoldsNoMore, Lock
        <4>4. \A x \in Requests \ {q} : Holding(x, req'[x], held')
          BY <4>1, <4>2, LockOthers
        <4>. QED BY <4>3, <4>4 DEF LockInv
      <3>. QED BY <3>1, <3>2
    <2>2. CASE InsertEnvironment(q) \/ UpdateEnvironment(q) \/ CreateEvaluationRun(q)
               \/ InsertPromotion(q)
      BY <2>2, LockEnds DEF InsertEnvironment, UpdateEnvironment, CreateEvaluationRun,
         InsertPromotion
    <2>5. CASE ReadTarget(q)
      <3> DEFINE x == req[q]
                 y == IF envs[x.to] # None /\ CanPromote(x.source, envs[x.to])
                      THEN [at |-> "ordered", reference |-> x.reference, candidate |-> x.candidate,
                            from |-> x.from, source |-> x.source,
                            to |-> x.to, target |-> envs[x.to]]
                      ELSE Ended
      <3>1. x.at = "sourced" /\ UNCHANGED held /\ req' = [req EXCEPT ![q] = y]
        BY <1>0, <2>5 DEF ReadTarget
      <3>2. y.at \in {"ordered", "ended"}
        BY DEF Ended
      <3>. HIDE DEF y
      <3>. QED BY <1>3, <3>1, <3>2
    <2>6. CASE Decide(q)
      <3>1. PICK verdict \in {"pass", "fail", "error"} :
              /\ req[q].at = "ordered" /\ UNCHANGED held
              /\ req' = [req EXCEPT ![q] =
                  IF verdict = "error"
                  THEN Ended
                  ELSE [at |-> "decided", locked |-> 0,
                        decision |-> [project |-> @.from[1], reference |-> @.reference,
                                      candidate |-> @.candidate,
                                      source |-> Position(@.from[2], @.source),
                                      target |-> Position(@.to[2], @.target),
                                      verdict |-> verdict, outcome |-> outcomeFor(verdict),
                                      id |-> q]]]
        BY <2>6 DEF Decide
      <3>2. PICK d : req' = [req EXCEPT ![q] = IF verdict = "error" THEN Ended
                                ELSE [at |-> "decided", locked |-> 0, decision |-> d]]
        BY <1>0, <3>1
      <3> DEFINE y == IF verdict = "error" THEN Ended
                                ELSE [at |-> "decided", locked |-> 0, decision |-> d]
      <3>3. y.at \in {"decided", "ended"} /\ (y.at = "decided" => y.locked = 0)
        BY DEF Ended
      <3>4. req' = [req EXCEPT ![q] = y]
        BY <3>2
      <3>. HIDE DEF y
      <3>. QED BY <1>3, <3>1, <3>3, <3>4
    <2>7. CASE LockEnvironment(q)
      <3>1. req[q] \in Decided /\ req[q].at = "decided" /\ req[q].locked \in {0, 1}
        BY <2>0, <2>7, RequestShape DEF LockEnvironment, Decided
      <3> DEFINE d == req[q].decision
                 key == RowLock(d, req[q].locked + 1)
      <3>2. d \in DecisionType
        BY <3>1 DEF Decided
      <3>3. key \in Locks /\ RowLock(d, 1) \in Locks /\ RowLock(d, 2) \in Locks
        BY <3>1, <3>2, OrderIsBoth
      <3>4. held[key] \in {None, q} /\ held' = [held EXCEPT ![key] = q]
        BY <2>7 DEF LockEnvironment, Free, Takes, RowLock
      <3>5. /\ req'[q].at = "decided" /\ req'[q].decision = d /\ req'[q].locked = req[q].locked + 1
            /\ \A x \in Requests \ {q} : req'[x] = req[x]
        BY <1>0, <2>7, <3>1 DEF LockEnvironment, Decided
      <3>6. \A x \in Requests \ {q} : Holding(x, req'[x], held')
        BY <1>0, <3>4, <3>5, LockOthers
      <3>7. Holding(q, req'[q], held')
        <4> HIDE DEF d
        <4>0. HoldsRows(q, req[q], held) /\ HoldsNoMore(q, req[q], held)
          BY DEF LockInv, Holding
        <4>2. HoldsRows(q, req'[q], held')
          BY <1>0, <3>1, <3>3, <3>4, <3>5, <4>0 DEF HoldsRows, d, RowLock, Lock
        <4>3. HoldsNoMore(q, req'[q], held')
          BY <1>0, <3>1, <3>3, <3>4, <3>5, <4>0 DEF HoldsNoMore, d, RowLock, Lock
        <4>. QED BY <3>5, <4>2, <4>3 DEF Holding, HoldsProject
      <3>. QED BY <3>6, <3>7 DEF LockInv
    <2>8. CASE Revalidate(q)
      <3>1. CASE Ends(q)
        BY <3>1, LockEnds
      <3>2. CASE ~Ends(q)
        <4>1. UNCHANGED held /\ req' = [req EXCEPT ![q].at = "revalidated"]
              /\ req[q].at = "decided" /\ req[q].locked = 2
          BY <2>8, <3>2 DEF Revalidate
        <4>2. req'[q].at = "revalidated" /\ req'[q].decision = req[q].decision /\ req'[q].locked = 2
              /\ \A x \in Requests \ {q} : req'[x] = req[x]
          BY <1>0, <4>1, <2>0, RequestShape DEF Decided
        <4>3. Holding(q, req'[q], held')
          <5>1. Holding(q, req[q], held)
            BY DEF LockInv
          <5>2. HoldsRows(q, req'[q], held') /\ HoldsProject(q, req'[q], held')
            BY <4>1, <4>2, <5>1 DEF Holding, HoldsProject, HoldsRows
          <5>3. HoldsNoMore(q, req'[q], held')
            BY <4>1, <4>2, <5>1 DEF Holding, HoldsNoMore
          <5>. QED BY <5>2, <5>3 DEF Holding
        <4>4. \A x \in Requests \ {q} : Holding(x, req'[x], held')
          BY <4>1, <4>2, LockOthers
        <4>. QED BY <4>3, <4>4 DEF LockInv
      <3>. QED BY <3>1, <3>2
    <2>. QED BY <1>5, <2>1, <2>2, <2>5, <2>6, <2>7, <2>8 DEF Continue
  <1>6. ASSUME NEW q \in Requests, Cancel(q) PROVE LockInv'
    BY <1>6, LockEnds DEF Cancel
  <1>. QED
    BY <1>1, <1>2, <1>4, <1>5, <1>6 DEF Next

-----------------------------------------------------------------------------
(* How requests, rows and runs change. *)

\* A request is moved by its own steps only.
LEMMA RequestStep ==
  ASSUME Typed, [Next]_vars, NEW x \in Requests, req'[x] # req[x]
  PROVE  Begin(x) \/ Continue(x) \/ Cancel(x)
  <1>0. req \in [Requests -> RequestType]
    BY DEF Typed
  <1>1. CASE UNCHANGED vars
    BY <1>1 DEF vars
  <1>2. CASE \E r \in Runs : RunCompletes(r)
    BY <1>2 DEF RunCompletes
  <1>3. ASSUME NEW q \in Requests, Begin(q) \/ Continue(q) \/ Cancel(q) PROVE q = x
    <2>1. PICK y : req' = [req EXCEPT ![q] = y]
      <3>1. CASE Begin(q)
        BY <3>1 DEF Begin, LockProject, MutateLoad, CheckRun, Promote
      <3>2. CASE Continue(q)
        BY <1>0, <3>2 DEF Continue, CountEnvironments, InsertEnvironment, UpdateEnvironment,
           CreateEvaluationRun, ReadTarget, Decide, LockEnvironment, Revalidate,
           InsertPromotion, Ends
      <3>3. CASE Cancel(q)
        BY <3>3 DEF Cancel, Ends
      <3>. QED BY <1>3, <3>1, <3>2, <3>3
    <2>. QED BY <1>0, <2>1
  <1>. QED
    BY <1>1, <1>2, <1>3 DEF Next

\* Each progress is reached by one action, or two.
LEMMA Becomes ==
  ASSUME Typed, [Next]_vars, NEW x \in Requests, req'[x] # req[x]
  PROVE  /\ req'[x].at = "counted" => CountEnvironments(x) /\ ~Ends(x)
         /\ req'[x].at = "updating" => MutateLoad(x)
         /\ req'[x].at = "sourced" => Promote(x)
         /\ req'[x].at = "ordered" => ReadTarget(x)
         /\ req'[x].at = "decided" => Decide(x) \/ LockEnvironment(x)
         /\ req'[x].at = "revalidated" => Revalidate(x) /\ ~Ends(x)
  <1>0. req \in [Requests -> RequestType] /\ req[x] \in RequestType
    BY DEF Typed
  <1>1. ASSUME Ends(x) PROVE req'[x].at = "ended"
    BY <1>0, <1>1 DEF Ends, Ended
  <1>2. CASE Begin(x)
    <2>1. LockProject(x) => req'[x].at = "creating"
      BY <1>0 DEF LockProject
    <2>2. MutateLoad(x) => req'[x].at \in {"ended", "updating"}
      BY <1>0 DEF MutateLoad, Ended
    <2>3. CheckRun(x) => req'[x].at \in {"ended", "admitted"}
      BY <1>0 DEF CheckRun, Ended
    <2>4. Promote(x) => req'[x].at \in {"ended", "sourced"}
      BY <1>0 DEF Promote, Ended
    <2>. QED BY <1>2, <2>1, <2>2, <2>3, <2>4 DEF Begin
  <1>3. CASE Continue(x)
    <2>1. CountEnvironments(x) => Ends(x) \/ req'[x].at = "counted"
      BY <1>0, RequestShape DEF CountEnvironments, Creating
    <2>2. InsertEnvironment(x) \/ UpdateEnvironment(x) \/ CreateEvaluationRun(x)
             \/ InsertPromotion(x) => Ends(x)
      BY DEF InsertEnvironment, UpdateEnvironment, CreateEvaluationRun, InsertPromotion
    <2>3. ReadTarget(x) => req'[x].at \in {"ended", "ordered"}
      BY <1>0 DEF ReadTarget, Ended
    <2>4. Decide(x) => req'[x].at \in {"ended", "decided"}
      BY <1>0 DEF Decide, Ended
    <2>5. LockEnvironment(x) => req'[x].at = "decided"
      BY <1>0, RequestShape DEF LockEnvironment, Decided
    <2>6. Revalidate(x) => Ends(x) \/ req'[x].at = "revalidated"
      BY <1>0, RequestShape DEF Revalidate, Decided
    <2>. QED BY <1>1, <1>3, <2>1, <2>2, <2>3, <2>4, <2>5, <2>6 DEF Continue
  <1>4. CASE Cancel(x)
    BY <1>1, <1>4 DEF Cancel
  <1>. QED
    BY <1>2, <1>3, <1>4, RequestStep

\* Rows change in two places only.
LEMMA EnvsStep ==
  ASSUME [Next]_vars
  PROVE  \/ UNCHANGED <<envs, acked>>
         \/ \E q \in Requests : InsertEnvironment(q) \/ UpdateEnvironment(q)
  BY ZenonT(40) DEF Next, vars, Begin, LockProject, MutateLoad, CheckRun, Promote, Continue,
     CountEnvironments, CreateEvaluationRun, ReadTarget, Decide, LockEnvironment, Revalidate,
     InsertPromotion, Cancel, RunCompletes

\* A completed run stays completed.
LEMMA RunsStay ==
  ASSUME Typed, [Next]_vars, NEW r \in Runs, runs[r] = "completed"
  PROVE  runs'[r] = "completed"
  <1>0. runs \in [Runs -> {"absent", "created", "completed"}]
    BY DEF Typed, TypeOK
  <1>1. CASE UNCHANGED runs
    BY <1>1
  <1>2. ASSUME NEW s \in Runs, RunCompletes(s) PROVE runs'[r] = "completed"
    BY <1>0, <1>2 DEF RunCompletes
  <1>3. ASSUME NEW q \in Requests, CreateEvaluationRun(q) PROVE runs'[r] = "completed"
    BY <1>0, <1>3 DEF CreateEvaluationRun
  <1>. QED
    BY <1>1, <1>2, <1>3, ZenonT(30) DEF Next, vars, Begin, LockProject, MutateLoad, CheckRun, Promote, Continue,
     CountEnvironments, InsertEnvironment, UpdateEnvironment, ReadTarget, Decide,
     LockEnvironment, Revalidate, InsertPromotion, Cancel

\* An environment is never removed, its revision never falls, and a row that
\* changed has another revision.
LEMMA RowsGrow ==
  ASSUME Typed, CountInv, RevisionInv, [Next]_vars, NEW k \in Keys, envs[k] # None
  PROVE  /\ envs'[k] # None
         /\ envs[k].rev <= envs'[k].rev
         /\ envs'[k] = envs[k] \/ envs[k].rev < envs'[k].rev
  <1>0. envs \in [Keys -> Row \cup {None}] /\ envs[k] \in Row /\ envs[k].rev \in Nat
    BY DEF Typed, TypeOK, Row
  <1>1. CASE UNCHANGED envs
    BY <1>0, <1>1
  <1>2. ASSUME NEW q \in Requests, InsertEnvironment(q) PROVE envs'[k] = envs[k]
    BY <1>0, <1>2 DEF InsertEnvironment
  <1>3. ASSUME NEW q \in Requests, UpdateEnvironment(q), envs'[k] # envs[k]
        PROVE  envs'[k] # None /\ envs[k].rev < envs'[k].rev
    <2>1. req[q] \in Updating
      BY <1>3, RequestShape DEF UpdateEnvironment, Typed
    <2>2. envs' = [envs EXCEPT ![req[q].key] = req[q].next] /\ k = req[q].key
          /\ envs[k].rev = req[q].previous.rev
      BY <1>0, <1>3 DEF UpdateEnvironment
    <2>3. req[q].next.rev = req[q].previous.rev + 1
      BY <1>3 DEF RevisionInv, UpdateEnvironment
    <2>4. req[q].next \in Row
      BY <2>1 DEF Updating
    <2>5. envs'[k] = req[q].next
      BY <1>0, <2>2
    <2>. QED BY <1>0, <2>2, <2>3, <2>4, <2>5, NoneAssumption
  <1>4. CASE UNCHANGED <<envs, acked>>
    BY <1>1, <1>4
  <1>5. ASSUME NEW q \in Requests, InsertEnvironment(q) \/ UpdateEnvironment(q)
        PROVE  envs'[k] = envs[k] \/ (envs'[k] # None /\ envs[k].rev < envs'[k].rev)
    BY <1>2, <1>3, <1>5
  <1>6. CASE \E q \in Requests : InsertEnvironment(q) \/ UpdateEnvironment(q)
    <2>1. envs'[k] = envs[k] \/ (envs'[k] # None /\ envs[k].rev < envs'[k].rev)
      BY <1>5, <1>6
    <2>2. envs' \in [Keys -> Row \cup {None}]
      BY TypedStep DEF Typed, TypeOK
    <2>3. envs'[k] # None => envs'[k].rev \in Nat
      BY <2>2 DEF Row
    <2>. QED BY <1>0, <2>1, <2>3
  <1>. QED
    BY <1>4, <1>6, EnvsStep

-----------------------------------------------------------------------------
(* The cap on environments. *)

\* A project has finitely many environments.
LEMMA PresentCount ==
  /\ \A e, p : IsFiniteSet(Present(e, p)) /\ Count(e, p) \in Nat
  <1> SUFFICES ASSUME NEW e, NEW p PROVE IsFiniteSet(Present(e, p)) /\ Count(e, p) \in Nat
    OBVIOUS
  <1>1. Present(e, p) \subseteq Refs
    BY DEF Present
  <1>2. IsFiniteSet(Present(e, p))
    BY <1>1, FS_Subset, EnvironmentAssumption
  <1>. QED BY <1>2, FS_CardinalityType DEF Count

\* At first no create has counted.
LEMMA InitCount == Init => CountInv
  BY DEF Init, CountInv, Idle, environmentCount, Count, Present

\* Only a create changes how many environments there are, and it holds the
\* project's row from its count to its insert.
LEMMA CountStep ==
  ASSUME Typed, LockInv, CountInv, RevisionInv, [Next]_vars
  PROVE  CountInv'
  <1>0. /\ envs \in [Keys -> Row \cup {None}]
        /\ req \in [Requests -> RequestType]
        /\ MaxEnvironments \in Nat
    BY EnvironmentAssumption DEF Typed, TypeOK
  <1>1. ASSUME \A k \in Keys : envs'[k] = None <=> envs[k] = None
        PROVE  CountInv'
    <2>1. \A p \in Projects : Present(envs', p) = Present(envs, p)
      BY <1>1 DEF Present, Keys
    <2>2. \A p \in Projects : Count(envs', p) = Count(envs, p)
      BY <2>1 DEF Count
    <2>3. ASSUME NEW x \in Requests, req'[x].at = "counted"
          PROVE  envs'[req'[x].key] = None /\ Count(envs', req'[x].key[1]) < MaxEnvironments
      <3>1. CASE req'[x] = req[x]
        <4>1. req[x] \in Creating
          BY <1>0, <2>3, <3>1, RequestShape
        <4>2. req[x].key \in Keys /\ req[x].key[1] \in Projects
          BY <4>1 DEF Creating, Keys
        <4>. QED BY <1>1, <2>2, <2>3, <3>1, <4>2 DEF CountInv
      <3>2. CASE req'[x] # req[x]
        <4>1. CountEnvironments(x) /\ ~Ends(x)
          BY <2>3, <3>2, Becomes
        <4>2. req[x].at = "creating" /\ req' = [req EXCEPT ![x].at = "counted"]
              /\ envs[req[x].key] = None /\ Count(envs, req[x].key[1]) < MaxEnvironments
          BY <4>1 DEF CountEnvironments, environmentCount, Count, Present
        <4>3. req[x] \in Creating
          BY <1>0, <4>2, RequestShape
        <4>4. req'[x].key = req[x].key /\ req[x].key \in Keys /\ req[x].key[1] \in Projects
          BY <1>0, <4>2, <4>3 DEF Creating, Keys
        <4>. QED BY <1>1, <2>2, <4>2, <4>4
      <3>. QED BY <3>1, <3>2
    <2>. QED BY <2>2, <2>3 DEF CountInv
  <1>2. ASSUME NEW q \in Requests, UpdateEnvironment(q), NEW k \in Keys
        PROVE  envs'[k] = None <=> envs[k] = None
    <2>1. req[q] \in Updating
      BY <1>0, <1>2, RequestShape DEF UpdateEnvironment
    <2>2. req[q].next \in Row /\ envs[req[q].key] # None
      BY <1>2, <2>1 DEF Updating, RevisionInv, UpdateEnvironment
    <2>. QED BY <1>0, <1>2, <2>2, NoneAssumption DEF UpdateEnvironment
  <1>3. ASSUME NEW q \in Requests, InsertEnvironment(q) PROVE CountInv'
    <2> DEFINE key == req[q].key
    <2>1. req[q] \in Creating /\ req[q].at = "counted"
      BY <1>0, <1>3, RequestShape DEF InsertEnvironment
    <2>2. key \in Keys /\ key[1] \in Projects /\ key[2] \in Refs /\ key = <<key[1], key[2]>>
      BY <2>1 DEF Creating, Keys
    <2>3. envs[key] = None /\ Count(envs, key[1]) < MaxEnvironments
      BY <2>1 DEF CountInv
    <2>4. NewEnvironment(req[q].rank) # None
      BY <2>1, NewType, NoneAssumption DEF Creating
    <2>5. \A k \in Keys : envs'[k] = IF k = key THEN NewEnvironment(req[q].rank) ELSE envs[k]
      BY <1>0, <1>3, <2>3 DEF InsertEnvironment
    <2>6. Present(envs', key[1]) = Present(envs, key[1]) \cup {key[2]}
      <3>1. \A r \in Refs : <<key[1], r>> \in Keys /\ (<<key[1], r>> = key <=> r = key[2])
        BY <2>2 DEF Keys
      <3>. QED BY <2>2, <2>4, <2>5, <3>1 DEF Present
    <2>7. key[2] \notin Present(envs, key[1])
      BY <2>2, <2>3 DEF Present
    <2>8. Count(envs', key[1]) <= MaxEnvironments
      <3>1. Cardinality(Present(envs', key[1])) = Cardinality(Present(envs, key[1])) + 1
        BY <2>6, <2>7, PresentCount, FS_AddElement
      <3>. QED BY <1>0, <2>3, <3>1, PresentCount DEF Count
    <2>9. ASSUME NEW p \in Projects, p # key[1] PROVE Count(envs', p) = Count(envs, p)
      <3>1. \A r \in Refs : <<p, r>> \in Keys /\ <<p, r>> # key
        BY <2>2, <2>9 DEF Keys
      <3>2. Present(envs', p) = Present(envs, p)
        BY <2>5, <3>1 DEF Present
      <3>. QED BY <3>2 DEF Count
    <2>10. ASSUME NEW x \in Requests, req'[x].at = "counted"
           PROVE  envs'[req'[x].key] = None /\ Count(envs', req'[x].key[1]) < MaxEnvironments
      <3>1. req'[x] = req[x] /\ x # q
        <4>1. req'[q] = Ended
          BY <1>3, EndsType DEF InsertEnvironment
        <4>2. x # q
          BY <2>10, <4>1 DEF Ended
        <4>. QED BY <1>3, <4>2, EndsType DEF InsertEnvironment
      <3>2. req[x] \in Creating /\ req[x].at = "counted"
        BY <1>0, <2>10, <3>1, RequestShape
      <3>3. req[x].key \in Keys /\ req[x].key[1] \in Projects
        BY <3>2 DEF Creating, Keys
      <3>4. Holding(x, req[x], held) /\ Holding(q, req[q], held)
        BY DEF LockInv
      <3>5. held[Lock(<<req[x].key[1]>>)] = x /\ held[Lock(<<key[1]>>)] = q
        BY <2>1, <3>2, <3>4 DEF Holding, HoldsProject
      <3>6. req[x].key[1] # key[1]
        BY <3>1, <3>5
      <3>7. req[x].key # key
        BY <3>6
      <3>8. envs[req[x].key] = None /\ Count(envs, req[x].key[1]) < MaxEnvironments
        BY <3>2 DEF CountInv
      <3>. QED BY <2>5, <2>9, <3>1, <3>3, <3>6, <3>7, <3>8
    <2>11. \A p \in Projects : Count(envs', p) <= MaxEnvironments
      BY <2>8, <2>9 DEF CountInv
    <2>. QED BY <2>10, <2>11 DEF CountInv
  <1>. QED
    BY <1>1, <1>2, <1>3, EnvsStep

-----------------------------------------------------------------------------
(* Revisions. *)

\* A row that exists at first is at its first revision.
LEMMA InitRevision == Init => RevisionInv
  <1> SUFFICES ASSUME Init PROVE RevisionInv
    OBVIOUS
  <1>1. ASSUME NEW k \in Keys, envs[k] # None PROVE envs[k].rev = 1 + acked[k]
    <2>1. PICK rank \in InitialRanks : envs[k] = NewEnvironment(rank)
      BY <1>1 DEF Init
    <2>. QED BY <2>1 DEF Init, NewEnvironment
  <1>. QED
    BY <1>1 DEF Init, RevisionInv, Idle

\* An update moves the row it changed and the count of its changes together.
LEMMA RevisionStep ==
  ASSUME Typed, LockInv, CountInv, RevisionInv, [Next]_vars
  PROVE  RevisionInv'
  <1>0. /\ envs \in [Keys -> Row \cup {None}]
        /\ req \in [Requests -> RequestType]
        /\ acked \in [Keys -> Nat]
    BY DEF Typed, TypeOK
  <1>1. ASSUME NEW k \in Keys
        PROVE  IF envs'[k] = None THEN acked'[k] = 0 ELSE envs'[k].rev = 1 + acked'[k]
    <2>1. CASE UNCHANGED <<envs, acked>>
      BY <2>1 DEF RevisionInv
    <2>2. ASSUME NEW q \in Requests, InsertEnvironment(q)
          PROVE  IF envs'[k] = None THEN acked'[k] = 0 ELSE envs'[k].rev = 1 + acked'[k]
      <3>1. req[q] \in Creating
        BY <1>0, <2>2, RequestShape DEF InsertEnvironment
      <3>2. NewEnvironment(req[q].rank) # None /\ NewEnvironment(req[q].rank).rev = 1
        BY <3>1, NewType, NoneAssumption DEF Creating
      <3>3. acked' = acked
        BY <2>2 DEF InsertEnvironment
      <3>4. envs'[k] = envs[k] \/ (envs[k] = None /\ envs'[k] = NewEnvironment(req[q].rank))
        BY <1>0, <2>2 DEF InsertEnvironment
      <3>. QED BY <1>0, <3>2, <3>3, <3>4 DEF RevisionInv
    <2>3. ASSUME NEW q \in Requests, UpdateEnvironment(q)
          PROVE  IF envs'[k] = None THEN acked'[k] = 0 ELSE envs'[k].rev = 1 + acked'[k]
      <3>1. req[q] \in Updating
        BY <1>0, <2>3, RequestShape DEF UpdateEnvironment
      <3>2. req[q].next \in Row /\ req[q].key \in Keys /\ envs[req[q].key] # None
            /\ req[q].next.rev = req[q].previous.rev + 1
        BY <2>3, <3>1 DEF Updating, RevisionInv, UpdateEnvironment
      <3>3. \/ envs' = envs /\ acked' = acked
            \/ /\ envs' = [envs EXCEPT ![req[q].key] = req[q].next]
               /\ acked' = [acked EXCEPT ![req[q].key] = @ + 1]
               /\ envs[req[q].key].rev = req[q].previous.rev
        BY <2>3 DEF UpdateEnvironment
      <3>4. CASE envs' = envs /\ acked' = acked
        BY <3>4 DEF RevisionInv
      <3>5. CASE /\ envs' = [envs EXCEPT ![req[q].key] = req[q].next]
                 /\ acked' = [acked EXCEPT ![req[q].key] = @ + 1]
                 /\ envs[req[q].key].rev = req[q].previous.rev
        <4>1. CASE k # req[q].key
          <5>1. envs'[k] = envs[k] /\ acked'[k] = acked[k]
            BY <1>0, <3>2, <3>5, <4>1
          <5>. QED BY <5>1 DEF RevisionInv
        <4>2. CASE k = req[q].key
          <5>1. envs'[k] = req[q].next /\ acked'[k] = acked[k] + 1 /\ acked[k] \in Nat
            BY <1>0, <3>2, <3>5, <4>2
          <5>2. envs[k].rev = 1 + acked[k]
            BY <3>2, <4>2 DEF RevisionInv
          <5>. QED BY <3>2, <3>5, <4>2, <5>1, <5>2, NoneAssumption
        <4>. QED BY <4>1, <4>2
      <3>. QED BY <3>3, <3>4, <3>5
    <2>. QED BY <2>1, <2>2, <2>3, EnvsStep
  <1>2. ASSUME NEW x \in Requests, req'[x].at = "updating"
        PROVE  envs'[req'[x].key] # None /\ req'[x].next.rev = req'[x].previous.rev + 1
    <2>1. CASE req'[x] = req[x]
      <3>1. req[x] \in Updating
        BY <1>0, <1>2, <2>1, RequestShape
      <3>2. req[x].key \in Keys
        BY <3>1 DEF Updating
      <3>3. envs[req[x].key] # None /\ req[x].next.rev = req[x].previous.rev + 1
        BY <1>2, <2>1 DEF RevisionInv
      <3>. QED BY <2>1, <3>2, <3>3, RowsGrow
    <2>2. CASE req'[x] # req[x]
      <3>1. MutateLoad(x)
        BY <1>2, <2>2, Becomes
      <3>2. PICK k \in Keys, change \in Changes, current \in BOOLEAN :
               /\ UNCHANGED envs
               /\ req' = [req EXCEPT ![x] =
                  IF envs[k] = None \/ ~current
                  THEN Ended
                  ELSE [at |-> "updating", key |-> k, previous |-> envs[k],
                        next |-> Apply(envs[k], change)]]
        BY <3>1 DEF MutateLoad
      <3>3. envs[k] # None /\ req'[x] = [at |-> "updating", key |-> k, previous |-> envs[k],
                        next |-> Apply(envs[k], change)]
        BY <1>0, <1>2, <3>2 DEF Ended
      <3>4. envs[k] \in Row
        BY <1>0, <3>3
      <3>. QED BY <3>2, <3>3, <3>4, ApplyType
    <2>. QED BY <2>1, <2>2
  <1>. QED
    BY <1>1, <1>2 DEF RevisionInv

-----------------------------------------------------------------------------
(* What a promotion has read. *)

\* At first no promotion has read anything.
LEMMA InitRead == Init => ReadInv
  <1> SUFFICES ASSUME Init, NEW q \in Requests PROVE HasRead(envs, runs, req[q])
    BY DEF ReadInv
  <1>1. req[q].at = "idle"
    BY DEF Init, Idle
  <1>. QED BY <1>1 DEF HasRead

\* What was read once stays remembered.
LEMMA StillRemembers ==
  ASSUME Typed, CountInv, RevisionInv, [Next]_vars,
         NEW k \in Keys, NEW rank, NEW rev \in Nat, Remembers(envs, k, rank, rev)
  PROVE  Remembers(envs', k, rank, rev)
  <1>1. envs[k] # None /\ rev <= envs[k].rev /\ (rev = envs[k].rev => rank = envs[k].rank)
    BY DEF Remembers
  <1>2. /\ envs'[k] # None
        /\ envs'[k] = envs[k] \/ envs[k].rev < envs'[k].rev
    BY <1>1, RowsGrow
  <1>3. envs[k].rev \in Nat /\ envs'[k].rev \in Nat
    <2>1. envs' \in [Keys -> Row \cup {None}] /\ envs \in [Keys -> Row \cup {None}]
      BY TypedStep DEF Typed, TypeOK
    <2>2. envs[k] \in Row /\ envs'[k] \in Row
      BY <1>1, <1>2, <2>1
    <2>. QED BY <2>2 DEF Row
  <1>. QED BY <1>1, <1>2, <1>3 DEF Remembers

\* Two runs of one project and environment stay so.
LEMMA StillSamePair ==
  ASSUME Typed, [Next]_vars, NEW reference \in Runs, NEW candidate \in Runs,
         NEW owning, NEW env, SamePair(runs, reference, candidate, owning, env)
  PROVE  SamePair(runs', reference, candidate, owning, env)
  BY RunsStay DEF SamePair

\* While a decision holds both its rows nobody changes them.
LEMMA LockedRowsStay ==
  ASSUME Typed, LockInv, CountInv, RevisionInv, ReadInv, [Next]_vars,
         NEW x \in Requests, req[x].at = "revalidated", req'[x] = req[x]
  PROVE  LET d == req[x].decision
         IN /\ envs'[<<d.project, d.source.ref>>] = envs[<<d.project, d.source.ref>>]
            /\ envs'[<<d.project, d.target.ref>>] = envs[<<d.project, d.target.ref>>]
  <1> DEFINE d == req[x].decision
             ks == <<d.project, d.source.ref>>
             kt == <<d.project, d.target.ref>>
  <1>0. envs \in [Keys -> Row \cup {None}] /\ req \in [Requests -> RequestType]
    BY DEF Typed, TypeOK
  <1>1. d \in DecisionType
    BY <1>0, RequestShape DEF Decided
  <1>2. ks \in Keys /\ kt \in Keys
    BY <1>1 DEF DecisionType, PositionType, Keys
  <1>3. envs[ks] # None /\ envs[kt] # None
    BY DEF ReadInv, HasRead, ReadPair, Remembers
  <1>4. held[Lock(ks)] = x /\ held[Lock(kt)] = x
    <2>1. Holding(x, req[x], held)
      BY DEF LockInv
    <2>2. held[RowLock(d, 1)] = x /\ held[RowLock(d, 2)] = x
      BY <2>1 DEF Holding, HoldsRows
    <2>. HIDE DEF d
    <2>. QED BY <1>1, <2>2, OrderIsBoth DEF RowLock
  <1>5. ASSUME NEW k \in Keys, held[Lock(k)] = x, envs[k] # None PROVE envs'[k] = envs[k]
    <2>1. CASE UNCHANGED <<envs, acked>>
      BY <2>1
    <2>2. ASSUME NEW q \in Requests, InsertEnvironment(q) PROVE envs'[k] = envs[k]
      BY <1>0, <1>5, <2>2 DEF InsertEnvironment
    <2>3. ASSUME NEW q \in Requests, UpdateEnvironment(q) PROVE envs'[k] = envs[k]
      <3>1. q # x
        BY <2>3 DEF UpdateEnvironment
      <3>2. held[Lock(req[q].key)] \in {None, q}
        BY <2>3 DEF UpdateEnvironment, Free
      <3>3. req[q].key # k
        BY <1>5, <3>1, <3>2, NoneAssumption
      <3>. QED BY <1>0, <2>3, <3>3 DEF UpdateEnvironment
    <2>. QED BY <2>1, <2>2, <2>3, EnvsStep
  <1>. QED BY <1>2, <1>3, <1>4, <1>5

\* A request that does not move keeps what it has read.
LEMMA ReadOthers ==
  ASSUME Typed, LockInv, CountInv, RevisionInv, ReadInv, [Next]_vars,
         NEW x \in Requests, req'[x] = req[x]
  PROVE  HasRead(envs', runs', req'[x])
  <1>0. req[x] \in RequestType /\ HasRead(envs, runs, req[x])
    BY DEF Typed, ReadInv
  <1>1. ASSUME req[x].at \in {"sourced", "ordered"} PROVE ReadSource(envs', runs', req[x])
    <2>1. req[x].reference \in Runs /\ req[x].candidate \in Runs /\ req[x].from \in Keys
          /\ req[x].source \in Row
      BY <1>0, <1>1, RequestShape DEF Sourced, Ordered
    <2>2. req[x].source.rev \in Nat
      BY <2>1 DEF Row
    <2>3. ReadSource(envs, runs, req[x])
      BY <1>0, <1>1 DEF HasRead
    <2>. QED BY <2>1, <2>2, <2>3, StillRemembers, StillSamePair DEF ReadSource
  <1>2. ASSUME req[x].at = "ordered"
        PROVE  Remembers(envs', req[x].to, req[x].target.rank, req[x].target.rev)
    <2>1. req[x].to \in Keys /\ req[x].target \in Row
      BY <1>0, <1>2, RequestShape DEF Ordered
    <2>2. req[x].target.rev \in Nat
      BY <2>1 DEF Row
    <2>. QED BY <1>0, <1>2, <2>1, <2>2, StillRemembers DEF HasRead
  <1>3. ASSUME req[x].at \in {"decided", "revalidated"} PROVE ReadPair(envs', runs', req[x].decision)
    <2> DEFINE d == req[x].decision
    <2>1. d \in DecisionType
      BY <1>0, <1>3, RequestShape DEF Decided
    <2>2. ReadPair(envs, runs, d)
      BY <1>0, <1>3 DEF HasRead
    <2> HIDE DEF d
    <2>3. /\ <<d.project, d.source.ref>> \in Keys /\ <<d.project, d.target.ref>> \in Keys
          /\ d.source.rev \in Nat /\ d.target.rev \in Nat
          /\ d.reference \in Runs /\ d.candidate \in Runs
      BY <2>1 DEF DecisionType, PositionType, Keys
    <2>4. ReadPair(envs', runs', d)
      BY <2>2, <2>3, StillRemembers, StillSamePair DEF ReadPair
    <2>. QED BY <2>4 DEF d
  <1>4. ASSUME req[x].at = "revalidated" PROVE Unmoved(envs', req[x].decision)
    BY <1>0, <1>4, LockedRowsStay DEF HasRead, Unmoved
  <1>. QED BY <1>1, <1>2, <1>3, <1>4 DEF HasRead

\* Whatever the others do, what a promotion has read was so, and once it has
\* revalidated its rows under their locks it still is.
LEMMA ReadStep ==
  ASSUME Typed, LockInv, CountInv, RevisionInv, ReadInv, [Next]_vars
  PROVE  ReadInv'
  <1>0. /\ envs \in [Keys -> Row \cup {None}]
        /\ req \in [Requests -> RequestType]
    BY DEF Typed, TypeOK
  <1> SUFFICES ASSUME NEW x \in Requests, req'[x] # req[x] PROVE HasRead(envs', runs', req'[x])
    BY ReadOthers DEF ReadInv
  <1>00. req[x] \in RequestType /\ HasRead(envs, runs, req[x])
    BY <1>0 DEF ReadInv
  <1>1. CASE req'[x].at \notin {"sourced", "ordered", "decided", "revalidated"}
    BY <1>1 DEF HasRead
  <1>2. CASE req'[x].at = "sourced"
    <2>1. Promote(x)
      BY <1>2, Becomes
    <2>2. UNCHANGED <<envs, runs>>
      BY <2>1 DEF Promote
    <2>3. PICK reference \in Runs, candidate \in Runs, target \in Refs :
              LET source == <<RunInfo[candidate].project, RunInfo[candidate].env>>
              IN req' = [req EXCEPT ![x] =
                     IF Comparable(reference, candidate) /\ envs[source] # None
                     THEN [at |-> "sourced", reference |-> reference, candidate |-> candidate,
                           from |-> source, source |-> envs[source],
                           to |-> <<source[1], target>>]
                     ELSE Ended]
      BY <2>1 DEF Promote
    <2> DEFINE source == <<RunInfo[candidate].project, RunInfo[candidate].env>>
    <2>4. /\ Comparable(reference, candidate) /\ envs[source] # None
          /\ req'[x] = [at |-> "sourced", reference |-> reference, candidate |-> candidate,
                        from |-> source, source |-> envs[source],
                        to |-> <<source[1], target>>]
      BY <1>0, <1>2, <2>3 DEF Ended
    <2>5. source \in Keys
      BY EnvironmentAssumption DEF Keys
    <2>6. envs[source].rev \in Nat
      BY <1>0, <2>4, <2>5 DEF Row
    <2>7. SamePair(runs, reference, candidate, source[1], source[2])
      BY <2>4 DEF SamePair, Comparable
    <2> HIDE DEF source
    <2>8. Remembers(envs, source, envs[source].rank, envs[source].rev)
      BY <2>4, <2>6 DEF Remembers
    <2>9. ReadSource(envs, runs, req'[x])
      BY <2>4, <2>7, <2>8 DEF ReadSource
    <2>. QED BY <1>2, <2>2, <2>9 DEF HasRead
  <1>3. CASE req'[x].at = "ordered"
    <2>1. ReadTarget(x)
      BY <1>3, Becomes
    <2>2. UNCHANGED <<envs, runs>> /\ req[x].at = "sourced"
      BY <2>1 DEF ReadTarget
    <2> DEFINE r == req[x]
    <2>3. /\ envs[r.to] # None
          /\ req'[x] = [at |-> "ordered", reference |-> r.reference, candidate |-> r.candidate,
                        from |-> r.from, source |-> r.source,
                        to |-> r.to, target |-> envs[r.to]]
      BY <1>0, <1>3, <2>1 DEF ReadTarget, Ended
    <2>4. r.to \in Keys
      BY <1>00, <2>2, RequestShape DEF Sourced
    <2>5. envs[r.to].rev \in Nat
      BY <1>0, <2>3, <2>4 DEF Row
    <2>6. ReadSource(envs, runs, r)
      BY <1>00, <2>2 DEF HasRead
    <2>7. ReadSource(envs, runs, req'[x])
      BY <2>3, <2>6 DEF ReadSource
    <2>8. Remembers(envs, r.to, envs[r.to].rank, envs[r.to].rev)
      BY <2>3, <2>5 DEF Remembers
    <2>. QED BY <1>3, <2>2, <2>3, <2>7, <2>8 DEF HasRead
  <1>4. CASE req'[x].at = "decided"
    <2>1. CASE Decide(x)
      <3>1. UNCHANGED <<envs, runs>> /\ req[x].at = "ordered"
        BY <2>1 DEF Decide
      <3>2. PICK verdict \in {"pass", "fail", "error"} :
              req' = [req EXCEPT ![x] =
                  IF verdict = "error"
                  THEN Ended
                  ELSE [at |-> "decided", locked |-> 0,
                        decision |-> [project |-> @.from[1], reference |-> @.reference,
                                      candidate |-> @.candidate,
                                      source |-> Position(@.from[2], @.source),
                                      target |-> Position(@.to[2], @.target),
                                      verdict |-> verdict, outcome |-> outcomeFor(verdict),
                                      id |-> x]]]
        BY <2>1 DEF Decide
      <3> DEFINE r == req[x]
                 d == [project |-> r.from[1], reference |-> r.reference,
                       candidate |-> r.candidate,
                       source |-> Position(r.from[2], r.source),
                       target |-> Position(r.to[2], r.target),
                       verdict |-> verdict, outcome |-> outcomeFor(verdict), id |-> x]
      <3>3. req'[x].decision = d
        BY <1>0, <1>4, <3>2 DEF Ended
      <3>4. ReadSource(envs, runs, r) /\ Remembers(envs, r.to, r.target.rank, r.target.rev)
        BY <1>00, <3>1 DEF HasRead
      <3>5. r \in Ordered
        BY <1>00, <3>1, RequestShape
      <3>6. r.from \in Keys /\ r.to \in Keys
        BY <3>5 DEF Ordered
      <3>7. /\ d.project = r.from[1] /\ d.reference = r.reference /\ d.candidate = r.candidate
            /\ d.source.ref = r.from[2] /\ d.source.rank = r.source.rank /\ d.source.rev = r.source.rev
            /\ d.target.ref = r.to[2] /\ d.target.rank = r.target.rank /\ d.target.rev = r.target.rev
            /\ d.outcome = "accepted" <=> d.verdict = "pass"
        BY DEF Position, outcomeFor
      <3> HIDE DEF d, r
      <3>8. <<d.project, d.source.ref>> = r.from /\ <<d.project, d.target.ref>> = r.to
        BY <3>4, <3>6, <3>7 DEF Keys, ReadSource
      <3>9. ReadPair(envs, runs, d)
        BY <3>4, <3>7, <3>8 DEF ReadPair, ReadSource
      <3>. QED BY <1>4, <3>1, <3>3, <3>9 DEF HasRead
    <2>2. CASE LockEnvironment(x)
      <3>1. UNCHANGED <<envs, runs>> /\ req[x].at = "decided"
            /\ req' = [req EXCEPT ![x].locked = @ + 1]
        BY <2>2 DEF LockEnvironment
      <3>2. req[x] \in Decided
        BY <1>00, <3>1, RequestShape
      <3>3. req'[x].decision = req[x].decision
        BY <1>0, <3>1, <3>2 DEF Decided
      <3>. QED BY <1>00, <1>4, <3>1, <3>3 DEF HasRead
    <2>. QED BY <1>4, <2>1, <2>2, Becomes
  <1>5. CASE req'[x].at = "revalidated"
    <2>1. Revalidate(x) /\ ~Ends(x)
      BY <1>5, Becomes
    <2>2. UNCHANGED <<envs, runs>> /\ req[x].at = "decided"
          /\ req' = [req EXCEPT ![x].at = "revalidated"] /\ StillAuthoritative(req[x].decision)
      BY <2>1 DEF Revalidate
    <2>3. req[x] \in Decided
      BY <1>00, <2>2, RequestShape
    <2>4. req'[x].decision = req[x].decision
      BY <1>0, <2>2, <2>3 DEF Decided
    <2>5. Unmoved(envs, req[x].decision)
      BY <2>2 DEF StillAuthoritative, Unmoved
    <2>. QED BY <1>00, <1>5, <2>2, <2>4, <2>5 DEF HasRead
  <1>. QED
    BY <1>1, <1>2, <1>3, <1>4, <1>5

-----------------------------------------------------------------------------
(* The theorems. *)

\* The invariant is inductive.
THEOREM RegistryInvariant == Spec => []RegistryInv
  <1>1. Init => RegistryInv
    BY InitTyped, InitLock, InitCount, InitRevision, InitRead DEF RegistryInv
  <1>2. RegistryInv /\ [Next]_vars => RegistryInv'
    BY TypedStep, LockStep, CountStep, RevisionStep, ReadStep DEF RegistryInv
  <1>. QED
    BY <1>1, <1>2, PTL DEF Spec

\* Two requests never wait for each other's rows.
LEMMA OrderedLocks == ASSUME Typed, LockInv PROVE NoCircularWait
  <1> SUFFICES ASSUME NEW q1 \in Requests, NEW q2 \in Requests, q1 # q2,
                      NEW l1 \in NextLock(q1), held[l1] = q2,
                      NEW l2 \in NextLock(q2), held[l2] = q1
               PROVE  FALSE
    BY DEF NoCircularWait
  <1>0. req[q1] \in RequestType /\ req[q2] \in RequestType
    BY DEF Typed
  <1>1. ASSUME NEW q \in Requests, NEW l \in NextLock(q)
        PROVE  /\ l \in Locks
               /\ req[q].at \in {"decided", "updating"}
               /\ req[q].at = "decided" => /\ req[q].decision \in DecisionType
                                           /\ req[q].locked \in {0, 1}
                                           /\ l = RowLock(req[q].decision, req[q].locked + 1)
    <2>0. req[q] \in RequestType
      BY DEF Typed
    <2>1. CASE req[q].at = "decided" /\ req[q].locked < 2
      <3>1. req[q] \in Decided
        BY <2>0, <2>1, RequestShape
      <3>2. req[q].decision \in DecisionType /\ req[q].locked \in {0, 1}
        BY <2>1, <3>1 DEF Decided
      <3>3. l = RowLock(req[q].decision, req[q].locked + 1)
        BY <1>1, <2>1 DEF NextLock, RowLock
      <3>4. RowLock(req[q].decision, 1) \in Locks /\ RowLock(req[q].decision, 2) \in Locks
        BY <3>2, OrderIsBoth
      <3>. QED BY <2>1, <3>2, <3>3, <3>4
    <2>2. CASE ~(req[q].at = "decided" /\ req[q].locked < 2)
      <3>1. req[q].at = "updating" /\ l = Lock(req[q].key)
        BY <1>1, <2>2 DEF NextLock
      <3>2. req[q].key \in Keys
        BY <2>0, <3>1, RequestShape DEF Updating
      <3>3. Lock(req[q].key) \in Locks
        BY <3>2 DEF Lock, Locks
      <3>. QED BY <3>1, <3>3
    <2>. QED BY <2>1, <2>2
  <1>2. ASSUME NEW q \in Requests, NEW l \in NextLock(q), NEW m \in Locks, held[m] = q
        PROVE  req[q].at = "decided" /\ req[q].locked = 1 /\ m = RowLock(req[q].decision, 1)
    <2>1. Holding(q, req[q], held)
      BY DEF LockInv
    <2>2. req[q].at \in {"decided", "updating"}
          /\ (req[q].at = "decided" => req[q].locked \in {0, 1})
      BY <1>1, <1>2
    <2>. QED BY <1>2, <2>1, <2>2 DEF Holding, HoldsNoMore
  <1>3. /\ req[q1].at = "decided" /\ req[q1].locked = 1 /\ l2 = RowLock(req[q1].decision, 1)
        /\ req[q2].at = "decided" /\ req[q2].locked = 1 /\ l1 = RowLock(req[q2].decision, 1)
    BY <1>1, <1>2
  <1> DEFINE d1 == req[q1].decision
             d2 == req[q2].decision
  <1>4. d1 \in DecisionType /\ d2 \in DecisionType /\ l1 = RowLock(d1, 2) /\ l2 = RowLock(d2, 2)
    BY <1>1, <1>3
  <1> HIDE DEF d1, d2
  <1>5. RowLock(d1, 2) = RowLock(d2, 1) /\ RowLock(d2, 2) = RowLock(d1, 1)
    BY <1>3, <1>4 DEF d1, d2
  <1>6. RowLock(d1, 1) = RowLock(d1, 2)
    <2>1. CASE ~Pooled
      BY <2>1 DEF RowLock, Lock
    <2>2. CASE Pooled
      <3> DEFINE o1 == promotionEnvironmentOrder(d1)
                 o2 == promotionEnvironmentOrder(d2)
      <3>1. o1[1] \in Nat /\ o1[2] \in Nat /\ o2[1] \in Nat /\ o2[2] \in Nat
            /\ o1[1] <= o1[2] /\ o2[1] <= o2[2]
        BY <1>4, OrderIsBoth, EnvironmentAssumption
      <3>2. <<d1.project, o1[2]>> = <<d2.project, o2[1]>> /\ <<d2.project, o2[2]>> = <<d1.project, o1[1]>>
        BY <1>5, <2>2 DEF RowLock, Lock
      <3>3. o1[2] = o2[1] /\ o2[2] = o1[1]
        BY <3>2
      <3> HIDE DEF o1, o2
      <3>4. o1[1] = o1[2]
        BY <3>1, <3>3
      <3>. QED BY <3>4 DEF RowLock, o1
    <2>. QED BY <2>1, <2>2
  <1>. QED
    BY <1>3, <1>4, <1>6 DEF d1, d2

\* The registry keeps its cap whatever creates race, loses no acknowledged
\* change, and its requests never wait for each other in a circle
\* (environment_store.go, promotion_store.go).
THEOREM RegistrySound == Spec => []RegistryIsSound
  <1>1. RegistryInv => RegistryIsSound
    <2> SUFFICES ASSUME RegistryInv PROVE RegistryIsSound
      OBVIOUS
    <2>1. \A p \in Projects : environmentCount(p) <= MaxEnvironments
      BY DEF RegistryInv, CountInv, Count, Present, environmentCount
    <2>2. \A k \in Keys : envs[k] # None => envs[k].rev = 1 + acked[k]
      BY DEF RegistryInv, RevisionInv
    <2>3. NoCircularWait
      BY OrderedLocks DEF RegistryInv
    <2>. QED BY <2>1, <2>2, <2>3 DEF RegistryInv, Typed, RegistryIsSound, RegistryIsConsistent
  <1>. QED
    BY <1>1, RegistryInvariant, PTL

\* A revalidated decision is authoritative.
LEMMA RevalidatedIsAuthoritative ==
  ASSUME RegistryInv, NEW q \in Requests, req[q].at = "revalidated"
  PROVE  Authoritative(req[q].decision)
  <1> DEFINE d == req[q].decision
             s == envs[<<d.project, d.source.ref>>]
             t == envs[<<d.project, d.target.ref>>]
  <1>1. d \in DecisionType
    BY RequestShape DEF RegistryInv, Typed, Decided
  <1>2. ReadPair(envs, runs, d) /\ Unmoved(envs, d)
    BY DEF RegistryInv, ReadInv, HasRead
  <1> HIDE DEF d
  <1>3. d.source.rank = s.rank /\ d.target.rank = t.rank /\ d.source.rev = s.rev /\ d.target.rev = t.rev
    BY <1>2 DEF ReadPair, Unmoved, Remembers
  <1>4. d.source = Position(d.source.ref, s) /\ d.target = Position(d.target.ref, t)
    BY <1>1, <1>3 DEF DecisionType, PositionType, Position
  <1>5. CanPromote(s, t)
    BY <1>2 DEF Unmoved
  <1>6. Authoritative(d)
    BY <1>2, <1>4, <1>5 DEF Authoritative, CanPromote, ReadPair, SamePair
  <1>. QED BY <1>6 DEF d

\* Whatever is reconfigured between the reads of a promotion and its insert, what
\* enters the record is authoritative at that moment, and nothing leaves it
\* (controlplane.go, Promote; promotion_store.go, insertPromotionLocked).
THEOREM OnlyAuthoritativePromotions == Spec => PromotionsAreAuthoritative
  <1>1. ASSUME RegistryInv, [Next]_vars PROVE [PromotionIsAuthoritative]_vars
    <2>1. ASSUME NEW q \in Requests, InsertPromotion(q) PROVE PromotionIsAuthoritative
      BY <1>1, <2>1, RevalidatedIsAuthoritative DEF InsertPromotion, PromotionIsAuthoritative
    <2>2. CASE UNCHANGED promotions
      BY <2>2 DEF PromotionIsAuthoritative
    <2>. QED
      BY <1>1, <2>1, <2>2, ZenonT(30) DEF Next, vars, Begin, LockProject, MutateLoad, CheckRun, Promote,
         Continue, CountEnvironments, InsertEnvironment, UpdateEnvironment, CreateEvaluationRun,
         ReadTarget, Decide, LockEnvironment, Revalidate, Cancel, RunCompletes
  <1>. QED
    BY <1>1, RegistryInvariant, PTL DEF Spec, PromotionsAreAuthoritative

-----------------------------------------------------------------------------
(* The control plane's other registers, in the behaviours of the composition: *)
(* scenario executions and a run's evidence.                                  *)

\* A behaviour is of one component.
LEMMA PartStays == ASSUME [RegistryNext]_all PROVE part' = part
  BY DEF RegistryNext, all, EnvOnly, ExecOnly, IngestOnly

\* What the executions' invariant needs of a step.
LEMMA ExecutionPart ==
  ASSUME part = "executions" => Exec!ExecutionInv, [RegistryNext]_all, part = "executions"
  PROVE  /\ Exec!ExecutionInv'
         /\ Exec!EndedStays
  <1>1. [Exec!Next]_(Exec!vars)
    BY DEF RegistryNext, all, execVars, Exec!vars
  <1>. QED
    BY <1>1, ExecutionAssumption, Exec!ExecutionStep, Exec!EndedStep

(* Completed executions are numbered without a gap, hold the runs they asked  *)
(* for, each completed and none twice, and quote the reference they inherit   *)
(* (scenario_execution_store.go, scenario_execution_service.go).              *)
THEOREM RegistryExecutionsSound == RegistrySpec => []ExecutionsAreSound
  <1> DEFINE PartInv == part = "executions" => Exec!ExecutionInv
  <1>1. RegistryInit => PartInv
    BY ExecutionAssumption, Exec!ExecutionInit DEF RegistryInit
  <1>2. PartInv /\ [RegistryNext]_all => PartInv'
    BY PartStays, ExecutionPart
  <1>3. PartInv => ExecutionsAreSound
    BY ExecutionAssumption, Exec!ExecutionInvIsSound DEF ExecutionsAreSound
  <1>. QED
    BY <1>1, <1>2, <1>3, PTL DEF RegistrySpec

(* An execution that has completed or failed never changes again, whichever   *)
(* of a racing completion and failure comes second (scenario_execution.go).   *)
THEOREM RegistryEndedFinal == RegistrySpec => EndedIsFinal
  <1> DEFINE PartInv == part = "executions" => Exec!ExecutionInv
  <1>1. RegistryInit => PartInv
    BY ExecutionAssumption, Exec!ExecutionInit DEF RegistryInit
  <1>2. PartInv /\ [RegistryNext]_all => PartInv'
    BY PartStays, ExecutionPart
  <1>3. PartInv /\ [RegistryNext]_all => [part = "executions" => Exec!EndedStays]_all
    BY ExecutionPart
  <1>. QED
    BY <1>1, <1>2, <1>3, PTL DEF RegistrySpec, EndedIsFinal

(* On either store, torn reads included, the snapshot is the fold of a prefix *)
(* of the run and a record is called fresh exactly when it is the first of    *)
(* its behavior (controlplane.go, applyRecord; sqlite.go, postgres.go).       *)
THEOREM RegistryEvidenceRight == RegistrySpec => []StoredEvidenceIsRight
  <1> DEFINE PartInv == part = "ingest" => Ingest!IngestInv /\ Ingest!StoreInv
  <1>1. RegistryInit => PartInv
    BY IngestAssumption, Ingest!InitInv, Ingest!StoreInit DEF RegistryInit
  <1>2. PartInv /\ [RegistryNext]_all => PartInv'
    <2> SUFFICES ASSUME PartInv, [RegistryNext]_all, part = "ingest"
                 PROVE  Ingest!IngestInv' /\ Ingest!StoreInv'
      BY PartStays
    <2>1. [Ingest!Next]_(Ingest!vars)
      BY DEF RegistryNext, all, ingestVars, Ingest!vars, Ingest!rows, Ingest!handlers, Ingest!outside
    <2>. QED
      BY <2>1, IngestAssumption, Ingest!InvStep, Ingest!StoreStep
  <1>3. PartInv => StoredEvidenceIsRight
    <2> SUFFICES ASSUME Ingest!IngestInv, Ingest!StoreInv
                 PROVE  Ingest!SnapshotIsPrefix /\ Ingest!FreshIsFirst
      BY DEF StoredEvidenceIsRight
    <2>1. Ingest!StoredEvidenceIsRight
      BY IngestAssumption, Ingest!StoreInvIsRight
    <2>. QED
      BY <2>1 DEF Ingest!StoredEvidenceIsRight
  <1>. QED
    BY <1>1, <1>2, <1>3, PTL DEF RegistrySpec
=============================================================================
