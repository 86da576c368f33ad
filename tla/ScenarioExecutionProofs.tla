---------------------- MODULE ScenarioExecutionProofs -----------------------
(***************************************************************************)
(* Proofs about scenario executions, for any number of executions,         *)
(* requests, runs and repetitions.                                         *)
(***************************************************************************)
EXTENDS ScenarioExecution, FiniteSetTheorems, TLAPS

\* What a completion compares: as many distinct completed runs on either side.
SidesOK(n, reference, candidate) ==
    /\ Len(reference) = n /\ Len(candidate) = n
    /\ IsInjective(reference \o candidate)
    /\ ToSet(reference) \cup ToSet(candidate) \subseteq done
    /\ ToSet(candidate) \subseteq OwnAgent

\* An execution that another one may rest on.
Standing(E, e) == e \in Ids /\ E[e] # None /\ E[e].status = "completed"

\* A row reuses the reference side of one that stands, for as many runs.
RestsOn(E, x) ==
    x.from # None =>
        Standing(E, x.from) /\ E[x.from].stated = x.stated /\ E[x.from].runs = x.runs

\* A row beside the others.
RowOK(E, x) ==
    /\ x \in Rows
    /\ RestsOn(E, x)
    /\ x.status # "completed" => x.seq = 0 /\ x.reference = << >>
    /\ x.status = "completed" =>
          /\ SidesOK(x.runs, x.reference, x.candidate)
          /\ x.from # None => /\ E[x.from].seq < x.seq
                              /\ x.reference = E[x.from].reference

\* A request beside the rows: what it has read of them still holds.
Comparing == [at : {"compared", "loaded"}, id : Ids, reference : Seq(Runs), candidate : Seq(Runs)]
             \cup [at : {"numbered"}, number : Nat, id : Ids, reference : Seq(Runs),
                   candidate : Seq(Runs)]

RequestOK(E, r) ==
    \/ r = Idle
    \/ r.at = "failing" /\ r.id \in Ids /\ E[r.id] # None
    \/ /\ r.at = "beginning" /\ r.id \in Ids
       /\ RowOK(E, r.row) /\ r.row.status = "running"
    \/ /\ r \in Comparing /\ E[r.id] # None
       /\ SidesOK(E[r.id].runs, r.reference, r.candidate)
       /\ E[r.id].from # None => r.reference = E[E[r.id].from].reference

\* Only one request at a time has a number, and it is the next.
NumberInv ==
    /\ project \in Handlers \cup {None}
    /\ \A q \in Handlers : req[q].at = "numbered" =>
          project = q /\ req[q].number = Cardinality(Completed) + 1
    /\ {executions[e].seq : e \in Completed} = 1..Cardinality(Completed)

\* The inductive invariant.
ExecutionInv ==
    /\ DOMAIN executions = Ids /\ DOMAIN req = Handlers
    /\ \A e \in Recorded : RowOK(executions, executions[e])
    /\ \A q \in Handlers : RequestOK(executions, req[q])
    /\ NumberInv

-----------------------------------------------------------------------------
(* Sides and rows as values. *)

\* An execution that has not completed has no runs.
LEMMA EmptySide == << >> \in Seq(Runs) /\ 0 \in Nat
  OBVIOUS

\* Distinct runs on either side, and none on both.
LEMMA TwoSides ==
  ASSUME NEW r \in Seq(Runs), NEW c \in Seq(Runs)
  PROVE  IsInjective(r \o c) <=>
            IsInjective(r) /\ IsInjective(c) /\ ToSet(r) \cap ToSet(c) = {}
  <1> DEFINE t == r \o c
             a == Len(r)
             b == Len(c)
  <1>1. /\ a \in Nat /\ b \in Nat /\ DOMAIN r = 1..a /\ DOMAIN c = 1..b /\ DOMAIN t = 1..(a + b)
        /\ \A i \in 1..a : t[i] = r[i]
        /\ \A i \in 1..b : t[a + i] = c[i]
    OBVIOUS
  <1> HIDE DEF t, a, b
  <1>2. ASSUME IsInjective(t) PROVE IsInjective(r) /\ IsInjective(c) /\ ToSet(r) \cap ToSet(c) = {}
    <2>1. IsInjective(r)
      BY <1>1, <1>2 DEF IsInjective
    <2>2. IsInjective(c)
      <3> SUFFICES ASSUME NEW i \in 1..b, NEW j \in 1..b, c[i] = c[j] PROVE i = j
        BY <1>1 DEF IsInjective
      <3>1. a + i \in 1..(a + b) /\ a + j \in 1..(a + b) /\ t[a + i] = t[a + j]
        BY <1>1
      <3>2. a + i = a + j
        BY <1>1, <1>2, <3>1 DEF IsInjective
      <3>. QED
        BY <1>1, <3>2
    <2>3. ASSUME NEW i \in 1..a, NEW j \in 1..b, r[i] = c[j] PROVE FALSE
      <3>1. i \in 1..(a + b) /\ a + j \in 1..(a + b) /\ t[i] = t[a + j]
        BY <1>1, <2>3
      <3>2. i = a + j
        BY <1>1, <1>2, <3>1 DEF IsInjective
      <3>. QED
        BY <1>1, <3>2
    <2>. QED
      BY <1>1, <2>1, <2>2, <2>3 DEF ToSet
  <1>3. ASSUME IsInjective(r), IsInjective(c), ToSet(r) \cap ToSet(c) = {} PROVE IsInjective(t)
    <2> SUFFICES ASSUME NEW i \in 1..(a + b), NEW j \in 1..(a + b), t[i] = t[j] PROVE i = j
      BY <1>1 DEF IsInjective
    <2>1. CASE i <= a /\ j <= a
      <3>1. i \in 1..a /\ j \in 1..a
        BY <1>1, <2>1
      <3>. QED
        BY <1>1, <1>3, <3>1 DEF IsInjective
    <2>2. ASSUME NEW k \in 1..(a + b), k > a PROVE k - a \in 1..b /\ t[k] = c[k - a]
      <3>1. k - a \in 1..b /\ a + (k - a) = k
        BY <1>1, <2>2
      <3>2. t[a + (k - a)] = c[k - a]
        BY <1>1, <3>1
      <3>. QED
        BY <3>1, <3>2
    <2>3. CASE i > a /\ j > a
      <3>1. i - a \in 1..b /\ j - a \in 1..b /\ c[i - a] = c[j - a]
        BY <2>2, <2>3
      <3>2. i - a = j - a
        BY <1>1, <1>3, <3>1 DEF IsInjective
      <3>. QED
        BY <1>1, <3>2
    <2>4. ASSUME NEW k \in 1..(a + b), NEW l \in 1..(a + b), k <= a, l > a, t[k] = t[l] PROVE FALSE
      <3>1. k \in 1..a /\ l - a \in 1..b /\ r[k] = c[l - a]
        BY <1>1, <2>2, <2>4
      <3>. QED
        BY <1>1, <1>3, <3>1 DEF ToSet
    <2>. QED
      BY <1>1, <2>1, <2>3, <2>4
  <1>. QED
    BY <1>2, <1>3 DEF t

\* How rows may change under a request that has read them: nothing is removed,
\* what an execution was begun with stays, and an ended one does not change.
Grows(E, F) ==
    \A e \in Ids : E[e] # None =>
        /\ F[e] # None /\ F[e].from = E[e].from /\ F[e].runs = E[e].runs /\ F[e].stated = E[e].stated
        /\ E[e].status # "running" => F[e] = E[e]

\* A row and a request stay right while the rows grow.
LEMMA StaysRight ==
  ASSUME NEW E, NEW F, Grows(E, F), NEW x
  PROVE  /\ RowOK(E, x) => RowOK(F, x)
         /\ (\A e \in Ids : E[e] # None => RowOK(E, E[e])) /\ RequestOK(E, x) => RequestOK(F, x)
  <1>1. ASSUME NEW y, y \in Rows, RestsOn(E, y)
        PROVE  RestsOn(F, y) /\ (y.from # None => y.from \in Ids /\ F[y.from] = E[y.from])
    BY <1>1 DEF RestsOn, Standing, Grows
  <1>2. ASSUME NEW y, RowOK(E, y) PROVE RowOK(F, y)
    BY <1>1, <1>2 DEF RowOK
  <1>3. ASSUME \A e \in Ids : E[e] # None => RowOK(E, E[e]), RequestOK(E, x) PROVE RequestOK(F, x)
    <2>1. CASE x = Idle
      BY <2>1 DEF RequestOK
    <2>2. CASE x.at = "failing" /\ x.id \in Ids /\ E[x.id] # None
      BY <2>2 DEF RequestOK, Grows
    <2>3. CASE /\ x.at = "beginning" /\ x.id \in Ids /\ RowOK(E, x.row) /\ x.row.status = "running"
      BY <1>2, <2>3 DEF RequestOK
    <2>4. CASE /\ x \in Comparing /\ E[x.id] # None
               /\ SidesOK(E[x.id].runs, x.reference, x.candidate)
               /\ E[x.id].from # None => x.reference = E[E[x.id].from].reference
      <3>1. x.id \in Ids
        BY <2>4 DEF Comparing
      <3>2. RowOK(E, E[x.id])
        BY <1>3, <2>4, <3>1
      <3>3. E[x.id].from # None => F[E[x.id].from] = E[E[x.id].from]
        BY <1>1, <3>2 DEF RowOK
      <3>4. F[x.id] # None /\ F[x.id].from = E[x.id].from /\ F[x.id].runs = E[x.id].runs
        BY <2>4, <3>1 DEF Grows
      <3>. QED
        BY <2>4, <3>3, <3>4 DEF RequestOK
    <2>. QED
      BY <1>3, <2>1, <2>2, <2>3, <2>4 DEF RequestOK
  <1>. QED
    BY <1>2, <1>3

\* A request that begins, or ends, leaves the numbers to the one that has one.
LEMMA OneRequest ==
  ASSUME RunsAssumption, ExecutionInv, UNCHANGED executions, NEW q \in Handlers, NEW r,
         req' = [req EXCEPT ![q] = r], RequestOK(executions, r), r.at # "numbered",
         project' = project \/ (project = q /\ project' = None)
  PROVE  ExecutionInv'
  <1>1. /\ DOMAIN req' = Handlers /\ req'[q] = r /\ \A p \in Handlers \ {q} : req'[p] = req[p]
    BY DEF ExecutionInv
  <1>2. Recorded' = Recorded /\ Completed' = Completed
    BY DEF Recorded, Completed
  <1>3. \A p \in Handlers : RequestOK(executions, req'[p])
    BY <1>1 DEF ExecutionInv
  <1>4. NumberInv'
    <2>1. project' \in Handlers \cup {None}
      BY DEF ExecutionInv, NumberInv
    <2>2. ASSUME NEW p \in Handlers, req'[p].at = "numbered"
          PROVE  project' = p /\ req'[p].number = Cardinality(Completed) + 1
      <3>1. p # q /\ req'[p] = req[p]
        BY <1>1, <2>2
      <3>2. project = p /\ req[p].number = Cardinality(Completed) + 1
        BY <2>2, <3>1 DEF ExecutionInv, NumberInv
      <3>. QED
        BY <3>1, <3>2
    <2>. QED
      BY <1>2, <2>1, <2>2 DEF ExecutionInv, NumberInv
  <1>. QED
    BY <1>1, <1>2, <1>3, <1>4 DEF ExecutionInv
\* What a request that compares carries.
LEMMA ComparingOnly ==
  ASSUME ExecutionInv, NEW q \in Handlers, req[q].at \in {"compared", "loaded", "numbered"}
  PROVE  /\ req[q] \in Comparing /\ req[q].id \in Ids /\ executions[req[q].id] # None
         /\ SidesOK(executions[req[q].id].runs, req[q].reference, req[q].candidate)
         /\ executions[req[q].id].from # None =>
               req[q].reference = executions[executions[req[q].id].from].reference
         /\ RowOK(executions, executions[req[q].id])
  <1>1. RequestOK(executions, req[q]) /\ Idle.at = "idle"
    BY DEF ExecutionInv, Idle
  <1>2. /\ req[q] \in Comparing /\ executions[req[q].id] # None
        /\ SidesOK(executions[req[q].id].runs, req[q].reference, req[q].candidate)
        /\ executions[req[q].id].from # None =>
              req[q].reference = executions[executions[req[q].id].from].reference
    BY <1>1 DEF RequestOK
  <1>3. req[q].id \in Ids
    BY <1>2 DEF Comparing
  <1>. QED
    BY <1>2, <1>3 DEF ExecutionInv, Recorded

\* The completed executions are finitely many, and one of them is the last.
LEMMA CompletedFinite ==
  ASSUME RunsAssumption, ExecutionInv
  PROVE  /\ IsFiniteSet(Completed) /\ Cardinality(Completed) \in Nat
         /\ \A e \in Completed : e \in Ids /\ executions[e].seq \in 1..Cardinality(Completed)
         /\ Completed # {} => LatestCompleted \in Completed
  <1>1. Completed \subseteq Ids
    BY DEF Completed, Recorded
  <1>2. IsFiniteSet(Completed) /\ Cardinality(Completed) \in Nat
    BY <1>1, FS_Subset, FS_CardinalityType DEF RunsAssumption
  <1>3. {executions[e].seq : e \in Completed} = 1..Cardinality(Completed)
    BY DEF ExecutionInv, NumberInv
  <1>4. \A e \in Completed : executions[e].seq \in 1..Cardinality(Completed)
    BY <1>3
  <1>5. ASSUME Completed # {} PROVE LatestCompleted \in Completed
    <2>1. PICK d \in Completed : TRUE
      BY <1>5
    <2>2. Cardinality(Completed) \in 1..Cardinality(Completed)
      BY <1>2, <1>4, <2>1
    <2>3. PICK e \in Completed : executions[e].seq = Cardinality(Completed)
      BY <1>3, <2>2
    <2>4. \A f \in Completed : executions[f].seq <= executions[e].seq
      BY <1>2, <1>4, <2>3
    <2>. QED
      BY <1>5, <2>4 DEF LatestCompleted
  <1>. QED
    BY <1>1, <1>2, <1>4, <1>5

-----------------------------------------------------------------------------
(* Each operation keeps the invariant. *)

\* An execution begins, resting on none or on one that stands.
LEMMA BeginStep ==
  ASSUME RunsAssumption, ExecutionInv, NEW q \in Handlers, Begin(q)
  PROVE  ExecutionInv'
  <1>1. PICK e \in Ids, n \in RunCounts, mode \in {"", "execution", "last"}, r \in Ids,
             reference \in Stated :
        LET from == IF mode = "last" THEN LatestCompleted ELSE r
            row(of, side) ==
               [status |-> "running", runs |-> n, from |-> of, seq |-> 0, stated |-> side,
                reference |-> << >>, candidate |-> << >>]
        IN /\ req[q] = Idle
           /\ req' = [req EXCEPT ![q] =
              CASE mode = "" -> [at |-> "beginning", id |-> e, row |-> row(None, reference)]
                [] mode # "" /\ from # None /\ from # e /\ usableReference(from, n)
                     -> [at |-> "beginning", id |-> e,
                         row |-> row(from, executions[from].stated)]
                [] OTHER -> Idle]
           /\ UNCHANGED <<executions, project>>
    BY Zenon DEF Begin
  <1> DEFINE from == IF mode = "last" THEN LatestCompleted ELSE r
             row(of, side) ==
               [status |-> "running", runs |-> n, from |-> of, seq |-> 0, stated |-> side,
                reference |-> << >>, candidate |-> << >>]
             new(of, side) == [at |-> "beginning", id |-> e, row |-> row(of, side)]
  <1>2. UNCHANGED <<executions, project>>
    BY DEF Begin
  <1>3. ASSUME NEW of \in Ids \cup {None}, NEW side \in Stated, RestsOn(executions, row(of, side))
        PROVE  RequestOK(executions, new(of, side)) /\ new(of, side).at # "numbered"
    <2>1. row(of, side) \in Rows
      BY <1>3, EmptySide DEF Rows
    <2>2. /\ row(of, side).status = "running" /\ row(of, side).seq = 0
          /\ row(of, side).reference = << >>
      OBVIOUS
    <2>3. /\ new(of, side).at = "beginning" /\ new(of, side).id = e
          /\ new(of, side).row = row(of, side)
      OBVIOUS
    <2> HIDE DEF row, new
    <2>4. RowOK(executions, row(of, side))
      BY <1>3, <2>1, <2>2 DEF RowOK
    <2>. QED
      BY <2>2, <2>3, <2>4 DEF RequestOK
  <1>4. CASE mode = ""
    <2>1. row(None, reference).from = None
      OBVIOUS
    <2>2. RestsOn(executions, row(None, reference))
      BY <2>1 DEF RestsOn
    <2>3. RequestOK(executions, new(None, reference)) /\ new(None, reference).at # "numbered"
      BY <1>3, <2>2
    <2>4. req' = [req EXCEPT ![q] = new(None, reference)]
      BY <1>1, <1>4
    <2> HIDE DEF new
    <2>. QED
      BY <1>2, <2>3, <2>4, OneRequest
  <1>5. CASE mode # "" /\ from # None /\ from # e /\ usableReference(from, n)
    <2>1. from \in Ids
      BY <1>5, CompletedFinite DEF LatestCompleted
    <2>2. /\ executions[from] # None /\ executions[from].status = "completed"
          /\ executions[from].runs = n
      BY <1>5 DEF usableReference
    <2>3. executions[from].stated \in Stated
      BY <2>1, <2>2 DEF ExecutionInv, Recorded, RowOK, Rows
    <2>4. req' = [req EXCEPT ![q] = new(from, executions[from].stated)]
      BY <1>1, <1>5
    <2> HIDE DEF from
    <2>5. /\ row(from, executions[from].stated).from = from
          /\ row(from, executions[from].stated).stated = executions[from].stated
          /\ row(from, executions[from].stated).runs = n
      OBVIOUS
    <2> HIDE DEF row
    <2>6. RestsOn(executions, row(from, executions[from].stated))
      BY <2>1, <2>2, <2>5 DEF RestsOn, Standing
    <2> HIDE DEF new
    <2>7. /\ RequestOK(executions, new(from, executions[from].stated))
          /\ new(from, executions[from].stated).at # "numbered"
      BY <1>3, <2>1, <2>3, <2>6 DEF row, new
    <2>. QED
      BY <1>2, <2>4, <2>7, OneRequest
  <1>6. CASE /\ mode # ""
             /\ ~(from # None /\ from # e /\ usableReference(from, n))
    <2>1. req' = [req EXCEPT ![q] = Idle]
      BY <1>1, <1>6
    <2>2. RequestOK(executions, Idle) /\ Idle.at # "numbered"
      BY DEF RequestOK, Idle
    <2>. QED
      BY <1>2, <2>1, <2>2, OneRequest
  <1>. QED
    BY <1>4, <1>5, <1>6

\* A completion is decided: it compares distinct completed runs, on the reference
\* side those of the execution it rests on.
LEMMA CheckStep ==
  ASSUME RunsAssumption, ExecutionInv, NEW q \in Handlers, CompleteCheck(q)
  PROVE  ExecutionInv'
  <1>1. PICK e \in Recorded : \E reference, candidate \in Sides(executions[e].runs) :
        LET row == executions[e]
            side == ReferenceSide(row, reference)
        IN /\ req[q] = Idle
           /\ req' = [req EXCEPT ![q] =
                  IF /\ row.status = "running"
                     /\ row.from # None => usableReference(row.from, row.runs)
                     /\ ToSet(candidate) \subseteq OwnAgent \cap done
                     /\ ToSet(side) \subseteq done
                     /\ ToSet(side) \cap ToSet(candidate) = {}
                  THEN [at |-> "compared", id |-> e, reference |-> side,
                        candidate |-> candidate]
                  ELSE Idle]
           /\ UNCHANGED <<executions, project>>
    BY DEF CompleteCheck
  <1>2. PICK reference \in Sides(executions[e].runs), candidate \in Sides(executions[e].runs) :
        LET row == executions[e]
            side == ReferenceSide(row, reference)
        IN /\ req[q] = Idle
           /\ req' = [req EXCEPT ![q] =
                  IF /\ row.status = "running"
                     /\ row.from # None => usableReference(row.from, row.runs)
                     /\ ToSet(candidate) \subseteq OwnAgent \cap done
                     /\ ToSet(side) \subseteq done
                     /\ ToSet(side) \cap ToSet(candidate) = {}
                  THEN [at |-> "compared", id |-> e, reference |-> side,
                        candidate |-> candidate]
                  ELSE Idle]
           /\ UNCHANGED <<executions, project>>
    BY <1>1
  <1> DEFINE row  == executions[e]
             side == ReferenceSide(row, reference)
             fits == /\ row.status = "running"
                     /\ row.from # None => usableReference(row.from, row.runs)
                     /\ ToSet(candidate) \subseteq OwnAgent \cap done
                     /\ ToSet(side) \subseteq done
                     /\ ToSet(side) \cap ToSet(candidate) = {}
             new  == [at |-> "compared", id |-> e, reference |-> side, candidate |-> candidate]
  <1>3. /\ UNCHANGED <<executions, project>>
        /\ fits => req' = [req EXCEPT ![q] = new]
        /\ ~fits => req' = [req EXCEPT ![q] = Idle]
    BY <1>2
  <1>4. CASE ~fits
    <2>1. RequestOK(executions, Idle) /\ Idle.at # "numbered"
      BY DEF RequestOK, Idle
    <2>. QED
      BY <1>3, <1>4, <2>1, OneRequest
  <1>5. CASE fits
    <2>1. e \in Ids /\ row # None /\ RowOK(executions, row) /\ row.runs \in Nat
      BY DEF Recorded, ExecutionInv, RowOK, Rows, RunsAssumption
    <2>2. ASSUME NEW s \in Sides(row.runs)
          PROVE  s \in Seq(Runs) /\ Len(s) = row.runs /\ IsInjective(s)
      BY <2>1 DEF Sides
    <2>3. side \in Seq(Runs) /\ Len(side) = row.runs /\ IsInjective(side)
      <3>1. CASE row.from = None
        BY <2>2, <3>1 DEF ReferenceSide
      <3>2. CASE row.from # None
        <4> DEFINE f == executions[row.from]
        <4>1. row.from \in Ids /\ f # None /\ f.status = "completed" /\ f.runs = row.runs
          BY <2>1, <3>2 DEF RowOK, RestsOn, Standing
        <4>2. RowOK(executions, f)
          BY <4>1 DEF ExecutionInv, Recorded
        <4>3. /\ f.reference \in Seq(Runs) /\ f.candidate \in Seq(Runs) /\ Len(f.reference) = row.runs
              /\ IsInjective(f.reference \o f.candidate)
          BY <4>1, <4>2 DEF RowOK, Rows, SidesOK
        <4>4. side = f.reference
          BY <3>2 DEF ReferenceSide
        <4> HIDE DEF f
        <4>. QED
          BY <4>3, <4>4, TwoSides
      <3>. QED
        BY <3>1, <3>2
    <2>4. row.from # None => side = executions[row.from].reference
      BY DEF ReferenceSide
    <2>5. candidate \in Seq(Runs) /\ Len(candidate) = row.runs /\ IsInjective(candidate)
      BY <2>2
    <2>6. IsInjective(side \o candidate)
      <3> HIDE DEF side
      <3>. QED
        BY <1>5, <2>3, <2>5, TwoSides DEF side
    <2>7. SidesOK(row.runs, side, candidate)
      BY <1>5, <2>3, <2>5, <2>6 DEF SidesOK
    <2> HIDE DEF side, row
    <2>8. new \in Comparing /\ new.at = "compared" /\ new.id = e /\ new.reference = side
          /\ new.candidate = candidate
      BY <2>1, <2>3, <2>5 DEF Comparing
    <2> HIDE DEF new, fits
    <2>9. RequestOK(executions, new) /\ new.at # "numbered"
      BY <2>1, <2>4, <2>7, <2>8 DEF RequestOK, row
    <2>. QED
      BY <1>3, <1>5, <2>9, OneRequest
  <1>. QED
    BY <1>4, <1>5

\* The transaction reads the row again, and goes on if it still runs.
LEMMA LoadStep ==
  ASSUME RunsAssumption, ExecutionInv, NEW q \in Handlers, CompleteLoad(q)
  PROVE  ExecutionInv'
  <1>1. req[q].at = "compared" /\ UNCHANGED executions
    BY DEF CompleteLoad
  <1>2. CASE req' = [req EXCEPT ![q].at = "loaded"] /\ UNCHANGED project
    <2> DEFINE new == [req[q] EXCEPT !.at = "loaded"]
    <2>1. req' = [req EXCEPT ![q] = new]
      BY <1>2
    <2>2. /\ req[q] \in Comparing /\ executions[req[q].id] # None
          /\ SidesOK(executions[req[q].id].runs, req[q].reference, req[q].candidate)
          /\ executions[req[q].id].from # None =>
                req[q].reference = executions[executions[req[q].id].from].reference
      BY <1>1, ComparingOnly
    <2>3. req[q] \in [at : {"compared", "loaded"}, id : Ids, reference : Seq(Runs),
                     candidate : Seq(Runs)]
      BY <1>1, <2>2 DEF Comparing
    <2>4. /\ new \in Comparing /\ new.at = "loaded" /\ new.id = req[q].id
          /\ new.reference = req[q].reference /\ new.candidate = req[q].candidate
      BY <2>3 DEF Comparing
    <2> HIDE DEF new
    <2>5. RequestOK(executions, new) /\ new.at # "numbered"
      BY <2>2, <2>4 DEF RequestOK
    <2>. QED
      BY <1>1, <1>2, <2>1, <2>5, OneRequest
  <1>3. CASE Ends(q)
    <2>1. RequestOK(executions, Idle) /\ Idle.at # "numbered"
      BY DEF RequestOK, Idle
    <2>2. project' = project \/ (project = q /\ project' = None)
      BY <1>3 DEF Ends
    <2>. QED
      BY <1>1, <1>3, <2>1, <2>2, OneRequest DEF Ends
  <1>. QED
    BY <1>2, <1>3 DEF CompleteLoad
\* The project's row is taken, and only then the next number.
LEMMA NumberStep ==
  ASSUME RunsAssumption, ExecutionInv, NEW q \in Handlers, CompleteNumber(q)
  PROVE  ExecutionInv'
  <1> DEFINE n   == Cardinality(Completed)
             top == Max({0} \cup {executions[e].seq : e \in Completed})
             new == [number |-> top + 1, at |-> "numbered", id |-> req[q].id,
                     reference |-> req[q].reference, candidate |-> req[q].candidate]
  <1>1. /\ req[q].at = "loaded" /\ project = None /\ project' = q /\ UNCHANGED executions
        /\ req' = [req EXCEPT ![q] = new]
    BY DEF CompleteNumber
  <1>2. n \in Nat /\ {executions[e].seq : e \in Completed} = 1..n
    BY CompletedFinite DEF ExecutionInv, NumberInv
  <1>3. top = n
    <2> HIDE DEF n
    <2>1. {0} \cup {executions[e].seq : e \in Completed} = 0..n
      BY <1>2
    <2>2. top = CHOOSE x \in 0..n : \A y \in 0..n : x >= y
      BY <2>1 DEF Max
    <2>3. n \in 0..n /\ \A y \in 0..n : n >= y
      BY <1>2
    <2>4. top \in 0..n /\ \A y \in 0..n : top >= y
      BY <2>2, <2>3
    <2> HIDE DEF top
    <2>. QED
      BY <1>2, <2>3, <2>4
  <1>4. /\ req[q] \in Comparing /\ req[q].id \in Ids /\ executions[req[q].id] # None
        /\ SidesOK(executions[req[q].id].runs, req[q].reference, req[q].candidate)
        /\ executions[req[q].id].from # None =>
              req[q].reference = executions[executions[req[q].id].from].reference
    BY <1>1, ComparingOnly
  <1> HIDE DEF n, top
  <1>5. req[q].reference \in Seq(Runs) /\ req[q].candidate \in Seq(Runs)
    BY <1>4 DEF Comparing
  <1>6. /\ new \in Comparing /\ new.at = "numbered" /\ new.id = req[q].id /\ new.number = n + 1
        /\ new.reference = req[q].reference /\ new.candidate = req[q].candidate
    BY <1>2, <1>3, <1>4, <1>5 DEF Comparing
  <1> HIDE DEF new
  <1>7. RequestOK(executions, new)
    BY <1>4, <1>6 DEF RequestOK
  <1>8. /\ DOMAIN req' = Handlers /\ req'[q] = new /\ \A p \in Handlers \ {q} : req'[p] = req[p]
    BY <1>1 DEF ExecutionInv
  <1>9. Recorded' = Recorded /\ Completed' = Completed
    BY <1>1 DEF Recorded, Completed
  <1>10. NumberInv'
    <2>1. ASSUME NEW p \in Handlers, req'[p].at = "numbered"
          PROVE  project' = p /\ req'[p].number = n + 1
      <3>1. CASE p = q
        BY <1>1, <1>6, <1>8, <3>1
      <3>2. CASE p # q
        <4>1. project = p
          BY <1>8, <2>1, <3>2 DEF ExecutionInv, NumberInv
        <4>. QED
          BY <1>1, <4>1 DEF RunsAssumption
      <3>. QED
        BY <3>1, <3>2
    <2>. QED
      BY <1>1, <1>9, <2>1 DEF ExecutionInv, NumberInv, n
  <1>. QED
    BY <1>1, <1>7, <1>8, <1>9, <1>10 DEF ExecutionInv

\* A request changes one row and ends: the others keep theirs.
LEMMA OneRow ==
  ASSUME RunsAssumption, ExecutionInv, NEW q \in Handlers, Ends(q),
         NEW k \in Ids, NEW x, executions' = [executions EXCEPT ![k] = x],
         Grows(executions, executions'), x # None => RowOK(executions', x),
         {executions'[e].seq : e \in Completed'} = 1..Cardinality(Completed'),
         \/ Completed' = Completed
         \/ req[q].at = "numbered"
  PROVE  ExecutionInv'
  <1>1. /\ DOMAIN executions' = Ids /\ executions'[k] = x
        /\ \A e \in Ids \ {k} : executions'[e] = executions[e]
    BY DEF ExecutionInv
  <1>2. /\ DOMAIN req' = Handlers /\ req'[q] = Idle /\ \A p \in Handlers \ {q} : req'[p] = req[p]
        /\ project' = IF project = q THEN None ELSE project
    BY DEF ExecutionInv, Ends
  <1>3. \A e \in Ids : executions[e] # None => RowOK(executions, executions[e])
    BY DEF ExecutionInv, Recorded
  <1>4. ASSUME NEW e \in Ids, executions'[e] # None PROVE RowOK(executions', executions'[e])
    <2>1. CASE e = k
      BY <1>1, <1>4, <2>1
    <2>2. CASE e # k
      BY <1>1, <1>3, <1>4, <2>2, StaysRight
    <2>. QED
      BY <2>1, <2>2
  <1>5. ASSUME NEW p \in Handlers PROVE RequestOK(executions', req'[p])
    <2>1. CASE p = q
      BY <1>2, <2>1 DEF RequestOK
    <2>2. CASE p # q
      <3>1. RequestOK(executions, req[p])
        BY DEF ExecutionInv
      <3>. QED
        BY <1>2, <1>3, <2>2, <3>1, StaysRight
    <2>. QED
      BY <2>1, <2>2
  <1>6. NumberInv'
    <2>1. project' \in Handlers \cup {None}
      BY <1>2 DEF ExecutionInv, NumberInv
    <2>2. ASSUME NEW p \in Handlers, req'[p].at = "numbered"
          PROVE  project' = p /\ req'[p].number = Cardinality(Completed') + 1
      <3>1. p # q /\ req'[p] = req[p]
        BY <1>2, <2>2 DEF Idle
      <3>2. project = p /\ req[p].number = Cardinality(Completed) + 1
        BY <2>2, <3>1 DEF ExecutionInv, NumberInv
      <3>3. req[q].at # "numbered"
        BY <3>1, <3>2 DEF ExecutionInv, NumberInv
      <3>. QED
        BY <1>2, <3>1, <3>2, <3>3
    <2>. QED
      BY <2>1, <2>2 DEF NumberInv
  <1>7. Recorded' = {e \in Ids : executions'[e] # None}
    BY DEF Recorded
  <1>. QED
    BY <1>1, <1>2, <1>4, <1>5, <1>6, <1>7 DEF ExecutionInv

\* An execution is inserted under an id nobody has.
LEMMA CreateStep ==
  ASSUME RunsAssumption, ExecutionInv, NEW q \in Handlers, CreateScenarioExecution(q)
  PROVE  ExecutionInv'
  <1>1. PICK k : k = req[q].id
    OBVIOUS
  <1>2. /\ k \in Ids /\ RowOK(executions, req[q].row) /\ req[q].row.status = "running"
        /\ Ends(q)
        /\ executions' = [executions EXCEPT ![k] = IF @ = None THEN req[q].row ELSE @]
    <2>1. RequestOK(executions, req[q]) /\ req[q].at = "beginning"
      BY DEF ExecutionInv, CreateScenarioExecution
    <2>2. Idle.at = "idle" /\ \A r \in Comparing : r.at \in {"compared", "loaded", "numbered"}
      BY DEF Idle, Comparing
    <2>. QED
      BY <1>1, <2>1, <2>2 DEF RequestOK, CreateScenarioExecution
  <1>3. PICK x : x = IF executions[k] = None THEN req[q].row ELSE executions[k]
    OBVIOUS
  <1>4. executions' = [executions EXCEPT ![k] = x]
    BY <1>2, <1>3
  <1>5. executions'[k] = x /\ \A e \in Ids \ {k} : executions'[e] = executions[e]
    BY <1>2, <1>4 DEF ExecutionInv
  <1>6. Grows(executions, executions')
    BY <1>3, <1>5 DEF Grows
  <1>7. RowOK(executions, x)
    BY <1>2, <1>3 DEF ExecutionInv, Recorded
  <1>8. RowOK(executions', x)
    BY <1>6, <1>7, StaysRight
  <1>9. Completed' = Completed /\ \A e \in Completed : executions'[e].seq = executions[e].seq
    BY <1>2, <1>3, <1>5 DEF Completed, Recorded
  <1>10. {executions'[e].seq : e \in Completed'} = 1..Cardinality(Completed')
    BY <1>9 DEF ExecutionInv, NumberInv
  <1>. QED
    BY <1>2, <1>4, <1>6, <1>8, <1>9, <1>10, OneRow

\* A row that completes, as a value.
Completes(x, number, r, c) ==
    [x EXCEPT !.status = "completed", !.seq = number, !.reference = r, !.candidate = c]

\* The predicated update of a completion.
LEMMA CommitStep ==
  ASSUME RunsAssumption, ExecutionInv, NEW q \in Handlers, CompleteCommit(q)
  PROVE  ExecutionInv'
  <1>0. PICK k, old, n, new : /\ k = req[q].id /\ old = executions[k] /\ n = Cardinality(Completed)
                              /\ new = Completes(old, req[q].number, req[q].reference,
                                                 req[q].candidate)
    OBVIOUS
  <1> DEFINE goes == old.status = "running" /\ \A e \in Completed : executions[e].seq # req[q].number
  <1>1. /\ req[q].at = "numbered" /\ Ends(q)
        /\ goes => executions' = [executions EXCEPT ![k] = new]
        /\ ~goes => executions' = [executions EXCEPT ![k] = old]
    BY <1>0 DEF CompleteCommit, Completes
  <1>2. /\ req[q] \in Comparing /\ k \in Ids /\ old # None /\ RowOK(executions, old)
        /\ SidesOK(old.runs, req[q].reference, req[q].candidate)
        /\ old.from # None => req[q].reference = executions[old.from].reference
    BY <1>0, <1>1, ComparingOnly
  <1>3. /\ req[q].number = n + 1 /\ n \in Nat /\ IsFiniteSet(Completed)
        /\ \A e \in Completed : executions[e].seq \in 1..n
        /\ {executions[e].seq : e \in Completed} = 1..n
    BY <1>0, <1>1, CompletedFinite DEF ExecutionInv, NumberInv
  <1>4. CASE ~goes
    <2>1. executions' = [executions EXCEPT ![k] = old]
      BY <1>1, <1>4
    <2>2. DOMAIN executions' = Ids /\ \A e \in Ids : executions'[e] = executions[e]
      BY <1>0, <1>2, <2>1 DEF ExecutionInv
    <2>3. Grows(executions, executions')
      BY <2>2 DEF Grows
    <2>4. RowOK(executions', old)
      BY <1>2, <2>3, StaysRight
    <2>5. Completed' = Completed
      BY <2>2 DEF Completed, Recorded
    <2>6. \A e \in Completed : executions'[e].seq = executions[e].seq
      BY <2>2 DEF Completed, Recorded
    <2>7. {executions'[e].seq : e \in Completed'} = 1..Cardinality(Completed')
      BY <2>5, <2>6 DEF ExecutionInv, NumberInv
    <2>. QED
      BY <1>1, <1>2, <2>1, <2>3, <2>4, <2>5, <2>7, OneRow
  <1>5. CASE goes
    <2>1. old.status = "running" /\ executions' = [executions EXCEPT ![k] = new]
      BY <1>1, <1>5
    <2>2. req[q].reference \in Seq(Runs) /\ req[q].candidate \in Seq(Runs)
      BY <1>2 DEF Comparing
    <2>3. /\ new \in Rows /\ new.status = "completed" /\ new.seq = n + 1
          /\ new.reference = req[q].reference /\ new.candidate = req[q].candidate
          /\ new.from = old.from /\ new.runs = old.runs /\ new.stated = old.stated
      <3>1. old \in Rows /\ req[q].number \in Nat
        BY <1>2, <1>3 DEF RowOK
      <3>2. PICK m \in Nat, r \in Seq(Runs), c \in Seq(Runs) :
              m = req[q].number /\ r = req[q].reference /\ c = req[q].candidate
        BY <2>2, <3>1
      <3>3. new = Completes(old, m, r, c)
        BY <1>0, <3>2
      <3>4. /\ new \in Rows /\ new.status = "completed" /\ new.seq = m
            /\ new.reference = r /\ new.candidate = c
            /\ new.from = old.from /\ new.runs = old.runs /\ new.stated = old.stated
        BY <3>1, <3>3 DEF Rows, Completes
      <3>. QED
        BY <1>3, <3>2, <3>4
    <2>4. new # None
      BY <2>3 DEF RunsAssumption
    <2> HIDE DEF goes
    <2>5. executions'[k] = new /\ \A e \in Ids \ {k} : executions'[e] = executions[e]
      BY <1>2, <2>1 DEF ExecutionInv
    <2>6. Grows(executions, executions')
      BY <1>0, <2>1, <2>3, <2>4, <2>5 DEF Grows
    <2>7. RowOK(executions', new)
      <3>1. RestsOn(executions, old)
        BY <1>2 DEF RowOK
      <3>2. ASSUME new.from # None
            PROVE  /\ new.from \in Completed /\ new.from # k /\ new.from \in Ids
                   /\ executions'[new.from] = executions[new.from]
                   /\ Standing(executions, new.from)
                   /\ executions[new.from].stated = new.stated
                   /\ executions[new.from].runs = new.runs
        BY <1>0, <2>1, <2>3, <2>5, <3>1, <3>2 DEF RestsOn, Standing, Completed, Recorded
      <3>3. RestsOn(executions', new)
        BY <3>2 DEF RestsOn, Standing
      <3>4. ASSUME new.from # None
            PROVE  /\ executions'[new.from].seq < new.seq
                   /\ new.reference = executions'[new.from].reference
        <4>1. executions[new.from].seq \in 1..n
          BY <1>3, <3>2, <3>4
        <4>. QED
          BY <1>2, <1>3, <2>3, <3>2, <3>4, <4>1
      <3>. QED
        BY <1>2, <2>3, <3>3, <3>4 DEF RowOK
    <2>8. k \notin Completed /\ Completed' = Completed \cup {k}
      <3>1. k \notin Completed
        BY <1>0, <2>1 DEF Completed
      <3>2. k \in Completed'
        BY <1>2, <2>3, <2>4, <2>5 DEF Completed, Recorded
      <3>3. \A e \in Ids \ {k} : e \in Completed' <=> e \in Completed
        BY <2>5 DEF Completed, Recorded
      <3>4. Completed \subseteq Ids /\ Completed' \subseteq Ids
        BY DEF Completed, Recorded
      <3>. QED
        BY <3>1, <3>2, <3>3, <3>4
    <2>9. Cardinality(Completed') = n + 1
      BY <1>0, <1>3, <2>8, FS_AddElement
    <2>10. {executions'[e].seq : e \in Completed'} = 1..(n + 1)
      <3>1. \A e \in Completed : executions'[e].seq = executions[e].seq
        BY <2>5, <2>8 DEF Completed, Recorded
      <3>2. {executions'[e].seq : e \in Completed'} = {executions[e].seq : e \in Completed} \cup {n + 1}
        BY <2>3, <2>5, <2>8, <3>1
      <3>3. 1..(n + 1) = (1..n) \cup {n + 1}
        BY <1>3
      <3>. QED
        BY <1>3, <3>2, <3>3
    <2>. QED
      BY <1>1, <1>2, <2>1, <2>6, <2>7, <2>9, <2>10, OneRow
  <1>. QED
    BY <1>4, <1>5

\* The predicated update of a failure.
LEMMA FailStep ==
  ASSUME RunsAssumption, ExecutionInv, NEW q \in Handlers, FailCommit(q)
  PROVE  ExecutionInv'
  <1>0. PICK k, old : k = req[q].id /\ old = executions[k]
    OBVIOUS
  <1> DEFINE new == [old EXCEPT !.status = IF @ = "running" THEN "failed" ELSE @]
  <1>1. /\ req[q].at = "failing" /\ Ends(q) /\ executions' = [executions EXCEPT ![k] = new]
    BY <1>0 DEF FailCommit
  <1>2. k \in Ids /\ old # None /\ RowOK(executions, old)
    <2>1. RequestOK(executions, req[q])
      BY DEF ExecutionInv
    <2>2. Idle.at = "idle" /\ \A r \in Comparing : r.at \in {"compared", "loaded", "numbered"}
      BY DEF Idle, Comparing
    <2>. QED
      BY <1>0, <1>1, <2>1, <2>2 DEF RequestOK, ExecutionInv, Recorded
  <1>3. /\ new \in Rows /\ new.status = (IF old.status = "running" THEN "failed" ELSE old.status)
        /\ new.seq = old.seq /\ new.reference = old.reference /\ new.candidate = old.candidate
        /\ new.from = old.from /\ new.runs = old.runs /\ new.stated = old.stated
    BY <1>2 DEF RowOK, Rows
  <1>4. old.status # "running" => new = old
    BY <1>2 DEF RowOK, Rows
  <1>5. new # None
    BY <1>3 DEF RunsAssumption
  <1> HIDE DEF new
  <1>6. executions'[k] = new /\ \A e \in Ids \ {k} : executions'[e] = executions[e]
    BY <1>1, <1>2 DEF ExecutionInv
  <1>7. Grows(executions, executions')
    BY <1>0, <1>3, <1>4, <1>5, <1>6 DEF Grows
  <1>8. RowOK(executions, new)
    BY <1>2, <1>3, <1>4 DEF RowOK, RestsOn
  <1>9. RowOK(executions', new)
    BY <1>7, <1>8, StaysRight
  <1>10. Completed' = Completed /\ \A e \in Completed : executions'[e].seq = executions[e].seq
    BY <1>0, <1>2, <1>3, <1>5, <1>6 DEF Completed, Recorded
  <1>11. {executions'[e].seq : e \in Completed'} = 1..Cardinality(Completed')
    BY <1>10 DEF ExecutionInv, NumberInv
  <1>. QED
    BY <1>1, <1>2, <1>7, <1>9, <1>10, <1>11, OneRow

\* A failure is decided, or a client goes away.
LEMMA OtherSteps ==
  ASSUME RunsAssumption, ExecutionInv, NEW q \in Handlers, FailLoad(q) \/ Cancel(q)
  PROVE  ExecutionInv'
  <1>1. RequestOK(executions, Idle) /\ Idle.at # "numbered"
    BY DEF RequestOK, Idle
  <1>2. CASE FailLoad(q)
    <2>1. PICK e \in Recorded :
            req' = [req EXCEPT ![q] = IF executions[e].status = "running"
                                      THEN [at |-> "failing", id |-> e] ELSE Idle]
      BY <1>2 DEF FailLoad
    <2>2. UNCHANGED <<executions, project>>
      BY <1>2 DEF FailLoad
    <2>3. /\ RequestOK(executions, [at |-> "failing", id |-> e])
          /\ [at |-> "failing", id |-> e].at # "numbered"
      BY DEF RequestOK, Recorded
    <2>. QED
      BY <1>1, <2>1, <2>2, <2>3, OneRequest
  <1>3. CASE Cancel(q)
    <2>1. project' = project \/ (project = q /\ project' = None)
      BY <1>3 DEF Cancel, Ends
    <2>. QED
      BY <1>1, <1>3, <2>1, OneRequest DEF Cancel, Ends
  <1>. QED
    BY <1>2, <1>3

-----------------------------------------------------------------------------
(* The theorems. *)

\* At first there is no execution.
LEMMA ExecutionInit == ASSUME RunsAssumption, Init PROVE ExecutionInv
  <1>1. Recorded = {} /\ Completed = {}
    BY DEF Init, Recorded, Completed
  <1>2. Cardinality(Completed) = 0 /\ 1..0 = {}
    BY <1>1, FS_EmptySet
  <1>3. \A q \in Handlers : req[q] = Idle /\ Idle.at # "numbered"
    BY DEF Init, Idle
  <1>4. NumberInv
    BY <1>1, <1>2, <1>3 DEF Init, NumberInv
  <1>. QED
    BY <1>1, <1>3, <1>4 DEF Init, ExecutionInv, RequestOK

\* Every step of every request keeps the invariant.
LEMMA ExecutionStep == ASSUME RunsAssumption, ExecutionInv, [Next]_vars PROVE ExecutionInv'
  <1>1. ASSUME NEW q \in Handlers,
               Begin(q) \/ CompleteCheck(q) \/ FailLoad(q) \/ Continue(q) \/ Cancel(q)
        PROVE  ExecutionInv'
    BY <1>1, BeginStep, CheckStep, OtherSteps, CreateStep, LoadStep, NumberStep, CommitStep, FailStep
    DEF Continue
  <1>2. CASE UNCHANGED vars
    <2>1. UNCHANGED <<executions, project, req>>
      BY <1>2 DEF vars
    <2>2. Recorded' = Recorded /\ Completed' = Completed
      BY <2>1 DEF Recorded, Completed
    <2>. QED
      BY <2>1, <2>2 DEF ExecutionInv, NumberInv
  <1>. QED
    BY <1>1, <1>2 DEF Next

\* The inductive invariant holds in every reachable state.
THEOREM ExecutionInvariant == ASSUME RunsAssumption PROVE Spec => []ExecutionInv
  <1>1. Init => ExecutionInv
    BY ExecutionInit
  <1>2. ExecutionInv /\ [Next]_vars => ExecutionInv'
    BY ExecutionStep
  <1>. QED
    BY <1>1, <1>2, PTL DEF Spec

\* The inductive invariant says that executions are sound.
LEMMA ExecutionInvIsSound == ASSUME RunsAssumption, ExecutionInv PROVE ExecutionsAreSound
  <1>1. ASSUME NEW e \in Recorded
        PROVE  e \in Ids /\ executions[e] # None /\ RowOK(executions, executions[e])
    BY DEF Recorded, ExecutionInv
  <1>2. TypeOK
    BY <1>1 DEF TypeOK, ExecutionInv, NumberInv, RowOK, Rows
  <1>3. ASSUME NEW e \in Completed
        PROVE  LET x == executions[e]
               IN /\ Len(x.reference) = x.runs /\ Len(x.candidate) = x.runs
                  /\ IsInjective(x.reference \o x.candidate)
                  /\ ToSet(x.reference) \cup ToSet(x.candidate) \subseteq done
                  /\ ToSet(x.candidate) \subseteq OwnAgent
                  /\ x.from # None =>
                         /\ executions[x.from].seq \in 1..(x.seq - 1)
                         /\ x.reference = executions[x.from].reference
    <2> DEFINE x == executions[e]
    <2>1. e \in Recorded /\ x.status = "completed"
      BY DEF Completed
    <2>2. RowOK(executions, x)
      BY <1>1, <2>1
    <2>3. ASSUME x.from # None
          PROVE  /\ executions[x.from].seq \in 1..(x.seq - 1)
                 /\ x.reference = executions[x.from].reference
      <3>1. /\ x.from \in Completed /\ executions[x.from].seq < x.seq
            /\ x.reference = executions[x.from].reference
        BY <2>1, <2>2, <2>3 DEF RowOK, RestsOn, Standing, Completed, Recorded
      <3>2. /\ executions[x.from].seq \in 1..Cardinality(Completed) /\ Cardinality(Completed) \in Nat
        BY <3>1, CompletedFinite
      <3>3. x.seq \in Nat
        BY <2>2 DEF RowOK, Rows
      <3>. QED
        BY <3>1, <3>2, <3>3
    <2>. QED
      BY <2>1, <2>2, <2>3 DEF RowOK, SidesOK
  <1>4. ASSUME NEW e \in Recorded \ Completed
        PROVE  executions[e].seq = 0 /\ executions[e].reference = << >>
    BY <1>1 DEF Completed, RowOK
  <1>5. ASSUME NEW e \in Recorded, executions[e].from # None
        PROVE  executions[e].stated = executions[executions[e].from].stated
    BY <1>1, <1>5 DEF RowOK, RestsOn
  <1>. QED
    BY <1>2, <1>3, <1>4, <1>5 DEF ExecutionsAreSound, ExecutionInv, NumberInv

\* Completions are numbered without a gap, a completed execution has its runs,
\* and a reused reference side is that of the execution that ran it, through
\* any chain (scenario_execution_store.go, scenario_execution_service.go).
THEOREM ExecutionsSound == ASSUME RunsAssumption PROVE Spec => []ExecutionsAreSound
  <1>1. ExecutionInv => ExecutionsAreSound
    BY ExecutionInvIsSound
  <1>. QED
    BY <1>1, ExecutionInvariant, PTL

\* No step changes an execution that has ended.
LEMMA EndedStep == ASSUME ExecutionInv, [Next]_vars PROVE EndedStays
  <1> SUFFICES ASSUME NEW e \in Recorded, executions[e].status # "running"
               PROVE  executions'[e] = executions[e]
    BY DEF EndedStays
  <1>1. e \in Ids /\ executions[e] # None /\ executions[e] \in Rows /\ DOMAIN executions = Ids
    BY DEF Recorded, ExecutionInv, RowOK
  <1>2. ASSUME NEW q \in Handlers, CreateScenarioExecution(q) PROVE executions'[e] = executions[e]
    BY <1>1, <1>2 DEF CreateScenarioExecution
  <1>3. ASSUME NEW q \in Handlers, CompleteCommit(q) PROVE executions'[e] = executions[e]
    BY <1>1, <1>3 DEF CompleteCommit
  <1>4. ASSUME NEW q \in Handlers, FailCommit(q) PROVE executions'[e] = executions[e]
    <2>1. CASE req[q].id = e
      <3>1. executions'[e] = [executions[e] EXCEPT !.status = executions[e].status]
        BY <1>1, <1>4, <2>1 DEF FailCommit
      <3>. QED
        BY <1>1, <3>1 DEF Rows
    <2>2. CASE req[q].id # e
      BY <1>1, <1>4, <2>2 DEF FailCommit
    <2>. QED
      BY <2>1, <2>2
  <1>5. ASSUME NEW q \in Handlers,
               \/ Begin(q) \/ CompleteCheck(q) \/ FailLoad(q) \/ Cancel(q)
               \/ CompleteLoad(q) \/ CompleteNumber(q)
        PROVE  executions' = executions
    BY <1>5 DEF Begin, CompleteCheck, FailLoad, Cancel, CompleteLoad, CompleteNumber
  <1>6. CASE UNCHANGED vars
    BY <1>6 DEF vars
  <1>7. CASE Next
    <2>1. PICK q \in Handlers :
            Begin(q) \/ CompleteCheck(q) \/ FailLoad(q) \/ Continue(q) \/ Cancel(q)
      BY <1>7 DEF Next
    <2>. QED
      BY <2>1, <1>2, <1>3, <1>4, <1>5 DEF Continue
  <1>. QED
    BY <1>6, <1>7

\* An execution that has completed or failed never changes again, whichever of
\* a racing completion and failure comes second (scenario_execution.go,
\* complete and fail).
THEOREM EndedForGood == ASSUME RunsAssumption PROVE Spec => [][EndedStays]_vars
  <1>1. ExecutionInv /\ [Next]_vars => [EndedStays]_vars
    BY EndedStep
  <1>. QED
    BY <1>1, ExecutionInvariant, PTL DEF Spec
=============================================================================
