-------------------------- MODULE ScenarioExecution --------------------------
(***************************************************************************)
(* Scenario executions of one project, scenario and scope                  *)
(* (src/platform/scenario_execution*.go, scenario_provenance.go): each     *)
(* compares a reference side with a candidate side, and may take its       *)
(* reference side from an earlier execution, named or "last".              *)
(*                                                                         *)
(* Clients begin, complete and fail executions at once.  A completion is   *)
(* decided from earlier reads; its transaction reads the row again, takes  *)
(* the project's row and only then the next completion sequence.  SQLite   *)
(* runs transactions one at a time, which is one of these interleavings.   *)
(***************************************************************************)
EXTENDS Naturals, Sequences, FiniteSets, FiniteSetsExt, SequencesExt

CONSTANTS
    Handlers,   \* request handlers
    Ids,        \* execution ids, the clients' choice
    Runs,       \* evaluation runs, each under a profile of its own
    done,       \* those that have completed, which is for good
    OwnAgent,   \* the runs of the scope's own agent
    RunCounts,  \* how many repetitions an execution may ask for
    Stated,     \* what the reference side may state about its model, prompt and inputs
    None

\* An execution as it is stored; "from" names the one whose reference side it reuses.
Rows ==
    [status : {"running", "completed", "failed"}, runs : RunCounts, from : Ids \cup {None},
     seq : Nat, stated : Stated, reference : Seq(Runs), candidate : Seq(Runs)]

\* Assumed of the constants; every instance for TLC says so with an ASSUME.
RunsAssumption ==
    /\ OwnAgent \subseteq Runs /\ done \subseteq Runs /\ RunCounts \subseteq Nat \ {0}
    /\ IsFiniteSet(Ids)
    /\ None \notin Ids /\ None \notin Handlers /\ None \notin Rows

VARIABLES
    executions,  \* [Ids -> None or the row with its repetitions]
    project,     \* who holds the project's row
    req          \* [Handlers -> the request it serves]

vars == <<executions, project, req>>

Idle  == [at |-> "idle"]

Recorded == {e \in Ids : executions[e] # None}
Completed == {e \in Recorded : executions[e].status = "completed"}

\* One side of a completed execution: distinct runs, one per repetition.
Sides(n) == {s \in [1..n -> Runs] : IsInjective(s)}

Ends(q) ==
    /\ req' = [req EXCEPT ![q] = Idle]
    /\ project' = IF project = q THEN None ELSE project

-----------------------------------------------------------------------------
(* References. *)

\* latestCompletedScenarioExecutionID: by completion sequence.
LatestCompleted ==
    IF Completed = {} THEN None ELSE CHOOSE e \in Completed : \A f \in Completed :
        executions[f].seq <= executions[e].seq

\* usableReference: a completed execution of as many runs, whose reference
\* runs still stand completed.
usableReference(r, n) ==
    /\ executions[r] # None
    /\ executions[r].status = "completed"
    /\ executions[r].runs = n
    /\ ToSet(executions[r].reference) \subseteq done

-----------------------------------------------------------------------------
(* Beginning: the reference is resolved first, the row inserted after. *)

\* BeginScenarioExecution, up to the insert.  A reused reference side brings
\* what its execution recorded about it: the client states only the candidate's.
Begin(q) == \E e \in Ids, n \in RunCounts, mode \in {"", "execution", "last"},
               r \in Ids, reference \in Stated :
    LET from == IF mode = "last" THEN LatestCompleted ELSE r
        row(of, side) ==
            [status |-> "running", runs |-> n, from |-> of, seq |-> 0, stated |-> side,
             reference |-> << >>, candidate |-> << >>]
    IN /\ req[q] = Idle
       /\ req' = [req EXCEPT ![q] =
              CASE mode = "" -> [at |-> "beginning", id |-> e, row |-> row(None, reference)]
                [] mode # "" /\ from # None /\ from # e /\ usableReference(from, n)
                     -> [at |-> "beginning", id |-> e,
                         row |-> row(from, executions[from].stated)]
                [] OTHER -> Idle]
       /\ UNCHANGED <<executions, project>>

\* CreateScenarioExecution: the primary key refuses a taken id.
CreateScenarioExecution(q) ==
    /\ req[q].at = "beginning"
    /\ executions' = [executions EXCEPT ![req[q].id] = IF @ = None THEN req[q].row ELSE @]
    /\ Ends(q)

-----------------------------------------------------------------------------
(* Completing. *)

\* The reference runs a completion compares: the recorded execution's, or the
\* client's when nothing is reused.
ReferenceSide(row, supplied) ==
    IF row.from # None THEN executions[row.from].reference ELSE supplied

\* CompleteScenarioExecution of the control plane: checks, the comparison over
\* completed runs of the scope, and its verdict.  compareRepeated refuses runs
\* that serve both sides.
CompleteCheck(q) == \E e \in Recorded : \E reference, candidate \in Sides(executions[e].runs) :
    LET row == executions[e]
        side == ReferenceSide(row, reference)
    IN /\ req[q] = Idle
       /\ req' = [req EXCEPT ![q] =
              IF /\ row.status = "running"
                 /\ row.from # None => usableReference(row.from, row.runs)
                 /\ ToSet(candidate) \subseteq OwnAgent \cap done
                 /\ ToSet(side) \subseteq done
                 /\ ToSet(side) \cap ToSet(candidate) = {}
              THEN [at |-> "compared", id |-> e, reference |-> side,
                    candidate |-> candidate]
              ELSE Idle]
       /\ UNCHANGED <<executions, project>>

\* completeScenarioExecutionTx, its first read: the status it will judge by.
CompleteLoad(q) ==
    /\ req[q].at = "compared"
    /\ IF executions[req[q].id].status = "running"
       THEN req' = [req EXCEPT ![q].at = "loaded"] /\ UNCHANGED project
       ELSE Ends(q)
    /\ UNCHANGED executions

\* Faulty variant: the sequence is read without the project's row.
NumberWithoutLock(q) ==
    /\ req[q].at = "loaded"
    /\ req' = [req EXCEPT ![q] = [number |-> Cardinality(Completed) + 1, at |-> "numbered",
                   id |-> @.id, reference |-> @.reference, candidate |-> @.candidate]]
    /\ UNCHANGED <<executions, project>>

\* lockProject, then MAX(completion_sequence) + 1.
CompleteNumber(q) ==
    /\ req[q].at = "loaded"
    /\ project = None
    /\ project' = q
    /\ req' = [req EXCEPT ![q] =
                  [number |-> Max({0} \cup {executions[e].seq : e \in Completed}) + 1,
                   at |-> "numbered", id |-> @.id, reference |-> @.reference,
                   candidate |-> @.candidate]]
    /\ UNCHANGED executions

\* Faulty variant: the update names the row and not the status it leaves.
CompleteAnyStatus(q) ==
    /\ req[q].at = "numbered"
    /\ executions' = [executions EXCEPT ![req[q].id] =
           [@ EXCEPT !.status = "completed", !.seq = req[q].number,
                     !.reference = req[q].reference,
                     !.candidate = req[q].candidate]]
    /\ Ends(q)

\* The predicated update and the repetitions: an execution that stopped
\* running meanwhile is left as it is, and the schema refuses a number taken.
CompleteCommit(q) ==
    /\ req[q].at = "numbered"
    /\ executions' = [executions EXCEPT ![req[q].id] =
           IF @.status = "running" /\ \A e \in Completed : executions[e].seq # req[q].number
           THEN [@ EXCEPT !.status = "completed", !.seq = req[q].number,
                          !.reference = req[q].reference,
                          !.candidate = req[q].candidate]
           ELSE @]
    /\ Ends(q)

-----------------------------------------------------------------------------
(* Failing. *)

\* failScenarioExecutionTx, its read: failing twice is a no-op, failing a
\* completed execution an error.
FailLoad(q) == \E e \in Recorded :
    /\ req[q] = Idle
    /\ req' = [req EXCEPT ![q] = IF executions[e].status = "running"
                                 THEN [at |-> "failing", id |-> e] ELSE Idle]
    /\ UNCHANGED <<executions, project>>

\* ... and its predicated update.
FailCommit(q) ==
    /\ req[q].at = "failing"
    /\ executions' = [executions EXCEPT ![req[q].id].status =
                          IF @ = "running" THEN "failed" ELSE @]
    /\ Ends(q)

\* The client goes away and the transaction is rolled back.
Cancel(q) ==
    /\ req[q] # Idle
    /\ Ends(q)
    /\ UNCHANGED executions

-----------------------------------------------------------------------------

Init ==
    /\ executions = [e \in Ids |-> None]
    /\ project = None
    /\ req = [q \in Handlers |-> Idle]

Continue(q) ==
    \/ CreateScenarioExecution(q) \/ CompleteLoad(q) \/ CompleteNumber(q)
    \/ CompleteCommit(q) \/ FailCommit(q)

Next == \E q \in Handlers :
    Begin(q) \/ CompleteCheck(q) \/ FailLoad(q) \/ Continue(q) \/ Cancel(q)

Spec == Init /\ [][Next]_vars

-----------------------------------------------------------------------------

TypeOK ==
    /\ project \in Handlers \cup {None}
    /\ \A e \in Recorded :
           /\ executions[e].status \in {"running", "completed", "failed"}
           /\ executions[e].runs \in RunCounts
           /\ executions[e].from \in Ids \cup {None}

(* The completions of a project are numbered 1, 2, ... without a gap or a
   duplicate, so `last` always names one execution, and a
   number handed out is still the next one when it is used; a completed execution has
   all its repetitions, over distinct completed runs, its candidate's from the
   scope's own agent; and a reference reused through any chain of executions
   is the same runs, with the same statements about them, as the execution
   that first ran them (completeScenarioExecutionTx, validate,
   usableReference). *)
ExecutionsAreSound ==
    /\ TypeOK
    /\ {executions[e].seq : e \in Completed} = 1..Cardinality(Completed)
    /\ \A q \in Handlers :
           req[q].at = "numbered" => req[q].number = Cardinality(Completed) + 1
    /\ \A e \in Completed :
           LET x == executions[e]
           IN /\ Len(x.reference) = x.runs /\ Len(x.candidate) = x.runs
              /\ IsInjective(x.reference \o x.candidate)
              /\ ToSet(x.reference) \cup ToSet(x.candidate) \subseteq done
              /\ ToSet(x.candidate) \subseteq OwnAgent
              /\ x.from # None =>
                     /\ executions[x.from].seq \in 1..(x.seq - 1)
                     /\ x.reference = executions[x.from].reference
    /\ \A e \in Recorded \ Completed :
           executions[e].seq = 0 /\ executions[e].reference = << >>
    /\ \A e \in Recorded :
           executions[e].from # None =>
               executions[e].stated = executions[executions[e].from].stated

(* An execution that has completed or failed never changes again, whichever of
   a racing completion and failure came second: what `last` names stands still
   (complete, fail, and the predicates of their updates). *)
EndedStays ==
    \A e \in Recorded :
        executions[e].status # "running" => executions'[e] = executions[e]
=============================================================================
