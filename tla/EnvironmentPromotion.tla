------------------------ MODULE EnvironmentPromotion ------------------------
(***************************************************************************)
(* Environments and promotions of the control plane                        *)
(* (src/platform/environment*.go, promotion*.go, controlplane.go) over     *)
(* either store.  Requests create and reconfigure environments, create     *)
(* runs in them and record promotion decisions, all at once.               *)
(*                                                                         *)
(* A configuration change is load, apply, compare-and-swap on the row's    *)
(* revision.  A promotion is decided from reads made one by one, and the   *)
(* transaction that records it locks both environment rows and compares    *)
(* them with what the decision used.  PostgreSQL locks rows; SQLite has    *)
(* one connection, which a transaction keeps until it ends.                *)
(***************************************************************************)
EXTENDS Naturals, FiniteSets

CONSTANTS
    Requests,         \* requests of the control plane, each served once
    Projects,
    Refs,             \* environment refs, naturals: their byte order
    MaxRank,          \* maxEnvironmentRank
    MaxEnvironments,  \* maxProjectEnvironments
    InitialRanks,     \* bound: the ranks environments have at the start
    Runs,
    RunInfo,          \* [Runs -> [project, agent, env]], fixed at creation
    Pooled,           \* TRUE: PostgresStore, FALSE: SQLiteStore
    None

ASSUME EnvironmentAssumption ==
    /\ Refs \subseteq Nat /\ IsFiniteSet(Refs)
    /\ MaxRank \in Nat /\ MaxEnvironments \in Nat /\ InitialRanks \subseteq 0..MaxRank
    /\ \A r \in Runs : RunInfo[r].project \in Projects /\ RunInfo[r].env \in Refs
    /\ Pooled \in BOOLEAN

VARIABLES
    envs,        \* [Projects \X Refs -> row or None], platform_environments
    runs,        \* [Runs -> "absent", "created" or "completed"]
    promotions,  \* platform_promotions
    held,        \* who holds each lock
    req,         \* [Requests -> the request's progress]
    acked        \* [Projects \X Refs -> changes acknowledged to their callers]

vars == <<envs, runs, promotions, held, req, acked>>

Keys  == Projects \X Refs
Ranks == 0..MaxRank
Row   == [rank : Ranks \cup {None}, status : {"active", "archived"}, rev : Nat \ {0}]
ASSUME NoneAssumption == None \notin Requests /\ None \notin Row

Database == << >>
Locks == Keys \cup {<<p>> : p \in Projects} \cup {Database}

Idle  == [at |-> "idle"]
Ended == [at |-> "ended"]

-----------------------------------------------------------------------------
(* Environments as values. *)

\* NewEnvironment, NewRankedEnvironment: active, at revision one.
NewEnvironment(rank) == [rank |-> rank, status |-> "active", rev |-> 1]

\* CanPromote, both rows of one project.
CanPromote(from, to) ==
    /\ from.status = "active" /\ to.status = "active"
    /\ from.rank # None /\ to.rank # None
    /\ to.rank > from.rank

\* What one mutation request may ask for: a rename alone, a rank (with or
\* without a rename), a cleared rank, or a status.
Changes == ({"rename", "clear", "archive", "activate"} \X {0}) \cup ({"rank"} \X Ranks)

\* ConfigureEnvironment, ArchiveEnvironment, ActivateEnvironment: the value
\* that replaces the row, one revision on however many fields moved.
Apply(row, change) ==
    [rank   |-> CASE change[1] = "rank" -> change[2]
                  [] change[1] = "clear" -> None
                  [] OTHER -> row.rank,
     status |-> CASE change[1] = "archive" -> "archived"
                  [] change[1] = "activate" -> "active"
                  [] OTHER -> row.status,
     rev    |-> row.rev + 1]

\* EnvironmentPosition
Position(ref, row) == [ref |-> ref, rank |-> row.rank, rev |-> row.rev]

\* outcomeFor
outcomeFor(verdict) == IF verdict = "pass" THEN "accepted" ELSE "rejected"

-----------------------------------------------------------------------------
(* Locks: rows on PostgreSQL, the one connection on SQLite. *)

Lock(l) == IF Pooled THEN l ELSE Database

Takes(q, l) == held' = [held EXCEPT ![Lock(l)] = q]

Free(q, l) == held[Lock(l)] \in {None, q}

\* A statement outside a transaction needs a connection.
Connected == Pooled \/ held[Database] = None

\* Commit or rollback, and the reply.
Ends(q) ==
    /\ held' = [l \in Locks |-> IF held[l] = q THEN None ELSE held[l]]
    /\ req' = [req EXCEPT ![q] = Ended]

-----------------------------------------------------------------------------
(* Creating an environment. *)

\* Faulty variant: the count and the insert run without the project's row.
InsertWithoutLock(q) == \E p \in Projects, r \in Refs, rank \in Ranks \cup {None} :
    /\ req[q] = Idle
    /\ req' = [req EXCEPT ![q] = [at |-> "creating", key |-> <<p, r>>, rank |-> rank]]
    /\ UNCHANGED <<envs, runs, promotions, acked, held>>

\* The transaction takes the project's row before it counts anything.
LockProject(q) == \E p \in Projects, r \in Refs, rank \in Ranks \cup {None} :
    /\ req[q] = Idle
    /\ Free(q, <<p>>)
    /\ Takes(q, <<p>>)
    /\ req' = [req EXCEPT ![q] = [at |-> "creating", key |-> <<p, r>>, rank |-> rank]]
    /\ UNCHANGED <<envs, runs, promotions, acked>>

environmentCount(p) == Cardinality({r \in Refs : envs[<<p, r>>] # None})

\* insertEnvironmentLocked, its two reads: an existing ref is refused whatever
\* the count, a full project refuses a new one.
CountEnvironments(q) ==
    /\ req[q].at = "creating"
    /\ IF envs[req[q].key] = None /\ environmentCount(req[q].key[1]) < MaxEnvironments
       THEN /\ req' = [req EXCEPT ![q].at = "counted"]
            /\ UNCHANGED held
       ELSE Ends(q)
    /\ UNCHANGED <<envs, runs, promotions, acked>>

\* insertEnvironmentLocked, the insert.
InsertEnvironment(q) ==
    /\ req[q].at = "counted"
    /\ envs' = [envs EXCEPT ![req[q].key] = IF @ = None THEN NewEnvironment(req[q].rank) ELSE @]
    /\ Ends(q)
    /\ UNCHANGED <<runs, promotions, acked>>

-----------------------------------------------------------------------------
(* Changing one. *)

\* mutateEnvironment, up to the write: a missing row or a stale revision ends
\* the request, otherwise it holds the row it read and the one to write.
MutateLoad(q) == \E k \in Keys, change \in Changes, current \in BOOLEAN :
    /\ req[q] = Idle
    /\ Connected
    /\ req' = [req EXCEPT ![q] =
                  IF envs[k] = None \/ ~current
                  THEN Ended
                  ELSE [at |-> "updating", key |-> k, previous |-> envs[k],
                        next |-> Apply(envs[k], change)]]
    /\ UNCHANGED <<envs, runs, promotions, held, acked>>

\* UpdateEnvironment: one predicated statement, which waits for the row's lock.
\* environmentUpdateMiss tells the loser about the conflict.
UpdateEnvironment(q) ==
    /\ req[q].at = "updating"
    /\ Free(q, req[q].key) /\ Connected
    /\ LET k == req[q].key
           hit == envs[k].rev = req[q].previous.rev
       IN /\ envs' = IF hit THEN [envs EXCEPT ![k] = req[q].next] ELSE envs
          /\ acked' = IF hit THEN [acked EXCEPT ![k] = @ + 1] ELSE acked
    /\ Ends(q)
    /\ UNCHANGED <<runs, promotions>>

-----------------------------------------------------------------------------
(* Runs. *)

\* requireUsableEnvironment: the environment must be the run's project's, and
\* active when it is read.
CheckRun(q) == \E r \in Runs :
    LET e == envs[<<RunInfo[r].project, RunInfo[r].env>>]
    IN /\ req[q] = Idle
       /\ Connected
       /\ req' = [req EXCEPT ![q] = IF e # None /\ e.status = "active"
                                    THEN [at |-> "admitted", run |-> r]
                                    ELSE Ended]
       /\ UNCHANGED <<envs, runs, promotions, held, acked>>

\* CreateEvaluationRun, the insert: a taken id is refused.
CreateEvaluationRun(q) ==
    /\ req[q].at = "admitted"
    /\ Connected
    /\ runs' = [runs EXCEPT ![req[q].run] = IF @ = "absent" THEN "created" ELSE @]
    /\ Ends(q)
    /\ UNCHANGED <<envs, promotions, acked>>

\* The run is started, fed and completed: see ControlPlaneIngest.
RunCompletes(r) ==
    /\ runs[r] = "created"
    /\ Connected
    /\ runs' = [runs EXCEPT ![r] = "completed"]
    /\ UNCHANGED <<envs, promotions, held, req, acked>>

-----------------------------------------------------------------------------
(* Promotions. *)

\* completedRun for both runs, requireSameProject, agentOf and the shared
\* environment: nothing here can change once a run has completed.
Comparable(reference, candidate) ==
    /\ reference # candidate
    /\ runs[reference] = "completed" /\ runs[candidate] = "completed"
    /\ RunInfo[reference].project = RunInfo[candidate].project
    /\ RunInfo[reference].agent = RunInfo[candidate].agent
    /\ RunInfo[reference].env = RunInfo[candidate].env

\* Promote, up to the read of the source, which is the runs' environment.
Promote(q) == \E reference, candidate \in Runs, target \in Refs :
    LET source == <<RunInfo[candidate].project, RunInfo[candidate].env>>
    IN /\ req[q] = Idle
       /\ Connected
       /\ req' = [req EXCEPT ![q] =
                     IF Comparable(reference, candidate) /\ envs[source] # None
                     THEN [at |-> "sourced", reference |-> reference, candidate |-> candidate,
                           from |-> source, source |-> envs[source],
                           to |-> <<source[1], target>>]
                     ELSE Ended]
       /\ UNCHANGED <<envs, runs, promotions, held, acked>>

\* promotionEnvironments: the target, and the order of the two as just read.
ReadTarget(q) ==
    /\ req[q].at = "sourced"
    /\ Connected
    /\ req' = [req EXCEPT ![q] =
                  IF envs[req[q].to] # None /\ CanPromote(req[q].source, envs[req[q].to])
                  THEN [at |-> "ordered", reference |-> @.reference, candidate |-> @.candidate,
                        from |-> @.from, source |-> @.source,
                        to |-> @.to, target |-> envs[@.to]]
                  ELSE Ended]
    /\ UNCHANGED <<envs, runs, promotions, held, acked>>

\* CompareEvaluations and NewPromotion.  The evidence of a completed run never
\* changes, so its verdict may fall at any moment; evidence that cannot be
\* compared ends the request (see EvaluationGate).
Decide(q) == \E verdict \in {"pass", "fail", "error"} :
    /\ req[q].at = "ordered"
    /\ req' = [req EXCEPT ![q] =
                  IF verdict = "error"
                  THEN Ended
                  ELSE [at |-> "decided", locked |-> 0,
                        decision |-> [project |-> @.from[1], reference |-> @.reference,
                                      candidate |-> @.candidate,
                                      source |-> Position(@.from[2], @.source),
                                      target |-> Position(@.to[2], @.target),
                                      verdict |-> verdict, outcome |-> outcomeFor(verdict),
                                      id |-> q]]]
    /\ UNCHANGED <<envs, runs, promotions, held, acked>>

\* promotionEnvironmentOrder: the rows' byte order.
promotionEnvironmentOrder(d) ==
    IF d.target.ref < d.source.ref
    THEN <<d.target.ref, d.source.ref>>
    ELSE <<d.source.ref, d.target.ref>>

\* lockEnvironment, for the first row and then for the second.
LockEnvironment(q) ==
    /\ req[q].at = "decided" /\ req[q].locked < 2
    /\ LET d == req[q].decision
           key == <<d.project, promotionEnvironmentOrder(d)[req[q].locked + 1]>>
       IN /\ Free(q, key)
          /\ Takes(q, key)
    /\ req' = [req EXCEPT ![q].locked = @ + 1]
    /\ UNCHANGED <<envs, runs, promotions, acked>>

\* Faulty variant: the transaction asks about the order again and not whether
\* the rows are the ones the decision used.
StillForward(d) ==
    CanPromote(envs[<<d.project, d.source.ref>>], envs[<<d.project, d.target.ref>>])

\* The staleness check of insertPromotionLocked.
StillAuthoritative(d) ==
    LET source == envs[<<d.project, d.source.ref>>]
        target == envs[<<d.project, d.target.ref>>]
    IN /\ source.rev = d.source.rev
       /\ target.rev = d.target.rev
       /\ CanPromote(source, target)

\* insertPromotionLocked reads both rows again: a stale decision is a conflict.
Revalidate(q) ==
    /\ req[q].at = "decided" /\ req[q].locked = 2
    /\ IF StillAuthoritative(req[q].decision)
       THEN /\ req' = [req EXCEPT ![q].at = "revalidated"]
            /\ UNCHANGED held
       ELSE Ends(q)
    /\ UNCHANGED <<envs, runs, promotions, acked>>

\* ... and inserts, under the locks it has held since before it read.
InsertPromotion(q) ==
    /\ req[q].at = "revalidated"
    /\ promotions' = promotions \cup {req[q].decision}
    /\ Ends(q)
    /\ UNCHANGED <<envs, runs, acked>>

\* The caller goes away: the transaction, if there is one, is rolled back.
Cancel(q) ==
    /\ req[q] \notin {Idle, Ended}
    /\ Ends(q)
    /\ UNCHANGED <<envs, runs, promotions, acked>>

-----------------------------------------------------------------------------

\* Projects that already have environments, each as its creation left it, and
\* a completed run for each that names one of them.
Init ==
    /\ envs \in [Keys -> {None} \cup {NewEnvironment(rank) : rank \in InitialRanks}]
    /\ \A p \in Projects : environmentCount(p) <= MaxEnvironments
    /\ runs = [r \in Runs |-> IF envs[<<RunInfo[r].project, RunInfo[r].env>>] = None
                              THEN "absent" ELSE "completed"]
    /\ promotions = {}
    /\ held = [l \in Locks |-> None]
    /\ req = [q \in Requests |-> Idle]
    /\ acked = [k \in Keys |-> 0]

Begin(q) == LockProject(q) \/ MutateLoad(q) \/ CheckRun(q) \/ Promote(q)

Continue(q) ==
    \/ CountEnvironments(q) \/ InsertEnvironment(q)
    \/ UpdateEnvironment(q) \/ CreateEvaluationRun(q)
    \/ ReadTarget(q) \/ Decide(q)
    \/ LockEnvironment(q) \/ Revalidate(q) \/ InsertPromotion(q)

Next ==
    \/ \E q \in Requests : Begin(q) \/ Continue(q) \/ Cancel(q)
    \/ \E r \in Runs : RunCompletes(r)

Spec == Init /\ [][Next]_vars

-----------------------------------------------------------------------------

TypeOK ==
    /\ envs \in [Keys -> Row \cup {None}]
    /\ runs \in [Runs -> {"absent", "created", "completed"}]
    /\ held \in [Locks -> Requests \cup {None}]
    /\ acked \in [Keys -> Nat]

(* Two creates that each count one below the cap never both land, and every
   change whose caller was told it happened moved the row's revision by one:
   no acknowledged change was overwritten by another that had not seen it
   (lockProject, insertEnvironmentLocked, UpdateEnvironment). *)
RegistryIsConsistent ==
    /\ TypeOK
    /\ \A p \in Projects : environmentCount(p) <= MaxEnvironments
    /\ \A k \in Keys : envs[k] # None => envs[k].rev = 1 + acked[k]

(* A promotion enters the record only while both environments are exactly as
   its decision read them, active and in forward order, and only for two
   completed runs of one agent in the source environment, whatever was
   reconfigured between its reads and its insert (insertPromotionLocked). *)
Authoritative(d) ==
    LET source == envs[<<d.project, d.source.ref>>]
        target == envs[<<d.project, d.target.ref>>]
    IN /\ d.source = Position(d.source.ref, source)
       /\ d.target = Position(d.target.ref, target)
       /\ source.status = "active" /\ target.status = "active"
       /\ target.rank > source.rank
       /\ \A r \in {d.reference, d.candidate} :
              /\ runs[r] = "completed"
              /\ RunInfo[r].project = d.project /\ RunInfo[r].env = d.source.ref
       /\ RunInfo[d.reference].agent = RunInfo[d.candidate].agent
       /\ d.outcome = "accepted" <=> d.verdict = "pass"

PromotionIsAuthoritative ==
    /\ promotions \subseteq promotions'
    /\ \A d \in promotions' \ promotions : Authoritative(d)

\* The lock a request asks for next, one it may have to wait for.
NextLock(q) ==
    IF req[q].at = "decided" /\ req[q].locked < 2
    THEN {Lock(<<req[q].decision.project,
                 promotionEnvironmentOrder(req[q].decision)[req[q].locked + 1]>>)}
    ELSE IF req[q].at = "updating" THEN {Lock(req[q].key)} ELSE {}

(* No two requests wait for each other: two promotions over the same pair of
   environments take their rows in the same order, even when a reconfiguration
   between their reads turned the pair around (promotionEnvironmentOrder). *)
NoCircularWait ==
    \A q1, q2 \in Requests :
        ~ /\ q1 # q2
          /\ \E l \in NextLock(q1) : held[l] = q2
          /\ \E l \in NextLock(q2) : held[l] = q1

(* The registry of environments keeps its cap and counts every acknowledged
   change, and no two requests wait for each other's locks (promotion_store.go,
   environment_store.go). *)
RegistryIsSound == RegistryIsConsistent /\ NoCircularWait

(* A promotion is recorded only if the environments, the runs and the gate it
   rests on are authoritative when it is recorded, and none is ever taken back
   (controlplane.go, Promote; promotion_store.go). *)
PromotionsAreAuthoritative == [][PromotionIsAuthoritative]_vars
=============================================================================
