-------------------------- MODULE DevBaselineLock --------------------------
(***************************************************************************)
(* The lock file beside a learned baseline (cmd/trustvian/dev_baseline.go). *)
(* Each `trustvian dev` creates it exclusively, then writes its pid into    *)
(* it; one that finds it there reads the pid and takes the lock over when   *)
(* nobody with that pid is alive. The file store behind the baseline has no *)
(* locking of its own, so two holders would overwrite each other.           *)
(***************************************************************************)
EXTENDS Integers

CONSTANTS
    Procs,        \* `trustvian dev` processes of one learning scope
    None,
    Overlapping   \* FALSE: a process starts only when no other is running

\* Assumed of the constants; the instance for TLC says so with an ASSUME.
ProcsAssumption == None \notin Procs

VARIABLES
    file,         \* the lock file: None, or who created it and the pid it holds
    pc            \* per process; one that has ended never starts again under its pid
vars == <<file, pc>>

Running(p) == pc[p] \notin {"off", "refused", "ended"}
Init == file = None /\ pc = [p \in Procs |-> "off"]

Goto(p, l) == pc' = [pc EXCEPT ![p] = l]

Start(p) ==
    /\ pc[p] = "off"
    /\ (\E q \in Procs : Running(q)) => Overlapping
    /\ Goto(p, "claim")
    /\ UNCHANGED file

\* claim: O_CREATE|O_EXCL, and the pid in a write of its own.
Create(p) ==
    /\ pc[p] = "claim" /\ file = None
    /\ file' = [by |-> p, pid |-> None]
    /\ Goto(p, "created")

\* The descriptor is of the file it created, whatever the path names by now.
WritePid(p) ==
    /\ pc[p] = "created"
    /\ file' = IF file # None /\ file.by = p THEN [file EXCEPT !.pid = p] ELSE file
    /\ Goto(p, "held")

\* The file exists: on to reading who owns it.
Exists(p) ==
    /\ pc[p] = "claim" /\ file # None
    /\ Goto(p, "owner")
    /\ UNCHANGED file

\* Faulty variant: any pid that can be read counts as a running process.
AnyOwnerIsAlive(q) == q \in Procs

\* processAliveForBaseline: a pid that can be read, of a process that runs.
processAliveForBaseline(q) == q \in Procs /\ Running(q)

\* owner: refuse for a live one, otherwise the lock counts as stale.
owner(p) ==
    /\ pc[p] = "owner"
    /\ Goto(p, IF file # None /\ processAliveForBaseline(file.pid) THEN "refused" ELSE "stale")
    /\ UNCHANGED file

\* os.Remove of whatever is there by now, and claim again.
Reclaim(p) ==
    /\ pc[p] = "stale"
    /\ file' = None
    /\ Goto(p, "claim")

\* release removes the path, and the process ends.
release(p) ==
    /\ pc[p] = "held"
    /\ file' = None
    /\ Goto(p, "ended")

\* The process is killed and leaves its file.
Killed(p) ==
    /\ Running(p)
    /\ Goto(p, "ended")
    /\ UNCHANGED file

Next ==
    \E p \in Procs :
        \/ Start(p) \/ Create(p) \/ WritePid(p) \/ Exists(p) \/ owner(p)
        \/ Reclaim(p) \/ release(p) \/ Killed(p)

Spec == Init /\ [][Next]_vars

(* "Two runs writing one baseline would discard each other's learning", so dev *)
(* refuses it (acquireBaseline).                                              *)
OneLearner == \A p, q \in Procs : pc[p] = "held" /\ pc[q] = "held" => p = q

(* Of runs that follow one another, none is turned away by a lock that a      *)
(* killed one left, whenever it was killed, and none finds another's claim.   *)
StaleLocksAreTakenOver == ~Overlapping => OneLearner /\ \A p \in Procs : pc[p] # "refused"
=============================================================================
