----------------------------- MODULE DevSession -----------------------------
(***************************************************************************)
(* One invocation of `trustvian dev` (cmd/trustvian): composing a control  *)
(* plane, an evaluation run and a Collector around a workload, supervising *)
(* the workload, and taking everything down again, while signals and the   *)
(* deadline of a suite arrive at any moment through the signal relay.      *)
(*                                                                         *)
(* The session's goroutine is one process; the relay's loop, the deadline  *)
(* watcher and the escalation timer are others. Every /v1 call may be      *)
(* applied and answered, applied and not answered, or not applied at all.  *)
(***************************************************************************)
EXTENDS Integers, FiniteSets

CONSTANTS
    Modes,           \* subset of {"dev", "suite", "check"}
    MaxSignals,      \* signals sent to this process
    MaxFailures,     \* calls and starts that fail for reasons of their own
    PortAttempts     \* collectorPortAttempts

\* Assumed of the constants; every instance for TLC says so with an ASSUME.
SessionAssumption ==
    /\ Modes \subseteq {"dev", "suite", "check"}
    /\ MaxSignals \in Nat /\ MaxFailures \in Nat /\ PortAttempts \in Nat \ {0}

VARIABLES
    mode, attached, handover,      \* fixed for one invocation
    pc, code, attempt,             \* the session's goroutine
    lock, runtime, collector,      \* what it has started: "none", "up", "down"
    workload, outcome,             \* the child process, and what Wait returned
    stragglers,                    \* descendants left in the workload's group
    run, runStarted, runCompleted, \* the run at the control plane, and what is known of it
    reported, previous,            \* --check: the instance that reported last, the one before it began
    heard,                         \* who has reported since `previous` was read (history)
    relay,                         \* the relay's fields
    queue, sent, relaying,         \* signals not yet taken, all sent, and one being forwarded
    deadlineDone,
    failures
vars == <<mode, attached, handover, pc, code, attempt, lock, runtime, collector,
          workload, outcome, stragglers, run, runStarted, runCompleted, reported,
          previous, heard, relay, queue, sent, relaying, deadlineDone, failures>>

fixed == <<mode, attached, handover>>
helpers == <<lock, runtime, collector, attempt>>
child == <<workload, outcome, stragglers>>
reports == <<reported, previous, heard>>
server == <<run, runStarted, runCompleted, reports>>
signals == <<relay, queue, sent, relaying, deadlineDone>>

Init ==
    /\ mode \in Modes
    /\ attached \in BOOLEAN
    /\ handover \in IF mode = "dev" THEN BOOLEAN ELSE {FALSE}
    /\ pc = "start" /\ code = "none" /\ attempt = 0
    /\ lock = "none" /\ runtime = "none" /\ collector = "none"
    /\ workload = "none" /\ outcome = "none" /\ stragglers = FALSE
    /\ run = "none" /\ runStarted = FALSE /\ runCompleted = FALSE
    /\ reported \in IF mode = "check" /\ attached THEN {"none", "old"} ELSE {"none"}
    /\ previous = "none" /\ heard = {}
    /\ relay = [received |-> FALSE, forwarded |-> FALSE, expired |-> FALSE,
                target |-> FALSE, escalation |-> FALSE, termed |-> FALSE]
    /\ queue = 0 /\ sent = 0 /\ relaying = FALSE /\ deadlineDone = FALSE
    /\ failures = 0

\* The relay's context is cancelled by the first signal or the deadline.
Cancelled == relay.received \/ relay.expired

(* ---------------------------- The signal relay ---------------------------- *)

\* SIGINT or SIGTERM reaches this process; a suite member has not subscribed.
SignalArrives ==
    /\ mode # "suite" /\ pc # "done" /\ sent < MaxSignals
    /\ queue' = queue + 1 /\ sent' = sent + 1
    /\ UNCHANGED <<fixed, pc, code, helpers, child, server, relay, relaying,
                   deadlineDone, failures>>

\* signalRelay.run, under mu: remember the signal, pick the target, cancel.
run_take ==
    /\ queue > 0 /\ ~relaying /\ pc # "done"
    /\ queue' = queue - 1
    /\ relay' = [relay EXCEPT !.received = TRUE, !.forwarded = @ \/ relay.target]
    /\ relaying' = relay.target
    /\ UNCHANGED <<fixed, pc, code, helpers, child, server, sent, deadlineDone, failures>>

\* What a signal does to a workload: it may be seen, or come too late.
Deliver(w) == IF w = "running" THEN {"running", "ok", "error", "killed"} ELSE {w}

\* signalRelay.run, after mu: forwardSignal to the target it picked.
run_forward ==
    /\ relaying
    /\ relaying' = FALSE
    /\ workload' \in Deliver(workload)
    /\ UNCHANGED <<fixed, pc, code, helpers, outcome, stragglers, server, relay, queue, sent,
                   deadlineDone, failures>>

\* The suite's deadline passes, or the suite is cancelled.
Deadline ==
    /\ mode = "suite" /\ ~deadlineDone /\ pc # "done"
    /\ deadlineDone' = TRUE
    /\ UNCHANGED <<fixed, pc, code, helpers, child, server, relay, queue, sent,
                   relaying, failures>>

\* watchDeadline and expire: SIGTERM for a running workload, SIGKILL to follow.
expire ==
    /\ deadlineDone /\ ~relay.expired /\ pc # "done"
    /\ relay' = [relay EXCEPT !.expired = TRUE, !.escalation = relay.target, !.termed = relay.target]
    /\ workload' \in IF relay.target THEN Deliver(workload) ELSE {workload}
    /\ UNCHANGED <<fixed, pc, code, helpers, outcome, stragglers, server, queue, sent, relaying,
                   deadlineDone, failures>>

\* The escalation timer: SIGKILL for the group while it is still the target.
terminate ==
    /\ relay.escalation /\ relay.target
    /\ relay' = [relay EXCEPT !.escalation = FALSE]
    /\ workload' = IF workload = "running" THEN "killed" ELSE workload
    /\ stragglers' = FALSE
    /\ UNCHANGED <<fixed, pc, code, helpers, outcome, server, queue, sent,
                   relaying, deadlineDone, failures>>

(* ------------------------------ The workload ------------------------------ *)

\* It ends by itself, crashes, or gets the terminal's own Ctrl-C; it may leave descendants.
WorkloadEnds ==
    /\ workload = "running"
    /\ workload' \in {"ok", "error", "crashed"} \union (IF handover THEN {"interrupted"} ELSE {})
    /\ stragglers' \in BOOLEAN
    /\ UNCHANGED <<fixed, pc, code, helpers, outcome, server, signals, failures>>

(* --------------------------- Calls and endings ---------------------------- *)

Fails == failures < MaxFailures

\* A transition the control plane applies to a run that is in one of these states.
Apply(from, to) == run' = IF run \in from THEN to ELSE run

(* A call: answered, applied without an answer, or not applied; the answer is  *)
(* an error when the run is in no state for it. ok is what the caller sees.   *)
Call(from, to, ok) ==
    \/ ok = (run \in from) /\ Apply(from, to) /\ UNCHANGED failures
    \/ ~ok /\ Fails /\ failures' = failures + 1 /\ (Apply(from, to) \/ UNCHANGED run)

\* The same under a cancelled context, which fails without using up a failure.
CancelledCall(from, to) == UNCHANGED failures /\ (Apply(from, to) \/ UNCHANGED run)

\* failRunIfStarted and failRunWith: one call under a fresh context, then forgotten.
failRun ==
    /\ IF runStarted
       THEN \E ok \in BOOLEAN : Call({"pending", "running"}, "failed", ok)
       ELSE UNCHANGED <<run, failures>>
    /\ runStarted' = FALSE

\* completeRun: runCompleted only when the control plane said so.
completeRun(ok) ==
    /\ Call({"running"}, "completed", ok)
    /\ runCompleted' = ok
    /\ runStarted' = FALSE

\* interrupted and fail: a deadline's and an error's code are one, a signal has its own.
ExitCode == IF relay.received /\ ~relay.expired /\ mode # "check" THEN "signal" ELSE "operational"

\* A composition step gave up: the run is failed, and everything is taken down.
Abort ==
    /\ failRun
    /\ code' = ExitCode
    /\ pc' = "teardown"
    /\ UNCHANGED <<runCompleted, reports>>

\* interrupted: asked between composition steps.
interrupted == Cancelled

(* ------------------------------ Composition ------------------------------- *)

\* resolveWorkloadDir to acquireBaseline: nothing runs yet, and any of it may refuse.
Prepare ==
    /\ pc = "start"
    /\ \/ /\ Fails \/ deadlineDone
          /\ failures' = IF deadlineDone THEN failures ELSE failures + 1
          /\ pc' = "done" /\ code' \in {"usage", "operational"}
          /\ UNCHANGED lock
       \/ /\ pc' = IF attached THEN "provision" ELSE "runtime"
          /\ lock' = IF mode = "check" THEN "none" ELSE "up"
          /\ UNCHANGED <<code, failures>>
    /\ UNCHANGED <<fixed, attempt, runtime, collector, child, server, signals>>

\* startLocalRuntime: remove a stale discovery file, start the process.
startLocalRuntime ==
    /\ pc = "runtime"
    /\ IF interrupted /\ mode # "check"
       THEN Abort /\ UNCHANGED runtime
       ELSE /\ runtime' = "up" /\ pc' = "awaitDiscovery"
            /\ UNCHANGED <<server, code, failures>>
    /\ UNCHANGED <<fixed, attempt, lock, collector, child, signals>>

\* awaitDiscovery: the endpoint, or a cancelled wait, an exit, a timeout, which stop it.
awaitDiscovery ==
    /\ pc = "awaitDiscovery"
    /\ \/ pc' = "provision" /\ UNCHANGED <<runtime, code, failures, server>>
       \/ /\ Cancelled \/ Fails
          /\ runtime' = "down"
          /\ failures' = IF Cancelled THEN failures ELSE failures + 1
          /\ code' = ExitCode
          /\ pc' = "teardown"
          /\ UNCHANGED server
    /\ UNCHANGED <<fixed, attempt, lock, collector, child, signals>>

\* ensureHierarchy; or, for --check, the instance that reported last is read.
ensureHierarchy ==
    /\ pc = "provision"
    /\ \/ ~interrupted /\ mode # "check" /\ pc' = "create" /\ UNCHANGED <<server, code, failures>>
       \/ /\ ~interrupted /\ mode = "check" /\ pc' = "launch"
          /\ previous' = reported /\ heard' = {}
          /\ UNCHANGED <<run, runStarted, runCompleted, reported, code, failures>>
       \/ interrupted /\ Abort
       \/ ~interrupted /\ Fails /\ failures' = failures + 1 /\ code' = "operational"
          /\ pc' = "teardown" /\ UNCHANGED server
    /\ UNCHANGED <<fixed, helpers, child, signals>>

(* startRun is two calls under the relay's context: creation, then start. Only *)
(* when both have been answered is the run remembered as started.             *)
startRun(from, to, at, next) ==
    /\ pc = at
    /\ \/ /\ Call(from, to, TRUE)
          /\ runStarted' = (next # "start_run") /\ pc' = next
          /\ UNCHANGED <<code, runCompleted, reports>>
       \/ /\ Call(from, to, FALSE) \/ (Cancelled /\ CancelledCall(from, to))
          /\ code' = ExitCode /\ pc' = "teardown"
          /\ UNCHANGED <<runStarted, runCompleted, reports>>
    /\ UNCHANGED <<fixed, helpers, child, signals>>

createRun == startRun({"none"}, "pending", "create", "start_run")
beginRun == startRun({"pending"}, "running", "start_run", "launch")

\* launchCollector: the process, on ports that were free a moment ago.
launchCollector ==
    /\ pc = "launch"
    /\ IF interrupted /\ mode # "check"
       THEN Abort /\ UNCHANGED <<collector, attempt>>
       ELSE /\ collector' = "up" /\ attempt' = attempt + 1 /\ pc' = "awaitReady"
            /\ UNCHANGED <<server, code, failures>>
    /\ UNCHANGED <<fixed, lock, runtime, child, signals>>

(* awaitReady: live; or a port was taken, the process is stopped and there are *)
(* attempts left; or give up, also at once when it exits or never is live.     *)
awaitReady ==
    /\ pc = "awaitReady"
    /\ \/ /\ pc' = IF mode = "check" THEN "report" ELSE "exec"
          /\ UNCHANGED <<collector, server, code, failures>>
       \/ /\ ~Cancelled /\ attempt < PortAttempts
          /\ collector' = "down" /\ pc' = "launch"
          /\ UNCHANGED <<server, code, failures>>
       \/ /\ Cancelled \/ attempt = PortAttempts
          /\ collector' = "down"
          /\ Abort
       \/ /\ Fails
          /\ collector' = "down"
          /\ failures' = failures + 1
          /\ run' = (IF run = "running" THEN "failed" ELSE run) /\ runStarted' = FALSE
          /\ code' = ExitCode /\ pc' = "teardown"
          /\ UNCHANGED <<runCompleted, reports>>
    /\ UNCHANGED <<fixed, attempt, lock, runtime, child, signals>>

\* A Collector reports under the one id that every check uses: this session's
\* own, or one of another check on the same control plane, earlier or concurrent.
CollectorReports ==
    /\ mode = "check" /\ pc # "done" /\ (attached \/ runtime = "up")
    /\ \E i \in {"old", "other"} \cup (IF attempt > 0 THEN {"own"} ELSE {}) :
        reported' = i /\ heard' = heard \cup {i}
    /\ UNCHANGED <<fixed, pc, code, helpers, child, run, runStarted, runCompleted, previous,
                   signals, failures>>

\* Faulty variant: whatever is held counts.
AnyReport == reported # "none"

\* awaitDevCheckReport: an instance other than the one that was there before.
NewReport == reported # "none" /\ reported # previous

\* The last document is printed either way; reading or printing it may fail.
awaitDevCheckReport ==
    /\ pc = "report"
    /\ \/ code' = (IF NewReport THEN "ok" ELSE "operational") /\ UNCHANGED failures
       \/ /\ Cancelled \/ Fails
          /\ code' = "operational" /\ failures' = IF Cancelled THEN failures ELSE failures + 1
    /\ pc' = "teardown"
    /\ UNCHANGED <<fixed, helpers, child, server, signals>>

(* ------------------------------ Supervision ------------------------------- *)

\* superviseChildWith: start the command, which may not start.
startChild ==
    /\ pc = "exec"
    /\ \/ interrupted /\ Abort /\ UNCHANGED <<workload, outcome>>
       \/ /\ ~interrupted
          /\ workload' = "running" /\ pc' = "setTarget"
          /\ UNCHANGED <<server, code, failures, outcome>>
       \/ /\ ~interrupted /\ Fails
          /\ failures' = failures + 1
          /\ outcome' = "startFailed" /\ pc' = "stopCollector"
          /\ UNCHANGED <<server, code, workload>>
    /\ UNCHANGED <<fixed, helpers, stragglers, signals>>

\* Faulty variant: the process is stored, and what arrived before it is not delivered.
SetTargetOnly ==
    /\ pc = "setTarget"
    /\ relay' = [relay EXCEPT !.target = TRUE]
    /\ pc' = "wait"
    /\ UNCHANGED <<fixed, code, helpers, child, server, queue, sent, relaying,
                   deadlineDone, failures>>

\* setTarget: what arrived while the command was starting is delivered now.
setTarget ==
    /\ pc = "setTarget"
    /\ relay' = [relay EXCEPT !.target = TRUE, !.forwarded = @ \/ relay.received,
                              !.escalation = relay.expired, !.termed = relay.expired]
    /\ workload' \in IF Cancelled THEN Deliver(workload) ELSE {workload}
    /\ pc' = "wait"
    /\ UNCHANGED <<fixed, code, helpers, outcome, stragglers, server, queue, sent, relaying,
                   deadlineDone, failures>>

\* cmd.Wait returns: the leader is reaped, and childExitOutcome reads its status.
Wait ==
    /\ pc = "wait"
    /\ workload \in {"ok", "error", "crashed", "interrupted", "killed"}
    /\ outcome' = workload
    /\ workload' = "reaped"
    /\ pc' = "clearTarget"
    /\ UNCHANGED <<fixed, code, helpers, stragglers, server, signals, failures>>

\* clearTarget: no more forwarding, no more escalation; a deadline's leftovers are killed.
clearTarget ==
    /\ pc = "clearTarget"
    /\ relay' = [relay EXCEPT !.target = FALSE, !.escalation = FALSE]
    /\ stragglers' = (stragglers /\ ~relay.expired)
    /\ pc' = "stopCollector"
    /\ UNCHANGED <<fixed, code, helpers, workload, outcome, server, queue, sent, relaying,
                   deadlineDone, failures>>

\* otlp.stop() before the run ends: what the Collector holds is flushed into it.
StopCollector ==
    /\ pc = "stopCollector"
    /\ collector' = "down"
    /\ pc' = "finish"
    /\ UNCHANGED <<fixed, code, attempt, lock, runtime, child, server, signals, failures>>

(* --------------------------------- Finish --------------------------------- *)

\* childOutcome.stoppedByDeveloper.
stoppedByDeveloper ==
    /\ outcome \in {"crashed", "killed", "interrupted"}
    /\ relay.forwarded \/ (handover /\ outcome = "interrupted")

OutcomeCode == IF outcome = "ok" THEN "ok" ELSE IF outcome = "startFailed" THEN "operational" ELSE "workload"

\* The relay's flag or the deadline itself: two goroutines, either may be first.
deadlinePassed == relay.expired \/ deadlineDone

(* Success, or a developer who had seen enough; in a suite a stop is a         *)
(* cancellation, and a command that never started is neither.                 *)
Finished == outcome = "ok" \/ (stoppedByDeveloper /\ mode # "suite")

\* The cases of finish that fail the run.
FinishFailed ==
    /\ pc = "finish"
    /\ deadlinePassed \/ ~Finished
    /\ failRun
    /\ code' = IF deadlinePassed /\ outcome = "ok" THEN "operational" ELSE OutcomeCode
    /\ pc' = "teardown"
    /\ UNCHANGED <<fixed, helpers, child, runCompleted, reports, signals>>

\* The cases that complete it.
FinishCompleted ==
    /\ pc = "finish" /\ ~deadlinePassed /\ Finished
    /\ \E ok \in BOOLEAN :
        /\ completeRun(ok)
        /\ IF mode = "suite"
           THEN pc' = "finalized" /\ UNCHANGED code
           ELSE pc' = "teardown" /\ code' = OutcomeCode
    /\ UNCHANGED <<fixed, helpers, child, reports, signals>>

\* finalizeWithinDeadline: completed in time, or not completed at all.
finalizeWithinDeadline ==
    /\ pc = "finalized"
    /\ pc' = "teardown"
    /\ IF runCompleted /\ ~deadlineDone
       THEN code' = "ok" /\ UNCHANGED <<run, runCompleted, failures>>
       ELSE /\ code' = "operational"
            /\ runCompleted' = FALSE
            /\ IF deadlineDone
               THEN \E ok \in BOOLEAN : Call({"pending", "running"}, "failed", ok)
               ELSE UNCHANGED <<run, failures>>
    /\ UNCHANGED <<fixed, helpers, child, runStarted, reports, signals>>

\* teardown stops the control plane this session started.
StoppedRuntime == IF runtime = "up" THEN "down" ELSE runtime

\* teardown, then the baseline's release and the relay's Stop, which drains its queue.
teardown ==
    /\ pc = "teardown"
    /\ queue = 0 /\ ~relaying
    /\ collector' = IF collector = "up" THEN "down" ELSE collector
    /\ runtime' = StoppedRuntime
    /\ lock' = IF lock = "up" THEN "down" ELSE lock
    /\ pc' = "done"
    /\ UNCHANGED <<fixed, code, attempt, child, server, signals, failures>>

Composition ==
    \/ Prepare \/ startLocalRuntime \/ awaitDiscovery \/ ensureHierarchy
    \/ launchCollector \/ awaitReady \/ teardown

\* `trustvian dev --check` composes without a run and without a workload.
runDevCheck == mode = "check" /\ (Composition \/ awaitDevCheckReport)

\* composeAndRunResult, for `trustvian dev` and for a member of a suite.
composeAndRun ==
    /\ mode # "check"
    /\ \/ Composition \/ createRun \/ beginRun
       \/ startChild \/ setTarget \/ Wait \/ clearTarget \/ StopCollector
       \/ FinishFailed \/ FinishCompleted \/ finalizeWithinDeadline

Session == runDevCheck \/ composeAndRun

Next ==
    \/ Session \/ SignalArrives \/ run_take \/ run_forward \/ Deadline \/ expire
    \/ terminate \/ WorkloadEnds \/ CollectorReports

(* The session's goroutine, the relay's and the watcher's run, and the timer   *)
(* fires. Nothing obliges a workload to end.                                   *)
Spec ==
    /\ Init /\ [][Next]_vars
    /\ WF_vars(Session) /\ WF_vars(run_take) /\ WF_vars(run_forward)
    /\ WF_vars(expire) /\ WF_vars(terminate)

(* ------------------------------- Properties ------------------------------- *)

Ended == pc = "done"

(* Nothing this session started is left when it returns, whichever step gave  *)
(* up: "Teardown is deferred ... so a failure half-way leaves nothing running" *)
(* (dev.go). A workload that was terminated for its deadline leaves no        *)
(* descendants either.                                                        *)
NothingIsLeft ==
    Ended =>
        /\ "up" \notin {lock, runtime, collector}
        /\ workload \in {"none", "reaped"}
        /\ ~(relay.termed /\ stragglers)

(* A run is completed only by a workload that succeeded or that the developer *)
(* stopped, never by one that a deadline ended, and only after the Collector  *)
(* had flushed. What the session says of the completion is true.              *)
CompletedIsEvidence ==
    /\ run = "completed" =>
        /\ collector = "down" /\ workload = "reaped"
        /\ \/ outcome = "ok"
           \/ mode = "dev" /\ (relay.received \/ (handover /\ outcome = "interrupted"))
        /\ ~relay.termed
    /\ runCompleted => run = "completed"

(* Exit 0 means the workload succeeded; of a suite member, that the run was   *)
(* completed in time as well; of --check, that an instance other than the one *)
(* held before has reported since: its own Collector's, unless another check  *)
(* used the same control plane meanwhile.                                     *)
ExitIsTrue ==
    Ended /\ code = "ok" =>
        CASE mode = "dev" -> outcome = "ok"
          [] mode = "suite" -> outcome = "ok" /\ run = "completed" /\ runCompleted
          [] mode = "check" -> "own" \in heard \/ heard \ {previous, "own"} # {}

(* A run that the session knew as running is terminal when it returns, unless *)
(* a call failed: Ctrl-C or a deadline alone leaves none behind.              *)
KnownRunsEnd == Ended /\ failures = 0 /\ collector # "none" => run \notin {"pending", "running"}

SessionIsSound == NothingIsLeft /\ CompletedIsEvidence /\ ExitIsTrue /\ KnownRunsEnd

(* Once the deadline has passed the session returns, whatever the workload    *)
(* does with SIGTERM.                                                         *)
DeadlineEndsTheSession == (mode = "suite" /\ deadlineDone) ~> Ended
=============================================================================
