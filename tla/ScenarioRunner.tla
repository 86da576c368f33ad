--------------------------- MODULE ScenarioRunner ---------------------------
(***************************************************************************)
(* `trustvian eval run` (cmd/trustvian/eval_run.go and eval_suite.go): one *)
(* scenario, or a suite of them, each an execution that is begun at the    *)
(* control plane, repeated, and completed there, under a deadline and the  *)
(* suite's cancellation.                                                   *)
(*                                                                         *)
(* A request that the runner has given up may still be travelling, and is  *)
(* handled whenever it arrives. Completing and failing an execution are    *)
(* compare-and-swaps from running at the control plane (ScenarioExecution).*)
(* A repetition is one DevSession; only its result is seen here.           *)
(***************************************************************************)
EXTENDS Integers, Sequences, FiniteSets

CONSTANTS
    Members,        \* scenario files in the suite's directory
    Runs,           \* repetitions of each side
    DocumentSizes,  \* sizes of one member's result document
    OutputLimit,    \* maxSuiteDocumentBytes
    Overhead,       \* what the encoded suite document adds to its results
    CommitAckLost   \* whether the store may commit and report an error

\* Assumed of the constants; every instance for TLC says so with an ASSUME.
RunnerAssumption ==
    /\ Members \in Nat \ {0} /\ Runs \in Nat \ {0}
    /\ DocumentSizes \subseteq Nat /\ OutputLimit \in Nat /\ Overhead \in Nat
    /\ CommitAckLost \in BOOLEAN

VARIABLES
    options,             \* the mode, --fail-fast, --reference, and a valid preflight
    pc, i, side, rep,    \* the runner's goroutine and its loops
    cause,               \* why the current execution is being given up
    waiting, answer,     \* the request in progress and what came back
    net,                 \* requests that have not reached the control plane
    execution, verdict,  \* what the control plane holds of each member
    ctx, cancelled,      \* the member's context and the suite's
    outcome,             \* the members' results, in order
    stop, retained, overflowed, exitCode, complete  \* the suite's bookkeeping
vars == <<options, pc, i, side, rep, cause, waiting, answer, net, execution, verdict,
          ctx, cancelled, outcome, stop, retained, overflowed, exitCode, complete>>

request == <<waiting, answer, net>>
control == <<execution, verdict>>
loops == <<i, side, rep>>
contexts == <<ctx, cancelled>>
suite == <<outcome, stop, retained, overflowed, exitCode, complete>>

Init ==
    /\ options \in [mode : {"single", "suite"}, failFast : BOOLEAN, reuse : BOOLEAN, valid : BOOLEAN]
    /\ options.mode = "single" => ~options.failFast
    /\ pc = "preflight" /\ i = 0 /\ side = "reference" /\ rep = 0 /\ cause = "none"
    /\ waiting = "none" /\ answer = "none" /\ net = {}
    /\ execution = [m \in 1..Members |-> "none"] /\ verdict = [m \in 1..Members |-> "none"]
    /\ ctx = "live" /\ cancelled = FALSE
    /\ outcome = <<>> /\ stop = "" /\ retained = 0 /\ overflowed = FALSE
    /\ exitCode = 0 /\ complete = TRUE

Files == IF options.mode = "single" THEN 1 ELSE Members

(* --------------------- The control plane and the network --------------------- *)

Arrived(r, result) ==
    /\ net' = net \ {r}
    /\ answer' = IF waiting = r.op /\ i = r.m /\ answer = "none" THEN result ELSE answer

\* BeginScenarioExecution: refused when the reference does not resolve.
HandleBegin(r) ==
    /\ r.op = "begin"
    /\ \/ /\ execution' = [execution EXCEPT ![r.m] = "running"]
          /\ \E result \in {"ok", "garbled"} \cup (IF options.reuse THEN {"unnamed"} ELSE {}) :
                Arrived(r, result)
       \/ Arrived(r, "refused") /\ UNCHANGED execution
    /\ UNCHANGED verdict

\* CompleteScenarioExecution, and the error it answers when the commit's own
\* acknowledgement is lost: classify's 500, in the /v1 envelope.
HandleComplete(r) ==
    /\ r.op = "complete"
    /\ \/ /\ execution[r.m] = "running"
          /\ execution' = [execution EXCEPT ![r.m] = "completed"]
          /\ \E v \in {"pass", "fail", "other"} : verdict' = [verdict EXCEPT ![r.m] = v]
          /\ \E result \in {"ok", "garbled"} \cup (IF CommitAckLost THEN {"refused"} ELSE {}) :
                Arrived(r, result)
       \/ Arrived(r, "refused") /\ UNCHANGED control

\* FailScenarioExecution: failing a failed execution is not an error.
HandleFail(r) ==
    /\ r.op = "fail"
    /\ IF execution[r.m] \in {"running", "failed"}
       THEN execution' = [execution EXCEPT ![r.m] = "failed"] /\ Arrived(r, "ok")
       ELSE Arrived(r, "refused") /\ UNCHANGED execution
    /\ UNCHANGED verdict

Handle ==
    /\ \E r \in net : HandleBegin(r) \/ HandleComplete(r) \/ HandleFail(r)
    /\ UNCHANGED <<options, pc, loops, cause, waiting, contexts, suite>>

\* platformClient.doQuery ends without an answer, or with a gateway's: the
\* request itself may still be on its way.
Unanswered ==
    /\ waiting # "none" /\ answer = "none" /\ answer' \in {"error", "gateway"}
    /\ UNCHANGED <<options, pc, loops, cause, waiting, net, control, contexts, suite>>

\* The member's deadline passes, or the suite is cancelled.
ContextEnds ==
    /\ options.mode = "suite" /\ i > 0 /\ pc # "done"
    /\ \/ ctx = "live" /\ ctx' = "scenario_timeout" /\ UNCHANGED cancelled
       \/ /\ ~cancelled /\ cancelled' = TRUE
          /\ ctx' = IF ctx = "live" THEN "cancelled" ELSE ctx
    /\ UNCHANGED <<options, pc, loops, cause, request, control, suite>>

(* --------------------------------- execute --------------------------------- *)

\* A request under a context that has ended is never sent.
Send(op, live) ==
    /\ waiting' = op
    /\ answer' = IF live THEN "none" ELSE "error"
    /\ net' = IF live THEN net \cup {[op |-> op, m |-> i]} ELSE net

Settled == waiting' = "none" /\ answer' = "none" /\ UNCHANGED net

moreSevere(a, b) == IF b > a THEN b ELSE a

\* The member's result joins the suite's document, while that can still fit.
Finish(kind, code, exit) ==
    /\ outcome' = Append(outcome, [kind |-> kind, code |-> code])
    /\ IF kind = "error" THEN UNCHANGED <<retained, overflowed>>
       ELSE \E size \in DocumentSizes :
              /\ retained' = retained + size
              /\ overflowed' = (overflowed \/ (options.mode = "suite" /\ retained + size > OutputLimit))
    /\ exitCode' = moreSevere(exitCode, exit)
    /\ stop' = IF cancelled THEN "cancelled"
               ELSE IF exit # 0 /\ options.failFast THEN "fail_fast" ELSE stop
    /\ pc' = "schedule" /\ cause' = "none"
    /\ UNCHANGED complete

\* abort: record the execution failed, under a context of its own, then report why.
Abort(why) ==
    /\ Send("fail", TRUE) /\ pc' = "failing" /\ cause' = why
    /\ UNCHANGED suite

\* Faulty variant: a completion without an answer is taken for one that failed.
InferFromTheRequest(why) == Settled /\ Finish("error", why, 3)

\* reconcileCompletion: the same request, but its answer decides.
Reconcile(why) ==
    /\ Send("fail", TRUE) /\ pc' = "settling" /\ cause' = why
    /\ UNCHANGED suite

\* Whose word a non-2xx answer to the completion is.
definitiveRefusal(a) == a = "refused"

\* scenarioRunner.begin.
Begin ==
    /\ pc = "begin" /\ waiting = "none"
    /\ Send("begin", ctx = "live")
    /\ UNCHANGED <<options, pc, loops, cause, control, contexts, suite>>

Begun ==
    /\ pc = "begin" /\ waiting = "begin" /\ answer # "none"
    /\ \/ /\ answer \in {"error", "gateway", "garbled", "refused"}
          /\ IF ctx # "live" THEN Abort(ctx) ELSE Settled /\ Finish("error", "operational", 3)
          /\ UNCHANGED <<side, rep>>
       \/ answer = "unnamed" /\ Abort("operational") /\ UNCHANGED <<side, rep>>
       \/ /\ answer = "ok" /\ Settled
          /\ pc' = "repeat" /\ side' = IF options.reuse THEN "candidate" ELSE "reference"
          /\ rep' = 1 /\ UNCHANGED <<cause, suite>>
    /\ UNCHANGED <<options, i, control, contexts>>

\* Before a repetition, and after it, the context is asked.
StartRepetition ==
    /\ pc = "repeat"
    /\ \/ ctx # "live" /\ Abort(ctx)
       \/ ctx = "live" /\ pc' = "running" /\ UNCHANGED <<cause, request, suite>>
    /\ UNCHANGED <<options, loops, control, contexts>>

EndRepetition ==
    /\ pc = "running"
    /\ \E code \in {0, 1}, runCompleted \in BOOLEAN :
         \/ ctx # "live" /\ Abort(ctx) /\ UNCHANGED <<side, rep>>
         \/ ctx = "live" /\ code # 0 /\ Abort("repetition_failed") /\ UNCHANGED <<side, rep>>
         \/ ctx = "live" /\ code = 0 /\ ~runCompleted /\ Abort("run_not_completed") /\ UNCHANGED <<side, rep>>
         \/ /\ ctx = "live" /\ code = 0 /\ runCompleted
            /\ IF rep < Runs THEN rep' = rep + 1 /\ pc' = "repeat" /\ UNCHANGED side
               ELSE /\ rep' = 1 /\ side' = "candidate"
                    /\ pc' = IF side = "reference" THEN "repeat" ELSE "complete"
            /\ UNCHANGED <<cause, request, suite>>
    /\ UNCHANGED <<options, i, control, contexts>>

\* The completion request; a body over the limit is refused before it is sent.
Complete ==
    /\ pc = "complete" /\ waiting = "none"
    /\ \/ Send("complete", ctx = "live") /\ UNCHANGED <<pc, cause, suite>>
       \/ Reconcile(IF ctx = "live" THEN "usage" ELSE ctx)
    /\ UNCHANGED <<options, loops, control, contexts>>

Completed ==
    /\ pc = "complete" /\ waiting = "complete" /\ answer # "none"
    /\ \/ answer = "error" /\ Reconcile(IF ctx = "live" THEN "operational" ELSE ctx)
       \/ /\ answer \in {"refused", "gateway"}
          /\ IF definitiveRefusal(answer) THEN Abort("operational") ELSE Reconcile("operational")
       \/ answer = "garbled" /\ Reconcile("operational")
       \/ answer = "ok" /\ verdict[i] = "other" /\ Settled /\ Finish("error", "unrecognized_verdict", 3)
       \/ /\ answer = "ok" /\ verdict[i] # "other" /\ Settled
          /\ pc' = "report" /\ UNCHANGED <<cause, suite>>
    /\ UNCHANGED <<options, loops, control, contexts>>

\* reportDocument: a report that cannot be read falls back to the version 1
\* document; one that contradicts the completion fails the command.
reportDocument ==
    /\ pc = "report"
    /\ \/ Finish(verdict[i], "verdict", IF verdict[i] = "pass" THEN 0 ELSE 1)
       \/ Finish("error", "contradicted", 3)
    /\ UNCHANGED <<options, loops, request, control, contexts>>

\* fail: best effort, whatever came of it.
Failed ==
    /\ pc = "failing" /\ answer # "none" /\ Settled
    /\ Finish("error", cause, 3)
    /\ UNCHANGED <<options, loops, control, contexts>>

CauseExit == IF cause = "usage" THEN 2 ELSE 3

\* reconcileCompletion: the fail was accepted, or the execution is read.
Reconciled ==
    /\ pc = "settling" /\ answer # "none" /\ Settled
    /\ \/ answer = "ok" /\ Finish("error", cause, CauseExit)
       \/ /\ answer # "ok" /\ execution[i] = "failed" /\ Finish("error", cause, CauseExit)
       \/ /\ answer # "ok" /\ execution[i] = "completed"
          /\ Finish("error", "completed_without_response", 3)
       \/ answer # "ok" /\ Finish("error", "execution_state_unknown", 3)
    /\ UNCHANGED <<options, loops, control, contexts>>

(* -------------------------------- suiteMain -------------------------------- *)

Decided ==
    /\ IF options.valid THEN pc' = "schedule" /\ UNCHANGED exitCode
       ELSE pc' = "done" /\ exitCode' = 2
    /\ UNCHANGED <<options, loops, cause, request, control, contexts, outcome, stop, retained, overflowed, complete>>

\* Everything about the scenario, or about every scenario of the suite, is
\* decided before anything runs.
SinglePreflight == pc = "preflight" /\ options.mode = "single" /\ Decided
SuitePreflight == pc = "preflight" /\ options.mode = "suite" /\ Decided

ScheduleNext ==
    /\ pc = "schedule" /\ Len(outcome) < Files
    /\ i' = Len(outcome) + 1
    /\ IF stop # "" \/ cancelled
       THEN /\ stop' = IF stop = "" THEN "cancelled" ELSE stop
            /\ outcome' = Append(outcome, [kind |-> "skipped", code |-> stop'])
            /\ UNCHANGED <<pc, ctx>>
       ELSE pc' = "begin" /\ ctx' = "live" /\ UNCHANGED <<stop, outcome>>
    /\ UNCHANGED <<options, side, rep, cause, request, control, cancelled, retained, overflowed, exitCode, complete>>

\* The suite's document is written whole, or says that it is incomplete.
Report ==
    /\ pc = "schedule" /\ Len(outcome) = Files
    /\ LET asked == IF options.mode = "suite" /\ cancelled THEN moreSevere(exitCode, 3) ELSE exitCode
           tooLarge == options.mode = "suite" /\ (overflowed \/ retained + Overhead > OutputLimit)
       IN complete' = ~tooLarge /\ exitCode' = IF tooLarge THEN 3 ELSE asked
    /\ pc' = "done"
    /\ UNCHANGED <<options, loops, cause, request, control, contexts, outcome, stop, retained, overflowed>>

Next ==
    \/ Handle \/ Unanswered \/ ContextEnds
    \/ Begin \/ Begun \/ StartRepetition \/ EndRepetition \/ Complete \/ Completed
    \/ reportDocument \/ Failed \/ Reconciled
    \/ SinglePreflight \/ SuitePreflight \/ ScheduleNext \/ Report

Spec == Init /\ [][Next]_vars

(* -------------------------------- Properties -------------------------------- *)

Members_(kind) == {m \in 1..Len(outcome) : outcome[m].kind = kind}

\* A member's verdict is the one the control plane recorded for it; a member
\* without one is reported as stopped only if its execution is not completed
\* and never will be, whatever request of it is still travelling; a skipped
\* member began nothing.
MembersAreReportedAsTheyEnded ==
    \A m \in 1..Len(outcome) :
        LET o == outcome[m]
            known == {"completed_without_response", "unrecognized_verdict", "contradicted"}
        IN /\ o.kind \in {"pass", "fail"} => execution[m] = "completed" /\ verdict[m] = o.kind
           /\ o.code \in known => execution[m] = "completed"
           /\ o.kind = "error" /\ o.code \notin known \cup {"execution_state_unknown"} =>
                execution[m] # "completed"
           /\ o.kind = "skipped" => execution[m] = "none"

\* The process exits 0 only with every scenario passed and delivered, and 1
\* only with every scenario that ran decided; anything undecided is 2 or 3.
TheExitCodeCoversEveryMember ==
    pc = "done" /\ options.valid =>
        /\ Len(outcome) = Files
        /\ exitCode = 0 => complete /\ Members_("pass") = 1..Files
        /\ exitCode = 1 => complete /\ Members_("fail") # {} /\ Members_("error") = {}
        /\ Members_("error") # {} => exitCode \in {2, 3}
        /\ \A m \in Members_("skipped") : exitCode # 0

\* A refused preflight leaves nothing begun.
UsageBeginsNothing == ~options.valid => net = {} /\ \A m \in 1..Members : execution[m] = "none"

SuiteIsTruthful == MembersAreReportedAsTheyEnded /\ TheExitCodeCoversEveryMember /\ UsageBeginsNothing
=============================================================================
