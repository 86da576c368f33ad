---------------------------- MODULE RunLifecycle ----------------------------
(***************************************************************************)
(* The lifecycle of an evaluation run (src/platform/domain.go), as every   *)
(* other component reads it.  A run is an execution: it is created         *)
(* pending, started, and ends in one of three terminal states.             *)
(***************************************************************************)

RunStatuses == {"pending", "running", "completed", "failed", "cancelled"}

\* RunStatus.IsTerminal
IsTerminal(status) == status \in {"completed", "failed", "cancelled"}

\* EvaluationRun.transitionAllowed: the whole state machine in one place.
TransitionAllowed(from, to) ==
    \/ from = "pending" /\ to \in {"running", "cancelled"}
    \/ from = "running" /\ to \in {"completed", "failed", "cancelled"}
=============================================================================
