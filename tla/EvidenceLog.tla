---------------------------- MODULE EvidenceLog -----------------------------
(***************************************************************************)
(* What the control plane promises of one evaluation run, with handlers,   *)
(* transactions, retries and crashes taken away: the run's evidence is an  *)
(* append-only log of records.  It grows by one record at a time, only     *)
(* while the run is running, and stands still once the run has ended.      *)
(***************************************************************************)
EXTENDS Naturals, Sequences, RunLifecycle

CONSTANT Contents   \* what a record may say

VARIABLES
    log,    \* the records the run holds, in the order it accepted them
    phase   \* its lifecycle status

LInit ==
    \/ log = <<>> /\ phase = "pending"
    \/ log \in Seq(Contents) /\ Len(log) = 1 /\ phase = "running"

Admit(c) ==
    /\ phase = "running"
    /\ log' = Append(log, c)
    /\ UNCHANGED phase

Advance(to) ==
    /\ TransitionAllowed(phase, to)
    /\ phase' = to
    /\ UNCHANGED log

LNext == (\E c \in Contents : Admit(c)) \/ (\E to \in RunStatuses : Advance(to))

LSpec == LInit /\ [][LNext]_<<log, phase>>
=============================================================================
