-------------------------- MODULE MCEvaluationSink --------------------------
(* Instances of EvaluationSink small enough for TLC. *)
EXTENDS EvaluationSink, TLC

\* Runs are interchangeable until one is configured.
RunSymmetry == Permutations(Runs)
=============================================================================
