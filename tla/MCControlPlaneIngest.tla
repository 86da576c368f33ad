------------------------ MODULE MCControlPlaneIngest ------------------------
(* A small instance of ControlPlaneIngest for TLC. *)
EXTENDS ControlPlaneIngest, TLC

CONSTANTS a, b, fa, fb

\* Two records with different behaviors.
MCShape == (a :> fa) @@ (b :> fb)

HandlerSymmetry == Permutations(Handlers)
=============================================================================
