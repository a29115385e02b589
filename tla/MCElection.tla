----------------------------- MODULE MCElection -----------------------------
(* Constants for model checking LeaderElection. *)
EXTENDS LeaderElection

CONSTANTS n1, n2, n3
=============================================================================
