----------------------------- MODULE MCProviders -----------------------------
(* Constants for model checking ProviderManager. *)
EXTENDS ProviderManager, TLC

CONSTANTS p1, p2, c1, c2
=============================================================================
