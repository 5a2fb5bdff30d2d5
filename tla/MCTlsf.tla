------------------------------- MODULE MCTlsf -------------------------------
(* Constants for model checking Tlsf. *)
EXTENDS Tlsf, TLC

CONSTANTS o1, o2, o3

Alike == Permutations(Owners)
=============================================================================
