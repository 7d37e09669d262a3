------------------------------ MODULE MCStorage ------------------------------
(* Two threads that may be exchanged.                                              *)
EXTENDS Storage, TLC

CONSTANTS t1, t2
Symmetry == Permutations({t1, t2})
==============================================================================
