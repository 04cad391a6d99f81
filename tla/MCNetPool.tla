---------------------------- MODULE MCNetPool ----------------------------
(* Model values and symmetry for the configurations of NetPool. *)
EXTENDS NetPool, TLC

ThreadSymmetry == Permutations(Threads)
=============================================================================
