------------------------------ MODULE MCEvents ------------------------------
(* Small event emitters for TLC.                                           *)
EXTENDS EventEmitter, TLC

Symmetry == Permutations(Goroutines)
=============================================================================
