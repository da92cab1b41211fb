---------------------------- MODULE MCMvccStore ----------------------------
(* Model-checking instance of MvccStore: connections and keys are           *)
(* interchangeable.                                                         *)
EXTENDS MvccStore, TLC

Symmetry == Permutations(Conns) \cup Permutations(Keys)
=============================================================================
