---------------------------- MODULE MCPageStore ----------------------------
(* Model-checking instance of PageStore: pages are interchangeable.         *)
EXTENDS PageStore, TLC

Symmetry == Permutations(Pages) \cup Permutations(Readers)
=============================================================================
