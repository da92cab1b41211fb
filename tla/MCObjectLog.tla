---------------------------- MODULE MCObjectLog ----------------------------
(* Model-checking instance of ObjectLog: handles are interchangeable.       *)
EXTENDS ObjectLog, TLC

Symmetry == Permutations(Handles)
=============================================================================
