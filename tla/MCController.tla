--------------------------- MODULE MCController ---------------------------
(* Model-checking instance of Controller: callers and databases are         *)
(* interchangeable.                                                         *)
EXTENDS Controller, TLC

Symmetry == Permutations(Callers) \cup Permutations(Urls)
=============================================================================
