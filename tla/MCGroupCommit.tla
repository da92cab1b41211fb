--------------------------- MODULE MCGroupCommit ---------------------------
(* Model checking of GroupCommit on small instances: connections are        *)
(* interchangeable model values.                                            *)
EXTENDS GroupCommit, TLC

Symmetry == Permutations(Conns)
=============================================================================
