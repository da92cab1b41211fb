--------------------------- MODULE MCVectorIndex ---------------------------
(* A model of VectorIndex: the second and fourth nodes after the seed rise  *)
(* above level 0.                                                          *)
EXTENDS VectorIndex

MCLevels == <<0, 1, 0, 2>>
=============================================================================
