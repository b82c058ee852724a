--------------------------- MODULE MCGrpcContext ---------------------------
(* Instances of GrpcContext for TLC.                                       *)
EXTENDS GrpcContextRefinement, TLC

Symmetry == Permutations(Ops) \cup Permutations(Producers)
=============================================================================
