------------------------- MODULE MCControllerServer -------------------------
(* The instances of ControllerServer that TLC checks: constants are given   *)
(* in the configurations, nodes are interchangeable.                        *)
EXTENDS ControllerServerRefinement, TLC

Symmetry == Permutations(Node) \cup Permutations(Export)
=============================================================================
