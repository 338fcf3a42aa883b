------------------------ MODULE MCInternalKubernetes ------------------------
(* The instances of InternalKubernetes that TLC checks. *)
EXTENDS InternalKubernetes, TLC

Symmetry == Permutations(Node)
=============================================================================
