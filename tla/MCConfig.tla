------------------------------ MODULE MCConfig ------------------------------
(***************************************************************************)
(* An instance of Config for TLC.                                         *)
(***************************************************************************)
EXTENDS Config, TLC

CONSTANTS l1, l2, n1, n2, d1, d2, root

Symmetry == Permutations(LinkId) \cup Permutations(NodeId) \cup Permutations(DevId)
=============================================================================
