---------------------------- MODULE MCZigbeeNames ----------------------------
(* Instances of ZigbeeNames for model checking. *)
EXTENDS ZigbeeNames, TLC

CONSTANTS d1, d2
Symmetry == Permutations(Names)
=============================================================================
