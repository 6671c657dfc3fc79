----------------------------- MODULE MCLeasing ------------------------------
(* Instances of Leasing for TLC. *)
EXTENDS Leasing, TLC

Symmetry == Permutations(Node) \cup Permutations(Item)
=============================================================================
