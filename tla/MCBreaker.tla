----------------------------- MODULE MCBreaker ------------------------------
(* The breaker with a few calls, for TLC.                                  *)
EXTENDS Breaker, TLC

Symmetry == Permutations(Call)
=============================================================================
