------------------------------- MODULE MCBus --------------------------------
(* The bus with a few works of each kind.                                  *)
EXTENDS Bus, TLC

CONSTANTS c1, a1, a2
=============================================================================
