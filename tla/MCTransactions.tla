--------------------------- MODULE MCTransactions ---------------------------
(* Transactions on small sets of calls, tokens and callers, for TLC.       *)
EXTENDS Transactions, TLC

Symmetry == Permutations(Call) \cup Permutations(Token) \cup Permutations(Session)
=============================================================================
