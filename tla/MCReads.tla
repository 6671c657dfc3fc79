------------------------------ MODULE MCReads -------------------------------
(* Reads and writes over small registries.                                 *)
EXTENDS Reads, TLC

CONSTANTS r1, r2, w1, s1, s2

Table == [database |-> "d", derived |-> FALSE, procedure |-> FALSE, sideEffects |-> FALSE,
          cascades |-> {}, affects |-> {}]

\* Foreign keys in a chain; a view and a procedure; a cascade to an unknown table.
Chain == [t |-> [Table EXCEPT !.cascades = {"u"}], u |-> [Table EXCEPT !.cascades = {"w"}], w |-> Table]
Views == [t |-> Table, v |-> [Table EXCEPT !.derived = TRUE],
          p |-> [Table EXCEPT !.procedure = TRUE, !.affects = {"t"}]]
Unknown == [t |-> [Table EXCEPT !.cascades = {"x"}], u |-> Table]
Single == [t |-> Table]

Symmetry == Permutations(Reader) \cup Permutations(Writer) \cup Permutations(Session)

Served == {Single, Chain, Views, Unknown}
Calls == [r \in Served |-> IF r = Single THEN 3 ELSE 2]
=============================================================================
