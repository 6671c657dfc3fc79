----------------------------- MODULE MCRuntime ------------------------------
(* Instances of Runtime for TLC: the sessions of one user. *)
EXTENDS Runtime

CONSTANTS k1, k2, u

MCUserOf == [s \in Session |-> u]

\* A configuration that serves the user, and one that disables it; they share
\* a connection.
MCConfigs == {[conns |-> {k1, k2}, users |-> {u}], [conns |-> {k2}, users |-> {}]}
=============================================================================
