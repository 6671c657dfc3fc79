---------------------------- MODULE MCWorkspaces ----------------------------
(* Workspaces with one administrator and a few values, for TLC.            *)
EXTENDS Workspaces, TLC

Contents == [Ref -> Value]
Authors == User \cup {Cli}

\* A store of one published revision, of each content.
Histories ==
    {[i \in {1} |-> [parent |-> 0, payload |-> c, state |-> "published", at |-> 1, by |-> Cli]] : c \in Contents}

Symmetry == Permutations(Proc) \cup Permutations(Value)
=============================================================================
