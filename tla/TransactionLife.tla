-------------------------- MODULE TransactionLife --------------------------
(***************************************************************************)
(* What TransactionManager promises of a transaction, without its locks,   *)
(* goroutines, timers and counters: it is given to a caller at most once,  *)
(* claimed for its end by one process, sent a COMMIT only by that process, *)
(* and over only when the database no longer waits for its client.         *)
(***************************************************************************)
CONSTANT Token

VARIABLES
    stage,  \* where the transaction stands with the manager
    fate    \* and with the database

life == <<stage, fate>>

Stage == {"none", "begun", "open", "ending", "over"}
Fate == {"pending", "sent", "committed", "rolledBack"}

LifeInit ==
    /\ stage = [t \in Token |-> "none"]
    /\ fate = [t \in Token |-> "pending"]

\* Transaction t moves on from stage a to stage b.
Advance(t, a, b) == stage[t] = a /\ stage' = [stage EXCEPT ![t] = b]

Begun(t) == Advance(t, "none", "begun") /\ fate' = fate

\* The caller is given the token, or is not and the transaction is undone.
Given(t) == Advance(t, "begun", "open") /\ fate' = fate
Dropped(t) ==
    /\ fate[t] \in {"pending", "rolledBack"}
    /\ Advance(t, "begun", "over")
    /\ fate' = [fate EXCEPT ![t] = "rolledBack"]

\* One process claims the transactions of S to end them.
Claimed(S) ==
    /\ \A t \in S : stage[t] = "open"
    /\ stage' = [t \in Token |-> IF t \in S THEN "ending" ELSE stage[t]]
    /\ fate' = fate

RolledBack(t) ==
    /\ stage[t] \in {"begun", "open", "ending"}
    /\ fate[t] = "pending"
    /\ fate' = [fate EXCEPT ![t] = "rolledBack"]
    /\ stage' = stage

CommitSent(t) ==
    /\ stage[t] = "ending"
    /\ fate[t] = "pending"
    /\ fate' = [fate EXCEPT ![t] = "sent"]
    /\ stage' = stage

\* A COMMIT in flight may be decided after the manager gave up on its answer.
Decided(t) ==
    /\ fate[t] = "sent"
    /\ \E f \in {"committed", "rolledBack"} : fate' = [fate EXCEPT ![t] = f]
    /\ stage' = stage

Over(t) ==
    /\ fate[t] # "pending"
    /\ Advance(t, "ending", "over")
    /\ fate' = fate

LifeNext ==
    \/ \E S \in SUBSET Token : Claimed(S)
    \/ \E t \in Token :
        \/ Begun(t) \/ Given(t) \/ Dropped(t)
        \/ RolledBack(t) \/ CommitSent(t) \/ Decided(t) \/ Over(t)

LifeSpec == LifeInit /\ [][LifeNext]_life

=============================================================================
