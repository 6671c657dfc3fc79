------------------------------ MODULE Breaker -------------------------------
(***************************************************************************)
(* The circuit breaker of a database connection (core/ratelimit), as the   *)
(* calls on the connection go through it (x/bootstrap/guard.go).  It is    *)
(* made of atomic variables and has no lock: every load, store, addition   *)
(* and compare-and-swap is a step, and the calls take theirs concurrently. *)
(*                                                                         *)
(* Numbers that are only compared are abstracted to what the comparison    *)
(* tells: the ticket of a call is the current epoch, an earlier one or a   *)
(* probe's, and openUntil lies ahead or behind.  A probe's number is never *)
(* given out again: once its call is over, probe is Past at best.  The     *)
(* adaptive limiter the call enters next admits it or does not.            *)
(***************************************************************************)
EXTENDS Naturals

CONSTANTS
    Call,        \* callers of the database, each with one call at a time
    None, Past,  \* no probe; the ticket of a call that is over
    Threshold    \* consecutive failures that open the breaker

VARIABLES
    openUntil,   \* "closed", "ahead" (open), or "behind" (half-open)
    probe,       \* whose probe is through
    failures,
    pc, ticket,  \* a call: where it is, and the ticket Allow gave it
    success      \* ... and whether it succeeded

vars == <<openUntil, probe, failures, pc, ticket, success>>

Ticket == {"none", "epoch", "earlier", "probe"}

Init ==
    /\ openUntil = "closed" /\ probe = None /\ failures = 0
    /\ pc = [c \in Call |-> "idle"] /\ ticket = [c \in Call |-> "none"]
    /\ success = [c \in Call |-> FALSE]

Goto(c, l) == pc' = [pc EXCEPT ![c] = l]
Go(c, l) == Goto(c, l) /\ UNCHANGED <<openUntil, probe, failures, ticket, success>>

\* The call is over, and nobody carries its ticket any more.
End(c) ==
    /\ Goto(c, "idle")
    /\ ticket' = [ticket EXCEPT ![c] = "none"] /\ success' = [success EXCEPT ![c] = FALSE]
    /\ probe' = IF probe = c THEN Past ELSE probe
Return(c) == End(c) /\ UNCHANGED <<openUntil, failures>>

-----------------------------------------------------------------------------
(* enter.                                                                  *)

\* Allow looks at openUntil ...
Allow(c) ==
    /\ pc[c] = "idle"
    /\ \/ openUntil = "closed" /\ Go(c, "epoch")
       \/ openUntil = "behind" /\ Go(c, "probe")

\* ... closed: the call carries the epoch ...
AllowEpoch(c) ==
    /\ pc[c] = "epoch" /\ Goto(c, "acquire")
    /\ ticket' = [ticket EXCEPT ![c] = "epoch"]
    /\ UNCHANGED <<openUntil, probe, failures, success>>

\* ... half-open: it is the probe, unless there is one.
AllowProbe(c) ==
    /\ pc[c] = "probe"
    /\ \/ /\ probe = None /\ probe' = c
          /\ ticket' = [ticket EXCEPT ![c] = "probe"] /\ Goto(c, "acquire")
          /\ UNCHANGED <<openUntil, failures, success>>
       \/ probe # None /\ Return(c)

\* The limiter admits the call, or refuses it.
Acquire(c) == pc[c] = "acquire" /\ (Go(c, "run") \/ Go(c, "release"))

\* Release: the probe frees its place.
Release(c) ==
    /\ pc[c] = "release" /\ Goto(c, "idle")
    /\ probe' = IF probe = c THEN None ELSE probe
    /\ ticket' = [ticket EXCEPT ![c] = "none"]
    /\ UNCHANGED <<openUntil, failures, success>>

-----------------------------------------------------------------------------
(* done.                                                                   *)

\* The call ends: it succeeded, the database failed, or its outcome does not
\* tell (countsAgainstHealth: a call that was cancelled, a statement refused).
Finish(c) ==
    /\ pc[c] = "run"
    /\ \/ Go(c, "release")
       \/ \E ok \in BOOLEAN :
            /\ success' = [success EXCEPT ![c] = ok] /\ Goto(c, "record")
            /\ UNCHANGED <<openUntil, probe, failures, ticket>>

\* Record looks at openUntil ...
Record(c) ==
    /\ pc[c] = "record"
    /\ \/ openUntil # "closed" /\ ticket[c] = "probe" /\ Go(c, "swap")
       \/ openUntil # "closed" /\ ticket[c] # "probe" /\ Return(c)
       \/ openUntil = "closed" /\ Go(c, "ticket")

\* ... open: the probe gives up its place, and decides ...
RecordProbe(c) ==
    /\ pc[c] = "swap"
    /\ \/ /\ probe = c /\ probe' = None
          /\ Goto(c, IF success[c] THEN "reset" ELSE "reopen")
          /\ UNCHANGED <<openUntil, failures, ticket, success>>
       \/ probe # c /\ Return(c)
Reopen(c) ==
    /\ pc[c] = "reopen" /\ End(c)
    /\ openUntil' = "ahead" /\ UNCHANGED failures
Reset(c) ==
    /\ pc[c] = "reset" /\ Goto(c, "next")
    /\ failures' = 0
    /\ UNCHANGED <<openUntil, probe, ticket, success>>
Close(c) ==
    /\ pc[c] = "close" /\ End(c)
    /\ openUntil' = "closed" /\ UNCHANGED failures

\* A new epoch: the tickets given out are of an earlier one.
NextEpoch(c, from, to) ==
    /\ pc[c] = from /\ Goto(c, to)
    /\ ticket' = [d \in Call |-> IF ticket[d] = "epoch" THEN "earlier" ELSE ticket[d]]
    /\ UNCHANGED <<openUntil, probe, failures, success>>

\* ... closed: an outcome of this epoch counts.
RecordTicket(c) ==
    /\ pc[c] = "ticket"
    /\ IF ticket[c] = "epoch" THEN Go(c, "count") ELSE Return(c)
Count(c) ==
    /\ pc[c] = "count"
    /\ failures' = IF success[c] THEN 0 ELSE failures + 1
    /\ IF ~success[c] /\ failures + 1 >= Threshold
       THEN Goto(c, "open") /\ UNCHANGED <<probe, ticket, success>>
       ELSE End(c)
    /\ UNCHANGED openUntil

\* The breaker opens, without a probe and in a new epoch.
Open(c) ==
    /\ pc[c] = "open" /\ Goto(c, "clear")
    /\ openUntil' = "ahead"
    /\ UNCHANGED <<probe, failures, ticket, success>>
Clear(c) ==
    /\ pc[c] = "clear" /\ Goto(c, "opened")
    /\ probe' = None
    /\ UNCHANGED <<openUntil, failures, ticket, success>>
Opened(c) == pc[c] = "over" /\ Return(c)

-----------------------------------------------------------------------------
\* The cooldown passes.
Cool ==
    /\ openUntil = "ahead" /\ openUntil' = "behind"
    /\ UNCHANGED <<probe, failures, pc, ticket, success>>

Enter(c) == Allow(c) \/ AllowEpoch(c) \/ AllowProbe(c) \/ Acquire(c) \/ Release(c)
Done(c) ==
    \/ Finish(c) \/ Record(c) \/ RecordProbe(c) \/ Reopen(c) \/ Reset(c) \/ NextEpoch(c, "next", "close") \/ Close(c)
    \/ RecordTicket(c) \/ Count(c) \/ Open(c) \/ Clear(c) \/ NextEpoch(c, "opened", "over") \/ Opened(c)
Next == Cool \/ \E c \in Call : Enter(c) \/ Done(c)

Spec == Init /\ [][Next]_vars

-----------------------------------------------------------------------------
(* Properties.                                                             *)

\* Once every call is over, a breaker that is not closed has no probe through,
\* so that the next call after the cooldown is let through: "then lets one
\* probe through at a time (half-open) until a probe's result closes it, or
\* reopens it" (core/ratelimit/ratelimit.go:88).
ProbesGoOn ==
    openUntil # "closed" /\ (\A c \in Call : pc[c] = "idle") => probe = None
=============================================================================
