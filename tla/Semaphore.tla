----------------------------- MODULE Semaphore ------------------------------
(***************************************************************************)
(* core/bus Semaphore: slots whose number can change, granted to those who *)
(* wait in the order they came.  Its methods hold its mutex, so each is an *)
(* operator from the semaphore before to the semaphore after.              *)
(***************************************************************************)
EXTENDS Naturals, Sequences

NewSemaphore(n) == [size |-> n, used |-> 0, waiters |-> <<>>]

\* A slot is free and nobody waits for it.
Free(s) == s.used < s.size /\ s.waiters = <<>>
Taken(s) == [s EXCEPT !.used = @ + 1]
Joined(s, p) == [s EXCEPT !.waiters = Append(@, p)]
Waits(s, p) == \E i \in 1..Len(s.waiters) : s.waiters[i] = p
Without(q, p) ==
    LET i == CHOOSE k \in 1..Len(q) : q[k] = p IN SubSeq(q, 1, i - 1) \o SubSeq(q, i + 1, Len(q))

\* grantLocked: as many waiters as slots are free leave the queue.
Grant(s) ==
    LET free == IF s.used < s.size THEN s.size - s.used ELSE 0
        n == IF free < Len(s.waiters) THEN free ELSE Len(s.waiters)
    IN [s EXCEPT !.used = @ + n, !.waiters = SubSeq(@, n + 1, Len(@))]

\* Mutant: those who wait are not granted the slots added.
ResizeOnly(s, n) == [s EXCEPT !.size = n]

Resize(s, n) == Grant([s EXCEPT !.size = n])
Release(s) == Grant([s EXCEPT !.used = @ - 1])

\* Mutant: a slot granted as the context ended is kept.
GiveUpKeeps(s, p) ==
    IF Waits(s, p) THEN [s EXCEPT !.waiters = Without(@, p)] ELSE s

\* A waiter whose context ended: it leaves the queue, or hands back the slot
\* it was granted at the same time.
GiveUp(s, p) ==
    IF Waits(s, p) THEN [s EXCEPT !.waiters = Without(@, p)] ELSE Release(s)
=============================================================================
