-------------------------------- MODULE Bus ---------------------------------
(***************************************************************************)
(* The execution bus (core/bus) and what runs on it: tool calls on the     *)
(* Serve lane (core/engine), reads of administrators on the Admin lane, and *)
(* scan jobs on the Scan lane, queued with tickets and run by the pool of  *)
(* x/admin/scanjobs.  A work takes a slot of its lane, then (but for tool  *)
(* calls) an auxiliary slot, then an IO slot, waiting for each in line.    *)
(*                                                                         *)
(* A step is one call of a semaphore, one change of a counter of the Scan  *)
(* lane that Queue reads, or one section under the pool's mutex.  Slots    *)
(* are given back one by one, each with the counter that precedes it.      *)
(***************************************************************************)
EXTENDS Semaphore, FiniteSets

CONSTANTS
    Call, Admin,       \* works: tool calls and administrators' reads
    MaxJobs,           \* bound of the model: scan jobs started
    IoSizes,           \* the IO pools the configurations give
    LaneSizes,         \* their max_concurrent of a lane
    MaxQueue,          \* the max_queue of a lane
    MaxUpdates         \* bound of the model: reloads of the limits

Job == 1..MaxJobs  \* in the order they start
None == 0
Work == Call \cup Admin \cup Job
Lane == {"serve", "admin", "scan"}
Sem == Lane \cup {"aux", "io"}

ASSUME WorkAssumption ==
    Call \cap Admin = {} /\ Call \cap Job = {} /\ Admin \cap Job = {}
ASSUME LimitAssumption ==
    /\ IoSizes \subseteq Nat \ {0} /\ LaneSizes \subseteq Nat \ {0}
    /\ MaxJobs \in Nat /\ MaxQueue \in Nat /\ MaxUpdates \in Nat

VARIABLES
    sem,       \* the semaphores
    pc,        \* where each work is
    over,      \* the works whose own context ended
    owes,      \* the slots a work that ends has yet to give back
    queued,    \* the counters of a lane: works waiting for a slot,
    ioWait,    \*   those of the Scan lane that wait for IO
    inflight,  \*   and those that run
    start,     \* the Start that holds the pool's mutex, with what Queue read
    left,      \* the jobs whose ticket left the queue
    state,     \* the state of each job
    pending,   \* the jobs to dispatch, in order
    ready,     \* whether the dispatcher was signaled
    disp,      \* where the dispatcher is
    stopped,   \* the pool's context ended
    closed,    \* the bus was closed
    upd,       \* a reload of the limits, with the semaphores yet to resize
    updates    \* how many reloads began

counters == <<queued, ioWait, inflight>>
pool == <<start, left, state, pending, ready, disp, stopped>>
limits == <<upd, updates>>
vars == <<sem, pc, over, owes, counters, pool, closed, limits>>

Final == {"DONE", "FAILED", "CANCELED"}
Idle == [job |-> None, capacity |-> 0, sum |-> 0]
Settled == [io |-> 0, lane |-> 0, next |-> "none"]

\* The size a configuration of io slots and lanes of n gives a semaphore.
SizeOf(s, io, n) ==
    CASE s = "io" -> io [] s = "aux" -> IF io \div 2 > 1 THEN io \div 2 ELSE 1 [] OTHER -> n

Init ==
    /\ \E io \in IoSizes, n \in LaneSizes :
          sem = [s \in Sem |-> NewSemaphore(SizeOf(s, io, n))]
    /\ pc = [w \in Work |-> "none"] /\ over = {} /\ owes = [w \in Work |-> <<>>]
    /\ queued = [l \in {"admin", "scan"} |-> 0] /\ ioWait = 0 /\ inflight = 0
    /\ start = Idle /\ left = {} /\ state = [j \in Job |-> "NONE"]
    /\ pending = <<>> /\ ready = FALSE /\ disp = "next" /\ stopped = FALSE /\ closed = FALSE
    /\ upd = Settled /\ updates = 0

-----------------------------------------------------------------------------
(* A work and its semaphores.                                              *)

LaneOf(w) == IF w \in Call THEN "serve" ELSE IF w \in Admin THEN "admin" ELSE "scan"
Goto(w, l) == pc' = [pc EXCEPT ![w] = l]

\* The context of a job ends with its pool's.
Ended(w) == w \in over \/ (w \in Job /\ stopped)

\* Where a work acquires a slot: the semaphore, where it waits, where it goes
\* with the slot, and the slots it gives back if it gives up.
Stage(w, at) ==
    CASE at = "lane" -> [sem |-> LaneOf(w), then |-> IF w \in Job THEN "enter" ELSE "aux", owes |-> <<>>]
      [] at = "aux"  -> [sem |-> "aux", then |-> "io", owes |-> <<LaneOf(w)>>]
      [] at = "io"   -> [sem |-> "io", then |-> IF w \in Job THEN "admitted" ELSE "run",
                         owes |-> IF w \in Call THEN <<"serve">> ELSE <<"aux", LaneOf(w)>>]
WaitAt == [lane |-> "lane?", aux |-> "aux?", io |-> "io?"]

\* A work of the Admin lane that waited for its slot leaves the queue.
Leaves(w, at) == at = "lane" /\ w \in Admin

\* Semaphore.Acquire: take a slot, or join those who wait.
Acquire(w, at) ==
    LET s == Stage(w, at).sem IN
    /\ pc[w] = at
    /\ IF Free(sem[s])
       THEN /\ sem' = [sem EXCEPT ![s] = Taken(@)] /\ Goto(w, Stage(w, at).then)
            /\ queued' = IF Leaves(w, at) THEN [queued EXCEPT !["admin"] = @ - 1] ELSE queued
       ELSE /\ sem' = [sem EXCEPT ![s] = Joined(@, w)] /\ Goto(w, WaitAt[at])
            /\ UNCHANGED queued
    /\ UNCHANGED <<over, owes, ioWait, inflight, pool, closed, limits>>

Granted(w, at) ==
    /\ pc[w] = WaitAt[at] /\ ~Waits(sem[Stage(w, at).sem], w)
    /\ Goto(w, Stage(w, at).then)
    /\ queued' = IF Leaves(w, at) THEN [queued EXCEPT !["admin"] = @ - 1] ELSE queued
    /\ UNCHANGED <<sem, over, owes, ioWait, inflight, pool, closed, limits>>

\* The context of a work that waits has ended.  A job that waited for its lane
\* leaves the queue, unless Cancel took it out; the dispatcher then ends it.
GivesUp(w, at) ==
    LET o == Stage(w, at).owes
        leaves == Leaves(w, at) \/ (at = "lane" /\ w \in Job /\ w \notin left)
    IN
    /\ pc[w] = WaitAt[at] /\ Ended(w)
    /\ sem' = [sem EXCEPT ![Stage(w, at).sem] = GiveUp(@, w)]
    /\ owes' = [owes EXCEPT ![w] = o]
    /\ Goto(w, IF o # <<>> THEN "undo" ELSE IF w \in Job THEN "failed" ELSE "gone")
    /\ queued' = IF leaves THEN [queued EXCEPT ![LaneOf(w)] = @ - 1] ELSE queued
    /\ left' = IF leaves /\ w \in Job THEN left \cup {w} ELSE left
    /\ UNCHANGED <<over, ioWait, inflight, start, state, pending, ready, disp, stopped, closed, limits>>

\* A work that ends gives back its slots, the last taken first; the counter of
\* the Scan lane that counted it goes down before the lane's slot.
GiveBack(w) ==
    LET s == Head(owes[w])
        rest == Tail(owes[w])
    IN
    /\ pc[w] \in {"undo", "back"}
    /\ sem' = [sem EXCEPT ![s] = Release(@)]
    /\ owes' = [owes EXCEPT ![w] = rest]
    /\ ioWait' = IF s = "scan" /\ pc[w] = "undo" THEN ioWait - 1 ELSE ioWait
    /\ inflight' = IF s = "scan" /\ pc[w] = "back" THEN inflight - 1 ELSE inflight
    /\ Goto(w, IF rest # <<>> THEN pc[w] ELSE IF pc[w] = "undo" /\ w \in Job THEN "failed" ELSE "gone")
    /\ UNCHANGED <<over, queued, pool, closed, limits>>

-----------------------------------------------------------------------------
(* Tool calls and reads of administrators.                                 *)

\* submit: a tool call enters the Serve lane or is refused at once.
Submit(c) ==
    LET enters == ~closed /\ Free(sem["serve"]) IN
    /\ pc[c] = "none"
    /\ sem' = IF enters THEN [sem EXCEPT !["serve"] = Taken(@)] ELSE sem
    /\ Goto(c, IF enters THEN "io" ELSE "gone")
    /\ UNCHANGED <<over, owes, counters, pool, closed, limits>>

\* Lane.acquire: a free slot at once, or a place in the queue if it has room.
Enter(a) ==
    LET free == ~closed /\ Free(sem["admin"])
        waits == ~closed /\ ~free /\ queued["admin"] + 1 <= MaxQueue
    IN
    /\ pc[a] = "none"
    /\ sem' = IF free THEN [sem EXCEPT !["admin"] = Taken(@)] ELSE sem
    /\ queued' = IF waits THEN [queued EXCEPT !["admin"] = @ + 1] ELSE queued
    /\ Goto(a, IF free THEN "aux" ELSE IF waits THEN "lane" ELSE "gone")
    /\ UNCHANGED <<over, owes, ioWait, inflight, pool, closed, limits>>

Finish(w) ==
    /\ w \in Call \cup Admin /\ pc[w] = "run" /\ Goto(w, "back")
    /\ owes' = [owes EXCEPT ![w] = <<"io">> \o Stage(w, "io").owes]
    /\ UNCHANGED <<sem, over, counters, pool, closed, limits>>

\* execute: the breaker or the adaptive limit refuses a tool call that has its
\* slot of the lane, before it asks for IO.
Refused(w) ==
    /\ w \in Call /\ pc[w] = "io" /\ Goto(w, "undo")
    /\ owes' = [owes EXCEPT ![w] = Stage(w, "io").owes]
    /\ UNCHANGED <<sem, over, counters, pool, closed, limits>>

\* The client leaves.
Leave(w) ==
    /\ w \in Call \cup Admin /\ w \notin over /\ pc[w] \notin {"none", "gone"}
    /\ over' = over \cup {w}
    /\ UNCHANGED <<sem, pc, owes, counters, pool, closed, limits>>

-----------------------------------------------------------------------------
(* Start of a job, under the pool's mutex: Queue adds it to the lane's     *)
(* queue, then reads the two other counters in the order works move.       *)

Locked == start.job # None

StartBegin(j) ==
    /\ pc[j] = "none" /\ ~Locked /\ \A k \in Job : k < j => pc[k] # "none"
    /\ IF stopped \/ closed
       THEN Goto(j, "gone") /\ UNCHANGED start
       ELSE /\ start' = [Idle EXCEPT !.job = j, !.capacity = sem["scan"].size + MaxQueue]
            /\ Goto(j, "queue")
    /\ UNCHANGED <<sem, over, owes, counters, left, state, pending, ready, disp, stopped, closed, limits>>

QueueAdd(j) ==
    /\ pc[j] = "queue" /\ Goto(j, "ioWait?")
    /\ queued' = [queued EXCEPT !["scan"] = @ + 1]
    /\ start' = [start EXCEPT !.sum = queued'["scan"]]
    /\ UNCHANGED <<sem, over, owes, ioWait, inflight, left, state, pending, ready, disp, stopped, closed, limits>>

\* Mutant: the jobs that wait for IO are not counted.
QueueSkipsIoWait(j) ==
    /\ pc[j] = "ioWait?" /\ Goto(j, "inflight?")
    /\ UNCHANGED <<sem, over, owes, counters, pool, closed, limits>>

QueueIoWait(j) ==
    /\ pc[j] = "ioWait?" /\ Goto(j, "inflight?")
    /\ start' = [start EXCEPT !.sum = @ + ioWait]
    /\ UNCHANGED <<sem, over, owes, counters, left, state, pending, ready, disp, stopped, closed, limits>>

\* Mutant: the dispatcher is not signaled.
StartQuiet(j) ==
    /\ pc[j] = "inflight?" /\ start' = Idle
    /\ IF start.sum + inflight > start.capacity
       THEN /\ queued' = [queued EXCEPT !["scan"] = @ - 1] /\ Goto(j, "gone")
            /\ UNCHANGED <<state, pending>>
       ELSE /\ state' = [state EXCEPT ![j] = "PENDING"] /\ Goto(j, "pending")
            /\ pending' = Append(pending, j)
            /\ UNCHANGED queued
    /\ UNCHANGED <<sem, over, owes, ioWait, inflight, left, ready, disp, stopped, closed, limits>>

StartEnd(j) ==
    /\ pc[j] = "inflight?" /\ start' = Idle
    /\ IF start.sum + inflight > start.capacity
       THEN /\ queued' = [queued EXCEPT !["scan"] = @ - 1] /\ Goto(j, "gone")
            /\ UNCHANGED <<state, pending, ready>>
       ELSE /\ state' = [state EXCEPT ![j] = "PENDING"] /\ Goto(j, "pending")
            /\ pending' = Append(pending, j) /\ ready' = TRUE
            /\ UNCHANGED queued
    /\ UNCHANGED <<sem, over, owes, ioWait, inflight, left, disp, stopped, closed, limits>>

\* Cancel: a pending job ends at once, a running one has its context ended.
Cancel(j) ==
    /\ ~Locked /\ state[j] \in {"PENDING", "RUNNING"} /\ j \notin over
    /\ over' = over \cup {j}
    /\ IF state[j] = "PENDING"
       THEN /\ state' = [state EXCEPT ![j] = "CANCELED"]
            /\ left' = left \cup {j}
            /\ queued' = IF j \in left THEN queued ELSE [queued EXCEPT !["scan"] = @ - 1]
       ELSE UNCHANGED <<state, left, queued>>
    /\ UNCHANGED <<sem, pc, owes, ioWait, inflight, start, pending, ready, disp, stopped, closed, limits>>

-----------------------------------------------------------------------------
(* The dispatcher admits the pending jobs one after the other.             *)

\* next: the first pending job, or wait for one.
DispatchNext ==
    /\ disp = "next" /\ ~Locked
    /\ IF pending = <<>>
       THEN disp' = "wait" /\ UNCHANGED <<pc, pending>>
       ELSE /\ disp' = "job" /\ pending' = Tail(pending)
            /\ Goto(Head(pending), "ticket")
    /\ UNCHANGED <<sem, over, owes, counters, start, left, state, ready, stopped, closed, limits>>

DispatchWake ==
    /\ disp = "wait" /\ ready /\ disp' = "next" /\ ready' = FALSE
    /\ UNCHANGED <<sem, pc, over, owes, counters, start, left, state, pending, stopped, closed, limits>>

\* With both a signal and the end of the pool at hand, either is taken.
DispatchStop ==
    /\ disp = "wait" /\ stopped /\ disp' = "drop"
    /\ UNCHANGED <<sem, pc, over, owes, counters, start, left, state, pending, ready, stopped, closed, limits>>

\* dropPending: the jobs never dispatched give up their places.
DropPending ==
    LET waiting == {pending[i] : i \in 1..Len(pending)} IN
    /\ disp = "drop" /\ ~Locked /\ disp' = "done"
    /\ left' = left \cup waiting /\ pending' = <<>>
    /\ queued' = [queued EXCEPT !["scan"] = @ - Cardinality(waiting \ left)]
    /\ UNCHANGED <<sem, pc, over, owes, ioWait, inflight, start, state, ready, stopped, closed, limits>>

\* Ticket.Acquire fails at once for a ticket canceled before.
TicketCheck(j) ==
    /\ pc[j] = "ticket" /\ Goto(j, IF j \in left THEN "failed" ELSE "lane")
    /\ UNCHANGED <<sem, over, owes, counters, pool, closed, limits>>

\* With the lane's slot, the job counts as waiting for IO before it leaves the
\* queue; a ticket canceled meanwhile gives the slot back.
TicketEnter(j) ==
    /\ pc[j] = "enter" /\ Goto(j, "leave") /\ ioWait' = ioWait + 1
    /\ UNCHANGED <<sem, over, owes, queued, inflight, pool, closed, limits>>

\* Mutant: a ticket canceled meanwhile keeps the slot.
TicketLeaveKeepsSlot(j) ==
    /\ pc[j] = "leave"
    /\ IF j \in left
       THEN Goto(j, "failed") /\ UNCHANGED <<queued, left>>
       ELSE /\ left' = left \cup {j} /\ queued' = [queued EXCEPT !["scan"] = @ - 1]
            /\ Goto(j, "aux")
    /\ UNCHANGED <<sem, over, owes, ioWait, inflight, start, state, pending, ready, disp, stopped, closed, limits>>

TicketLeave(j) ==
    /\ pc[j] = "leave"
    /\ IF j \in left
       THEN /\ owes' = [owes EXCEPT ![j] = <<"scan">>] /\ Goto(j, "undo")
            /\ UNCHANGED <<queued, left>>
       ELSE /\ left' = left \cup {j} /\ queued' = [queued EXCEPT !["scan"] = @ - 1]
            /\ Goto(j, "aux") /\ UNCHANGED owes
    /\ UNCHANGED <<sem, over, ioWait, inflight, start, state, pending, ready, disp, stopped, closed, limits>>

\* admit: the job counts as running before it stops counting as waiting.
Admit(j) ==
    /\ pc[j] = "admitted" /\ Goto(j, "counted") /\ inflight' = inflight + 1
    /\ UNCHANGED <<sem, over, owes, queued, ioWait, pool, closed, limits>>

\* Fork: the job goes on by itself, the dispatcher with the next one.
Fork(j) ==
    /\ pc[j] = "counted" /\ Goto(j, "forked") /\ ioWait' = ioWait - 1 /\ disp' = "next"
    /\ UNCHANGED <<sem, over, owes, queued, inflight, start, left, state, pending, ready, stopped, closed, limits>>

-----------------------------------------------------------------------------
(* The run of a job.                                                       *)

\* Mutant: a job is run without a look at its state.
RunJobAnyway(j) ==
    /\ pc[j] = "forked" /\ ~Locked
    /\ state' = [state EXCEPT ![j] = "RUNNING"] /\ Goto(j, "run")
    /\ UNCHANGED <<sem, over, owes, counters, start, left, pending, ready, disp, stopped, closed, limits>>

\* runJob: a job canceled while it was pending is only ended.
RunJob(j) ==
    /\ pc[j] = "forked" /\ ~Locked
    /\ IF state[j] = "PENDING"
       THEN state' = [state EXCEPT ![j] = "RUNNING"] /\ Goto(j, "run")
       ELSE UNCHANGED state /\ Goto(j, "DONE")
    /\ UNCHANGED <<sem, over, owes, counters, start, left, pending, ready, disp, stopped, closed, limits>>

\* The work returns a result, an error, a panic or its time-out; once its
\* context was canceled, it counts as canceled whatever it returned.
RunEnds(j) ==
    /\ j \in Job /\ pc[j] = "run"
    /\ IF Ended(j) THEN Goto(j, "CANCELED") ELSE \E r \in {"DONE", "FAILED"} : Goto(j, r)
    /\ UNCHANGED <<sem, over, owes, counters, pool, closed, limits>>

\* end: the outcome is recorded unless the job has one.  The goroutine of a job
\* then gives back its slots; the dispatcher, for a job it could not admit,
\* goes on with the next.
End(j) ==
    LET outcome == IF pc[j] = "failed" THEN "CANCELED" ELSE pc[j] IN
    /\ pc[j] \in Final \cup {"failed"} /\ ~Locked
    /\ over' = over \cup {j}
    /\ state' = IF state[j] \in {"PENDING", "RUNNING"} THEN [state EXCEPT ![j] = outcome] ELSE state
    /\ IF pc[j] = "failed"
       THEN Goto(j, "gone") /\ disp' = "next" /\ UNCHANGED owes
       ELSE /\ Goto(j, "back") /\ owes' = [owes EXCEPT ![j] = <<"io", "aux", "scan">>]
            /\ UNCHANGED disp
    /\ UNCHANGED <<sem, counters, start, left, pending, ready, stopped, closed, limits>>

-----------------------------------------------------------------------------
(* Closing, and reloads of the limits.                                     *)

PoolClose ==
    /\ ~stopped /\ stopped' = TRUE
    /\ UNCHANGED <<sem, pc, over, owes, counters, start, left, state, pending, ready, disp, closed, limits>>

BusClose ==
    /\ ~closed /\ closed' = TRUE
    /\ UNCHANGED <<sem, pc, over, owes, counters, pool, limits>>

\* Mutant: the pool does not notice that the bus was closed.
BusStopsNever == FALSE /\ UNCHANGED vars

\* The end of the bus's context stops the pool, in a goroutine of its own,
\* while the dispatcher runs.
BusStops ==
    /\ closed /\ ~stopped /\ disp # "done" /\ stopped' = TRUE
    /\ UNCHANGED <<sem, pc, over, owes, counters, start, left, state, pending, ready, disp, closed, limits>>

\* Bus.Update: IO, then the auxiliary slots, then the lanes.  No work holds or
\* waits for slots of two lanes, so that they are resized in one step; a reload
\* that changes no limit is left out.
UpdateBegin(io, n) ==
    /\ io # sem["io"].size \/ n # sem["serve"].size
    /\ upd = Settled /\ updates < MaxUpdates /\ updates' = updates + 1
    /\ upd' = [io |-> io, lane |-> n, next |-> "io"]
    /\ UNCHANGED <<sem, pc, over, owes, counters, pool, closed>>

UpdateNext ==
    LET resized == IF upd.next = "lanes" THEN Lane ELSE {upd.next} IN
    /\ upd # Settled
    /\ upd' = CASE upd.next = "io" -> [upd EXCEPT !.next = "aux"]
                [] upd.next = "aux" -> [upd EXCEPT !.next = "lanes"]
                [] OTHER -> Settled
    /\ sem' = [s \in Sem |-> IF s \in resized THEN Resize(sem[s], SizeOf(s, upd.io, upd.lane)) ELSE sem[s]]
    /\ UNCHANGED <<pc, over, owes, counters, pool, closed, updates>>

-----------------------------------------------------------------------------
Advance(w) ==
    \/ \E at \in {"lane", "aux", "io"} : Acquire(w, at) \/ Granted(w, at) \/ GivesUp(w, at)
    \/ GiveBack(w)

JobStep(j) ==
    \/ QueueAdd(j) \/ QueueIoWait(j) \/ StartEnd(j)
    \/ TicketCheck(j) \/ TicketEnter(j) \/ TicketLeave(j) \/ Admit(j) \/ Fork(j)
    \/ RunJob(j) \/ RunEnds(j) \/ End(j)

Dispatch == DispatchNext \/ DispatchWake \/ DropPending

\* All has ended.
Rest ==
    /\ \A w \in Work : pc[w] \in {"gone", "pending"}
    /\ disp = "done" /\ closed /\ upd = Settled /\ updates = MaxUpdates
    /\ UNCHANGED vars

Next ==
    \/ \E w \in Work : Advance(w) \/ Finish(w) \/ Refused(w) \/ Leave(w)
    \/ \E c \in Call : Submit(c)
    \/ \E a \in Admin : Enter(a)
    \/ \E j \in Job : StartBegin(j) \/ Cancel(j) \/ JobStep(j)
    \/ Dispatch \/ DispatchStop \/ PoolClose \/ BusClose \/ BusStops
    \/ \E io \in IoSizes, n \in LaneSizes : UpdateBegin(io, n)
    \/ UpdateNext
    \/ Rest

Spec == Init /\ [][Next]_vars

\* A goroutine that can go on does; a tool call, a read and a scan end, each by
\* its time limit at the latest.
Fairness ==
    /\ \A w \in Work : WF_vars(Advance(w)) /\ WF_vars(Finish(w))
    /\ \A j \in Job : WF_vars(JobStep(j))
    /\ WF_vars(Dispatch \/ DispatchStop) /\ WF_vars(BusStops)
    /\ WF_vars(UpdateNext)

LiveSpec == Spec /\ Fairness

-----------------------------------------------------------------------------
(* Properties.                                                             *)

\* The slots a work holds where it is.
Holds(w) ==
    LET stages == [lane |-> {}, aux |-> {LaneOf(w)}, io |-> IF w \in Call THEN {"serve"} ELSE {"aux", LaneOf(w)}] IN
    CASE pc[w] \in {"enter", "leave"} -> {"scan"}
      [] pc[w] \in {"aux", "aux?"} -> stages.aux
      [] pc[w] \in {"io", "io?"} -> stages.io
      [] pc[w] \in {"run", "admitted", "counted", "forked"} \cup Final -> stages.io \cup {"io"}
      [] pc[w] \in {"undo", "back"} -> {owes[w][i] : i \in 1..Len(owes[w])}
      [] OTHER -> {}

\* The slot a work was granted but has yet to notice.
IsGranted(w, s) ==
    \E at \in {"lane", "aux", "io"} : pc[w] = WaitAt[at] /\ Stage(w, at).sem = s /\ ~Waits(sem[s], w)

\* Every slot in use is held by, or granted to, one work, and a semaphore has in
\* its queue exactly the works that wait for it, once each (semaphore.go,
\* lane.go): no path that gives up, is canceled or ends loses a slot.
SlotsExact ==
    \A s \in Sem :
        /\ sem[s].used = Cardinality({w \in Work : s \in Holds(w) \/ IsGranted(w, s)})
        /\ \A i, k \in 1..Len(sem[s].waiters) :
              /\ i # k => sem[s].waiters[i] # sem[s].waiters[k]
              /\ \E at \in {"lane", "aux", "io"} :
                    /\ pc[sem[s].waiters[i]] = WaitAt[at]
                    /\ Stage(sem[s].waiters[i], at).sem = s

\* Nobody is left waiting for a slot while one is free, and slots are taken only
\* below the size of the semaphore, reloads that grow or shrink it included
\* (grantLocked, Resize).
SlotsFollowSize ==
    [][\A s \in Sem : /\ sem'[s].waiters # <<>> => sem'[s].used >= sem'[s].size
                      /\ sem'[s].used > sem[s].used => sem'[s].used <= sem'[s].size]_vars

\* The jobs that have a place in the Scan lane: a ticket, or a slot.
OnLane ==
    {j \in Job : \/ state[j] # "NONE" /\ j \notin left
                 \/ pc[j] \in {"aux", "aux?", "io", "io?", "admitted", "counted", "forked", "run", "back"} \cup Final}

\* Queue gives out no more places than the lane's concurrency and queue
\* (lane.go:190), though it adds up counters that change under it.
QueueRespectsCapacity ==
    [][\A j \in Job : state[j] = "NONE" /\ state'[j] = "PENDING" => Cardinality(OnLane') <= start.capacity]_vars

\* A job goes from pending to running to one outcome, or from pending to
\* canceled; one canceled while pending never runs (scanjobs.go:151).
JobsLiveOnce ==
    [][\A j \in Job : state'[j] # state[j] =>
          \/ state[j] = "NONE" /\ state'[j] = "PENDING"
          \/ state[j] = "PENDING" /\ state'[j] \in {"RUNNING", "CANCELED"}
          \/ state[j] = "RUNNING" /\ state'[j] \in Final]_vars

\* Every job started ends, unless the pool is closed first.
JobsEnd == \A j \in Job : state[j] = "PENDING" ~> (state[j] \in Final \/ stopped)

\* Closing the bus ends the dispatcher and every job it admitted (dispatch,
\* Fork): Close returns.
CloseReturns == closed ~> (disp = "done" /\ \A j \in Job : pc[j] \in {"none", "pending", "gone"})
=============================================================================
