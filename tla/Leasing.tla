------------------------------ MODULE Leasing -------------------------------
(***************************************************************************)
(* Scan batches: several processes (x/leasing) run the items of batches    *)
(* kept in one shared store (x/catalog, x/configstore).  A run owns a      *)
(* batch while it beats its heartbeat; a batch whose heartbeat is stale is *)
(* taken over by a new run.                                                *)
(*                                                                         *)
(* A call of the store is one step: its SQL transaction takes the batch's  *)
(* row first, so the writes of one batch are serial.  Its answer may be    *)
(* lost, whether the write was made or not.  Time is abstracted: a         *)
(* heartbeat is stale or not, and a backoff ends at some step.             *)
(***************************************************************************)
EXTENDS Integers, FiniteSets

CONSTANTS
    Node,       \* processes (Runner)
    Batch,      \* batches that can be created, each with a RequestKey of its own
    Item,       \* the schemas of a batch
    Run,        \* names of runs (Runner.run), never used twice: 1, 2, ...
    None,       \* no run, no node, no batch
    Attempts,   \* Options.Attempts
    MoveTries,  \* Options.MoveTries
    Parallel,   \* Options.Parallel
    MaxOpen,    \* the bound on the unfinished batches of a datasource
    MaxFaults   \* bound of the model: crashes, stops, lost calls, late heartbeats

ASSUME RunAssumption == Run \subseteq Nat
ASSUME NoneAssumption == None \notin Run \cup Node \cup Batch
ASSUME BoundAssumption ==
    /\ Attempts \in Nat \ {0} /\ MoveTries \in Nat \ {0} /\ Parallel \in Nat \ {0}
    /\ MaxOpen \in Nat \ {0} /\ MaxFaults \in Nat

VARIABLES
    batch,     \* the store's batch rows
    item,      \* the store's item rows
    run,       \* what each run knows of itself
    task,      \* where a run is with each item of its batch
    closing,   \* the processes whose Runner was closed
    gone,      \* the batches a resolver found without their datasource
    faults,    \* how many faults happened
    worked,    \* history: how often the work of an item was begun
    scanned,   \* history: the items a work of which succeeded
    dropped,   \* history: the items whose work said it was canceled
    replaced,  \* history: the runs another run has taken the batch from
    resumed    \* history: the batches a replaced run has claimed again

store == <<batch, item>>
local == <<run, task>>
history == <<worked, scanned, dropped, replaced, resumed>>
vars == <<store, local, closing, gone, faults, history>>

-----------------------------------------------------------------------------
Settled == {"done", "failed", "canceled"}
ItemState == {"pending", "running"} \cup Settled

\* An item row; again: an error and a NotBefore are set, which only a retry does.
ItemRow == [state : ItemState, attempts : Nat, again : BOOLEAN]
NewItem == [state |-> "pending", attempts |-> 0, again |-> FALSE]

\* A batch row; stale: its heartbeat is older than Options.Stale.
BatchRow == [state : {"none", "open", "finished"}, owner : Run \cup {None},
             stale : BOOLEAN, canceled : BOOLEAN]
NewBatch == [state |-> "none", owner |-> None, stale |-> FALSE, canceled |-> FALSE]

\* A run: "claimed" until its batch is read, "requeue" while the items of the
\* last owner are queued again, "running", "finish" to end it without running.
RunRow == [phase : {"none", "claimed", "requeue", "running", "finish", "over"},
           node : Node \cup {None}, batch : Batch \cup {None}, lost : BOOLEAN, stopped : BOOLEAN]
NewRun == [phase |-> "none", node |-> None, batch |-> None, lost |-> FALSE, stopped |-> FALSE]

\* A run's item: waiting for a worker ("queued") or a backoff ("waiting"),
\* being moved to row from state from ("move", and "read" when it is read
\* back) with tries failed tries so far, or at work.
TaskRow == [at : {"none", "queued", "waiting", "move", "read", "work"},
            row : ItemRow, from : {"pending", "running"}, tries : Nat]
NoTask == [at |-> "none", row |-> NewItem, from |-> "pending", tries |-> 0]
Queued(row) == [NoTask EXCEPT !.at = "queued", !.row = row]
Moving(row, from) == [at |-> "move", row |-> row, from |-> from, tries |-> 0]

Init ==
    /\ batch = [b \in Batch |-> NewBatch]
    /\ item = [b \in Batch |-> [i \in Item |-> NewItem]]
    /\ run = [r \in Run |-> NewRun]
    /\ task = [r \in Run |-> [i \in Item |-> NoTask]]
    /\ closing = {} /\ gone = {} /\ faults = 0
    /\ worked = [b \in Batch |-> [i \in Item |-> 0]]
    /\ scanned = {} /\ dropped = {} /\ replaced = {} /\ resumed = {}

-----------------------------------------------------------------------------
(* The store.                                                              *)

Open == {b \in Batch : batch[b].state = "open"}

\* Whether run r owns batch b and it is not finished.
Owned(b, r) == b \in Open /\ batch[b].owner = r

\* CreateBatch: nothing changes when the request was served before, or when
\* the datasource has MaxOpen unfinished batches.
CreateBatch(b, r) ==
    /\ batch[b].state = "none" /\ Cardinality(Open) < MaxOpen
    /\ batch' = [batch EXCEPT ![b] = [NewBatch EXCEPT !.state = "open", !.owner = r]]

\* ClaimBatch lets r beat the batch it owns and take one whose owner stopped.
ClaimableByName(b, r) == b \in Open /\ batch[b].owner = r
Claimable(b, r) == b \in Open /\ (batch[b].owner = r \/ batch[b].stale)
ClaimBatch(b, r) ==
    /\ batch' = [batch EXCEPT ![b].owner = r, ![b].stale = FALSE]
    /\ replaced' = replaced \cup ({batch[b].owner} \ {r})
    /\ resumed' = IF r \in replaced THEN resumed \cup {b} ELSE resumed

\* MoveItem beats the heartbeat and writes row when the item is in state from.
Moves(b, i, from) == item[b][i].state = from
MoveItem(b, i, row, from) ==
    /\ batch' = [batch EXCEPT ![b].stale = FALSE]
    /\ item' = IF Moves(b, i, from) THEN [item EXCEPT ![b][i] = row] ELSE item

\* FinishBatch ends the batch and cancels what was left.
FinishKeepsItems(b) ==
    /\ batch' = [batch EXCEPT ![b].state = "finished"]
    /\ UNCHANGED item
FinishBatch(b) ==
    /\ batch' = [batch EXCEPT ![b].state = "finished"]
    /\ item' = [item EXCEPT ![b] = [i \in Item |->
                  IF @[i].state \in Settled THEN @[i] ELSE [@[i] EXCEPT !.state = "canceled"]]]

-----------------------------------------------------------------------------
(* Runs.                                                                   *)

Fault == faults < MaxFaults /\ faults' = faults + 1
NoFault == UNCHANGED faults

Active == {r \in Run : run[r].phase \notin {"none", "over"}}

\* The context of the run ended: it was stopped, or its process is stopping.
Stopped(r) == run[r].stopped \/ run[r].node \in closing

\* The workers of r that are busy with an item.
Busy(r) == {i \in Item : task[r][i].at \in {"move", "read", "work"}}

Retire(r) == [run EXCEPT ![r].phase = "over"]
Idle(r) == [task EXCEPT ![r] = [i \in Item |-> NoTask]]

\* The run stops without ending its batch (br.lost, br.stop).  A run that was
\* queueing the last owner's items again gives up there and then.
Lose(r) ==
    run' = [run EXCEPT ![r].lost = TRUE, ![r].stopped = TRUE,
                       ![r].phase = IF @ = "requeue" THEN "over" ELSE @]

-----------------------------------------------------------------------------
(* Starting and taking over.                                               *)

\* A new name; names have no meaning, so they are given out in order.
Fresh(r) == run[r].phase = "none" /\ \A s \in Run : s < r => run[s].phase # "none"
Begun(phase, n, b) == [NewRun EXCEPT !.phase = phase, !.node = n, !.batch = b]

\* Start: a run of the new batch, unless the answer of the store was lost.
Start(n, b, r) ==
    /\ Fresh(r) /\ n \notin closing
    /\ CreateBatch(b, r)
    /\ \/ /\ NoFault
          /\ run' = [run EXCEPT ![r] = Begun("running", n, b)]
          /\ task' = [task EXCEPT ![r] = [i \in Item |-> Queued(NewItem)]]
       \/ /\ Fault
          /\ run' = [run EXCEPT ![r] = Begun("over", n, b)]
          /\ UNCHANGED task
    /\ UNCHANGED <<item, closing, gone, history>>

\* TakeOver runs in one goroutine of the process, batch after batch.
Watching(n) == \A r \in Active : run[r].node = n => run[r].phase = "running"
Running(n, b) == \E r \in Active : run[r].node = n /\ run[r].batch = b

\* TakeOver, up to the claim of b by a new run.
TakeOver(n, b, r) ==
    /\ Fresh(r) /\ n \notin closing /\ Watching(n) /\ ~Running(n, b)
    /\ Claimable(b, r)
    /\ ClaimBatch(b, r)
    /\ \/ NoFault /\ run' = [run EXCEPT ![r] = Begun("claimed", n, b)]
       \/ Fault /\ run' = [run EXCEPT ![r] = Begun("over", n, b)]
    /\ UNCHANGED <<item, task, closing, gone, worked, scanned, dropped>>

\* The store or the resolver answers with an error, or the process is stopping.
Unanswered(r) == \/ run[r].node \in closing /\ NoFault
                 \/ run[r].node \notin closing /\ Fault

\* A row that requeueRunning or runBatch finds in a batch.
ResumedUnmoved(row) == IF row.state \in Settled THEN NoTask ELSE Queued(row)
Resumed(row) == CASE row.state = "pending" -> Queued(row)
                  [] row.state = "running" -> Moving([row EXCEPT !.state = "pending"], "running")
                  [] OTHER -> NoTask

\* claim reads the batch; one that was canceled, or whose datasource is no
\* longer configured (ErrGone), is ended without running.
ReadClaimed(r) ==
    LET b == run[r].batch IN
    /\ run[r].phase = "claimed"
    /\ \/ /\ NoFault /\ run[r].node \notin closing
          /\ gone' \in {gone} \cup (IF batch[b].canceled THEN {} ELSE {gone \cup {b}})
          /\ IF batch[b].canceled \/ b \in gone'
             THEN /\ run' = [run EXCEPT ![r].phase = "finish"]
                  /\ UNCHANGED task
             ELSE /\ run' = [run EXCEPT ![r].phase = "requeue"]
                  /\ task' = [task EXCEPT ![r] = [i \in Item |-> Resumed(item[b][i])]]
       \/ /\ Unanswered(r)
          /\ run' = Retire(r)
          /\ UNCHANGED <<task, gone>>
    /\ UNCHANGED <<store, closing, history>>

\* requeueRunning is over: runBatch begins.
Resume(r) ==
    /\ run[r].phase = "requeue" /\ Busy(r) = {}
    /\ run' = [run EXCEPT ![r].phase = "running"]
    /\ UNCHANGED <<store, task, closing, gone, faults, history>>

-----------------------------------------------------------------------------
(* move: a write of an item, tried up to MoveTries times.                  *)

SetTask(r, i, t) == task' = [task EXCEPT ![r][i] = t]

\* requeueRunning moves one item at a time.
Turn(r, i) ==
    run[r].phase = "requeue" =>
        \A j \in Item \ {i} : task[r][j].at # "read" /\ task[r][j].tries = 0

\* What follows a move that was made: the work of an item that is running, the
\* backoff of one to be tried again, the queue for one of the last owner's.
Made(r, i) ==
    LET row == task[r][i].row IN
    /\ CASE row.state = "running" -> SetTask(r, i, [NoTask EXCEPT !.at = "work", !.row = row])
         [] row.state = "pending" -> SetTask(r, i, IF run[r].phase = "requeue" THEN Queued(row)
                                                   ELSE [Queued(row) EXCEPT !.at = "waiting"])
         [] OTHER -> SetTask(r, i, NoTask)
    /\ worked' = IF row.state = "running" THEN [worked EXCEPT ![run[r].batch][i] = @ + 1] ELSE worked
    /\ UNCHANGED run

\* What follows one that was not: the item is let go, or the batch is not resumed.
NotMade(r, i) ==
    /\ IF run[r].phase = "requeue"
       THEN run' = Retire(r) /\ task' = Idle(r)
       ELSE UNCHANGED run /\ SetTask(r, i, NoTask)
    /\ UNCHANGED worked

LoseAt(r, i) ==
    /\ Lose(r)
    /\ IF run[r].phase = "requeue" THEN task' = Idle(r) ELSE SetTask(r, i, NoTask)
    /\ UNCHANGED worked

CanMove(r, i) == r \in Active /\ task[r][i].at = "move" /\ Turn(r, i) /\ ~run[r].lost

\* The store answered: the move was made, or it was not; after a try that
\* failed the item is read back first.
MoveAnswered(r, i) ==
    LET b == run[r].batch
        t == task[r][i]
    IN  /\ CanMove(r, i) /\ run[r].node \notin closing
        /\ Owned(b, r)
        /\ MoveItem(b, i, t.row, t.from)
        /\ CASE Moves(b, i, t.from) -> Made(r, i)
             [] ~Moves(b, i, t.from) /\ t.tries = 0 -> NotMade(r, i)
             [] OTHER -> SetTask(r, i, [t EXCEPT !.at = "read"]) /\ UNCHANGED <<run, worked>>
        /\ UNCHANGED <<closing, gone, faults, scanned, dropped, replaced, resumed>>

\* ErrNotOwner: another run owns the batch, or it is finished.
MoveRefused(r, i) ==
    /\ CanMove(r, i) /\ ~Owned(run[r].batch, r)
    /\ LoseAt(r, i)
    /\ UNCHANGED <<store, closing, gone, faults, scanned, dropped, replaced, resumed>>

\* The try failed, made or not.
MoveFails(r, i) ==
    LET b == run[r].batch
        t == task[r][i]
    IN  /\ CanMove(r, i) /\ Unanswered(r)
        /\ \/ Owned(b, r) /\ MoveItem(b, i, t.row, t.from)
           \/ UNCHANGED store
        /\ IF run[r].node \notin closing /\ t.tries + 1 < MoveTries
           THEN SetTask(r, i, [t EXCEPT !.tries = @ + 1]) /\ UNCHANGED <<run, worked>>
           ELSE LoseAt(r, i)
        /\ UNCHANGED <<closing, gone, scanned, dropped, replaced, resumed>>

\* The run was lost by another of its moves, or by its heartbeat.
MoveAbandoned(r, i) ==
    /\ r \in Active /\ task[r][i].at = "move" /\ run[r].lost
    /\ SetTask(r, i, NoTask)
    /\ UNCHANGED <<store, run, closing, gone, faults, history>>

\* written: whether the item is what was written.
WrittenNever(b, i, row) == FALSE
Written(b, i, row) == item[b][i] = row
ReadBack(r, i) ==
    /\ r \in Active /\ task[r][i].at = "read"
    /\ \/ /\ run[r].node \notin closing /\ NoFault
          /\ IF Written(run[r].batch, i, task[r][i].row) THEN Made(r, i) ELSE NotMade(r, i)
       \/ Unanswered(r) /\ LoseAt(r, i)
    /\ UNCHANGED <<store, closing, gone, scanned, dropped, replaced, resumed>>

-----------------------------------------------------------------------------
(* execute: the workers and the heartbeat of a run.                        *)

\* A worker takes an item: runItem up to its first move, unless the run stops.
Take(r, i) ==
    LET row == task[r][i].row IN
    /\ run[r].phase = "running" /\ task[r][i].at = "queued" /\ Cardinality(Busy(r)) < Parallel
    /\ SetTask(r, i, IF Stopped(r) THEN NoTask
                     ELSE Moving([state |-> "running", attempts |-> row.attempts + 1, again |-> FALSE],
                                 "pending"))
    /\ UNCHANGED <<store, run, closing, gone, faults, history>>

\* later: the backoff ends, or the run stops.
Later(r, i) ==
    /\ run[r].phase = "running" /\ task[r][i].at = "waiting"
    /\ SetTask(r, i, [task[r][i] EXCEPT !.at = "queued"])
    /\ UNCHANGED <<store, run, closing, gone, faults, history>>

\* How an item that was worked moves on: a failure is tried again.
VerdictOnceMore(row, result) ==
    IF result = "failed" /\ row.attempts <= Attempts
    THEN [row EXCEPT !.state = "pending", !.again = TRUE]
    ELSE [row EXCEPT !.state = result, !.again = (result = "failed")]
Verdict(row, result) ==
    IF result = "failed" /\ row.attempts < Attempts
    THEN [row EXCEPT !.state = "pending", !.again = TRUE]
    ELSE [row EXCEPT !.state = result, !.again = (result = "failed")]

\* The target of the move an outcome leads to.
Outcome(row, result) == IF result = "" THEN NoTask ELSE Moving(Verdict(row, result), "running")

\* The work of an item returns; "" when the run stopped first.
Work(r, i, result) ==
    LET at == <<run[r].batch, i>> IN
    /\ r \in Active /\ task[r][i].at = "work"
    /\ result = "" => Stopped(r)
    /\ SetTask(r, i, Outcome(task[r][i].row, result))
    /\ scanned' = IF result = "done" THEN scanned \cup {at} ELSE scanned
    /\ dropped' = IF result = "canceled" THEN dropped \cup {at} ELSE dropped
    /\ UNCHANGED <<store, run, closing, gone, faults, worked, replaced, resumed>>

\* Every item is let go: the batch ends, unless the process stops or the run
\* was lost.  TakeOver ends a batch it does not run the same way.
Finish(r) ==
    LET b == run[r].batch IN
    /\ run[r].phase \in {"running", "finish"} /\ \A i \in Item : task[r][i].at = "none"
    /\ run' = Retire(r)
    /\ \/ /\ run[r].lost \/ run[r].node \in closing \/ ~Owned(b, r)
          /\ NoFault /\ UNCHANGED store
       \/ /\ ~run[r].lost /\ run[r].node \notin closing
          /\ \/ Owned(b, r) /\ NoFault /\ FinishBatch(b)
             \/ Fault /\ UNCHANGED store
    /\ UNCHANGED <<task, closing, gone, history>>

Beating(r) == run[r].phase = "running" /\ ~Stopped(r)

\* beat: the run keeps its batch, or learns that another run has it.
Beat(r) ==
    LET b == run[r].batch IN
    /\ Beating(r)
    /\ \/ /\ Claimable(b, r) /\ ClaimBatch(b, r)
          /\ UNCHANGED run
       \/ /\ ~Claimable(b, r)
          /\ run' = [run EXCEPT ![r].lost = TRUE, ![r].stopped = TRUE]
          /\ UNCHANGED <<batch, replaced, resumed>>
    /\ UNCHANGED <<item, task, closing, gone, faults, worked, scanned, dropped>>

\* beat, or Stop, sees that the batch was canceled.
StopCanceled(r) ==
    /\ Beating(r) /\ batch[run[r].batch].canceled
    /\ run' = [run EXCEPT ![r].stopped = TRUE]
    /\ UNCHANGED <<store, task, closing, gone, faults, history>>

-----------------------------------------------------------------------------
(* The surroundings.                                                       *)

\* CancelBatch.
Cancel(b) ==
    /\ b \in Open /\ ~batch[b].canceled
    /\ batch' = [batch EXCEPT ![b].canceled = TRUE]
    /\ UNCHANGED <<item, local, closing, gone, faults, history>>

\* Stale passes without a heartbeat: the owner is gone, or it is late.
Age(b) ==
    /\ b \in Open /\ ~batch[b].stale
    /\ IF batch[b].owner \in Active THEN Fault ELSE NoFault
    /\ batch' = [batch EXCEPT ![b].stale = TRUE]
    /\ UNCHANGED <<item, local, closing, gone, history>>

Of(n) == {r \in Active : run[r].node = n}

\* A process dies, and its runs with it; another starts in its place.
Crash(n) ==
    /\ Of(n) # {} /\ Fault
    /\ run' = [r \in Run |-> IF r \in Of(n) THEN [run[r] EXCEPT !.phase = "over"] ELSE run[r]]
    /\ task' = [r \in Run |-> IF r \in Of(n) THEN [i \in Item |-> NoTask] ELSE task[r]]
    /\ closing' = closing \ {n}
    /\ UNCHANGED <<store, gone, history>>

\* Close stops the runs of a process and waits for them; then it starts again.
Close(n) ==
    /\ Of(n) # {} /\ n \notin closing /\ Fault
    /\ closing' = closing \cup {n}
    /\ UNCHANGED <<store, local, gone, history>>
Restart(n) ==
    /\ n \in closing /\ Of(n) = {}
    /\ closing' = closing \ {n}
    /\ UNCHANGED <<store, local, gone, faults, history>>

-----------------------------------------------------------------------------
Results == {"done", "failed", "canceled", ""}

Step(r) ==
    \/ ReadClaimed(r) \/ Resume(r) \/ Finish(r)
    \/ \E i \in Item :
          \/ MoveAnswered(r, i) \/ MoveRefused(r, i) \/ MoveFails(r, i) \/ MoveAbandoned(r, i)
          \/ ReadBack(r, i) \/ Take(r, i) \/ Later(r, i)
          \/ \E result \in Results : Work(r, i, result)
Heartbeat(r) == Beat(r) \/ StopCanceled(r)

Next ==
    \/ \E n \in Node, b \in Batch, r \in Run : Start(n, b, r) \/ TakeOver(n, b, r)
    \/ \E r \in Run : Step(r) \/ Heartbeat(r)
    \/ \E b \in Batch : Cancel(b) \/ Age(b)
    \/ \E n \in Node : Crash(n) \/ Close(n) \/ Restart(n)

Spec == Init /\ [][Next]_vars

\* Goroutines that can go on do; time passes; a process that stopped is
\* started again, and its Watch takes over what is stale.
Fairness ==
    /\ \A r \in Run : WF_vars(Step(r))
    /\ \A b \in Batch : WF_vars(Age(b))
    /\ \A n \in Node : WF_vars(Restart(n))
    /\ WF_vars(\E n \in Node, b \in Batch, r \in Run : TakeOver(n, b, r))
FairSpec == Spec /\ Fairness

-----------------------------------------------------------------------------
(* Properties.                                                             *)

TypeOK ==
    /\ batch \in [Batch -> BatchRow] /\ item \in [Batch -> [Item -> ItemRow]]
    /\ run \in [Run -> RunRow] /\ task \in [Run -> [Item -> TaskRow]]
    /\ closing \subseteq Node /\ gone \subseteq Batch /\ faults \in Nat
    /\ worked \in [Batch -> [Item -> Nat]]
    /\ scanned \subseteq Batch \X Item /\ dropped \subseteq Batch \X Item
    /\ replaced \subseteq Run /\ resumed \subseteq Batch

\* An item goes from pending to running, and from running to done, failed or
\* back to pending; the end of its batch cancels it.  Nothing changes once the
\* item is settled, and a finished batch leaves nothing unsettled: no run undoes
\* what another one settled, whatever is lost, late or taken over.
ItemStep(b, i) ==
    LET old == item[b][i].state
        new == item'[b][i].state
    IN  /\ old \in Settled => item'[b][i] = item[b][i]
        /\ old = "pending" /\ new # old => new = "running" \/ batch'[b].state = "finished"
        /\ new = "done" => <<b, i>> \in scanned'
        /\ batch'[b].state = "finished" => new \in Settled
ItemsMoveForward == [][\A b \in Batch, i \in Item : ItemStep(b, i)]_vars

\* The attempts of an item count its runs: none is worked more often than its
\* attempts say, and beyond Options.Attempts only once for each run the batch
\* was taken from.  (A run that claims its batch again after another had it
\* writes over the count: see ReplacedRunsStayOut.)
AttemptsCountRuns ==
    \A b \in Batch \ resumed, i \in Item :
        /\ worked[b][i] <= item[b][i].attempts
        /\ item[b][i].attempts <= Attempts + Cardinality(replaced)

\* An item ends canceled only when someone asked for it: the batch was canceled,
\* its datasource removed, or the scan itself canceled.  No crash, lost answer
\* or takeover leaves an item behind.  (With the exception of a run that
\* claims its batch again.)
NothingLeftBehind ==
    \A b \in Batch \ resumed, i \in Item :
        item[b][i].state = "canceled" =>
            batch[b].canceled \/ b \in gone \/ <<b, i>> \in dropped

\* A run that keeps its batch and the store agree on every item: what it queues
\* is pending, what it works is running, what it moves is where it moves it from
\* or, after a try that failed, where it moves it to; and it lets go of settled
\* items only, unless the batch is to end.  So no lost answer of the store makes
\* a run work on what is not its own.  (Not after a batch was claimed again.)
Holds(r) ==
    LET b == run[r].batch IN
    /\ run[r].phase \in {"requeue", "running", "finish"} /\ ~run[r].lost /\ run[r].node \notin closing
    /\ Owned(b, r) /\ b \notin resumed
Agrees(r, i) ==
    LET b == run[r].batch
        t == task[r][i]
    IN  /\ t.at = "none" => item[b][i].state \in Settled \/ batch[b].canceled \/ b \in gone
        /\ t.at \in {"queued", "waiting"} => item[b][i].state = "pending"
        /\ t.at = "work" => item[b][i].state = "running"
        /\ t.at = "move" => item[b][i].state = t.from \/ (t.tries > 0 /\ item[b][i] = t.row)
        /\ t.at = "read" => item[b][i] = t.row
RunsAgree == \A r \in Run : Holds(r) => \A i \in Item : Agrees(r, i)

\* Once the faults stop, every batch ends.
BatchesEnd == \A b \in Batch : b \in Open ~> b \notin Open

\* What catalog.Batch says of its Owner, "one run of the batch, never reused: a
\* takeover makes a new one": a run the batch was taken from does not own it
\* again.  The heartbeat of such a run claims the batch under its old name when
\* the run that had it stopped beating in its turn.
ReplacedRunsStayOut == \A b \in Batch : batch[b].owner \notin replaced
=============================================================================
