--------------------------- MODULE LeasingProofs ----------------------------
(***************************************************************************)
(* Theorems about Leasing, for any processes, batches, items and runs and  *)
(* any number of faults: items only move forward, a run that keeps its     *)
(* batch agrees with the store, and no item is left behind.                *)
(***************************************************************************)
EXTENDS Leasing, TLAPS

USE ZenonT(20), SMTT(10), Z3T(10)

\* The row of a batch: it has an owner once it exists.
RowOK(b) ==
    /\ batch[b].state # "none" => batch[b].owner \in Run
    /\ batch[b].state = "none" => ~batch[b].canceled

\* The row of an item: pending before its batch exists, settled when the batch is
\* finished, done only when a scan succeeded, canceled only when someone asked for it.
ItemOK(b, i) ==
    /\ batch[b].state = "none" => item[b][i].state = "pending"
    /\ batch[b].state = "finished" => item[b][i].state \in Settled
    /\ item[b][i].state = "done" => <<b, i>> \in scanned
    /\ b \notin resumed /\ item[b][i].state = "canceled" =>
          batch[b].canceled \/ b \in gone \/ <<b, i>> \in dropped

\* A run has a batch that exists; it stops for a reason, and it owns its batch
\* unless another took it.
RunOK(r) ==
    run[r].phase # "none" =>
        LET b == run[r].batch IN
        /\ b \in Batch /\ run[r].node \in Node /\ batch[b].state # "none"
        /\ run[r].stopped => run[r].lost \/ batch[b].canceled
        /\ run[r].phase # "over" => batch[b].owner = r \/ r \in replaced

\* Only a run that is active has items, and it moves one to what became of it.
MoveOK(b, i, t) ==
    t.at \in {"move", "read"} =>
        /\ t.from = "pending" => t.row.state = "running"
        /\ t.row.state = "done" => <<b, i>> \in scanned
        /\ t.row.state = "canceled" => <<b, i>> \in dropped
TaskOK(r, i) ==
    /\ task[r][i].at # "none" => run[r].phase \in {"requeue", "running"}
    /\ MoveOK(run[r].batch, i, task[r][i])

Agreeing(r) == Holds(r) => \A i \in Item : Agrees(r, i)

Rows == \A b \in Batch : RowOK(b) /\ \A i \in Item : ItemOK(b, i)
Runs == \A r \in Run : RunOK(r) /\ Agreeing(r) /\ \A i \in Item : TaskOK(r, i)

IInv == TypeOK /\ Rows /\ Runs

-----------------------------------------------------------------------------
(* What a step does to those it is not about.                              *)

\* The histories only grow.
Grows == /\ gone \subseteq gone' /\ scanned \subseteq scanned' /\ dropped \subseteq dropped'
         /\ replaced \subseteq replaced' /\ resumed \subseteq resumed'

\* The row of batch b does not end, and nothing is taken back.
RowGoesOn(b) ==
    /\ batch'[b].state \in {batch[b].state, "open"}
    /\ batch[b].canceled => batch'[b].canceled
    /\ batch'[b].state # "none" => batch'[b].owner \in Run
    /\ batch'[b].state = "none" => ~batch'[b].canceled

\* Run r still has its batch, or it was replaced.
Seen(r) ==
    LET b == run[r].batch IN
    /\ batch'[b].state # "none" /\ (batch[b].canceled => batch'[b].canceled)
    /\ run[r].phase # "over" =>
         /\ batch[b].owner = r => batch'[b].owner = r \/ r \in replaced'
         /\ batch'[b].state = "open" /\ batch'[b].owner = r /\ b \notin resumed' =>
               batch[b].state = "open" /\ batch[b].owner = r /\ b \notin resumed
         /\ run[r].node \notin closing' => run[r].node \notin closing

\* As far as run r is its owner, item i of its batch stays as it is.
ItemSeen(r, i) ==
    LET b == run[r].batch IN
    batch'[b].state = "open" /\ batch'[b].owner = r => item'[b][i] = item[b][i]

\* A batch that goes on keeps what holds of its rows.
LEMMA RowsKept ==
    ASSUME NEW b \in Batch, RowOK(b), \A i \in Item : ItemOK(b, i),
           Grows, RowGoesOn(b), \A i \in Item : item'[b][i] = item[b][i]
    PROVE RowOK(b)' /\ \A i \in Item : ItemOK(b, i)'
<1>1. RowOK(b)' BY DEF RowOK, RowGoesOn
<1>2. ASSUME NEW i \in Item PROVE ItemOK(b, i)'
  BY <1>2 DEF ItemOK, RowGoesOn, Grows
<1> QED BY <1>1, <1>2

\* A run that does not move keeps what holds of it.
LEMMA RunKept ==
    ASSUME NEW r \in Run, RunOK(r), Agreeing(r), \A i \in Item : TaskOK(r, i),
           run'[r] = run[r], task'[r] = task[r], Grows,
           run[r].phase # "none" => Seen(r) /\ \A i \in Item : ItemSeen(r, i)
    PROVE RunOK(r)' /\ Agreeing(r)' /\ \A i \in Item : TaskOK(r, i)'
<1>1. RunOK(r)' BY DEF RunOK, Seen, Grows
<1>2. ASSUME NEW i \in Item PROVE TaskOK(r, i)'
  BY <1>2 DEF TaskOK, MoveOK, Grows
<1>3. ASSUME Holds(r)', NEW i \in Item PROVE Agrees(r, i)'
  <2>1. Holds(r) BY <1>3 DEF Holds, Seen, Owned, Open, RunOK
  <2>2. Agrees(r, i) BY <2>1, <1>3 DEF Agreeing
  <2>3. item'[run[r].batch][i] = item[run[r].batch][i] BY <1>3 DEF ItemSeen, Holds, Owned, Open
  <2>4. batch[run[r].batch].canceled => batch'[run[r].batch].canceled BY <1>3 DEF Seen, Holds
  <2> QED BY <2>2, <2>3, <2>4 DEF Agrees, Grows
<1> QED BY <1>1, <1>2, <1>3 DEF Agreeing

\* A run that is over, without items, has nothing to keep.
LEMMA RunEnds ==
    ASSUME NEW r \in Run, RunOK(r), run[r].phase # "none",
           batch'[run[r].batch].state # "none", batch[run[r].batch].canceled => batch'[run[r].batch].canceled,
           run'[r].phase = "over", run'[r].node = run[r].node, run'[r].batch = run[r].batch,
           run'[r].stopped => run'[r].lost \/ (run[r].stopped /\ ~run[r].lost),
           \A i \in Item : task'[r][i].at = "none"
    PROVE RunOK(r)' /\ Agreeing(r)' /\ \A i \in Item : TaskOK(r, i)'
<1>1. RunOK(r)' BY DEF RunOK
<1>2. ~Holds(r)' BY DEF Holds
<1>3. \A i \in Item : TaskOK(r, i)' BY DEF TaskOK, MoveOK
<1> QED BY <1>1, <1>2, <1>3 DEF Agreeing

-----------------------------------------------------------------------------
(* Tasks.                                                                  *)

\* The tasks a run gives itself are tasks.
LEMMA TaskTypes ==
    /\ NewItem \in ItemRow /\ NoTask \in TaskRow /\ NoTask.at = "none"
    /\ \A row \in ItemRow :
         /\ Queued(row) \in TaskRow /\ Queued(row).at = "queued"
         /\ \A from \in {"pending", "running"} :
              /\ Moving(row, from) \in TaskRow
              /\ Moving(row, from).at = "move" /\ Moving(row, from).row = row
              /\ Moving(row, from).from = from
<1>1. NewItem \in ItemRow BY DEF NewItem, ItemRow, ItemState
<1>2. NoTask \in TaskRow /\ NoTask.at = "none" BY <1>1 DEF NoTask, TaskRow
<1>3. ASSUME NEW row \in ItemRow PROVE Queued(row) \in TaskRow /\ Queued(row).at = "queued"
  BY <1>2 DEF Queued, TaskRow
<1>4. ASSUME NEW row \in ItemRow, NEW from \in {"pending", "running"}
      PROVE /\ Moving(row, from) \in TaskRow
            /\ Moving(row, from).at = "move" /\ Moving(row, from).row = row
            /\ Moving(row, from).from = from
  BY DEF Moving, TaskRow
<1> QED BY <1>1, <1>2, <1>3, <1>4

\* A step that sets one task leaves the others.
LEMMA TaskSet ==
    ASSUME TypeOK, NEW r \in Run, NEW i \in Item, NEW t \in TaskRow, SetTask(r, i, t)
    PROVE /\ task' \in [Run -> [Item -> TaskRow]]
          /\ task'[r][i] = t /\ \A j \in Item \ {i} : task'[r][j] = task[r][j]
          /\ \A s \in Run \ {r} : task'[s] = task[s]
BY DEF TypeOK, SetTask

\* So does one that drops the tasks of a run.
LEMMA TasksDropped ==
    ASSUME TypeOK, NEW r \in Run, task' = Idle(r)
    PROVE /\ task' \in [Run -> [Item -> TaskRow]]
          /\ \A i \in Item : task'[r][i].at = "none"
          /\ \A s \in Run \ {r} : task'[s] = task[s]
BY TaskTypes DEF TypeOK, Idle

\* A run that only sets the task of one item keeps what holds of it, when the
\* new task is right.
LEMMA RunSetsTask ==
    ASSUME TypeOK, NEW r \in Run, RunOK(r), Agreeing(r), \A i \in Item : TaskOK(r, i),
           NEW i \in Item, NEW t \in TaskRow, SetTask(r, i, t),
           run'[r] = run[r], run[r].phase \in {"requeue", "running"}, Grows, Seen(r),
           \A j \in Item \ {i} : ItemSeen(r, j),
           MoveOK(run[r].batch, i, task[r][i])', Holds(r) /\ Holds(r)' => Agrees(r, i)'
    PROVE RunOK(r)' /\ Agreeing(r)' /\ \A j \in Item : TaskOK(r, j)'
<1>0. task'[r][i] = t /\ \A j \in Item \ {i} : task'[r][j] = task[r][j] BY TaskSet
<1>1. RunOK(r)' BY DEF RunOK, Seen, Grows
<1>2. ASSUME NEW j \in Item PROVE TaskOK(r, j)'
  <2>1. CASE j = i BY <1>0, <2>1 DEF TaskOK
  <2>2. CASE j # i BY <1>0, <2>2 DEF TaskOK, MoveOK, Grows
  <2> QED BY <2>1, <2>2
<1>3. ASSUME Holds(r)', NEW j \in Item PROVE Agrees(r, j)'
  <2>1. Holds(r) BY <1>3 DEF Holds, Seen, Owned, Open, RunOK
  <2>2. CASE j = i BY <1>3, <2>1, <2>2
  <2>3. CASE j # i
    <3>1. Agrees(r, j) BY <2>1, <1>3 DEF Agreeing
    <3>2. item'[run[r].batch][j] = item[run[r].batch][j] BY <1>3, <2>3 DEF ItemSeen, Holds, Owned, Open
    <3>3. batch[run[r].batch].canceled => batch'[run[r].batch].canceled BY DEF Seen
    <3>4. task'[r][j] = task[r][j] BY <1>0, <2>3
    <3> QED BY <3>1, <3>2, <3>3, <3>4 DEF Agrees, Grows
  <2> QED BY <2>2, <2>3
<1> QED BY <1>1, <1>2, <1>3 DEF Agreeing

\* A run that is lost keeps its other items until their workers see it.
LEMMA RunLost ==
    ASSUME TypeOK, NEW r \in Run, RunOK(r), \A i \in Item : TaskOK(r, i),
           NEW i \in Item, LoseAt(r, i), run[r].phase \in {"requeue", "running"}, Grows, Seen(r)
    PROVE /\ RunOK(r)' /\ Agreeing(r)' /\ \A j \in Item : TaskOK(r, j)'
          /\ run' \in [Run -> RunRow] /\ task' \in [Run -> [Item -> TaskRow]]
          /\ \A s \in Run \ {r} : run'[s] = run[s] /\ task'[s] = task[s]
<1>1. /\ run' \in [Run -> RunRow] /\ \A s \in Run \ {r} : run'[s] = run[s]
      /\ run'[r].lost /\ run'[r].batch = run[r].batch /\ run'[r].node = run[r].node
      /\ run'[r].phase = IF run[r].phase = "requeue" THEN "over" ELSE run[r].phase
  <2>1. run[r] \in RunRow /\ run \in [Run -> RunRow] BY DEF TypeOK
  <2>2. run' = [run EXCEPT ![r] = [run[r] EXCEPT !.lost = TRUE, !.stopped = TRUE,
                   !.phase = IF run[r].phase = "requeue" THEN "over" ELSE run[r].phase]]
    BY <2>1 DEF LoseAt, Lose, RunRow
  <2>3. run'[r] = [run[r] EXCEPT !.lost = TRUE, !.stopped = TRUE,
                   !.phase = IF run[r].phase = "requeue" THEN "over" ELSE run[r].phase]
    BY <2>1, <2>2
  <2>4. run'[r] \in RunRow BY <2>1, <2>3 DEF RunRow
  <2> QED BY <2>1, <2>2, <2>3, <2>4 DEF RunRow
<1>2. CASE run[r].phase = "requeue"
  <2>1. task' = Idle(r) BY <1>2 DEF LoseAt
  <2> QED BY <1>1, <1>2, <2>1, TasksDropped, RunEnds DEF Seen
<1>3. CASE run[r].phase = "running"
  <2>1. SetTask(r, i, NoTask) BY <1>3 DEF LoseAt
  <2>2. NoTask \in TaskRow /\ NoTask.at = "none" BY TaskTypes
  <2>3. /\ task' \in [Run -> [Item -> TaskRow]] /\ \A s \in Run \ {r} : task'[s] = task[s]
        /\ task'[r][i] = NoTask /\ \A j \in Item \ {i} : task'[r][j] = task[r][j]
    BY <2>1, <2>2, TaskSet
  <2>4. RunOK(r)' BY <1>1, <1>3 DEF RunOK, Seen, Grows
  <2>5. Agreeing(r)' BY <1>1 DEF Agreeing, Holds
  <2>6. ASSUME NEW j \in Item PROVE TaskOK(r, j)'
    <3>1. CASE j = i BY <2>2, <2>3, <3>1 DEF TaskOK, MoveOK
    <3>2. CASE j # i BY <1>1, <1>3, <2>3, <3>2 DEF TaskOK, MoveOK, Grows
    <3> QED BY <3>1, <3>2
  <2> QED BY <1>1, <2>3, <2>4, <2>5, <2>6
<1> QED BY <1>2, <1>3

-----------------------------------------------------------------------------
(* Steps that leave the store alone.                                       *)

\* A store whose batches go on keeps what holds of its rows.
LEMMA StoreGoesOn ==
    ASSUME IInv, item' = item, Grows, \A b \in Batch : RowGoesOn(b)
    PROVE Rows'
<1> SUFFICES ASSUME NEW b \in Batch PROVE RowOK(b)' /\ \A i \in Item : ItemOK(b, i)' BY DEF Rows
<1> QED BY RowsKept DEF IInv, Rows

\* One that does not change goes on, and every run sees it.
LEMMA StoreKept ==
    ASSUME IInv, UNCHANGED <<store, replaced, resumed>>, Grows
    PROVE /\ Rows'
          /\ closing \subseteq closing' =>
               \A r \in Run : run[r].phase # "none" => Seen(r) /\ \A i \in Item : ItemSeen(r, i)
<1>1. \A b \in Batch : RowGoesOn(b) BY DEF RowGoesOn, RowOK, IInv, Rows, store
<1>2. Rows' BY <1>1, StoreGoesOn DEF store
<1>3. ASSUME NEW r \in Run, run[r].phase # "none", closing \subseteq closing'
      PROVE Seen(r) /\ \A i \in Item : ItemSeen(r, i)
  BY <1>3 DEF Seen, ItemSeen, store, IInv, Runs, RunOK
<1> QED BY <1>2, <1>3

\* What holds of the runs, when all but one do not move.
LEMMA RunsKept ==
    ASSUME IInv, NEW r \in Run, Grows, \A s \in Run \ {r} : run'[s] = run[s] /\ task'[s] = task[s],
           \A s \in Run \ {r} : run[s].phase # "none" => Seen(s) /\ \A i \in Item : ItemSeen(s, i),
           RunOK(r)' /\ Agreeing(r)' /\ \A i \in Item : TaskOK(r, i)'
    PROVE Runs'
<1> SUFFICES ASSUME NEW s \in Run PROVE RunOK(s)' /\ Agreeing(s)' /\ \A i \in Item : TaskOK(s, i)'
  BY DEF Runs
<1>1. CASE s = r BY <1>1
<1>2. CASE s # r BY <1>2, RunKept DEF IInv, Runs
<1> QED BY <1>1, <1>2

\* A worker of r sets the task of item i and nothing else but a history.
LEMMA TaskStep ==
    ASSUME IInv, NEW r \in Run, NEW i \in Item, NEW t \in TaskRow, SetTask(r, i, t),
           run[r].phase \in {"requeue", "running"},
           UNCHANGED <<store, run, closing, gone, worked, replaced, resumed>>,
           faults' \in Nat, Grows, scanned' \subseteq Batch \X Item, dropped' \subseteq Batch \X Item,
           MoveOK(run[r].batch, i, task[r][i])', Holds(r) => Agrees(r, i)'
    PROVE IInv'
<1>1. TypeOK' BY TaskSet DEF IInv, TypeOK, store
<1>2. Rows' /\ \A s \in Run : run[s].phase # "none" => Seen(s) /\ \A j \in Item : ItemSeen(s, j)
  BY StoreKept DEF store
<1>3. RunOK(r)' /\ Agreeing(r)' /\ \A j \in Item : TaskOK(r, j)'
  BY <1>2, RunSetsTask DEF IInv, Runs
<1>4. \A s \in Run \ {r} : run'[s] = run[s] /\ task'[s] = task[s] BY TaskSet DEF IInv
<1>5. Runs' BY <1>2, <1>3, <1>4, RunsKept
<1> QED BY <1>1, <1>2, <1>5 DEF IInv

\* A worker of a lost run lets its item go (Runner.move).
LEMMA MoveAbandonedStep == ASSUME IInv, NEW r \in Run, NEW i \in Item, MoveAbandoned(r, i) PROVE IInv'
<1>1. run[r].phase \in {"requeue", "running"} /\ run[r].lost /\ SetTask(r, i, NoTask)
  BY DEF MoveAbandoned, IInv, Runs, TaskOK
<1>2. NoTask \in TaskRow /\ task'[r][i] = NoTask BY SMTT(20), Z3T(20), <1>1, TaskTypes, TaskSet DEF IInv
<1>3. ~Holds(r) /\ MoveOK(run[r].batch, i, task[r][i])' BY <1>1, <1>2, TaskTypes DEF Holds, MoveOK
<1>4. Grows BY DEF MoveAbandoned, Grows, history
<1> QED BY <1>1, <1>2, <1>3, <1>4, TaskStep DEF MoveAbandoned, IInv, TypeOK, history

\* An item whose backoff ended is queued again (Runner.later).
LEMMA LaterStep == ASSUME IInv, NEW r \in Run, NEW i \in Item, Later(r, i) PROVE IInv'
<1> DEFINE t == [task[r][i] EXCEPT !.at = "queued"]
<1>1. run[r].phase = "running" /\ SetTask(r, i, t) /\ task[r][i].at = "waiting" BY DEF Later
<1>2. t \in TaskRow /\ t.at = "queued"
  <2>1. task[r][i] \in TaskRow BY DEF IInv, TypeOK
  <2> QED BY <2>1 DEF TaskRow
<1>3. task'[r][i] = t BY <1>1, <1>2, TaskSet DEF IInv
<1>4. MoveOK(run[r].batch, i, task[r][i])' BY <1>2, <1>3 DEF MoveOK
<1>5. ASSUME Holds(r) PROVE Agrees(r, i)'
  <2>1. Agrees(r, i) BY <1>5 DEF IInv, Runs, Agreeing
  <2> QED BY <2>1, <1>1, <1>2, <1>3 DEF Agrees, Later, store
<1>6. Grows BY DEF Later, Grows, history
<1> QED BY <1>1, <1>2, <1>4, <1>5, <1>6, TaskStep DEF Later, IInv, TypeOK, history

\* A worker takes an item, or lets it go when the run stops (Runner.runItem).
LEMMA TakeStep == ASSUME IInv, NEW r \in Run, NEW i \in Item, Take(r, i) PROVE IInv'
<1> DEFINE row == [state |-> "running", attempts |-> task[r][i].row.attempts + 1, again |-> FALSE]
           t == IF Stopped(r) THEN NoTask ELSE Moving(row, "pending")
<1>1. run[r].phase = "running" /\ SetTask(r, i, t) /\ task[r][i].at = "queued" BY DEF Take
<1>2. row \in ItemRow BY SMTT(20), Z3T(20) DEF IInv, TypeOK, TaskRow, ItemRow, ItemState
<1>3. t \in TaskRow BY <1>2, TaskTypes
<1>4. task'[r][i] = t BY <1>1, <1>3, TaskSet DEF IInv
<1>5. MoveOK(run[r].batch, i, task[r][i])'
  <2>1. t.at = "none" \/ t.row.state = "running" BY SMTT(20), Z3T(20), <1>2, TaskTypes
  <2> QED BY <1>4, <2>1 DEF MoveOK
<1>6. ASSUME Holds(r) PROVE Agrees(r, i)'
  <2>1. Agrees(r, i) BY <1>6 DEF IInv, Runs, Agreeing
  <2>2. item[run[r].batch][i].state = "pending" BY <2>1, <1>1 DEF Agrees
  <2>3. CASE Stopped(r)
    <3>1. batch[run[r].batch].canceled BY <1>1, <1>6, <2>3 DEF Holds, Stopped, IInv, Runs, RunOK
    <3> QED BY <3>1, <2>3, <1>4, TaskTypes DEF Agrees, Take, store
  <2>4. CASE ~Stopped(r)
    <3>1. t.at = "move" /\ t.from = "pending" BY <2>4, <1>2, TaskTypes
    <3> QED BY <3>1, <2>2, <1>4 DEF Agrees, Take, store
  <2> QED BY <2>3, <2>4
<1>7. Grows BY DEF Take, Grows, history
<1> QED BY <1>1, <1>3, <1>5, <1>6, <1>7, TaskStep DEF Take, IInv, TypeOK, history

\* What a work that returned leads to.
LEMMA VerdictIs ==
    ASSUME NEW row \in ItemRow, NEW result \in Results \ {""}
    PROVE /\ Verdict(row, result) \in ItemRow
          /\ Verdict(row, result).state \in {"pending", result}
BY DEF Verdict, Results, ItemRow, ItemState, Settled

\* A scan returns (Runner.runItem).
LEMMA WorkStep == ASSUME IInv, NEW r \in Run, NEW i \in Item, NEW result \in Results, Work(r, i, result) PROVE IInv'
<1> DEFINE b == run[r].batch
           t == Outcome(task[r][i].row, result)
<1>1. run[r].phase \in {"requeue", "running"} /\ SetTask(r, i, t) /\ task[r][i].at = "work"
  BY DEF Work, IInv, Runs, TaskOK
<1>2. task[r][i].row \in ItemRow /\ b \in Batch BY <1>1 DEF IInv, TypeOK, TaskRow, Runs, RunOK
<1>3. t \in TaskRow BY <1>2, VerdictIs, TaskTypes DEF Outcome
<1>4. task'[r][i] = t BY SMTT(20), Z3T(20), <1>1, <1>3, TaskSet DEF IInv
<1>5. CASE result = ""
  <2>1. t = NoTask /\ Stopped(r) BY <1>5 DEF Outcome, Work
  <2>2. MoveOK(b, i, task[r][i])' BY <1>4, <2>1, TaskTypes DEF MoveOK
  <2>3. ASSUME Holds(r) PROVE Agrees(r, i)'
    <3>1. batch[b].canceled BY <1>1, <2>1, <2>3 DEF Holds, Stopped, IInv, Runs, RunOK
    <3> QED BY <3>1, <2>1, <1>4, TaskTypes DEF Agrees, Work, store
  <2>4. Grows /\ scanned' = scanned /\ dropped' = dropped BY <1>5 DEF Work, Grows
  <2> QED BY <1>1, <1>3, <2>2, <2>3, <2>4, TaskStep DEF Work, IInv, TypeOK
<1>6. CASE result # ""
  <2>0. t = Moving(Verdict(task[r][i].row, result), "running") BY <1>6 DEF Outcome
  <2>1. t.at = "move" /\ t.from = "running" /\ t.row.state \in {"pending", result}
    <3>1. /\ Verdict(task[r][i].row, result) \in ItemRow
          /\ Verdict(task[r][i].row, result).state \in {"pending", result}
      BY <1>2, <1>6, VerdictIs
    <3> QED BY SMTT(20), Z3T(20), <2>0, <3>1, TaskTypes
  <2>2. MoveOK(b, i, task[r][i])'
    <3>1. result = "done" => <<b, i>> \in scanned' BY DEF Work
    <3>2. result = "canceled" => <<b, i>> \in dropped' BY DEF Work
    <3>3. run' = run BY DEF Work
    <3> QED BY <1>4, <2>1, <3>1, <3>2, <3>3 DEF MoveOK
  <2>3. ASSUME Holds(r) PROVE Agrees(r, i)'
    <3>1. Agrees(r, i) BY <2>3 DEF IInv, Runs, Agreeing
    <3>2. item[b][i].state = "running" BY <3>1, <1>1 DEF Agrees
    <3> QED BY <3>2, <2>1, <1>4 DEF Agrees, Work, store
  <2>4. Grows BY DEF Work, Grows
  <2>5. scanned' \subseteq Batch \X Item /\ dropped' \subseteq Batch \X Item
    <3>1. <<b, i>> \in Batch \X Item BY <1>2
    <3> QED BY <3>1 DEF Work, IInv, TypeOK
  <2> QED BY <1>1, <1>3, <2>2, <2>3, <2>4, <2>5, TaskStep DEF Work, IInv, TypeOK
<1> QED BY <1>5, <1>6

\* A step that sets the row of one run leaves the others.
LEMMA RunSet ==
    ASSUME TypeOK, NEW r \in Run, NEW row \in RunRow, run' = [run EXCEPT ![r] = row]
    PROVE run' \in [Run -> RunRow] /\ run'[r] = row /\ \A s \in Run \ {r} : run'[s] = run[s]
BY DEF TypeOK

\* The items of the last owner are queued again (Runner.TakeOver).
LEMMA ResumeStep == ASSUME IInv, NEW r \in Run, Resume(r) PROVE IInv'
<1> DEFINE row == [run[r] EXCEPT !.phase = "running"]
<1>1. run[r] \in RunRow /\ run[r].phase = "requeue" BY DEF Resume, IInv, TypeOK
<1>2. /\ row \in RunRow /\ row.phase = "running" /\ row.node = run[r].node /\ row.batch = run[r].batch
      /\ row.lost = run[r].lost /\ row.stopped = run[r].stopped
  BY <1>1 DEF RunRow
<1>3. run' = [run EXCEPT ![r] = row] BY DEF Resume
<1>4. run' \in [Run -> RunRow] /\ run'[r] = row /\ \A s \in Run \ {r} : run'[s] = run[s]
  BY <1>2, <1>3, RunSet DEF IInv
<1>5. Grows /\ task' = task /\ closing' = closing /\ UNCHANGED <<store, replaced, resumed>>
  BY DEF Resume, Grows, history, store
<1>6. Rows' /\ \A s \in Run : run[s].phase # "none" => Seen(s) /\ \A j \in Item : ItemSeen(s, j)
  BY <1>5, StoreKept
<1>7. RunOK(r)' BY SMTT(20), Z3T(20), <1>1, <1>2, <1>4, <1>5 DEF RunOK, IInv, Runs, store
<1>8. ASSUME NEW i \in Item PROVE TaskOK(r, i)'
  BY <1>8, <1>2, <1>4, <1>5 DEF TaskOK, MoveOK, Grows, IInv, Runs
<1>9. Agreeing(r)'
  <2>1. Holds(r)' => Holds(r) BY <1>1, <1>2, <1>4, <1>5 DEF Holds, Owned, Open, store
  <2>2. ASSUME NEW i \in Item, Agrees(r, i) PROVE Agrees(r, i)'
    BY <2>2, <1>2, <1>4, <1>5 DEF Agrees, store, Grows
  <2> QED BY <2>1, <2>2 DEF Agreeing, IInv, Runs
<1>10. Runs' BY <1>4, <1>5, <1>6, <1>7, <1>8, <1>9, RunsKept
<1>11. TypeOK' BY <1>4 DEF IInv, TypeOK, Resume, store, history
<1> QED BY <1>6, <1>10, <1>11 DEF IInv

\* Another step of r that sets its row and leaves the tasks: its batch and its
\* process stay, and it does not hold its batch afterwards that it did not before.
LEMMA RunStep ==
    ASSUME IInv, NEW r \in Run, NEW row \in RunRow, run' = [run EXCEPT ![r] = row],
           row.node = run[r].node, row.batch = run[r].batch, row.phase = run[r].phase,
           run[r].phase \notin {"none", "over"},
           run[r].lost => row.lost, row.stopped => row.lost \/ batch[run[r].batch].canceled,
           task' = task, Grows, closing' = closing, Rows',
           \A s \in Run : run[s].phase # "none" => Seen(s) /\ \A j \in Item : ItemSeen(s, j)
    PROVE Runs' /\ run' \in [Run -> RunRow]
<1>1. run' \in [Run -> RunRow] /\ run'[r] = row /\ \A s \in Run \ {r} : run'[s] = run[s] BY RunSet DEF IInv
<1>2. RunOK(r) /\ Agreeing(r) /\ Seen(r) /\ \A i \in Item : TaskOK(r, i) /\ ItemSeen(r, i) BY DEF IInv, Runs
<1>3. RunOK(r)' BY <1>1, <1>2 DEF RunOK, Seen, Grows
<1>4. ASSUME NEW i \in Item PROVE TaskOK(r, i)' BY <1>1, <1>2, <1>4 DEF TaskOK, MoveOK, Grows
<1>5. ASSUME Holds(r)', NEW i \in Item PROVE Agrees(r, i)'
  <2>1. Holds(r) BY <1>1, <1>2, <1>5 DEF Holds, Seen, Owned, Open, RunOK
  <2>2. Agrees(r, i) BY <1>2, <1>5, <2>1 DEF Agreeing
  <2>3. item'[run[r].batch][i] = item[run[r].batch][i] BY <1>1, <1>2, <1>5 DEF ItemSeen, Holds, Owned, Open
  <2>4. batch[run[r].batch].canceled => batch'[run[r].batch].canceled BY <1>2 DEF Seen
  <2> QED BY <1>1, <2>2, <2>3, <2>4 DEF Agrees, Grows
<1>6. Runs' BY <1>1, <1>3, <1>4, <1>5, RunsKept DEF Agreeing
<1> QED BY <1>1, <1>6

\* A run stops for a batch that was canceled (Runner.beat, Stop).
LEMMA StopCanceledStep == ASSUME IInv, NEW r \in Run, StopCanceled(r) PROVE IInv'
<1> DEFINE row == [run[r] EXCEPT !.stopped = TRUE]
<1>1. run[r] \in RunRow /\ run[r].phase = "running" /\ batch[run[r].batch].canceled
  BY DEF StopCanceled, Beating, IInv, TypeOK
<1>2. /\ row \in RunRow /\ row.phase = run[r].phase /\ row.node = run[r].node /\ row.batch = run[r].batch
      /\ row.lost = run[r].lost
  BY <1>1 DEF RunRow
<1>3. run' = [run EXCEPT ![r] = row] BY DEF StopCanceled
<1>4. Grows /\ task' = task /\ closing' = closing /\ UNCHANGED <<store, replaced, resumed>>
  BY DEF StopCanceled, Grows, history, store
<1>5. Rows' /\ \A s \in Run : run[s].phase # "none" => Seen(s) /\ \A j \in Item : ItemSeen(s, j)
  BY <1>4, StoreKept
<1>6. Runs' /\ run' \in [Run -> RunRow] BY <1>1, <1>2, <1>3, <1>4, <1>5, RunStep
<1>7. TypeOK' BY <1>6 DEF IInv, TypeOK, StopCanceled, store, history
<1> QED BY <1>5, <1>6, <1>7 DEF IInv

\* The store refuses a run that is not the owner (Runner.move).
LEMMA MoveRefusedStep == ASSUME IInv, NEW r \in Run, NEW i \in Item, MoveRefused(r, i) PROVE IInv'
<1>1. run[r].phase \in {"requeue", "running"} /\ LoseAt(r, i) BY DEF MoveRefused, CanMove, IInv, Runs, TaskOK
<1>2. Grows /\ closing' = closing /\ UNCHANGED <<store, replaced, resumed>> BY DEF MoveRefused, Grows, store
<1>3. Rows' /\ \A s \in Run : run[s].phase # "none" => Seen(s) /\ \A j \in Item : ItemSeen(s, j)
  BY <1>2, StoreKept
<1>4. /\ RunOK(r)' /\ Agreeing(r)' /\ \A j \in Item : TaskOK(r, j)'
      /\ run' \in [Run -> RunRow] /\ task' \in [Run -> [Item -> TaskRow]]
      /\ \A s \in Run \ {r} : run'[s] = run[s] /\ task'[s] = task[s]
  BY <1>1, <1>2, <1>3, RunLost DEF IInv, Runs
<1>5. Runs' BY <1>2, <1>3, <1>4, RunsKept
<1>6. TypeOK' BY <1>4 DEF IInv, TypeOK, MoveRefused, LoseAt, store
<1> QED BY <1>3, <1>5, <1>6 DEF IInv

-----------------------------------------------------------------------------
(* What follows a move.                                                    *)

\* A move that was made: the item is what was written.
LEMMA MadeRun ==
    ASSUME IInv, NEW r \in Run, NEW i \in Item, Made(r, i), task[r][i].at # "none",
           Grows, Seen(r), \A j \in Item \ {i} : ItemSeen(r, j),
           item'[run[r].batch][i] = task[r][i].row
    PROVE /\ RunOK(r)' /\ Agreeing(r)' /\ \A j \in Item : TaskOK(r, j)'
          /\ run' \in [Run -> RunRow] /\ task' \in [Run -> [Item -> TaskRow]] /\ worked' \in [Batch -> [Item -> Nat]]
          /\ \A s \in Run \ {r} : run'[s] = run[s] /\ task'[s] = task[s]
<1> DEFINE row == task[r][i].row
           b == run[r].batch
           w == [NoTask EXCEPT !.at = "work", !.row = row]
           l == [Queued(row) EXCEPT !.at = "waiting"]
<1>1. run[r].phase \in {"requeue", "running"} /\ b \in Batch /\ run' = run
  BY DEF Made, IInv, Runs, TaskOK, RunOK
<1>2. row \in ItemRow /\ row.state \in ItemState BY SMTT(20), Z3T(20) DEF IInv, TypeOK, TaskRow, ItemRow
<1>3. /\ w \in TaskRow /\ w.at = "work" /\ l \in TaskRow /\ l.at = "waiting"
      /\ Queued(row) \in TaskRow /\ Queued(row).at = "queued" /\ NoTask \in TaskRow /\ NoTask.at = "none"
  <2>1. w \in TaskRow /\ w.at = "work" BY <1>2, TaskTypes DEF TaskRow
  <2>2. l \in TaskRow /\ l.at = "waiting" BY SMTT(20), Z3T(20), <1>2, TaskTypes DEF TaskRow
  <2> QED BY <1>2, <2>1, <2>2, TaskTypes
<1>4. PICK t \in TaskRow :
         /\ SetTask(r, i, t)
         /\ \/ t.at = "work" /\ row.state = "running"
            \/ t.at \in {"queued", "waiting"} /\ row.state = "pending"
            \/ t.at = "none" /\ row.state \in Settled
  <2>1. CASE row.state = "running"
    <3>1. SetTask(r, i, w) BY <2>1 DEF Made
    <3> QED BY <1>3, <2>1, <3>1
  <2>2. CASE row.state = "pending" /\ run[r].phase = "requeue"
    <3>1. SetTask(r, i, Queued(row)) BY <2>2 DEF Made
    <3> QED BY <1>3, <2>2, <3>1
  <2>3. CASE row.state = "pending" /\ run[r].phase # "requeue"
    <3>1. SetTask(r, i, l) BY <2>3 DEF Made
    <3> QED BY <1>3, <2>3, <3>1
  <2>4. CASE row.state \notin {"running", "pending"}
    <3>1. SetTask(r, i, NoTask) BY <2>4 DEF Made
    <3>2. row.state \in Settled BY <1>2, <2>4 DEF ItemState
    <3> QED BY <1>3, <3>1, <3>2
  <2> QED BY <2>1, <2>2, <2>3, <2>4
<1>5. /\ task' \in [Run -> [Item -> TaskRow]] /\ task'[r][i] = t /\ \A s \in Run \ {r} : task'[s] = task[s]
  BY <1>4, TaskSet DEF IInv
<1>6. MoveOK(b, i, task[r][i])' BY <1>4, <1>5 DEF MoveOK
<1>7. Agrees(r, i)' BY <1>1, <1>4, <1>5 DEF Agrees
<1>8. RunOK(r)' /\ Agreeing(r)' /\ \A j \in Item : TaskOK(r, j)'
  BY <1>1, <1>4, <1>6, <1>7, RunSetsTask DEF IInv, Runs
<1>9. worked' \in [Batch -> [Item -> Nat]]
  <2>1. worked \in [Batch -> [Item -> Nat]] BY DEF IInv, TypeOK
  <2> QED BY SMTT(20), Z3T(20), <1>1, <2>1 DEF Made
<1> QED BY <1>1, <1>5, <1>8, <1>9 DEF IInv, TypeOK

\* A move that was not made, by a run that does not keep its batch.
LEMMA NotMadeRun ==
    ASSUME IInv, NEW r \in Run, NEW i \in Item, NotMade(r, i), task[r][i].at # "none",
           Grows, Seen(r), \A j \in Item \ {i} : ItemSeen(r, j), ~Holds(r)
    PROVE /\ RunOK(r)' /\ Agreeing(r)' /\ \A j \in Item : TaskOK(r, j)'
          /\ run' \in [Run -> RunRow] /\ task' \in [Run -> [Item -> TaskRow]] /\ worked' \in [Batch -> [Item -> Nat]]
          /\ \A s \in Run \ {r} : run'[s] = run[s] /\ task'[s] = task[s]
<1>1. run[r].phase \in {"requeue", "running"} /\ worked' = worked BY DEF NotMade, IInv, Runs, TaskOK
<1>2. CASE run[r].phase = "requeue"
  <2> DEFINE row == [run[r] EXCEPT !.phase = "over"]
  <2>1. run' = [run EXCEPT ![r] = row] /\ task' = Idle(r) BY <1>2 DEF NotMade, Retire
  <2>2. run[r] \in RunRow BY DEF IInv, TypeOK
  <2>3. /\ row \in RunRow /\ row.phase = "over" /\ row.node = run[r].node /\ row.batch = run[r].batch
        /\ row.lost = run[r].lost /\ row.stopped = run[r].stopped
    BY <2>2 DEF RunRow
  <2>4. run' \in [Run -> RunRow] /\ run'[r] = row /\ \A s \in Run \ {r} : run'[s] = run[s]
    BY <2>1, <2>3, RunSet DEF IInv
  <2>5. /\ task' \in [Run -> [Item -> TaskRow]] /\ \A j \in Item : task'[r][j].at = "none"
        /\ \A s \in Run \ {r} : task'[s] = task[s]
    BY <2>1, TasksDropped DEF IInv
  <2>6. RunOK(r)' /\ Agreeing(r)' /\ \A j \in Item : TaskOK(r, j)'
    BY <1>2, <2>3, <2>4, <2>5, RunEnds DEF IInv, Runs, Seen
  <2> QED BY <1>1, <2>4, <2>5, <2>6 DEF IInv, TypeOK
<1>3. CASE run[r].phase = "running"
  <2>1. run' = run /\ SetTask(r, i, NoTask) BY <1>3 DEF NotMade
  <2>2. NoTask \in TaskRow /\ NoTask.at = "none" BY TaskTypes
  <2>3. /\ task' \in [Run -> [Item -> TaskRow]] /\ task'[r][i] = NoTask
        /\ \A s \in Run \ {r} : task'[s] = task[s]
    BY <2>1, <2>2, TaskSet DEF IInv
  <2>4. MoveOK(run[r].batch, i, task[r][i])' BY <2>2, <2>3 DEF MoveOK
  <2>5. RunOK(r)' /\ Agreeing(r)' /\ \A j \in Item : TaskOK(r, j)'
    BY <1>3, <2>1, <2>2, <2>4, RunSetsTask DEF IInv, Runs
  <2> QED BY <1>1, <2>1, <2>3, <2>5 DEF IInv, TypeOK
<1> QED BY <1>1, <1>2, <1>3

\* An item is read back after a try that failed (Runner.written).
LEMMA ReadBackStep == ASSUME IInv, NEW r \in Run, NEW i \in Item, ReadBack(r, i) PROVE IInv'
<1>1. run[r].phase \in {"requeue", "running"} /\ task[r][i].at = "read" BY DEF ReadBack, IInv, Runs, TaskOK
<1>2. Grows /\ closing' = closing /\ UNCHANGED <<store, replaced, resumed>> BY DEF ReadBack, Grows, store
<1>3. Rows' /\ \A s \in Run : run[s].phase # "none" => Seen(s) /\ \A j \in Item : ItemSeen(s, j)
  BY <1>2, StoreKept
<1>4. /\ RunOK(r)' /\ Agreeing(r)' /\ \A j \in Item : TaskOK(r, j)'
      /\ run' \in [Run -> RunRow] /\ task' \in [Run -> [Item -> TaskRow]] /\ worked' \in [Batch -> [Item -> Nat]]
      /\ \A s \in Run \ {r} : run'[s] = run[s] /\ task'[s] = task[s]
  <2>1. CASE Written(run[r].batch, i, task[r][i].row) /\ Made(r, i)
    <3>1. item'[run[r].batch][i] = task[r][i].row BY <2>1, <1>2 DEF Written, store
    <3> QED BY <1>1, <1>2, <1>3, <2>1, <3>1, MadeRun
  <2>2. CASE ~Written(run[r].batch, i, task[r][i].row) /\ NotMade(r, i)
    <3>1. ~Holds(r) BY <1>1, <2>2 DEF IInv, Runs, Agreeing, Agrees, Written
    <3> QED BY <1>1, <1>2, <1>3, <2>2, <3>1, NotMadeRun
  <2>3. CASE LoseAt(r, i)
    <3>1. worked' = worked BY <2>3 DEF LoseAt
    <3> QED BY <1>1, <1>2, <1>3, <2>3, <3>1, RunLost DEF IInv, Runs, TypeOK
  <2> QED BY <2>1, <2>2, <2>3 DEF ReadBack
<1>5. Runs' BY <1>2, <1>3, <1>4, RunsKept
<1>6. faults' \in Nat BY SMTT(20), Z3T(20) DEF ReadBack, NoFault, Unanswered, Fault, IInv, TypeOK
<1>7. TypeOK' BY <1>4, <1>6 DEF IInv, TypeOK, ReadBack, store
<1> QED BY <1>3, <1>5, <1>7 DEF IInv

-----------------------------------------------------------------------------
(* Runs that begin and end, and the surroundings.                          *)

\* A claimed batch is read (Runner.claim).
LEMMA ReadClaimedStep == ASSUME IInv, NEW r \in Run, ReadClaimed(r) PROVE IInv'
<1> DEFINE b == run[r].batch
<1>1. /\ run[r].phase = "claimed" /\ run[r] \in RunRow /\ b \in Batch /\ RunOK(r)
      /\ \A i \in Item : task[r][i].at = "none"
  BY DEF ReadClaimed, IInv, TypeOK, Runs, TaskOK, RunOK
<1>2. Grows /\ closing' = closing /\ UNCHANGED <<store, replaced, resumed>> BY DEF ReadClaimed, Grows, store, history
<1>3. Rows' /\ \A s \in Run : run[s].phase # "none" => Seen(s) /\ \A j \in Item : ItemSeen(s, j)
  BY <1>2, StoreKept
<1>4. PICK row \in RunRow :
         /\ run' = [run EXCEPT ![r] = row] /\ row.node = run[r].node /\ row.batch = b
         /\ row.lost = run[r].lost /\ row.stopped = run[r].stopped
         /\ \/ row.phase = "over" /\ task' = task
            \/ row.phase = "finish" /\ task' = task /\ (batch[b].canceled \/ b \in gone')
            \/ row.phase = "requeue" /\ task' = [task EXCEPT ![r] = [i \in Item |-> Resumed(item[b][i])]]
  <2>1. ASSUME NEW phase \in {"over", "finish", "requeue"}
        PROVE /\ [run[r] EXCEPT !.phase = phase] \in RunRow
              /\ [run[r] EXCEPT !.phase = phase].phase = phase
              /\ [run[r] EXCEPT !.phase = phase].node = run[r].node
              /\ [run[r] EXCEPT !.phase = phase].batch = b
              /\ [run[r] EXCEPT !.phase = phase].lost = run[r].lost
              /\ [run[r] EXCEPT !.phase = phase].stopped = run[r].stopped
    BY <1>1, <2>1 DEF RunRow
  <2>2. CASE run' = Retire(r) /\ task' = task BY <2>1, <2>2 DEF Retire
  <2>3. CASE /\ run' = [run EXCEPT ![r].phase = "finish"] /\ task' = task
             /\ batch[b].canceled \/ b \in gone'
    BY <2>1, <2>3
  <2>4. CASE /\ run' = [run EXCEPT ![r].phase = "requeue"]
             /\ task' = [task EXCEPT ![r] = [i \in Item |-> Resumed(item[b][i])]]
    BY <2>1, <2>4
  <2> QED BY <2>2, <2>3, <2>4 DEF ReadClaimed
<1>5. run' \in [Run -> RunRow] /\ run'[r] = row /\ \A s \in Run \ {r} : run'[s] = run[s]
  BY <1>4, RunSet DEF IInv
<1>6. RunOK(r)' BY <1>1, <1>2, <1>4, <1>5 DEF RunOK, store
<1>7. ASSUME NEW i \in Item
      PROVE /\ Resumed(item[b][i]) \in TaskRow
            /\ \/ Resumed(item[b][i]).at = "queued" /\ item[b][i].state = "pending"
               \/ /\ Resumed(item[b][i]).at = "move" /\ Resumed(item[b][i]).row.state = "pending"
                  /\ Resumed(item[b][i]).from = "running" /\ item[b][i].state = "running"
               \/ Resumed(item[b][i]).at = "none" /\ item[b][i].state \in Settled
  <2> DEFINE it == item[b][i]
  <2>1. it \in ItemRow /\ it.state \in ItemState BY <1>1, <1>7 DEF IInv, TypeOK, ItemRow
  <2>2. CASE it.state = "pending" BY <2>1, <2>2, TaskTypes DEF Resumed
  <2>3. CASE it.state = "running"
    <3> DEFINE up == [it EXCEPT !.state = "pending"]
               m == Moving(up, "running")
    <3>1. Resumed(it) = m BY <2>3 DEF Resumed
    <3>2. up \in ItemRow /\ up.state = "pending" BY <2>1 DEF ItemRow, ItemState
    <3>3. m \in TaskRow /\ m.at = "move" /\ m.row = up /\ m.from = "running" BY <3>2, TaskTypes
    <3> QED BY <2>3, <3>1, <3>2, <3>3
  <2>4. CASE it.state \notin {"pending", "running"}
    <3>1. Resumed(it) = NoTask BY <2>4 DEF Resumed
    <3> QED BY <2>1, <2>4, <3>1, TaskTypes DEF ItemState
  <2> QED BY <2>2, <2>3, <2>4
<1>8. /\ task' \in [Run -> [Item -> TaskRow]] /\ \A s \in Run \ {r} : task'[s] = task[s]
      /\ row.phase = "requeue" => \A i \in Item : task'[r][i] = Resumed(item[b][i])
      /\ row.phase # "requeue" => \A i \in Item : task'[r][i].at = "none"
  <2>1. task \in [Run -> [Item -> TaskRow]] BY DEF IInv, TypeOK
  <2>2. CASE task' = task /\ row.phase # "requeue" BY <1>1, <2>1, <2>2
  <2>3. CASE row.phase = "requeue" /\ task' = [task EXCEPT ![r] = [i \in Item |-> Resumed(item[b][i])]]
    BY <1>7, <2>1, <2>3
  <2> QED BY <1>4, <2>2, <2>3
<1>9. \A i \in Item : TaskOK(r, i)'
  <2>1. CASE row.phase = "requeue" BY <1>5, <1>7, <1>8, <2>1 DEF TaskOK, MoveOK
  <2>2. CASE row.phase # "requeue" BY <1>5, <1>8, <2>2 DEF TaskOK, MoveOK
  <2> QED BY <2>1, <2>2
<1>10. ASSUME Holds(r)', NEW i \in Item PROVE Agrees(r, i)'
  <2>1. item' = item /\ batch' = batch BY <1>2 DEF store
  <2>2. CASE row.phase = "requeue"
    <3>1. task'[r][i] = Resumed(item[b][i]) BY <1>8, <1>10, <2>2
    <3>2. \/ task'[r][i].at = "queued" /\ item'[b][i].state = "pending"
          \/ task'[r][i].at = "move" /\ task'[r][i].from = "running" /\ item'[b][i].state = "running"
          \/ task'[r][i].at = "none" /\ item'[b][i].state \in Settled
      BY <1>7, <1>10, <2>1, <3>1
    <3>3. run'[r].batch = b BY <1>4, <1>5
    <3> QED BY <3>2, <3>3 DEF Agrees
  <2>3. CASE row.phase = "finish" BY <1>4, <1>5, <1>8, <1>10, <2>1, <2>3 DEF Agrees
  <2>4. row.phase # "over" BY <1>5, <1>10 DEF Holds
  <2> QED BY <1>4, <2>2, <2>3, <2>4
<1>11. Runs' BY <1>2, <1>3, <1>5, <1>6, <1>8, <1>9, <1>10, RunsKept DEF Agreeing
<1>12. faults' \in Nat /\ gone' \subseteq Batch
  BY SMTT(20), Z3T(20), <1>1 DEF ReadClaimed, NoFault, Unanswered, Fault, IInv, TypeOK
<1>13. TypeOK' BY <1>5, <1>8, <1>12 DEF IInv, TypeOK, ReadClaimed, store, history
<1> QED BY <1>3, <1>11, <1>13 DEF IInv

\* Nothing of the runs changes, but the store or the processes may.
LEMMA RunsStay ==
    ASSUME IInv, Grows, UNCHANGED local,
           \A s \in Run : run[s].phase # "none" => Seen(s) /\ \A i \in Item : ItemSeen(s, i)
    PROVE Runs'
<1> SUFFICES ASSUME NEW s \in Run PROVE RunOK(s)' /\ Agreeing(s)' /\ \A i \in Item : TaskOK(s, i)'
  BY DEF Runs
<1> QED BY RunKept DEF IInv, Runs, local

\* A process begins to stop (Runner.Close).
LEMMA CloseStep == ASSUME IInv, NEW n \in Node, Close(n) PROVE IInv'
<1>1. Grows /\ UNCHANGED <<store, replaced, resumed>> /\ closing \subseteq closing'
  BY DEF Close, Grows, store, history
<1>2. Rows' /\ Runs' BY <1>1, StoreKept, RunsStay DEF Close
<1>3. TypeOK' BY SMTT(20), Z3T(20) DEF Close, Fault, IInv, TypeOK, store, local, history
<1> QED BY <1>2, <1>3 DEF IInv

\* A process that stopped starts again.
LEMMA RestartStep == ASSUME IInv, NEW n \in Node, Restart(n) PROVE IInv'
<1>1. Grows /\ UNCHANGED <<store, replaced, resumed>> BY DEF Restart, Grows, store, history
<1>2. Rows' BY <1>1, StoreKept
<1>3. ASSUME NEW s \in Run, run[s].phase # "none" PROVE Seen(s) /\ \A i \in Item : ItemSeen(s, i)
  <2>1. run[s].phase # "over" => run[s].node # n BY <1>3 DEF Restart, Of, Active
  <2> QED BY <1>1, <1>3, <2>1 DEF Seen, ItemSeen, Restart, store, IInv, Runs, RunOK
<1>4. Runs' BY <1>1, <1>3, RunsStay DEF Restart
<1>5. TypeOK' BY DEF Restart, IInv, TypeOK, store, local, history
<1> QED BY <1>2, <1>4, <1>5 DEF IInv

\* A process dies with its runs.
LEMMA CrashStep == ASSUME IInv, NEW n \in Node, Crash(n) PROVE IInv'
<1>1. Grows /\ UNCHANGED <<store, replaced, resumed>> BY DEF Crash, Grows, store, history
<1>2. Rows' BY <1>1, StoreKept
<1>3. ASSUME NEW s \in Of(n)
      PROVE /\ run'[s] \in RunRow /\ run'[s].phase = "over" /\ run'[s].node = run[s].node
            /\ run'[s].batch = run[s].batch /\ run'[s].lost = run[s].lost /\ run'[s].stopped = run[s].stopped
            /\ task'[s] = [i \in Item |-> NoTask]
  <2>1. s \in Run /\ run[s] \in RunRow BY <1>3 DEF Of, Active, IInv, TypeOK
  <2>2. run'[s] = [run[s] EXCEPT !.phase = "over"] /\ task'[s] = [i \in Item |-> NoTask] BY <1>3, <2>1 DEF Crash
  <2> QED BY <2>1, <2>2 DEF RunRow
<1>4. ASSUME NEW s \in Run, s \notin Of(n) PROVE run'[s] = run[s] /\ task'[s] = task[s] BY <1>4 DEF Crash
<1>5. ASSUME NEW s \in Run PROVE RunOK(s)' /\ Agreeing(s)' /\ \A i \in Item : TaskOK(s, i)'
  <2>1. CASE s \in Of(n)
    <3>1. run[s].phase # "none" BY <2>1 DEF Of, Active
    <3>2. batch'[run[s].batch].state # "none" /\ batch' = batch
      BY <1>1, <1>5, <3>1 DEF store, IInv, Runs, RunOK
    <3>3. \A i \in Item : task'[s][i].at = "none" BY SMTT(20), Z3T(20), <1>3, <2>1, TaskTypes
    <3>4. /\ run'[s].phase = "over" /\ run'[s].node = run[s].node /\ run'[s].batch = run[s].batch
          /\ run'[s].lost = run[s].lost /\ run'[s].stopped = run[s].stopped
      BY <1>3, <2>1
    <3> QED BY <1>5, <3>1, <3>2, <3>3, <3>4, RunEnds DEF IInv, Runs
  <2>2. CASE s \notin Of(n)
    <3>1. run[s].phase \notin {"none", "over"} => run[s].node # n BY <1>5, <2>2 DEF Of, Active
    <3>2. run[s].phase # "none" => Seen(s) /\ \A i \in Item : ItemSeen(s, i)
      BY <1>1, <1>5, <3>1 DEF Seen, ItemSeen, Crash, store, IInv, Runs, RunOK
    <3> QED BY <1>1, <1>4, <1>5, <2>2, <3>2, RunKept DEF IInv, Runs
  <2> QED BY <2>1, <2>2
<1>6. run' \in [Run -> RunRow]
  <2>1. \A s \in Run : run'[s] \in RunRow BY <1>3, <1>4 DEF IInv, TypeOK
  <2> QED BY <2>1 DEF Crash
<1>7. task' \in [Run -> [Item -> TaskRow]] BY TaskTypes DEF Crash, IInv, TypeOK
<1>8. TypeOK' BY SMTT(20), Z3T(20), <1>6, <1>7 DEF Crash, Fault, IInv, TypeOK, store, history
<1> QED BY <1>2, <1>5, <1>8 DEF IInv, Runs

-----------------------------------------------------------------------------
(* Steps on the row of a batch.                                            *)

\* A step that sets one row leaves the others.
LEMMA BatchSet ==
    ASSUME TypeOK, NEW b \in Batch, NEW row \in BatchRow, batch' = [batch EXCEPT ![b] = row]
    PROVE batch' \in [Batch -> BatchRow] /\ batch'[b] = row /\ \A c \in Batch \ {b} : batch'[c] = batch[c]
BY DEF TypeOK

\* The row of b changes, but not its state nor its owner, and nothing else does.
LEMMA RowStep ==
    ASSUME IInv, NEW b \in Batch, NEW row \in BatchRow, batch' = [batch EXCEPT ![b] = row],
           row.state = batch[b].state, row.state # "none", row.owner = batch[b].owner,
           batch[b].canceled => row.canceled,
           UNCHANGED <<item, local, closing, gone, history>>, faults' \in Nat
    PROVE IInv'
<1>1. batch' \in [Batch -> BatchRow] /\ batch'[b] = row /\ \A c \in Batch \ {b} : batch'[c] = batch[c]
  BY BatchSet DEF IInv
<1>2. Grows BY DEF Grows, history
<1>3. \A c \in Batch : RowGoesOn(c) BY <1>1 DEF RowGoesOn, IInv, Rows, RowOK
<1>4. ASSUME NEW s \in Run, run[s].phase # "none" PROVE Seen(s) /\ \A i \in Item : ItemSeen(s, i)
  <2>1. run[s].batch \in Batch /\ batch[run[s].batch].state # "none" BY <1>4 DEF IInv, Runs, RunOK
  <2> QED BY <1>1, <2>1 DEF Seen, ItemSeen, history
<1>5. Rows' BY <1>2, <1>3, StoreGoesOn
<1>6. Runs' BY <1>2, <1>4, RunsStay
<1>7. TypeOK' BY <1>1 DEF IInv, TypeOK, local, history
<1> QED BY <1>5, <1>6, <1>7 DEF IInv

\* A batch is canceled (CancelBatch).
LEMMA CancelStep == ASSUME IInv, NEW b \in Batch, Cancel(b) PROVE IInv'
<1> DEFINE row == [batch[b] EXCEPT !.canceled = TRUE]
<1>1. batch[b] \in BatchRow /\ batch[b].state = "open" /\ batch' = [batch EXCEPT ![b] = row]
  BY DEF Cancel, Open, IInv, TypeOK
<1>2. row \in BatchRow /\ row.state = batch[b].state /\ row.owner = batch[b].owner /\ row.canceled
  BY <1>1 DEF BatchRow
<1>3. faults' \in Nat BY DEF Cancel, IInv, TypeOK
<1> QED BY <1>1, <1>2, <1>3, RowStep DEF Cancel

\* A heartbeat goes stale.
LEMMA AgeStep == ASSUME IInv, NEW b \in Batch, Age(b) PROVE IInv'
<1> DEFINE row == [batch[b] EXCEPT !.stale = TRUE]
<1>1. batch[b] \in BatchRow /\ batch[b].state = "open" /\ batch' = [batch EXCEPT ![b] = row]
  BY DEF Age, Open, IInv, TypeOK
<1>2. row \in BatchRow /\ row.state = batch[b].state /\ row.owner = batch[b].owner /\ row.canceled = batch[b].canceled
  BY <1>1 DEF BatchRow
<1>3. faults' \in Nat BY SMTT(20), Z3T(20) DEF Age, Fault, NoFault, IInv, TypeOK
<1> QED BY <1>1, <1>2, <1>3, RowStep DEF Age

\* A claim: the run that had the batch is replaced, and one that claims it
\* again is recorded.
LEMMA Claimed ==
    ASSUME IInv, NEW b \in Batch, NEW r \in Run, Claimable(b, r), ClaimBatch(b, r),
           UNCHANGED <<item, closing, gone, scanned, dropped>>
    PROVE /\ Grows /\ Rows' /\ batch' \in [Batch -> BatchRow] /\ replaced' \subseteq Run /\ resumed' \subseteq Batch
          /\ batch'[b].state = "open" /\ batch'[b].owner = r
          /\ \A s \in Run : run[s].phase # "none" => Seen(s) /\ \A i \in Item : ItemSeen(s, i)
<1> DEFINE row == [batch[b] EXCEPT !.owner = r, !.stale = FALSE]
<1>1. batch[b] \in BatchRow /\ batch[b].state = "open" /\ batch' = [batch EXCEPT ![b] = row]
  BY DEF Claimable, Open, ClaimBatch, IInv, TypeOK
<1>2. row \in BatchRow /\ row.state = batch[b].state /\ row.owner = r /\ row.canceled = batch[b].canceled
  BY <1>1 DEF BatchRow
<1>3. batch' \in [Batch -> BatchRow] /\ batch'[b] = row /\ \A c \in Batch \ {b} : batch'[c] = batch[c]
  BY <1>1, <1>2, BatchSet DEF IInv
<1>4. Grows BY DEF Grows, ClaimBatch
<1>5. \A c \in Batch : RowGoesOn(c) BY <1>1, <1>2, <1>3 DEF RowGoesOn, IInv, Rows, RowOK
<1>6. Rows' BY <1>4, <1>5, StoreGoesOn
<1>7. batch[b].owner \in Run BY <1>1 DEF IInv, Rows, RowOK
<1>8. replaced' \subseteq Run /\ resumed' \subseteq Batch BY <1>7 DEF ClaimBatch, IInv, TypeOK
<1>9. ASSUME NEW s \in Run, run[s].phase # "none" PROVE Seen(s) /\ \A i \in Item : ItemSeen(s, i)
  <2>1. RunOK(s) /\ run[s].batch \in Batch BY <1>9 DEF IInv, Runs, RunOK
  <2>2. \A i \in Item : ItemSeen(s, i) BY DEF ItemSeen
  <2>3. CASE run[s].batch # b
    <3>1. batch'[run[s].batch] = batch[run[s].batch] BY <1>3, <2>1, <2>3
    <3>2. run[s].batch \in resumed => run[s].batch \in resumed' BY <1>4 DEF Grows
    <3> QED BY <1>4, <1>9, <2>1, <2>2, <3>1, <3>2 DEF Seen, RunOK
  <2>4. CASE run[s].batch = b /\ s # r
    <3>1. batch[b].owner = s => s \in replaced' BY <2>4 DEF ClaimBatch
    <3> QED BY <1>1, <1>2, <1>3, <1>9, <2>2, <2>4, <3>1 DEF Seen
  <2>5. CASE run[s].batch = b /\ s = r
    <3>1. r \in replaced => b \in resumed' BY DEF ClaimBatch
    <3>2. run[s].phase # "over" => batch[b].owner = r \/ r \in replaced BY <1>9, <2>1, <2>5 DEF RunOK
    <3>3. b \in resumed => b \in resumed' BY <1>4 DEF Grows
    <3> QED BY <1>1, <1>2, <1>3, <2>2, <2>5, <3>1, <3>2, <3>3 DEF Seen
  <2> QED BY <2>3, <2>4, <2>5
<1> QED BY <1>1, <1>2, <1>3, <1>4, <1>6, <1>8, <1>9

\* A run beats, or learns that it was replaced (Runner.beat).
LEMMA BeatStep == ASSUME IInv, NEW r \in Run, Beat(r) PROVE IInv'
<1> DEFINE b == run[r].batch
<1>1. run[r].phase = "running" /\ b \in Batch /\ run[r] \in RunRow
  BY DEF Beat, Beating, IInv, Runs, RunOK, TypeOK
<1>2. CASE Claimable(b, r) /\ ClaimBatch(b, r) /\ run' = run
  <2>1. UNCHANGED <<item, task, closing, gone, faults, worked, scanned, dropped>> BY DEF Beat
  <2>2. /\ Grows /\ Rows' /\ batch' \in [Batch -> BatchRow] /\ replaced' \subseteq Run /\ resumed' \subseteq Batch
        /\ \A s \in Run : run[s].phase # "none" => Seen(s) /\ \A i \in Item : ItemSeen(s, i)
    BY <1>1, <1>2, <2>1, Claimed
  <2>3. Runs' BY <1>2, <2>1, <2>2, RunsStay DEF local
  <2>4. TypeOK' BY <1>2, <2>1, <2>2 DEF IInv, TypeOK
  <2> QED BY <2>2, <2>3, <2>4 DEF IInv
<1>3. CASE /\ run' = [run EXCEPT ![r].lost = TRUE, ![r].stopped = TRUE]
           /\ UNCHANGED <<batch, replaced, resumed>>
  <2> DEFINE row == [run[r] EXCEPT !.lost = TRUE, !.stopped = TRUE]
  <2>1. run' = [run EXCEPT ![r] = row] BY <1>1, <1>3 DEF IInv, TypeOK
  <2>2. row \in RunRow /\ row.phase = run[r].phase /\ row.node = run[r].node /\ row.batch = b /\ row.lost
    BY <1>1 DEF RunRow
  <2>3. Grows /\ task' = task /\ closing' = closing /\ UNCHANGED <<store, replaced, resumed>>
    BY <1>3 DEF Beat, Grows, store
  <2>4. Rows' /\ \A s \in Run : run[s].phase # "none" => Seen(s) /\ \A j \in Item : ItemSeen(s, j)
    BY <2>3, StoreKept
  <2>5. Runs' /\ run' \in [Run -> RunRow] BY <1>1, <2>1, <2>2, <2>3, <2>4, RunStep
  <2>6. TypeOK' BY <1>3, <2>5 DEF IInv, TypeOK, Beat
  <2> QED BY <2>4, <2>5, <2>6 DEF IInv
<1> QED BY <1>2, <1>3 DEF Beat

\* A new name has no items.
LEMMA FreshRun == ASSUME IInv, NEW r \in Run, Fresh(r) PROVE \A i \in Item : task[r][i].at = "none"
BY DEF Fresh, IInv, Runs, TaskOK

\* The row of a run that begins.
LEMMA BegunRow ==
    ASSUME NEW n \in Node, NEW b \in Batch, NEW phase \in {"claimed", "running", "over"}
    PROVE /\ Begun(phase, n, b) \in RunRow /\ Begun(phase, n, b).phase = phase
          /\ Begun(phase, n, b).node = n /\ Begun(phase, n, b).batch = b
          /\ ~Begun(phase, n, b).lost /\ ~Begun(phase, n, b).stopped
BY DEF Begun, NewRun, RunRow

\* A new run claims a batch (Runner.TakeOver).
LEMMA TakeOverStep == ASSUME IInv, NEW n \in Node, NEW b \in Batch, NEW r \in Run, TakeOver(n, b, r) PROVE IInv'
<1>1. UNCHANGED <<item, task, closing, gone, worked, scanned, dropped>> BY DEF TakeOver
<1>2. /\ Grows /\ Rows' /\ batch' \in [Batch -> BatchRow] /\ replaced' \subseteq Run /\ resumed' \subseteq Batch
      /\ batch'[b].state = "open" /\ batch'[b].owner = r
      /\ \A s \in Run : run[s].phase # "none" => Seen(s) /\ \A i \in Item : ItemSeen(s, i)
  BY <1>1, Claimed DEF TakeOver
<1>3. PICK phase \in {"claimed", "over"} : run' = [run EXCEPT ![r] = Begun(phase, n, b)] BY DEF TakeOver
<1> DEFINE row == Begun(phase, n, b)
<1>4. row \in RunRow /\ row.phase = phase /\ row.node = n /\ row.batch = b /\ ~row.lost /\ ~row.stopped
  BY SMTT(20), Z3T(20), BegunRow
<1>5. run' \in [Run -> RunRow] /\ run'[r] = row /\ \A s \in Run \ {r} : run'[s] = run[s]
  BY <1>3, <1>4, RunSet DEF IInv
<1>6. RunOK(r)' BY <1>2, <1>4, <1>5 DEF RunOK
<1>7. ~Holds(r)' BY <1>4, <1>5 DEF Holds
<1>8. \A i \in Item : TaskOK(r, i)' BY <1>1, FreshRun DEF TaskOK, MoveOK, TakeOver
<1>9. Runs' BY <1>1, <1>2, <1>5, <1>6, <1>7, <1>8, RunsKept DEF Agreeing
<1>10. faults' \in Nat BY SMTT(20), Z3T(20) DEF TakeOver, Fault, NoFault, IInv, TypeOK
<1>11. TypeOK' BY <1>1, <1>2, <1>5, <1>10 DEF IInv, TypeOK
<1> QED BY <1>2, <1>9, <1>11 DEF IInv

\* A new batch begins (Runner.Start).
LEMMA StartStep == ASSUME IInv, NEW n \in Node, NEW b \in Batch, NEW r \in Run, Start(n, b, r) PROVE IInv'
<1> DEFINE new == [NewBatch EXCEPT !.state = "open", !.owner = r]
<1>1. batch[b].state = "none" /\ batch' = [batch EXCEPT ![b] = new] /\ UNCHANGED <<item, closing, gone, history>>
  BY DEF Start, CreateBatch
<1>2. new \in BatchRow /\ new.state = "open" /\ new.owner = r /\ ~new.canceled BY DEF NewBatch, BatchRow
<1>3. batch' \in [Batch -> BatchRow] /\ batch'[b] = new /\ \A c \in Batch \ {b} : batch'[c] = batch[c]
  BY <1>1, <1>2, BatchSet DEF IInv
<1>4. Grows BY <1>1 DEF Grows, history
<1>5. \A c \in Batch : RowGoesOn(c) BY <1>1, <1>2, <1>3 DEF RowGoesOn, IInv, Rows, RowOK
<1>6. Rows' BY <1>1, <1>4, <1>5, StoreGoesOn
<1>7. ASSUME NEW s \in Run, run[s].phase # "none" PROVE Seen(s) /\ \A i \in Item : ItemSeen(s, i)
  <2>1. run[s].batch \in Batch \ {b} /\ batch[run[s].batch].state # "none"
    BY <1>1, <1>7 DEF IInv, Runs, RunOK
  <2> QED BY <1>1, <1>3, <2>1 DEF Seen, ItemSeen, history
<1>8. PICK phase \in {"running", "over"} :
         /\ run' = [run EXCEPT ![r] = Begun(phase, n, b)]
         /\ phase = "running" => task' = [task EXCEPT ![r] = [i \in Item |-> Queued(NewItem)]]
         /\ phase = "over" => task' = task
  BY DEF Start
<1> DEFINE row == Begun(phase, n, b)
<1>9. row \in RunRow /\ row.phase = phase /\ row.node = n /\ row.batch = b /\ ~row.lost /\ ~row.stopped
  BY SMTT(20), Z3T(20), BegunRow
<1>10. run' \in [Run -> RunRow] /\ run'[r] = row /\ \A s \in Run \ {r} : run'[s] = run[s]
  BY <1>8, <1>9, RunSet DEF IInv
<1>11. RunOK(r)' BY <1>2, <1>3, <1>9, <1>10 DEF RunOK
<1>12. /\ task' \in [Run -> [Item -> TaskRow]] /\ \A s \in Run \ {r} : task'[s] = task[s]
       /\ phase = "running" => \A i \in Item : task'[r][i].at = "queued"
       /\ phase = "over" => \A i \in Item : task'[r][i].at = "none"
  <2>1. task \in [Run -> [Item -> TaskRow]] BY DEF IInv, TypeOK
  <2>2. Queued(NewItem) \in TaskRow /\ Queued(NewItem).at = "queued" BY TaskTypes
  <2>3. CASE phase = "running" BY <1>8, <2>1, <2>2, <2>3
  <2>4. CASE phase = "over" BY <1>8, <2>1, <2>4, FreshRun DEF Start
  <2> QED BY <2>3, <2>4
<1>13. \A i \in Item : TaskOK(r, i)' BY <1>9, <1>10, <1>12 DEF TaskOK, MoveOK
<1>14. ASSUME Holds(r)', NEW i \in Item PROVE Agrees(r, i)'
  <2>1. phase = "running" BY <1>9, <1>10, <1>14 DEF Holds
  <2>2. task'[r][i].at = "queued" BY <1>12, <1>14, <2>1
  <2>3. item'[b][i].state = "pending" BY <1>1, <1>14 DEF IInv, Rows, ItemOK
  <2> QED BY <1>9, <1>10, <2>2, <2>3 DEF Agrees
<1>15. Runs' BY <1>4, <1>7, <1>10, <1>11, <1>12, <1>13, <1>14, RunsKept DEF Agreeing
<1>16. faults' \in Nat BY SMTT(20), Z3T(20) DEF Start, Fault, NoFault, IInv, TypeOK
<1>17. TypeOK' BY <1>1, <1>3, <1>10, <1>12, <1>16 DEF IInv, TypeOK, history
<1> QED BY <1>6, <1>15, <1>17 DEF IInv

-----------------------------------------------------------------------------
(* Steps on the items.                                                     *)

\* The end of a batch by the run that keeps it: what it cancels was asked for.
LEMMA Ended ==
    ASSUME IInv, NEW r \in Run, NEW b, b = run[r].batch, FinishBatch(b), Owned(b, r),
           run[r].phase \in {"running", "finish"},
           ~run[r].lost, run[r].node \notin closing, \A i \in Item : task[r][i].at = "none",
           UNCHANGED <<closing, gone, history>>
    PROVE /\ Rows' /\ batch' \in [Batch -> BatchRow] /\ item' \in [Batch -> [Item -> ItemRow]]
          /\ \A s \in Run : run[s].phase # "none" => Seen(s) /\ \A i \in Item : ItemSeen(s, i)
<1> DEFINE end == [batch[b] EXCEPT !.state = "finished"]
<1>1. b \in Batch /\ batch[b] \in BatchRow /\ batch[b].owner = r /\ batch[b].state = "open"
  BY DEF IInv, Runs, RunOK, TypeOK, Owned, Open
<1>2. end \in BatchRow /\ end.state = "finished" /\ end.owner = r /\ end.canceled = batch[b].canceled
  BY <1>1 DEF BatchRow
<1>3. batch' \in [Batch -> BatchRow] /\ batch'[b] = end /\ \A c \in Batch \ {b} : batch'[c] = batch[c]
  BY <1>1, <1>2, BatchSet DEF IInv, FinishBatch
<1>4. ASSUME NEW i \in Item
      PROVE /\ item[b][i] \in ItemRow /\ [item[b][i] EXCEPT !.state = "canceled"] \in ItemRow
            /\ [item[b][i] EXCEPT !.state = "canceled"].state = "canceled"
  <2>1. item[b][i] \in ItemRow BY <1>1 DEF IInv, TypeOK
  <2> QED BY <2>1 DEF ItemRow, ItemState, Settled
<1>5. /\ item' \in [Batch -> [Item -> ItemRow]] /\ \A c \in Batch \ {b} : item'[c] = item[c]
      /\ \A i \in Item : item'[b][i] = IF item[b][i].state \in Settled THEN item[b][i]
                                       ELSE [item[b][i] EXCEPT !.state = "canceled"]
  BY <1>1, <1>4 DEF IInv, TypeOK, FinishBatch
<1>6. Grows BY DEF Grows, history
<1>7. ASSUME NEW i \in Item PROVE ItemOK(b, i)'
  <2>1. ItemOK(b, i) BY <1>1 DEF IInv, Rows
  <2>2. CASE item[b][i].state \in Settled
    <3>1. item'[b][i] = item[b][i] BY <1>5, <2>2
    <3> QED BY <1>2, <1>3, <2>1, <2>2, <3>1 DEF ItemOK, history
  <2>3. CASE item[b][i].state \notin Settled
    <3>1. item'[b][i].state = "canceled" BY <1>4, <1>5, <2>3
    <3>2. b \notin resumed => Holds(r) BY DEF Holds
    <3>3. b \notin resumed => batch[b].canceled \/ b \in gone
      BY <2>3, <3>2 DEF IInv, Runs, Agreeing, Agrees
    <3> QED BY <1>2, <1>3, <3>1, <3>3 DEF ItemOK, history, Settled
  <2> QED BY <2>2, <2>3
<1>8. RowOK(b)' BY <1>2, <1>3 DEF RowOK
<1>9. ASSUME NEW c \in Batch \ {b} PROVE RowOK(c)' /\ \A i \in Item : ItemOK(c, i)'
  <2>1. RowGoesOn(c) BY <1>3 DEF RowGoesOn, IInv, Rows, RowOK
  <2> QED BY <1>5, <1>6, <2>1, RowsKept DEF IInv, Rows
<1>10. Rows' BY <1>7, <1>8, <1>9 DEF Rows
<1>11. ASSUME NEW s \in Run, run[s].phase # "none" PROVE Seen(s) /\ \A i \in Item : ItemSeen(s, i)
  <2>1. run[s].batch \in Batch /\ batch[run[s].batch].state # "none" BY <1>11 DEF IInv, Runs, RunOK
  <2>2. CASE run[s].batch = b BY <1>1, <1>2, <1>3, <2>2 DEF Seen, ItemSeen
  <2>3. CASE run[s].batch # b BY <1>3, <1>5, <2>1, <2>3 DEF Seen, ItemSeen, history
  <2> QED BY <2>2, <2>3
<1> QED BY <1>3, <1>5, <1>10, <1>11

\* A run ends, with its batch or without (Runner.execute).
LEMMA FinishStep == ASSUME IInv, NEW r \in Run, Finish(r) PROVE IInv'
<1> DEFINE b == run[r].batch
           row == [run[r] EXCEPT !.phase = "over"]
<1>1. /\ run[r].phase \in {"running", "finish"} /\ run[r] \in RunRow /\ run' = [run EXCEPT ![r] = row]
      /\ \A i \in Item : task[r][i].at = "none"
      /\ UNCHANGED <<task, closing, gone, history>>
  BY DEF Finish, Retire, IInv, TypeOK
<1>2. /\ row \in RunRow /\ row.phase = "over" /\ row.node = run[r].node /\ row.batch = b
      /\ row.lost = run[r].lost /\ row.stopped = run[r].stopped
  BY <1>1 DEF RunRow
<1>3. run' \in [Run -> RunRow] /\ run'[r] = row /\ \A s \in Run \ {r} : run'[s] = run[s]
  BY <1>1, <1>2, RunSet DEF IInv
<1>4. Grows BY <1>1 DEF Grows, history
<1>5. /\ Rows' /\ batch' \in [Batch -> BatchRow] /\ item' \in [Batch -> [Item -> ItemRow]]
      /\ \A s \in Run : run[s].phase # "none" => Seen(s) /\ \A i \in Item : ItemSeen(s, i)
  <2>1. CASE UNCHANGED store
    <3>1. UNCHANGED <<store, replaced, resumed>> BY <1>1, <2>1 DEF history
    <3> QED BY <1>1, <1>4, <3>1, StoreKept DEF IInv, TypeOK, store
  <2>2. CASE ~run[r].lost /\ run[r].node \notin closing /\ Owned(b, r) /\ FinishBatch(b)
    BY <1>1, <2>2, Ended
  <2> QED BY <2>1, <2>2 DEF Finish
<1>6. batch'[b].state # "none" /\ (batch[b].canceled => batch'[b].canceled) BY <1>1, <1>5 DEF Seen
<1>7. RunOK(r)' /\ Agreeing(r)' /\ \A i \in Item : TaskOK(r, i)'
  BY <1>1, <1>2, <1>3, <1>6, RunEnds DEF IInv, Runs
<1>8. Runs' BY <1>1, <1>3, <1>4, <1>5, <1>7, RunsKept
<1>9. faults' \in Nat BY SMTT(20), Z3T(20) DEF Finish, Fault, NoFault, IInv, TypeOK
<1>10. TypeOK' BY <1>1, <1>3, <1>5, <1>9 DEF IInv, TypeOK, history
<1> QED BY <1>5, <1>8, <1>10 DEF IInv

\* A write of the owner: the item is what it wrote, or it was not in state from.
LEMMA Moved ==
    ASSUME IInv, NEW r \in Run, NEW i \in Item, NEW b, b = run[r].batch, NEW t, t = task[r][i],
           t.at = "move", Owned(b, r), MoveItem(b, i, t.row, t.from),
           UNCHANGED <<closing, gone, scanned, dropped, replaced, resumed>>
    PROVE /\ Grows /\ Rows' /\ batch' \in [Batch -> BatchRow] /\ item' \in [Batch -> [Item -> ItemRow]]
          /\ item'[b][i] = IF Moves(b, i, t.from) THEN t.row ELSE item[b][i]
          /\ \A s \in Run : run[s].phase # "none" => Seen(s)
          /\ \A s \in Run \ {r} : run[s].phase # "none" => \A j \in Item : ItemSeen(s, j)
          /\ \A j \in Item \ {i} : ItemSeen(r, j)
<1> DEFINE beaten == [batch[b] EXCEPT !.stale = FALSE]
<1>1. /\ b \in Batch /\ batch[b] \in BatchRow /\ batch[b].owner = r /\ batch[b].state = "open"
      /\ t \in TaskRow /\ t.row \in ItemRow /\ MoveOK(b, i, t)
  BY DEF IInv, Runs, RunOK, TypeOK, TaskRow, Owned, Open, TaskOK
<1>2. beaten \in BatchRow /\ beaten.state = "open" /\ beaten.owner = r /\ beaten.canceled = batch[b].canceled
  BY <1>1 DEF BatchRow
<1>3. batch' \in [Batch -> BatchRow] /\ batch'[b] = beaten /\ \A c \in Batch \ {b} : batch'[c] = batch[c]
  BY <1>1, <1>2, BatchSet DEF IInv, MoveItem
<1>4. /\ item' \in [Batch -> [Item -> ItemRow]] /\ \A c \in Batch \ {b} : item'[c] = item[c]
      /\ \A j \in Item \ {i} : item'[b][j] = item[b][j]
      /\ item'[b][i] = IF Moves(b, i, t.from) THEN t.row ELSE item[b][i]
  BY <1>1 DEF IInv, TypeOK, MoveItem
<1>5. Grows BY DEF Grows
<1>6. ASSUME NEW c \in Batch \ {b} PROVE RowGoesOn(c)
  <2>1. batch'[c] = batch[c] /\ RowOK(c) BY <1>3, <1>6 DEF IInv, Rows
  <2> QED BY <2>1 DEF RowGoesOn, RowOK
<1>7. ASSUME NEW j \in Item PROVE ItemOK(b, j)'
  <2>1. ItemOK(b, j) BY <1>1 DEF IInv, Rows
  <2>2. CASE item'[b][j] = item[b][j] BY <1>1, <1>2, <1>3, <2>1, <2>2 DEF ItemOK
  <2>3. CASE j = i /\ item'[b][i] = t.row BY <1>1, <1>2, <1>3, <2>3 DEF ItemOK, MoveOK
  <2> QED BY <1>4, <2>2, <2>3
<1>8. ASSUME NEW c \in Batch PROVE RowOK(c)' /\ \A j \in Item : ItemOK(c, j)'
  <2>1. CASE c = b BY <1>1, <1>2, <1>3, <1>7, <2>1 DEF RowOK
  <2>2. CASE c # b BY <1>4, <1>5, <1>6, <2>2, RowsKept DEF IInv, Rows
  <2> QED BY <2>1, <2>2
<1>9. ASSUME NEW s \in Run, run[s].phase # "none"
      PROVE Seen(s) /\ (s # r => \A j \in Item : ItemSeen(s, j))
  <2>1. run[s].batch \in Batch /\ batch[run[s].batch].state # "none" BY <1>9 DEF IInv, Runs, RunOK
  <2>2. CASE run[s].batch = b
    <3>1. batch'[b].state = "open" /\ batch'[b].owner = r /\ batch'[b].canceled = batch[b].canceled
      BY <1>2, <1>3
    <3>2. Seen(s) BY <1>1, <2>2, <3>1 DEF Seen
    <3> QED BY <2>2, <3>1, <3>2 DEF ItemSeen
  <2>3. CASE run[s].batch # b BY <1>3, <1>4, <2>1, <2>3 DEF Seen, ItemSeen
  <2> QED BY <2>2, <2>3
<1>10. \A j \in Item \ {i} : ItemSeen(r, j) BY <1>4 DEF ItemSeen
<1> QED BY <1>3, <1>4, <1>5, <1>8, <1>9, <1>10 DEF Rows

\* The store answers a write (Runner.move).
LEMMA MoveAnsweredStep == ASSUME IInv, NEW r \in Run, NEW i \in Item, MoveAnswered(r, i) PROVE IInv'
<1> DEFINE b == run[r].batch
           t == task[r][i]
<1>1. /\ t.at = "move" /\ Owned(b, r) /\ MoveItem(b, i, t.row, t.from)
      /\ UNCHANGED <<closing, gone, faults, scanned, dropped, replaced, resumed>>
  BY DEF MoveAnswered, CanMove
<1>2. run[r].phase \in {"requeue", "running"} /\ t \in TaskRow BY <1>1 DEF IInv, Runs, TaskOK, TypeOK
<1>3. /\ Grows /\ Rows' /\ batch' \in [Batch -> BatchRow] /\ item' \in [Batch -> [Item -> ItemRow]]
      /\ item'[b][i] = IF Moves(b, i, t.from) THEN t.row ELSE item[b][i]
      /\ \A s \in Run : run[s].phase # "none" => Seen(s)
      /\ \A s \in Run \ {r} : run[s].phase # "none" => \A j \in Item : ItemSeen(s, j)
      /\ \A j \in Item \ {i} : ItemSeen(r, j)
  BY SMTT(20), Z3T(20), <1>1, Moved
<1>4. Holds(r) => Moves(b, i, t.from) \/ (t.tries > 0 /\ item[b][i] = t.row)
  BY <1>1 DEF IInv, Runs, Agreeing, Agrees, Moves
<1>5. /\ RunOK(r)' /\ Agreeing(r)' /\ \A j \in Item : TaskOK(r, j)'
      /\ run' \in [Run -> RunRow] /\ task' \in [Run -> [Item -> TaskRow]] /\ worked' \in [Batch -> [Item -> Nat]]
      /\ \A s \in Run \ {r} : run'[s] = run[s] /\ task'[s] = task[s]
  <2>1. CASE Moves(b, i, t.from) /\ Made(r, i)
    <3>1. item'[b][i] = t.row BY <1>3, <2>1
    <3> QED BY <1>1, <1>2, <1>3, <2>1, <3>1, MadeRun
  <2>2. CASE ~Moves(b, i, t.from) /\ t.tries = 0 /\ NotMade(r, i)
    <3>1. ~Holds(r) BY <1>4, <2>2
    <3> QED BY <1>1, <1>2, <1>3, <2>2, <3>1, NotMadeRun
  <2>3. CASE /\ ~Moves(b, i, t.from) /\ SetTask(r, i, [t EXCEPT !.at = "read"])
             /\ UNCHANGED <<run, worked>>
    <3> DEFINE u == [t EXCEPT !.at = "read"]
    <3>1. u \in TaskRow /\ u.at = "read" /\ u.row = t.row /\ u.from = t.from BY <1>2 DEF TaskRow
    <3>2. /\ task' \in [Run -> [Item -> TaskRow]] /\ task'[r][i] = u
          /\ \A s \in Run \ {r} : task'[s] = task[s]
      BY SMTT(20), Z3T(20), <2>3, <3>1, TaskSet DEF IInv
    <3>3. MoveOK(b, i, task[r][i])'
      <4>1. MoveOK(b, i, t) BY DEF IInv, Runs, TaskOK
      <4> QED BY <1>1, <2>3, <3>1, <3>2, <4>1 DEF MoveOK
    <3>4. ASSUME Holds(r) PROVE Agrees(r, i)'
      <4>1. item'[b][i] = t.row BY <1>3, <1>4, <2>3, <3>4
      <4> QED BY <2>3, <3>1, <3>2, <4>1 DEF Agrees
    <3>5. RunOK(r)' /\ Agreeing(r)' /\ \A j \in Item : TaskOK(r, j)'
      BY <1>2, <1>3, <2>3, <3>1, <3>3, <3>4, RunSetsTask DEF IInv, Runs
    <3> QED BY <2>3, <3>2, <3>5 DEF IInv, TypeOK
  <2> QED BY <2>1, <2>2, <2>3 DEF MoveAnswered
<1>6. Runs' BY <1>3, <1>5, RunsKept
<1>7. TypeOK' BY <1>1, <1>3, <1>5 DEF IInv, TypeOK
<1> QED BY <1>3, <1>6, <1>7 DEF IInv

\* The answer of a write is lost, made or not (Runner.move).
LEMMA MoveFailsStep == ASSUME IInv, NEW r \in Run, NEW i \in Item, MoveFails(r, i) PROVE IInv'
<1> DEFINE b == run[r].batch
           t == task[r][i]
<1>1. t.at = "move" /\ UNCHANGED <<closing, gone, scanned, dropped, replaced, resumed>>
  BY DEF MoveFails, CanMove
<1>2. /\ run[r].phase \in {"requeue", "running"} /\ t \in TaskRow /\ t.tries \in Nat
      /\ t.row \in ItemRow
  BY SMTT(20), Z3T(20), <1>1 DEF IInv, Runs, TaskOK, TypeOK, TaskRow
<1>3. /\ Grows /\ Rows' /\ batch' \in [Batch -> BatchRow] /\ item' \in [Batch -> [Item -> ItemRow]]
      /\ item'[b][i] \in {t.row, item[b][i]}
      /\ \A s \in Run : run[s].phase # "none" => Seen(s)
      /\ \A s \in Run \ {r} : run[s].phase # "none" => \A j \in Item : ItemSeen(s, j)
      /\ \A j \in Item \ {i} : ItemSeen(r, j)
  <2>1. CASE Owned(b, r) /\ MoveItem(b, i, t.row, t.from) BY SMTT(20), Z3T(20), <1>1, <2>1, Moved
  <2>2. CASE UNCHANGED store
    <3>1. Grows /\ UNCHANGED <<store, replaced, resumed>> /\ closing \subseteq closing' BY <1>1, <2>2 DEF Grows
    <3>2. item' = item /\ batch' = batch BY <2>2 DEF store
    <3> QED BY <1>2, <3>1, <3>2, StoreKept DEF IInv, TypeOK
  <2> QED BY <2>1, <2>2 DEF MoveFails
<1>4. /\ RunOK(r)' /\ Agreeing(r)' /\ \A j \in Item : TaskOK(r, j)'
      /\ run' \in [Run -> RunRow] /\ task' \in [Run -> [Item -> TaskRow]] /\ worked' \in [Batch -> [Item -> Nat]]
      /\ \A s \in Run \ {r} : run'[s] = run[s] /\ task'[s] = task[s]
  <2>1. CASE LoseAt(r, i)
    <3>1. worked' = worked BY <2>1 DEF LoseAt
    <3> QED BY <1>2, <1>3, <2>1, <3>1, RunLost DEF IInv, Runs, TypeOK
  <2>2. CASE SetTask(r, i, [t EXCEPT !.tries = @ + 1]) /\ UNCHANGED <<run, worked>>
    <3> DEFINE u == [t EXCEPT !.tries = @ + 1]
    <3>1. u \in TaskRow /\ u.at = "move" /\ u.row = t.row /\ u.from = t.from /\ u.tries = t.tries + 1
      BY SMTT(20), Z3T(20), <1>1, <1>2 DEF TaskRow
    <3>2. /\ task' \in [Run -> [Item -> TaskRow]] /\ task'[r][i] = u
          /\ \A s \in Run \ {r} : task'[s] = task[s]
      BY SMTT(20), Z3T(20), <2>2, <3>1, TaskSet DEF IInv
    <3>3. MoveOK(b, i, task[r][i])'
      <4>1. MoveOK(b, i, t) BY DEF IInv, Runs, TaskOK
      <4> QED BY <1>1, <2>2, <3>1, <3>2, <4>1 DEF MoveOK
    <3>4. ASSUME Holds(r) PROVE Agrees(r, i)'
      <4>1. item[b][i].state = t.from \/ item[b][i] = t.row
        BY <1>1, <3>4 DEF IInv, Runs, Agreeing, Agrees
      <4>2. item'[b][i].state = t.from \/ item'[b][i] = t.row BY <1>3, <4>1
      <4>3. u.tries > 0 BY <1>2, <3>1
      <4> QED BY <2>2, <3>1, <3>2, <4>2, <4>3 DEF Agrees
    <3>5. RunOK(r)' /\ Agreeing(r)' /\ \A j \in Item : TaskOK(r, j)'
      BY <1>2, <1>3, <2>2, <3>1, <3>3, <3>4, RunSetsTask DEF IInv, Runs
    <3> QED BY <2>2, <3>2, <3>5 DEF IInv, TypeOK
  <2> QED BY <2>1, <2>2 DEF MoveFails
<1>5. Runs' BY <1>3, <1>4, RunsKept
<1>6. faults' \in Nat BY SMTT(20), Z3T(20) DEF MoveFails, Unanswered, Fault, NoFault, IInv, TypeOK
<1>7. TypeOK' BY <1>1, <1>3, <1>4, <1>6 DEF IInv, TypeOK
<1> QED BY <1>3, <1>5, <1>7 DEF IInv

-----------------------------------------------------------------------------
(* The theorems.                                                           *)

\* The empty store, without runs.
LEMMA Initially == ASSUME Init PROVE IInv
<1>1. NewItem \in ItemRow /\ NewItem.state = "pending" BY DEF NewItem, ItemRow, ItemState
<1>2. NewBatch \in BatchRow /\ NewBatch.state = "none" /\ ~NewBatch.canceled BY DEF NewBatch, BatchRow
<1>3. NewRun \in RunRow /\ NewRun.phase = "none" BY DEF NewRun, RunRow
<1>4. TypeOK BY <1>1, <1>2, <1>3, TaskTypes DEF Init, TypeOK
<1>5. Rows BY <1>1, <1>2 DEF Init, Rows, RowOK, ItemOK
<1>6. Runs BY <1>3, TaskTypes DEF Init, Runs, RunOK, Agreeing, Holds, TaskOK, MoveOK
<1> QED BY <1>4, <1>5, <1>6 DEF IInv

\* Every step keeps the invariant.
LEMMA Inductive == ASSUME IInv, [Next]_vars PROVE IInv'
<1>1. CASE \E n \in Node, b \in Batch, r \in Run : Start(n, b, r) \/ TakeOver(n, b, r)
  BY <1>1, StartStep, TakeOverStep
<1>2. ASSUME NEW r \in Run, Step(r) PROVE IInv'
  BY <1>2, ReadClaimedStep, ResumeStep, FinishStep, MoveAnsweredStep, MoveRefusedStep, MoveFailsStep,
     MoveAbandonedStep, ReadBackStep, TakeStep, LaterStep, WorkStep DEF Step
<1>3. ASSUME NEW r \in Run, Heartbeat(r) PROVE IInv' BY <1>3, BeatStep, StopCanceledStep DEF Heartbeat
<1>4. CASE \E b \in Batch : Cancel(b) \/ Age(b) BY <1>4, CancelStep, AgeStep
<1>5. CASE \E n \in Node : Crash(n) \/ Close(n) \/ Restart(n) BY <1>5, CrashStep, CloseStep, RestartStep
<1>6. CASE UNCHANGED vars
  <2>1. Grows /\ UNCHANGED <<store, replaced, resumed>> /\ closing \subseteq closing' /\ UNCHANGED local
    BY <1>6 DEF vars, store, local, history, Grows
  <2>2. Rows' /\ Runs' BY <2>1, StoreKept, RunsStay
  <2>3. TypeOK' BY <1>6 DEF IInv, TypeOK, vars, store, local, history
  <2> QED BY <2>2, <2>3 DEF IInv
<1> QED BY <1>1, <1>2, <1>3, <1>4, <1>5, <1>6 DEF Next

\* The inductive invariant holds of every behaviour.
THEOREM Invariance == Spec => []IInv
<1>1. Init => IInv BY Initially
<1>2. IInv /\ [Next]_vars => IInv' BY Inductive
<1> QED BY <1>1, <1>2, PTL DEF Spec

\* The rows of the store and what the runs keep in memory have their types.
THEOREM TypeCorrect == Spec => []TypeOK
<1>1. IInv => TypeOK BY DEF IInv
<1> QED BY <1>1, Invariance, PTL

\* A run that keeps its batch and the store agree on every item, whatever
\* answers of the store were lost (Runner.move, written).
THEOREM Agreement == Spec => []RunsAgree
<1>1. IInv => RunsAgree BY DEF IInv, Runs, Agreeing, RunsAgree
<1> QED BY <1>1, Invariance, PTL

\* No crash, lost answer or takeover leaves an item behind: one that ends
\* canceled was to be (FinishBatch).
THEOREM NoneLeftBehind == Spec => []NothingLeftBehind
<1>1. IInv => NothingLeftBehind BY DEF IInv, Rows, ItemOK, NothingLeftBehind
<1> QED BY <1>1, Invariance, PTL

\* What a step does to the items: nothing, a write by a run, or the end of a batch.
LEMMA ItemChanges ==
    ASSUME Next
    PROVE \/ item' = item
          \/ \E r \in Run, i \in Item :
                /\ task[r][i].at = "move" /\ r \in Active
                /\ MoveItem(run[r].batch, i, task[r][i].row, task[r][i].from)
          \/ \E r \in Run : run[r].phase \in {"running", "finish"} /\ FinishBatch(run[r].batch)
<1> DEFINE Goal == \/ item' = item
                   \/ \E r \in Run, i \in Item :
                         /\ task[r][i].at = "move" /\ r \in Active
                         /\ MoveItem(run[r].batch, i, task[r][i].row, task[r][i].from)
                   \/ \E r \in Run : run[r].phase \in {"running", "finish"} /\ FinishBatch(run[r].batch)
<1>1. CASE \E n \in Node, b \in Batch, r \in Run : Start(n, b, r) \/ TakeOver(n, b, r)
  BY <1>1 DEF Start, TakeOver
<1>2. ASSUME NEW r \in Run, Step(r) PROVE Goal
  <2>1. CASE ReadClaimed(r) \/ Resume(r) BY <2>1 DEF ReadClaimed, Resume, store
  <2>2. CASE Finish(r) BY <2>2 DEF Finish, store
  <2>3. ASSUME NEW i \in Item, MoveAnswered(r, i) \/ MoveFails(r, i) PROVE Goal
    BY <2>3 DEF MoveAnswered, MoveFails, CanMove, store
  <2>4. ASSUME NEW i \in Item, MoveRefused(r, i) \/ MoveAbandoned(r, i) \/ ReadBack(r, i) PROVE Goal
    BY <2>4 DEF MoveRefused, MoveAbandoned, ReadBack, store
  <2>5. ASSUME NEW i \in Item, Take(r, i) \/ Later(r, i) \/ \E result \in Results : Work(r, i, result) PROVE Goal
    BY <2>5 DEF Take, Later, Work, store
  <2> QED BY <1>2, <2>1, <2>2, <2>3, <2>4, <2>5 DEF Step
<1>3. CASE \E r \in Run : Heartbeat(r) BY <1>3 DEF Heartbeat, Beat, StopCanceled, store
<1>4. CASE \E b \in Batch : Cancel(b) \/ Age(b) BY <1>4 DEF Cancel, Age
<1>5. CASE \E n \in Node : Crash(n) \/ Close(n) \/ Restart(n) BY <1>5 DEF Crash, Close, Restart, store
<1> QED BY <1>1, <1>2, <1>3, <1>4, <1>5 DEF Next

\* Items only move forward, and a finished batch leaves nothing unsettled:
\* no run undoes what another one settled (MoveItem, FinishBatch).
THEOREM Forward == Spec => ItemsMoveForward
<1>1. ASSUME IInv, IInv', Next PROVE \A b \in Batch, i \in Item : ItemStep(b, i)
  <2> SUFFICES ASSUME NEW b \in Batch, NEW i \in Item PROVE ItemStep(b, i) OBVIOUS
  <2>1. ItemOK(b, i)' BY <1>1 DEF IInv, Rows
  <2>2. SUFFICES /\ item[b][i].state \in Settled => item'[b][i] = item[b][i]
                 /\ item[b][i].state = "pending" /\ item'[b][i].state # "pending" =>
                       item'[b][i].state = "running" \/ batch'[b].state = "finished"
    BY <2>1 DEF ItemStep, ItemOK
  <2>3. item \in [Batch -> [Item -> ItemRow]] /\ batch \in [Batch -> BatchRow] BY <1>1 DEF IInv, TypeOK
  <2>4. CASE item' = item BY <2>4
  <2>5. ASSUME NEW r \in Run, NEW j \in Item, task[r][j].at = "move", r \in Active,
               MoveItem(run[r].batch, j, task[r][j].row, task[r][j].from)
        PROVE item'[b][i] = item[b][i] \/ (item[b][i].state = task[r][j].from /\ item'[b][i] = task[r][j].row)
    BY <2>3, <2>5 DEF MoveItem, Moves
  <2>6. ASSUME NEW r \in Run, NEW j \in Item, task[r][j].at = "move"
        PROVE /\ task[r][j].from \in {"pending", "running"}
              /\ task[r][j].from = "pending" => task[r][j].row.state = "running"
    <3>1. task[r][j] \in TaskRow BY SMTT(20), Z3T(20), <1>1 DEF IInv, TypeOK
    <3>2. TaskOK(r, j) BY <1>1 DEF IInv, Runs
    <3>3. task[r][j].from \in {"pending", "running"} BY <3>1 DEF TaskRow
    <3> QED BY <2>6, <3>2, <3>3 DEF TaskOK, MoveOK
  <2>7. ASSUME NEW r \in Run, run[r].phase \in {"running", "finish"}, FinishBatch(run[r].batch)
        PROVE \/ item'[b][i] = item[b][i]
              \/ item[b][i].state \notin Settled /\ batch'[b].state = "finished"
    BY <2>3, <2>7 DEF FinishBatch, BatchRow
  <2> QED BY <1>1, <2>4, <2>5, <2>6, <2>7, ItemChanges DEF Settled
<1>2. ASSUME IInv, IInv', [Next]_vars PROVE [\A b \in Batch, i \in Item : ItemStep(b, i)]_vars
  BY <1>1, <1>2
<1> QED BY <1>2, Invariance, PTL DEF Spec, ItemsMoveForward
=============================================================================
