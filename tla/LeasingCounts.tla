--------------------------- MODULE LeasingCounts ----------------------------
(***************************************************************************)
(* The theorem on the attempts of Leasing, for any processes, batches,     *)
(* items and runs and any number of faults: no item is worked more often   *)
(* than its attempts say, and those have a bound.                          *)
(***************************************************************************)
EXTENDS LeasingProofs

USE ZenonT(20), SMTT(10), Z3T(10)

-----------------------------------------------------------------------------
(* Attempts.  What a run that keeps its batch knows of them, and what it    *)
(* may still learn.                                                         *)

\* A run that writes to the items of its batch.
Keeps(r) ==
    LET b == run[r].batch IN
    /\ run[r].phase \in {"requeue", "running", "finish"} /\ ~run[r].lost
    /\ Owned(b, r) /\ b \notin resumed

\* What the attempts of an item are before it is moved to row.
Before(row) == IF row.state = "running" THEN row.attempts - 1 ELSE row.attempts

\* Run q reads back whether it has item i of b to work.
Asks(q, b, i) == run[q].batch = b /\ task[q][i].at = "read" /\ task[q][i].row.state = "running"

\* The move of run r to work item i was made, and r does not know it.
Unknown(r, i) ==
    LET t == task[r][i] IN
    t.at = "move" /\ t.tries > 0 /\ t.row.state = "running" /\ item[run[r].batch][i] = t.row

\* The run counts on from the attempts of the store, and what it moved to be
\* worked was not worked, nor will be by another run that reads it back.
Tracks(r, i) ==
    LET b == run[r].batch
        t == task[r][i]
    IN  /\ t.at \in {"queued", "waiting", "work"} => item[b][i].attempts = t.row.attempts
        /\ t.at = "move" => item[b][i].attempts = Before(t.row) \/ (t.tries > 0 /\ item[b][i] = t.row)
        /\ Unknown(r, i) =>
              /\ worked[b][i] < t.row.attempts
              /\ \A q \in Run \ {r} : Asks(q, b, i) => task[q][i].row.attempts < t.row.attempts

\* Most attempts an item has; one that is pending has another one left.
Most == Attempts + Cardinality(replaced)
Bounded(row, n) == row.attempts <= n /\ (row.state = "pending" => row.attempts < n)

\* What the run moves an item to is within the bound.
Entitled(r, i) ==
    LET t == task[r][i] IN
    /\ t.at \in {"queued", "waiting"} => t.row.attempts < Most
    /\ t.at = "move" => Bounded(t.row, Most)

Knows(r, i) == Keeps(r) => Tracks(r, i) /\ Entitled(r, i)

\* Runs that read an item back ask for different attempts, and what the one that
\* asks for the last attempt asks for was not worked.
Awaits(q, i) ==
    LET b == run[q].batch
        n == task[q][i].row.attempts
    IN  b \notin resumed /\ Asks(q, b, i) =>
          /\ n <= item[b][i].attempts
          /\ n = item[b][i].attempts => worked[b][i] < n
          /\ \A p \in Run \ {q} : Asks(p, b, i) => task[p][i].row.attempts # n

\* Only what was pending is moved to running, and only by a run that works: one
\* that queues the items of the last owner moves them to pending.
Turned(r, i) ==
    LET t == task[r][i] IN
    /\ t.at = "move" /\ t.from = "running" => t.row.state # "running"
    /\ run[r].phase = "requeue" =>
          t.at \in {"none", "queued"} \/ (t.at \in {"move", "read"} /\ t.row.state = "pending")

\* The owner of batch b has not begun to work its items.
Claiming(b) == batch[b].state = "open" /\ run[batch[b].owner].phase \in {"claimed", "requeue"}

\* Items are worked as often as their attempts say at most, and those found
\* running by a run that takes the batch over have another attempt left.
Counted(b, i) ==
    /\ b \notin resumed =>
          /\ worked[b][i] <= item[b][i].attempts /\ Bounded(item[b][i], Most)
          /\ Claiming(b) /\ item[b][i].state = "running" => item[b][i].attempts < Most
    /\ batch[b].state = "none" => item[b][i].attempts = 0 /\ worked[b][i] = 0

\* The owner of a batch is a run of it, and was not replaced.
Owner(b) ==
    batch[b].state # "none" =>
        LET o == batch[b].owner IN
        /\ run[o].phase # "none" /\ run[o].batch = b
        /\ b \notin resumed => o \notin replaced
Owners ==
    /\ IsFiniteSet(replaced) /\ Most \in Nat /\ Attempts <= Most
    /\ \A r \in replaced : run[r].phase # "none"
    /\ \A b \in Batch : Owner(b)

CInv ==
    /\ \A b \in Batch, i \in Item : Counted(b, i)
    /\ \A r \in Run, i \in Item : Knows(r, i) /\ Awaits(r, i) /\ Turned(r, i)
    /\ Owners

\* Nothing happens to item i of run r.
Same(r, i) ==
    /\ task'[r][i] = task[r][i] /\ run'[r].batch = run[r].batch
    /\ run'[r].phase = "requeue" => run[r].phase = "requeue"
    /\ Keeps(r)' => Keeps(r) /\ item'[run[r].batch][i] = item[run[r].batch][i]

\* Whoever reads an item back did so before, when nothing happens to those who do.
LEMMA AsksBefore ==
    ASSUME NEW q, NEW i, NEW b, Asks(q, b, i)', task'[q][i].at = "none" \/ Same(q, i)
    PROVE Asks(q, b, i) /\ task'[q][i] = task[q][i]
BY DEF Asks, Same

\* A step that lets items go and changes nothing else of the attempts.
LEMMA Calm ==
    ASSUME IInv, IInv', CInv, Owners', Most <= Most', resumed \subseteq resumed', worked' = worked,
           \A b \in Batch, i \in Item :
               /\ item'[b][i].attempts = item[b][i].attempts
               /\ item'[b][i] = item[b][i] \/ item'[b][i].state \notin {"pending", "running"},
           \A b \in Batch : batch'[b].state = "none" => batch[b].state = "none",
           \A r \in Run, i \in Item : task'[r][i].at = "none" \/ Same(r, i),
           \A b \in Batch, i \in Item : b \notin resumed' /\ Claiming(b)' /\ item'[b][i].state = "running" =>
               item'[b][i].attempts < Most'
    PROVE CInv'
<1>0. Most \in Nat /\ Most' \in Nat
  <2>1. Most \in Nat BY DEF CInv, Owners
  <2>2. Most' \in Nat BY DEF Owners
  <2> QED BY <2>1, <2>2
<1>1. ASSUME NEW b \in Batch, NEW i \in Item PROVE Counted(b, i)'
  <2>1. Counted(b, i) /\ item[b][i].attempts \in Nat BY <1>1 DEF CInv, IInv, TypeOK, ItemRow
  <2>2. ASSUME b \notin resumed' PROVE Bounded(item[b][i], Most)'
    <3>1. Bounded(item[b][i], Most) BY <2>1, <2>2 DEF Counted
    <3> QED BY SMTT(20), Z3T(20), <1>0, <1>1, <2>1, <3>1 DEF Bounded
  <2> QED BY <1>1, <2>1, <2>2 DEF Counted
<1>2. ASSUME NEW r \in Run, NEW i \in Item PROVE Knows(r, i)' /\ Awaits(r, i)' /\ Turned(r, i)'
  <2>1. CASE task'[r][i].at = "none"
    BY <2>1 DEF Knows, Tracks, Entitled, Unknown, Awaits, Asks, Turned
  <2>2. CASE Same(r, i) /\ task[r][i].at # "none"
    <3>0. /\ Knows(r, i) /\ Awaits(r, i) /\ Turned(r, i) /\ run[r].batch \in Batch
          /\ task[r][i].row \in ItemRow /\ task[r][i].row.attempts \in Nat
      <4>1. run[r].phase \in {"requeue", "running"} BY <1>2, <2>2 DEF IInv, Runs, TaskOK
      <4>2. run[r].batch \in Batch BY <1>2, <4>1 DEF IInv, Runs, RunOK
      <4>3. task[r][i].row \in ItemRow BY SMTT(20), Z3T(20), <1>2 DEF IInv, TypeOK, TaskRow
      <4>4. task[r][i].row.attempts \in Nat BY <4>3 DEF ItemRow
      <4> QED BY <1>2, <4>2, <4>3, <4>4 DEF CInv
    <3>1. \A q \in Run, b \in Batch : Asks(q, b, i)' => Asks(q, b, i) /\ task'[q][i] = task[q][i]
      BY <1>2, AsksBefore
    <3>2. Turned(r, i)' BY <2>2, <3>0 DEF Turned, Same
    <3>3. Awaits(r, i)' BY SMTT(20), Z3T(20), <1>2, <2>2, <3>0, <3>1 DEF Awaits, Same
    <3>4. ASSUME Keeps(r)' PROVE Tracks(r, i)' /\ Entitled(r, i)'
      <4>1. /\ Tracks(r, i) /\ Entitled(r, i) /\ task'[r][i] = task[r][i] /\ run'[r].batch = run[r].batch
            /\ item'[run[r].batch][i] = item[run[r].batch][i]
        BY <2>2, <3>0, <3>4 DEF Same, Knows
      <4>2. Entitled(r, i)' BY SMTT(20), Z3T(20), <1>0, <3>0, <4>1 DEF Entitled, Bounded
      <4>3. Tracks(r, i)' BY <3>0, <3>1, <4>1 DEF Tracks, Unknown
      <4> QED BY <4>2, <4>3
    <3> QED BY <3>2, <3>3, <3>4 DEF Knows
  <2> QED BY <1>2, <2>1, <2>2 DEF Same
<1> QED BY <1>1, <1>2 DEF CInv

-----------------------------------------------------------------------------
(* Runs and batches that go on.                                            *)

\* Run s keeps its batch; it ends, or begins to work what it queued.
Going(s) ==
    /\ run'[s].batch = run[s].batch /\ (run[s].lost => run'[s].lost)
    /\ \/ run'[s].phase = run[s].phase
       \/ run[s].phase # "none" /\ run'[s].phase = "over"
       \/ run[s].phase = "requeue" /\ run'[s].phase = "running"
\* Batch b keeps its owner; it may end.
Lasting(b) ==
    /\ batch'[b].owner = batch[b].owner
    /\ batch'[b].state = batch[b].state \/ (batch[b].state = "open" /\ batch'[b].state = "finished")
GoOn ==
    /\ \A s \in Run : Going(s)
    /\ \A b \in Batch : Lasting(b)
    /\ UNCHANGED <<replaced, resumed>>

\* Then owners stay, and nobody keeps what it did not.
LEMMA GoingOn ==
    ASSUME IInv, CInv, GoOn
    PROVE /\ Owners' /\ Most' = Most /\ Most \in Nat /\ resumed' = resumed
          /\ \A s \in Run : Keeps(s)' => Keeps(s) /\ batch'[run[s].batch].state = "open"
          /\ \A b \in Batch : (Claiming(b)' => Claiming(b)) /\ (batch'[b].state = "none" => batch[b].state = "none")
<1>1. Most' = Most /\ resumed' = resumed /\ replaced' = replaced /\ Most \in Nat
  BY DEF GoOn, Most, CInv, Owners
<1>2. ASSUME NEW b \in Batch, batch[b].state # "none"
      PROVE /\ batch'[b].owner = batch[b].owner /\ batch[b].owner \in Run /\ Going(batch[b].owner)
            /\ run[batch[b].owner].phase # "none" /\ run[batch[b].owner].batch = b
  BY <1>2 DEF GoOn, Lasting, IInv, Rows, RowOK, CInv, Owners, Owner
<1>3. ASSUME NEW b \in Batch PROVE Owner(b)'
  <2>1. batch'[b].state # "none" => batch[b].state # "none" BY <1>3 DEF GoOn, Lasting
  <2>2. Owner(b) BY <1>3 DEF CInv, Owners
  <2> QED BY <1>1, <1>2, <2>1, <2>2 DEF Owner, Going
<1>4. ASSUME NEW r \in replaced PROVE run'[r].phase # "none"
  BY <1>4 DEF CInv, Owners, IInv, TypeOK, GoOn, Going
<1>5. Owners' BY <1>1, <1>3, <1>4 DEF Owners, CInv
<1>6. ASSUME NEW s \in Run, Keeps(s)' PROVE Keeps(s) /\ batch'[run[s].batch].state = "open"
  <2>1. Going(s) BY DEF GoOn
  <2>2. run[s].phase \in {"requeue", "running", "finish"} /\ ~run[s].lost /\ run'[s].batch = run[s].batch
    BY <1>6, <2>1 DEF Keeps, Going
  <2>3. run[s].batch \in Batch BY <2>2 DEF IInv, Runs, RunOK
  <2>4. Lasting(run[s].batch) /\ batch'[run[s].batch].state = "open" /\ batch'[run[s].batch].owner = s
    BY <1>6, <2>2, <2>3 DEF GoOn, Keeps, Owned, Open
  <2> QED BY <1>1, <1>6, <2>2, <2>3, <2>4 DEF Keeps, Owned, Open, Lasting
<1>7. ASSUME NEW b \in Batch
      PROVE (Claiming(b)' => Claiming(b)) /\ (batch'[b].state = "none" => batch[b].state = "none")
  <2>1. Lasting(b) BY DEF GoOn
  <2>2. batch[b].state = "none" => ~Claiming(b)' BY <2>1 DEF Claiming, Lasting
  <2>3. batch[b].state # "none" => (Claiming(b)' => Claiming(b)) BY <1>2, <2>1 DEF Claiming, Lasting, Going
  <2> QED BY <2>1, <2>2, <2>3 DEF Lasting
<1> QED BY <1>1, <1>5, <1>6, <1>7

\* A step that goes on and lets items go, if anything, leaves the counts right.
LEMMA Quiet ==
    ASSUME IInv, IInv', CInv, GoOn, worked' = worked,
           \A r \in Run, i \in Item : task'[r][i] = task[r][i] \/ task'[r][i].at = "none",
           \A b \in Batch, i \in Item :
               \/ item'[b][i] = item[b][i]
               \/ /\ item'[b][i].attempts = item[b][i].attempts /\ item'[b][i].state \notin {"pending", "running"}
                  /\ batch'[b].state # "open"
    PROVE CInv'
<1>1. /\ Owners' /\ Most' = Most /\ Most \in Nat /\ resumed' = resumed
      /\ \A s \in Run : Keeps(s)' => Keeps(s) /\ batch'[run[s].batch].state = "open"
      /\ \A b \in Batch : (Claiming(b)' => Claiming(b)) /\ (batch'[b].state = "none" => batch[b].state = "none")
  BY GoingOn
<1>2. ASSUME NEW r \in Run, NEW i \in Item, task'[r][i].at # "none" PROVE Same(r, i)
  <2>1. task'[r][i] = task[r][i] /\ Going(r) BY <1>2 DEF GoOn
  <2>2. run[r].phase \in {"requeue", "running"} BY <1>2, <2>1 DEF IInv, Runs, TaskOK
  <2>3. run[r].batch \in Batch BY <2>2 DEF IInv, Runs, RunOK
  <2> QED BY <1>1, <1>2, <2>1, <2>2, <2>3 DEF Same, Going
<1>3. ASSUME NEW b \in Batch, NEW i \in Item, b \notin resumed', Claiming(b)', item'[b][i].state = "running"
      PROVE item'[b][i].attempts < Most'
  <2>1. Claiming(b) /\ item'[b][i] = item[b][i] /\ Counted(b, i) BY <1>1, <1>3 DEF CInv
  <2> QED BY <1>1, <1>3, <2>1 DEF Counted
<1>4. Most <= Most' BY SMTT(20), Z3T(20), <1>1
<1> QED BY <1>1, <1>2, <1>3, <1>4, Calm

-----------------------------------------------------------------------------
(* One item of one run.                                                    *)

\* All but item i of run r, in batch b, is left alone or let go.
Apart(r, b, i) ==
    /\ \A s \in Run, j \in Item : s # r \/ j # i => task'[s][j] = task[s][j] \/ task'[s][j].at = "none"
    /\ \A c \in Batch, j \in Item : c # b \/ j # i => item'[c][j] = item[c][j] /\ worked'[c][j] = worked[c][j]

\* What is left to see of a step on item i of run r.
LEMMA OneItem ==
    ASSUME IInv, IInv', CInv, GoOn, NEW r \in Run, NEW i \in Item, NEW b \in Batch, run[r].batch = b,
           Apart(r, b, i), Counted(b, i)', Turned(r, i)',
           \A q \in Run : run[q].batch = b => Knows(q, i)' /\ Awaits(q, i)'
    PROVE CInv'
<1>1. /\ Owners' /\ Most' = Most /\ Most \in Nat /\ resumed' = resumed
      /\ \A s \in Run : Keeps(s)' => Keeps(s)
      /\ \A c \in Batch : (Claiming(c)' => Claiming(c)) /\ (batch'[c].state = "none" => batch[c].state = "none")
  BY GoingOn
<1>2. ASSUME NEW c \in Batch, NEW j \in Item, c # b \/ j # i PROVE Counted(c, j)'
  <2>1. Counted(c, j) /\ item'[c][j] = item[c][j] /\ worked'[c][j] = worked[c][j] BY <1>2 DEF CInv, Apart
  <2> QED BY <1>1, <1>2, <2>1 DEF Counted
<1>3. ASSUME NEW s \in Run, NEW j \in Item, s # r \/ j # i PROVE Turned(s, j)'
  <2>1. Turned(s, j) /\ Going(s) BY <1>3 DEF CInv, GoOn
  <2>2. CASE task'[s][j] = task[s][j] BY <2>1, <2>2 DEF Turned, Going
  <2>3. CASE task'[s][j].at = "none" BY <2>3 DEF Turned
  <2> QED BY <1>3, <2>2, <2>3 DEF Apart
<1>4. ASSUME NEW s \in Run, NEW j \in Item, run[s].batch # b \/ j # i PROVE Knows(s, j)' /\ Awaits(s, j)'
  <2>0. s # r \/ j # i BY <1>4
  <2>1. CASE task'[s][j].at = "none" BY <2>1 DEF Knows, Tracks, Entitled, Unknown, Awaits, Asks
  <2>2. CASE task'[s][j] = task[s][j] /\ task[s][j].at # "none"
    <3>1. PICK c \in Batch : c = run[s].batch
      <4>1. run[s].phase \in {"requeue", "running"} BY <2>2 DEF IInv, Runs, TaskOK
      <4> QED BY <4>1 DEF IInv, Runs, RunOK
    <3>2. run'[s].batch = c BY <3>1 DEF GoOn, Going
    <3>3. item'[c][j] = item[c][j] /\ worked'[c][j] = worked[c][j] BY <1>4, <3>1 DEF Apart
    <3>4. \A q \in Run : Asks(q, c, j)' => Asks(q, c, j) /\ task'[q][j] = task[q][j]
      <4>1. ASSUME NEW q \in Run, Asks(q, c, j)' PROVE Asks(q, c, j) /\ task'[q][j] = task[q][j]
        <5>1. run[q].batch = c /\ task'[q][j].at = "read" BY <4>1 DEF Asks, GoOn, Going
        <5>2. q # r \/ j # i BY <1>4, <3>1, <5>1
        <5>3. task'[q][j] = task[q][j] BY <5>1, <5>2 DEF Apart
        <5> QED BY <4>1, <5>1, <5>3 DEF Asks
      <4> QED BY <4>1
    <3>5. Knows(s, j) /\ Awaits(s, j) BY DEF CInv
    <3>6. Awaits(s, j)' BY <1>1, <2>2, <3>1, <3>2, <3>3, <3>4, <3>5 DEF Awaits
    <3>7. ASSUME Keeps(s)' PROVE Tracks(s, j)' /\ Entitled(s, j)'
      <4>1. Tracks(s, j) /\ Entitled(s, j) BY <1>1, <3>5, <3>7 DEF Knows
      <4>2. Entitled(s, j)' BY <1>1, <2>2, <4>1 DEF Entitled
      <4>3. Unknown(s, j)' => Unknown(s, j) BY <2>2, <3>1, <3>2, <3>3 DEF Unknown
      <4>4. Tracks(s, j)' BY <2>2, <3>1, <3>2, <3>3, <3>4, <4>1, <4>3 DEF Tracks
      <4> QED BY <4>2, <4>4
    <3> QED BY <3>6, <3>7 DEF Knows
  <2> QED BY <2>0, <2>1, <2>2 DEF Apart
<1>5. \A c \in Batch, j \in Item : Counted(c, j)' BY <1>2
<1>6. \A s \in Run, j \in Item : Knows(s, j)' /\ Awaits(s, j)' /\ Turned(s, j)' BY <1>3, <1>4
<1> QED BY <1>1, <1>5, <1>6 DEF CInv

\* A run that sets a task to something it does not read back.
LEMMA SetsTask ==
    ASSUME IInv, IInv', CInv, GoOn, UNCHANGED <<item, worked>>, NEW r \in Run, NEW i \in Item, NEW t \in TaskRow,
           SetTask(r, i, t), task[r][i].at # "none", t.at # "read", Turned(r, i)',
           Keeps(r) /\ Keeps(r)' => Tracks(r, i)' /\ Entitled(r, i)'
    PROVE CInv'
<1>1. /\ task'[r][i] = t /\ \A j \in Item \ {i} : task'[r][j] = task[r][j]
      /\ \A s \in Run \ {r} : task'[s] = task[s]
  BY TaskSet DEF IInv
<1>2. PICK b \in Batch : b = run[r].batch
  <2>1. run[r].phase \in {"requeue", "running"} BY DEF IInv, Runs, TaskOK
  <2> QED BY <2>1 DEF IInv, Runs, RunOK
<1>3. Apart(r, b, i) BY <1>1 DEF Apart
<1>4. /\ Owners' /\ Most' = Most /\ Most \in Nat /\ resumed' = resumed
      /\ \A s \in Run : Keeps(s)' => Keeps(s)
      /\ \A c \in Batch : (Claiming(c)' => Claiming(c)) /\ (batch'[c].state = "none" => batch[c].state = "none")
  BY GoingOn
<1>5. Counted(b, i)'
  <2>1. Counted(b, i) BY DEF CInv
  <2> QED BY <1>4, <2>1 DEF Counted
<1>6. \A q \in Run : Asks(q, b, i)' => Asks(q, b, i) /\ q # r /\ task'[q][i] = task[q][i]
  BY <1>1 DEF Asks, GoOn, Going
<1>7. ASSUME NEW q \in Run, run[q].batch = b PROVE Knows(q, i)' /\ Awaits(q, i)'
  <2>1. CASE q = r
    <3>1. Awaits(r, i)' BY <1>1 DEF Awaits, Asks
    <3> QED BY <1>4, <2>1, <3>1 DEF Knows
  <2>2. CASE q # r
    <3>1. Knows(q, i) /\ Awaits(q, i) /\ task'[q][i] = task[q][i] /\ run'[q].batch = b
      BY <1>1, <1>7, <2>2 DEF CInv, GoOn, Going
    <3>2. Awaits(q, i)' BY <1>4, <1>6, <1>7, <3>1 DEF Awaits
    <3>3. ASSUME Keeps(q)' PROVE Tracks(q, i)' /\ Entitled(q, i)'
      <4>1. Tracks(q, i) /\ Entitled(q, i) BY <1>4, <3>1, <3>3 DEF Knows
      <4>2. Entitled(q, i)' BY <1>4, <3>1, <4>1 DEF Entitled
      <4>3. Unknown(q, i)' => Unknown(q, i) BY <1>7, <3>1 DEF Unknown
      <4>4. Tracks(q, i)' BY <1>6, <1>7, <3>1, <4>1, <4>3 DEF Tracks
      <4> QED BY <4>2, <4>4
    <3> QED BY <3>2, <3>3 DEF Knows
  <2> QED BY <2>1, <2>2
<1> QED BY <1>2, <1>3, <1>5, <1>7, OneItem

\* The row of a run as it goes on.
LEMMA RunGoes ==
    ASSUME IInv, NEW r \in Run, run[r].phase # "none",
           \/ run' = run \/ run' = Retire(r) \/ Lose(r)
           \/ run' = [run EXCEPT ![r].lost = TRUE, ![r].stopped = TRUE]
           \/ run' = [run EXCEPT ![r].stopped = TRUE]
           \/ run[r].phase = "requeue" /\ run' = [run EXCEPT ![r].phase = "running"]
    PROVE \A s \in Run : Going(s)
<1>1. run \in [Run -> RunRow] /\ run[r] \in RunRow BY DEF IInv, TypeOK
<1>2. CASE run' = run BY <1>2 DEF Going
<1>3. CASE run' = Retire(r) BY <1>1, <1>3 DEF Retire, Going, RunRow
<1>4. CASE Lose(r) BY <1>1, <1>4 DEF Lose, Going, RunRow
<1>5. CASE run' = [run EXCEPT ![r].lost = TRUE, ![r].stopped = TRUE] BY <1>1, <1>5 DEF Going, RunRow
<1>6. CASE run' = [run EXCEPT ![r].stopped = TRUE] BY <1>1, <1>6 DEF Going, RunRow
<1>7. CASE run[r].phase = "requeue" /\ run' = [run EXCEPT ![r].phase = "running"] BY <1>1, <1>7 DEF Going, RunRow
<1> QED BY <1>2, <1>3, <1>4, <1>5, <1>6, <1>7

\* The row of a batch as it goes on.
LEMMA BatchGoes ==
    ASSUME IInv, NEW b \in Batch,
           \/ batch' = batch
           \/ \E v \in BOOLEAN : batch' = [batch EXCEPT ![b].stale = v]
           \/ batch' = [batch EXCEPT ![b].canceled = TRUE]
           \/ batch[b].state = "open" /\ batch' = [batch EXCEPT ![b].state = "finished"]
    PROVE \A c \in Batch : Lasting(c)
<1>1. batch \in [Batch -> BatchRow] /\ batch[b] \in BatchRow BY DEF IInv, TypeOK
<1>2. CASE batch' = batch BY <1>2 DEF Lasting
<1>3. ASSUME NEW v \in BOOLEAN, batch' = [batch EXCEPT ![b].stale = v] PROVE \A c \in Batch : Lasting(c)
  BY <1>1, <1>3 DEF Lasting, BatchRow
<1>4. CASE batch' = [batch EXCEPT ![b].canceled = TRUE] BY <1>1, <1>4 DEF Lasting, BatchRow
<1>5. CASE batch[b].state = "open" /\ batch' = [batch EXCEPT ![b].state = "finished"]
  BY <1>1, <1>5 DEF Lasting, BatchRow
<1> QED BY <1>2, <1>3, <1>4, <1>5

\* An item that is let go leaves the others with their runs, or lets them go too.
LEMMA LetGo ==
    ASSUME IInv, NEW r \in Run, NEW i \in Item, LoseAt(r, i) \/ NotMade(r, i), run[r].phase # "none"
    PROVE /\ worked' = worked /\ task'[r][i].at = "none" /\ \A s \in Run : Going(s)
          /\ \A s \in Run, j \in Item : task'[s][j] = task[s][j] \/ task'[s][j].at = "none"
<1>1. worked' = worked /\ (task' = Idle(r) \/ SetTask(r, i, NoTask)) BY DEF LoseAt, NotMade
<1>2. NoTask \in TaskRow /\ NoTask.at = "none" BY TaskTypes
<1>3. /\ task'[r][i].at = "none"
      /\ \A s \in Run, j \in Item : task'[s][j] = task[s][j] \/ task'[s][j].at = "none"
  <2>1. CASE task' = Idle(r)
    <3>1. /\ \A j \in Item : task'[r][j].at = "none" /\ \A s \in Run \ {r} : task'[s] = task[s]
      BY <2>1, TasksDropped DEF IInv
    <3> QED BY <3>1
  <2>2. CASE SetTask(r, i, NoTask)
    <3>1. /\ task'[r][i] = NoTask /\ \A j \in Item \ {i} : task'[r][j] = task[r][j]
          /\ \A s \in Run \ {r} : task'[s] = task[s]
      BY <1>2, <2>2, TaskSet DEF IInv
    <3> QED BY <1>2, <3>1
  <2> QED BY <1>1, <2>1, <2>2
<1>4. \A s \in Run : Going(s)
  <2>1. run' = run \/ run' = Retire(r) \/ Lose(r) BY DEF LoseAt, NotMade
  <2> QED BY <2>1, RunGoes
<1> QED BY <1>1, <1>3, <1>4

-----------------------------------------------------------------------------
(* The steps that leave the store alone.                                   *)

\* A backoff ends (Runner.later).
LEMMA LaterCounts == ASSUME IInv, IInv', CInv, NEW r \in Run, NEW i \in Item, Later(r, i) PROVE CInv'
<1> DEFINE t == [task[r][i] EXCEPT !.at = "queued"]
<1>1. /\ SetTask(r, i, t) /\ task[r][i].at = "waiting" /\ UNCHANGED <<store, run, worked, replaced, resumed>>
  BY DEF Later, history
<1>2. t \in TaskRow /\ t.at = "queued" /\ t.row = task[r][i].row
  <2>1. task[r][i] \in TaskRow BY DEF IInv, TypeOK
  <2> QED BY <2>1 DEF TaskRow
<1>3. GoOn BY <1>1 DEF GoOn, Going, Lasting, store
<1>4. task'[r][i] = t BY <1>1, <1>2, TaskSet DEF IInv
<1>5. Turned(r, i)' BY <1>2, <1>4 DEF Turned
<1>6. ASSUME Keeps(r) PROVE Tracks(r, i)' /\ Entitled(r, i)'
  <2>1. Tracks(r, i) /\ Entitled(r, i) BY <1>6 DEF CInv, Knows
  <2>2. Tracks(r, i)' BY <1>1, <1>2, <1>4, <2>1 DEF Tracks, Unknown, store
  <2>3. Entitled(r, i)' BY <1>1, <1>2, <1>4, <2>1 DEF Entitled, Most
  <2> QED BY <2>2, <2>3
<1> QED BY <1>1, <1>2, <1>3, <1>5, <1>6, SetsTask DEF store

\* The attempts of a row are a number.
LEMMA TaskAttempts ==
    ASSUME IInv, NEW r \in Run, NEW i \in Item
    PROVE /\ task[r][i] \in TaskRow /\ task[r][i].row \in ItemRow /\ task[r][i].row.attempts \in Nat
          /\ task[r][i].tries \in Nat /\ task[r][i].from \in {"pending", "running"}
<1>1. task[r][i] \in TaskRow BY DEF IInv, TypeOK
<1>2. task[r][i].row \in ItemRow BY <1>1 DEF TaskRow
<1>3. task[r][i].tries \in Nat /\ task[r][i].from \in {"pending", "running"} BY <1>1 DEF TaskRow
<1>4. task[r][i].row.attempts \in Nat BY <1>2 DEF ItemRow
<1> QED BY <1>1, <1>2, <1>3, <1>4

\* So are those of the store, and the count of its works.
LEMMA ItemAttempts ==
    ASSUME IInv, NEW b \in Batch, NEW i \in Item
    PROVE /\ item[b][i] \in ItemRow /\ item[b][i].attempts \in Nat /\ item[b][i].state \in ItemState
          /\ worked[b][i] \in Nat
<1>1. item[b][i] \in ItemRow /\ worked[b][i] \in Nat BY DEF IInv, TypeOK
<1> QED BY <1>1 DEF ItemRow

\* The run of an item that has a task has a batch.
LEMMA TaskBatch ==
    ASSUME IInv, NEW r \in Run, NEW i \in Item, task[r][i].at # "none"
    PROVE run[r].phase \in {"requeue", "running"} /\ run[r].batch \in Batch
<1>1. run[r].phase \in {"requeue", "running"} BY DEF IInv, Runs, TaskOK
<1> QED BY <1>1 DEF IInv, Runs, RunOK

\* The bound is a number.
LEMMA MostNat == ASSUME CInv PROVE Most \in Nat /\ Most >= Attempts
BY BoundAssumption DEF CInv, Owners

\* A worker takes an item (Runner.runItem).
LEMMA TakeCounts == ASSUME IInv, IInv', CInv, NEW r \in Run, NEW i \in Item, Take(r, i) PROVE CInv'
<1> DEFINE row == [state |-> "running", attempts |-> task[r][i].row.attempts + 1, again |-> FALSE]
           m == Moving(row, "pending")
<1>1. /\ run[r].phase = "running" /\ task[r][i].at = "queued"
      /\ SetTask(r, i, IF Stopped(r) THEN NoTask ELSE m) /\ UNCHANGED <<store, run, worked, replaced, resumed>>
  BY DEF Take, history
<1>2. GoOn BY <1>1 DEF GoOn, Going, Lasting, store
<1>3. CASE Stopped(r)
  <2>1. SetTask(r, i, NoTask) /\ NoTask \in TaskRow /\ NoTask.at = "none" BY <1>1, <1>3, TaskTypes
  <2>2. task'[r][i] = NoTask BY SMTT(20), Z3T(20), <2>1, TaskSet DEF IInv
  <2>3. Turned(r, i)' BY <2>1, <2>2 DEF Turned
  <2>4. Tracks(r, i)' /\ Entitled(r, i)' BY <2>1, <2>2 DEF Tracks, Unknown, Entitled
  <2> QED BY <1>1, <1>2, <2>1, <2>3, <2>4, SetsTask DEF store
<1>4. CASE ~Stopped(r)
  <2>0. task[r][i].row.attempts \in Nat BY TaskAttempts
  <2>1. row \in ItemRow /\ row.state = "running" /\ row.attempts = task[r][i].row.attempts + 1
    BY <2>0 DEF ItemRow, ItemState
  <2>2. m \in TaskRow /\ m.at = "move" /\ m.row = row /\ m.from = "pending" /\ m.tries = 0
    BY <2>1, TaskTypes DEF Moving
  <2>3. SetTask(r, i, m) BY <1>1, <1>4
  <2>4. task'[r][i] = m BY SMTT(20), Z3T(20), <2>2, <2>3, TaskSet DEF IInv
  <2> HIDE DEF row, m
  <2>5. Turned(r, i)' BY <1>1, <2>2, <2>4 DEF Turned
  <2>6. ASSUME Keeps(r) PROVE Tracks(r, i)' /\ Entitled(r, i)'
    <3>1. Tracks(r, i) /\ Entitled(r, i) BY <2>6 DEF CInv, Knows
    <3>2. item[run[r].batch][i].attempts = task[r][i].row.attempts /\ task[r][i].row.attempts < Most
      BY <1>1, <3>1 DEF Tracks, Entitled
    <3>3. Before(row) = task[r][i].row.attempts BY <2>0, <2>1 DEF Before
    <3>4. ~Unknown(r, i)' BY <2>2, <2>4 DEF Unknown
    <3>5. Tracks(r, i)' BY <1>1, <2>2, <2>4, <3>2, <3>3, <3>4 DEF Tracks, store
    <3>6. Most' = Most /\ Most \in Nat BY <1>1, MostNat DEF Most
    <3>7. Bounded(row, Most) BY <2>0, <2>1, <3>2, <3>6 DEF Bounded
    <3>8. Entitled(r, i)' BY <2>2, <2>4, <3>6, <3>7 DEF Entitled
    <3> QED BY <3>5, <3>8
  <2> QED BY <1>1, <1>2, <2>2, <2>3, <2>5, <2>6, SetsTask DEF store
<1> QED BY <1>3, <1>4

\* The verdict on an item keeps its attempts, and tries again below the bound.
LEMMA VerdictCounts ==
    ASSUME NEW row \in ItemRow, NEW result \in Results \ {""}
    PROVE /\ Verdict(row, result).attempts = row.attempts
          /\ Verdict(row, result).state # "running"
          /\ Verdict(row, result).state = "pending" => row.attempts < Attempts
BY DEF Verdict, Results, ItemRow

\* A scan returns (Runner.runItem).
LEMMA WorkCounts ==
    ASSUME IInv, IInv', CInv, NEW r \in Run, NEW i \in Item, NEW result \in Results, Work(r, i, result) PROVE CInv'
<1> DEFINE v == Verdict(task[r][i].row, result)
           m == Moving(v, "running")
<1>1. /\ task[r][i].at = "work" /\ SetTask(r, i, Outcome(task[r][i].row, result))
      /\ UNCHANGED <<store, run, worked, replaced, resumed>>
  BY DEF Work
<1>2. GoOn BY <1>1 DEF GoOn, Going, Lasting, store
<1>3. CASE result = ""
  <2>1. SetTask(r, i, NoTask) /\ NoTask \in TaskRow /\ NoTask.at = "none" BY <1>1, <1>3, TaskTypes DEF Outcome
  <2>2. task'[r][i] = NoTask BY SMTT(20), Z3T(20), <2>1, TaskSet DEF IInv
  <2>3. Turned(r, i)' BY <2>1, <2>2 DEF Turned
  <2>4. Tracks(r, i)' /\ Entitled(r, i)' BY <2>1, <2>2 DEF Tracks, Unknown, Entitled
  <2> QED BY <1>1, <1>2, <2>1, <2>3, <2>4, SetsTask DEF store
<1>4. CASE result # ""
  <2>0. task[r][i].row.attempts \in Nat /\ task[r][i].row \in ItemRow BY TaskAttempts
  <2>1. /\ v \in ItemRow /\ v.attempts = task[r][i].row.attempts /\ v.state # "running"
        /\ v.state = "pending" => v.attempts < Attempts
    BY <1>4, <2>0, VerdictIs, VerdictCounts
  <2>2. m \in TaskRow /\ m.at = "move" /\ m.row = v /\ m.from = "running" /\ m.tries = 0
    BY <2>1, TaskTypes DEF Moving
  <2>3. SetTask(r, i, m) BY <1>1, <1>4 DEF Outcome
  <2>4. task'[r][i] = m BY <2>2, <2>3, TaskSet DEF IInv
  <2> HIDE DEF v, m
  <2>5. Turned(r, i)'
    <3>1. run'[r].phase # "requeue" BY <1>1 DEF CInv, Turned
    <3> QED BY <2>1, <2>2, <2>4, <3>1 DEF Turned
  <2>6. ASSUME Keeps(r) PROVE Tracks(r, i)' /\ Entitled(r, i)'
    <3>1. Tracks(r, i) BY <2>6 DEF CInv, Knows
    <3>2. item[run[r].batch][i].attempts = v.attempts BY <1>1, <2>1, <3>1 DEF Tracks
    <3>3. Before(v) = v.attempts BY <2>1 DEF Before
    <3>4. ~Unknown(r, i)' BY <2>2, <2>4 DEF Unknown
    <3>5. Tracks(r, i)' BY <1>1, <2>2, <2>4, <3>2, <3>3, <3>4 DEF Tracks, store
    <3>6. Most' = Most /\ Most \in Nat /\ Most >= Attempts BY <1>1, MostNat DEF Most
    <3>7. v.attempts <= Most
      <4>1. run[r].batch \in Batch /\ run[r].batch \notin resumed BY <1>1, <2>6, TaskBatch DEF Keeps
      <4>2. Counted(run[r].batch, i) BY <4>1 DEF CInv
      <4> QED BY <3>2, <4>1, <4>2 DEF Counted, Bounded
    <3>8. Bounded(v, Most) BY <2>0, <2>1, <3>6, <3>7, BoundAssumption DEF Bounded
    <3>9. Entitled(r, i)' BY <2>2, <2>4, <3>6, <3>8 DEF Entitled
    <3> QED BY <3>5, <3>9
  <2> QED BY <1>1, <1>2, <2>2, <2>3, <2>5, <2>6, SetsTask DEF store
<1> QED BY <1>3, <1>4

-----------------------------------------------------------------------------
(* Moves.                                                                  *)

\* What follows a move that was made.
LEMMA MadeIs ==
    ASSUME IInv, NEW r \in Run, NEW i \in Item, NEW b \in Batch, run[r].batch = b, Made(r, i),
           NEW row, row = task[r][i].row
    PROVE /\ run' = run
          /\ \A s \in Run, j \in Item : s # r \/ j # i => task'[s][j] = task[s][j]
          /\ task'[r][i].row = row \/ task'[r][i].at = "none"
          /\ row.state = "running" => task'[r][i].at = "work"
          /\ row.state = "pending" => /\ task'[r][i].at \in {"queued", "waiting"}
                                      /\ run[r].phase = "requeue" => task'[r][i].at = "queued"
          /\ row.state \notin {"running", "pending"} => task'[r][i].at = "none"
          /\ worked'[b][i] = worked[b][i] + (IF row.state = "running" THEN 1 ELSE 0)
          /\ \A c \in Batch, j \in Item : c # b \/ j # i => worked'[c][j] = worked[c][j]
<1> DEFINE w == [NoTask EXCEPT !.at = "work", !.row = row]
           l == [Queued(row) EXCEPT !.at = "waiting"]
<1>1. row \in ItemRow BY TaskAttempts
<1>2. w \in TaskRow /\ w.at = "work" /\ w.row = row BY <1>1, TaskTypes DEF TaskRow
<1>3. Queued(row) \in TaskRow /\ Queued(row).at = "queued" /\ Queued(row).row = row
  BY <1>1, TaskTypes DEF TaskRow, Queued
<1>4. l \in TaskRow /\ l.at = "waiting" /\ l.row = row BY <1>3 DEF TaskRow
<1>5. NoTask \in TaskRow /\ NoTask.at = "none" BY TaskTypes
<1>6. worked \in [Batch -> [Item -> Nat]] BY DEF IInv, TypeOK
<1>7. ASSUME NEW t \in TaskRow, SetTask(r, i, t)
      PROVE task'[r][i] = t /\ \A s \in Run, j \in Item : s # r \/ j # i => task'[s][j] = task[s][j]
  BY SMTT(20), Z3T(20), <1>7, TaskSet DEF IInv
<1>8. /\ worked'[b][i] = worked[b][i] + (IF row.state = "running" THEN 1 ELSE 0)
      /\ \A c \in Batch, j \in Item : c # b \/ j # i => worked'[c][j] = worked[c][j]
  BY <1>6 DEF Made
<1>9. run' = run BY DEF Made
<1> HIDE DEF w, l
<1>10. CASE row.state = "running"
  <2>1. SetTask(r, i, w) BY <1>10 DEF Made, w
  <2>2. task'[r][i] = w /\ \A s \in Run, j \in Item : s # r \/ j # i => task'[s][j] = task[s][j] BY <1>2, <1>7, <2>1
  <2> QED BY <1>2, <1>8, <1>9, <1>10, <2>2
<1>11. CASE row.state = "pending" /\ run[r].phase = "requeue"
  <2>1. SetTask(r, i, Queued(row)) BY <1>11 DEF Made
  <2>2. task'[r][i] = Queued(row) /\ \A s \in Run, j \in Item : s # r \/ j # i => task'[s][j] = task[s][j]
    BY <1>3, <1>7, <2>1
  <2> QED BY <1>3, <1>8, <1>9, <1>11, <2>2
<1>12. CASE row.state = "pending" /\ run[r].phase # "requeue"
  <2>1. SetTask(r, i, l) BY <1>12 DEF Made, l
  <2>2. task'[r][i] = l /\ \A s \in Run, j \in Item : s # r \/ j # i => task'[s][j] = task[s][j] BY <1>4, <1>7, <2>1
  <2> QED BY <1>4, <1>8, <1>9, <1>12, <2>2
<1>13. CASE row.state \notin {"running", "pending"}
  <2>1. SetTask(r, i, NoTask) BY <1>13 DEF Made
  <2>2. task'[r][i] = NoTask /\ \A s \in Run, j \in Item : s # r \/ j # i => task'[s][j] = task[s][j] BY <1>5, <1>7, <2>1
  <2> QED BY <1>5, <1>8, <1>9, <1>13, <2>2
<1> QED BY <1>10, <1>11, <1>12, <1>13

\* A move that was made, when the item was its run's to work.
LEMMA MadeCounts ==
    ASSUME IInv, IInv', CInv, GoOn, NEW r \in Run, NEW i \in Item, NEW b \in Batch, run[r].batch = b,
           NEW row, row = task[r][i].row, task[r][i].at \in {"move", "read"}, Made(r, i),
           item'[b][i] = row, \A c \in Batch, j \in Item : c # b \/ j # i => item'[c][j] = item[c][j],
           b \notin resumed =>
              /\ worked[b][i] <= row.attempts /\ (row.state = "running" => worked[b][i] < row.attempts)
              /\ Bounded(row, Most)
              /\ Claiming(b)' /\ row.state = "running" => row.attempts < Most
              /\ \A q \in Run \ {r} : Asks(q, b, i) =>
                    /\ task[q][i].row.attempts <= row.attempts
                    /\ task[q][i].row.attempts = row.attempts => row.state # "running" /\ worked[b][i] < row.attempts
              /\ \A q \in Run \ {r} : run[q].batch = b => Knows(q, i)'
    PROVE CInv'
<1>1. /\ run' = run
      /\ \A s \in Run, j \in Item : s # r \/ j # i => task'[s][j] = task[s][j]
      /\ task'[r][i].row = row \/ task'[r][i].at = "none"
      /\ row.state = "running" => task'[r][i].at = "work"
      /\ row.state = "pending" => /\ task'[r][i].at \in {"queued", "waiting"}
                                  /\ run[r].phase = "requeue" => task'[r][i].at = "queued"
      /\ row.state \notin {"running", "pending"} => task'[r][i].at = "none"
      /\ worked'[b][i] = worked[b][i] + (IF row.state = "running" THEN 1 ELSE 0)
      /\ \A c \in Batch, j \in Item : c # b \/ j # i => worked'[c][j] = worked[c][j]
  BY SMTT(20), Z3T(20), MadeIs
<1>2. /\ Most' = Most /\ Most \in Nat /\ resumed' = resumed /\ \A s \in Run : Keeps(s)' => Keeps(s)
      /\ batch'[b].state = "none" => batch[b].state = "none"
  BY GoingOn
<1>3. row.attempts \in Nat /\ worked[b][i] \in Nat /\ run[r].phase # "none" BY TaskAttempts, ItemAttempts, TaskBatch
<1>4. Apart(r, b, i) BY <1>1 DEF Apart
<1>5. Counted(b, i)'
  <2>1. batch'[b].state # "none" BY <1>2, <1>3 DEF IInv, Runs, RunOK
  <2>2. ASSUME b \notin resumed PROVE worked'[b][i] <= row.attempts
    <3>1. CASE row.state = "running"
      <4>1. worked'[b][i] = worked[b][i] + 1 BY <1>1, <3>1
      <4>2. worked[b][i] < row.attempts BY <2>2, <3>1
      <4> QED BY SMTT(20), Z3T(20), <1>3, <4>1, <4>2
    <3>2. CASE row.state # "running"
      <4>1. worked'[b][i] = worked[b][i] BY SMTT(20), Z3T(20), <1>1, <1>3, <3>2
      <4> QED BY <2>2, <4>1
    <3> QED BY <3>1, <3>2
  <2> QED BY <1>2, <2>1, <2>2 DEF Counted
<1>6. task'[r][i].at \in {"none", "work", "queued", "waiting"} BY <1>1
<1>7. Turned(r, i)'
  <2>1. run[r].phase = "requeue" => row.state = "pending" BY DEF CInv, Turned
  <2> QED BY <1>1, <1>6, <2>1 DEF Turned
<1>8. Awaits(r, i)' BY <1>6 DEF Awaits, Asks
<1>9. ASSUME Keeps(r)' PROVE Tracks(r, i)' /\ Entitled(r, i)'
  <2>1. Tracks(r, i)' BY <1>1, <1>6 DEF Tracks, Unknown
  <2>2. b \notin resumed BY <1>2, <1>9 DEF Keeps
  <2>3. row.state = "pending" => row.attempts < Most BY <2>2 DEF Bounded
  <2>4. task'[r][i].at \in {"queued", "waiting"} => row.state = "pending" /\ task'[r][i].row = row BY <1>1
  <2> QED BY <1>2, <1>6, <2>1, <2>3, <2>4 DEF Entitled
<1>10. ASSUME NEW q \in Run, q # r, run[q].batch = b PROVE Knows(q, i)' /\ Awaits(q, i)'
  <2>1. b \in resumed => Knows(q, i)' BY <1>1, <1>2, <1>10 DEF Knows, Keeps
  <2>2. task'[q][i] = task[q][i] /\ run'[q].batch = b BY <1>1, <1>10
  <2>3. \A p \in Run : Asks(p, b, i)' => Asks(p, b, i) /\ p # r /\ task'[p][i] = task[p][i]
    BY <1>1, <1>6 DEF Asks
  <2>4. ASSUME b \notin resumed, Asks(q, b, i)
        PROVE /\ task[q][i].row.attempts <= row.attempts
              /\ task[q][i].row.attempts = row.attempts => worked'[b][i] < row.attempts
              /\ \A p \in Run \ {q} : Asks(p, b, i) => task[p][i].row.attempts # task[q][i].row.attempts
    <3>1. Awaits(q, i) BY DEF CInv
    <3>2. \A p \in Run \ {q} : Asks(p, b, i) => task[p][i].row.attempts # task[q][i].row.attempts
      BY <1>10, <2>4, <3>1 DEF Awaits
    <3>3. row.state # "running" => worked'[b][i] = worked[b][i] BY SMTT(20), Z3T(20), <1>1, <1>3
    <3> QED BY <1>10, <2>4, <3>2, <3>3
  <2>5. Awaits(q, i)'
    <3>1. ASSUME b \notin resumed, Asks(q, b, i)'
          PROVE /\ task'[q][i].row.attempts <= item'[b][i].attempts
                /\ task'[q][i].row.attempts = item'[b][i].attempts => worked'[b][i] < task'[q][i].row.attempts
                /\ \A p \in Run \ {q} : Asks(p, b, i)' => task'[p][i].row.attempts # task'[q][i].row.attempts
      BY <2>2, <2>3, <2>4, <3>1
    <3> QED BY <1>2, <2>2, <3>1 DEF Awaits
  <2> QED BY <1>10, <2>1, <2>5
<1>11. \A q \in Run : run[q].batch = b => Knows(q, i)' /\ Awaits(q, i)' BY <1>8, <1>9, <1>10 DEF Knows
<1> QED BY <1>4, <1>5, <1>7, <1>11, OneItem

\* An item is read back (Runner.written).
LEMMA ReadBackCounts == ASSUME IInv, IInv', CInv, NEW r \in Run, NEW i \in Item, ReadBack(r, i) PROVE CInv'
<1>1. /\ task[r][i].at = "read" /\ UNCHANGED <<store, replaced, resumed>> BY DEF ReadBack
<1>2. run[r].phase \in {"requeue", "running"} BY <1>1, TaskBatch
<1>3. PICK b \in Batch : b = run[r].batch BY <1>1, TaskBatch
<1>4. \A c \in Batch : Lasting(c) BY <1>1 DEF Lasting, store
<1>5. CASE LoseAt(r, i) \/ NotMade(r, i)
  <2>1. /\ worked' = worked /\ \A s \in Run : Going(s)
        /\ \A s \in Run, j \in Item : task'[s][j] = task[s][j] \/ task'[s][j].at = "none"
    BY <1>2, <1>5, LetGo
  <2>2. GoOn BY <1>1, <1>4, <2>1 DEF GoOn
  <2> QED BY <1>1, <2>1, <2>2, Quiet DEF store
<1>6. CASE Written(b, i, task[r][i].row) /\ Made(r, i)
  <2>1. PICK row \in ItemRow : row = task[r][i].row BY TaskAttempts
  <2>2. run' = run /\ item[b][i] = row /\ item' = item /\ batch' = batch BY <1>1, <1>6, <2>1 DEF Made, Written, store
  <2>3. GoOn BY <1>1, <1>4, <2>2 DEF GoOn, Going
  <2>4. /\ \A s \in Run, j \in Item : s # r \/ j # i => task'[s][j] = task[s][j]
        /\ task'[r][i].at # "read"
        /\ worked'[b][i] = worked[b][i] + (IF row.state = "running" THEN 1 ELSE 0)
    BY SMTT(20), Z3T(20), <1>3, <1>6, <2>1, MadeIs
  <2>5. Counted(b, i) /\ Awaits(r, i) BY DEF CInv
  <2>6. worked[b][i] \in Nat /\ row.attempts \in Nat BY ItemAttempts, <2>1 DEF ItemRow
  <2>7. ASSUME b \notin resumed, row.state = "running"
        PROVE /\ worked[b][i] < row.attempts
              /\ \A q \in Run \ {r} : Asks(q, b, i) => task[q][i].row.attempts # row.attempts
    <3>1. Asks(r, b, i) BY <1>1, <1>3, <2>1, <2>7 DEF Asks
    <3> QED BY <1>3, <2>1, <2>2, <2>5, <2>7, <3>1 DEF Awaits
  <2>8. ASSUME b \notin resumed, NEW q \in Run, Asks(q, b, i)
        PROVE task[q][i].row.attempts <= row.attempts /\ (task[q][i].row.attempts = row.attempts => worked[b][i] < row.attempts)
    <3>1. Awaits(q, i) /\ run[q].batch = b BY <2>8 DEF CInv, Asks
    <3> QED BY <2>2, <2>8, <3>1 DEF Awaits
  <2>9. ASSUME b \notin resumed, NEW q \in Run, q # r, run[q].batch = b PROVE Knows(q, i)'
    <3>1. task'[q][i] = task[q][i] /\ run'[q].batch = b /\ Most' = Most BY <1>1, <2>2, <2>4, <2>9 DEF Most
    <3>2. ASSUME Keeps(q)' PROVE Tracks(q, i)' /\ Entitled(q, i)'
      <4>1. Keeps(q) BY <1>1, <2>2, <3>2 DEF Keeps, Owned, Open
      <4>2. Tracks(q, i) /\ Entitled(q, i) BY <4>1 DEF CInv, Knows
      <4>3. Entitled(q, i)' BY <3>1, <4>2 DEF Entitled
      <4>4. \A p \in Run : Asks(p, b, i)' => Asks(p, b, i) /\ task'[p][i] = task[p][i] BY <2>2, <2>4 DEF Asks
      <4>5. Unknown(q, i)' => Unknown(q, i) /\ task[q][i].row = row BY <2>2, <2>9, <3>1 DEF Unknown
      <4>6. Unknown(q, i) /\ row.state = "running" /\ task[q][i].row = row => FALSE
        <5>1. SUFFICES ASSUME Unknown(q, i), row.state = "running", task[q][i].row = row PROVE FALSE OBVIOUS
        <5>2. Asks(r, b, i) BY <1>1, <1>3, <2>1, <5>1 DEF Asks
        <5>3. task[r][i].row.attempts < task[q][i].row.attempts BY <2>9, <4>2, <5>1, <5>2 DEF Tracks
        <5> QED BY <2>1, <2>6, <5>1, <5>3
      <4>7. Unknown(q, i)' => Unknown(q, i) /\ worked'[b][i] = worked[b][i] BY SMTT(20), Z3T(20), <2>4, <2>6, <4>5, <4>6
      <4>8. Tracks(q, i)' BY <2>2, <2>9, <3>1, <4>2, <4>4, <4>7 DEF Tracks
      <4> QED BY <4>3, <4>8
    <3> QED BY <3>2 DEF Knows
  <2>10. b \notin resumed => /\ worked[b][i] <= row.attempts /\ Bounded(row, Most)
                             /\ Claiming(b)' /\ row.state = "running" => row.attempts < Most
    BY <2>2, <2>5 DEF Counted, Claiming
  <2>11. b \notin resumed =>
            /\ worked[b][i] <= row.attempts /\ (row.state = "running" => worked[b][i] < row.attempts)
            /\ Bounded(row, Most)
            /\ Claiming(b)' /\ row.state = "running" => row.attempts < Most
            /\ \A q \in Run \ {r} : Asks(q, b, i) =>
                  /\ task[q][i].row.attempts <= row.attempts
                  /\ task[q][i].row.attempts = row.attempts => row.state # "running" /\ worked[b][i] < row.attempts
            /\ \A q \in Run \ {r} : run[q].batch = b => Knows(q, i)'
    BY <2>7, <2>8, <2>9, <2>10
  <2> QED BY <1>1, <1>3, <1>6, <2>1, <2>2, <2>3, <2>11, MadeCounts
<1> QED BY <1>3, <1>5, <1>6 DEF ReadBack

\* A write changes one item at most, and no owner.
LEMMA Writes ==
    ASSUME IInv, NEW i \in Item, NEW b \in Batch, NEW row, NEW from, MoveItem(b, i, row, from)
    PROVE /\ item'[b][i] = IF Moves(b, i, from) THEN row ELSE item[b][i]
          /\ \A c \in Batch, j \in Item : c # b \/ j # i => item'[c][j] = item[c][j]
          /\ ~Moves(b, i, from) => item' = item
          /\ \A c \in Batch : Lasting(c)
<1>1. item \in [Batch -> [Item -> ItemRow]] BY DEF IInv, TypeOK
<1>2. /\ batch' = [batch EXCEPT ![b].stale = FALSE]
      /\ item' = IF Moves(b, i, from) THEN [item EXCEPT ![b][i] = row] ELSE item
  BY DEF MoveItem
<1>3. \A c \in Batch : Lasting(c) BY <1>2, BatchGoes
<1> QED BY <1>1, <1>2, <1>3

\* What the owner knows of an item that it finds where it moves it from.
LEMMA WriteKnown ==
    ASSUME IInv, CInv, NEW r \in Run, NEW i \in Item, NEW b \in Batch, run[r].batch = b,
           task[r][i].at = "move", Owned(b, r), ~run[r].lost, Moves(b, i, task[r][i].from), b \notin resumed,
           NEW row, row = task[r][i].row
    PROVE /\ Keeps(r) /\ Bounded(row, Most) /\ row.attempts \in Nat /\ worked[b][i] \in Nat
          /\ Before(row) \in Nat /\ worked[b][i] <= Before(row)
          /\ \A q \in Run : Asks(q, b, i) => task[q][i].row.attempts \in Nat /\ task[q][i].row.attempts <= Before(row)
          /\ \A q \in Run : Asks(q, b, i) /\ task[q][i].row.attempts = Before(row) => worked[b][i] < Before(row)
<1>1. run[r].phase \in {"requeue", "running"} BY TaskBatch
<1>2. Keeps(r) BY <1>1 DEF Keeps
<1>3. Tracks(r, i) /\ Entitled(r, i) /\ Turned(r, i) /\ Counted(b, i) BY <1>2 DEF CInv, Knows
<1>4. MoveOK(b, i, task[r][i]) BY DEF IInv, Runs, TaskOK
<1>5. row.attempts \in Nat /\ task[r][i].from \in {"pending", "running"} BY TaskAttempts
<1>6. item[b][i].attempts \in Nat /\ worked[b][i] \in Nat BY ItemAttempts
<1>7. item[b][i] # row BY <1>3, <1>4, <1>5 DEF Moves, Turned, MoveOK
<1>8. item[b][i].attempts = Before(row) BY <1>3, <1>7 DEF Tracks
<1>9. Bounded(row, Most) BY <1>3 DEF Entitled
<1>10. worked[b][i] <= Before(row) BY <1>3, <1>8 DEF Counted
<1>11. ASSUME NEW q \in Run, Asks(q, b, i)
       PROVE /\ task[q][i].row.attempts \in Nat /\ task[q][i].row.attempts <= Before(row)
             /\ task[q][i].row.attempts = Before(row) => worked[b][i] < Before(row)
  <2>1. Awaits(q, i) /\ run[q].batch = b BY <1>11 DEF CInv, Asks
  <2>2. task[q][i].row.attempts \in Nat BY TaskAttempts
  <2> QED BY <1>8, <1>11, <2>1, <2>2 DEF Awaits
<1> QED BY <1>2, <1>5, <1>6, <1>8, <1>9, <1>10, <1>11

\* A write of the owner was made, and the answer was lost.
LEMMA LostCounts ==
    ASSUME IInv, IInv', CInv, GoOn, NEW r \in Run, NEW i \in Item, NEW b \in Batch, run[r].batch = b,
           task[r][i].at = "move", Owned(b, r), ~run[r].lost, Moves(b, i, task[r][i].from),
           NEW row, row = task[r][i].row, item'[b][i] = row, worked' = worked, Apart(r, b, i),
           \/ task'[r][i].at = "none"
           \/ /\ task'[r][i].at = "move" /\ task'[r][i].row = row /\ task'[r][i].from = task[r][i].from
              /\ task'[r][i].tries > 0
    PROVE CInv'
<1>1. /\ Most' = Most /\ Most \in Nat /\ resumed' = resumed
      /\ \A s \in Run : Keeps(s)' => Keeps(s)
      /\ (Claiming(b)' => Claiming(b)) /\ (batch'[b].state = "none" => batch[b].state = "none")
  BY GoingOn
<1>2. batch[b].state = "open" /\ batch[b].owner = r /\ Turned(r, i) BY DEF Owned, Open, CInv
<1>3. run[r].phase \in {"requeue", "running"} /\ Going(r) BY TaskBatch DEF GoOn
<1>4. ASSUME b \notin resumed
      PROVE /\ Bounded(row, Most) /\ row.attempts \in Nat /\ worked[b][i] \in Nat
            /\ worked[b][i] <= row.attempts /\ (row.state = "running" => worked[b][i] < row.attempts)
            /\ \A q \in Run : Asks(q, b, i) =>
                  /\ task[q][i].row.attempts <= row.attempts
                  /\ row.state = "running" => task[q][i].row.attempts < row.attempts
                  /\ task[q][i].row.attempts = row.attempts => worked[b][i] < row.attempts
  <2>1. /\ Bounded(row, Most) /\ row.attempts \in Nat /\ worked[b][i] \in Nat
        /\ Before(row) \in Nat /\ worked[b][i] <= Before(row)
        /\ \A q \in Run : Asks(q, b, i) => task[q][i].row.attempts \in Nat /\ task[q][i].row.attempts <= Before(row)
        /\ \A q \in Run : Asks(q, b, i) /\ task[q][i].row.attempts = Before(row) => worked[b][i] < Before(row)
    BY <1>4, WriteKnown
  <2>2. Before(row) = IF row.state = "running" THEN row.attempts - 1 ELSE row.attempts BY DEF Before
  <2>3. CASE row.state = "running"
    <3>1. Before(row) = row.attempts - 1 BY <2>2, <2>3
    <3>2. worked[b][i] < row.attempts BY <2>1, <3>1
    <3>3. \A q \in Run : Asks(q, b, i) => task[q][i].row.attempts < row.attempts BY <2>1, <3>1
    <3>4. \A q \in Run : Asks(q, b, i) => task[q][i].row.attempts \in Nat BY <2>1
    <3> QED BY <2>1, <2>3, <3>2, <3>3, <3>4
  <2>4. CASE row.state # "running"
    <3>1. Before(row) = row.attempts BY <2>2, <2>4
    <3> QED BY <2>1, <2>4, <3>1
  <2> QED BY <2>3, <2>4
<1>5. Counted(b, i)'
  <2>1. Claiming(b) => row.state = "pending" BY <1>2, <1>3 DEF Claiming, Turned
  <2> QED BY <1>1, <1>2, <1>4, <2>1 DEF Counted
<1>6. Turned(r, i)' BY <1>2, <1>3 DEF Turned, Going
<1>7. ASSUME NEW q \in Run, Asks(q, b, i)' PROVE Asks(q, b, i) /\ q # r /\ task'[q][i] = task[q][i]
  <2>1. q # r BY <1>7 DEF Asks
  <2>2. task'[q][i] = task[q][i] BY <1>7, <2>1 DEF Apart, Asks
  <2> QED BY <1>7, <2>1, <2>2 DEF Asks, GoOn, Going
<1>8. ASSUME NEW q \in Run, run[q].batch = b PROVE Knows(q, i)'
  <2>1. SUFFICES ASSUME Keeps(q)' PROVE Tracks(q, i)' /\ Entitled(q, i)' BY DEF Knows
  <2>2. q = r /\ b \notin resumed /\ run'[r].batch = b BY <1>1, <1>2, <1>3, <1>8, <2>1 DEF Keeps, Owned, Going
  <2>3. Unknown(r, i)' => /\ task'[r][i].row = row /\ worked'[b][i] < row.attempts
                          /\ \A p \in Run \ {r} : Asks(p, b, i)' => task'[p][i].row.attempts < row.attempts
    BY <1>4, <1>7, <2>2 DEF Unknown
  <2>4. Tracks(r, i)' BY <2>2, <2>3 DEF Tracks
  <2>5. Entitled(r, i)' BY <1>1, <1>4, <2>2 DEF Entitled
  <2> QED BY <2>2, <2>4, <2>5
<1>9. ASSUME NEW q \in Run, run[q].batch = b PROVE Awaits(q, i)'
  <2>1. run'[q].batch = b BY <1>9 DEF GoOn, Going
  <2>2. ASSUME b \notin resumed, Asks(q, b, i)'
        PROVE /\ task'[q][i].row.attempts <= item'[b][i].attempts
              /\ task'[q][i].row.attempts = item'[b][i].attempts => worked'[b][i] < task'[q][i].row.attempts
              /\ \A p \in Run \ {q} : Asks(p, b, i)' => task'[p][i].row.attempts # task'[q][i].row.attempts
    <3>1. Asks(q, b, i) /\ task'[q][i] = task[q][i] /\ Awaits(q, i) BY <1>7, <2>2 DEF CInv
    <3>2. \A p \in Run \ {q} : Asks(p, b, i) => task[p][i].row.attempts # task[q][i].row.attempts
      BY <1>9, <2>2, <3>1 DEF Awaits
    <3>3. \A p \in Run \ {q} : Asks(p, b, i)' => task'[p][i].row.attempts # task'[q][i].row.attempts
      BY <1>7, <3>1, <3>2
    <3> QED BY <1>4, <2>2, <3>1, <3>3
  <2> QED BY <1>1, <2>1, <2>2 DEF Awaits
<1> QED BY <1>5, <1>6, <1>8, <1>9, OneItem

\* A try failed and nothing was written: the run tries again.
LEMMA AgainCounts ==
    ASSUME IInv, IInv', CInv, GoOn, UNCHANGED <<item, worked, run>>, NEW r \in Run, NEW i \in Item,
           task[r][i].at = "move", SetTask(r, i, [task[r][i] EXCEPT !.tries = @ + 1])
    PROVE CInv'
<1> DEFINE u == [task[r][i] EXCEPT !.tries = @ + 1]
<1>1. task[r][i] \in TaskRow /\ task[r][i].tries \in Nat /\ task[r][i].row.attempts \in Nat BY TaskAttempts
<1>2. /\ u \in TaskRow /\ u.at = "move" /\ u.row = task[r][i].row /\ u.from = task[r][i].from
      /\ u.tries = task[r][i].tries + 1
  BY SMTT(20), Z3T(20), <1>1 DEF TaskRow
<1>3. SetTask(r, i, u) OBVIOUS
<1> HIDE DEF u
<1>4. /\ task'[r][i] = u /\ \A j \in Item \ {i} : task'[r][j] = task[r][j]
      /\ \A s \in Run \ {r} : task'[s] = task[s]
  BY <1>2, <1>3, TaskSet DEF IInv
<1>5. Turned(r, i)'
  <2>1. Turned(r, i) BY DEF CInv
  <2> QED BY <1>2, <1>4, <2>1 DEF Turned
<1>6. ASSUME Keeps(r) PROVE Tracks(r, i)' /\ Entitled(r, i)'
  <2>1. Tracks(r, i) /\ Entitled(r, i) BY <1>6 DEF CInv, Knows
  <2>2. Most' = Most BY GoingOn
  <2>3. Entitled(r, i)' BY <1>2, <1>4, <2>1, <2>2 DEF Entitled
  <2>4. Unknown(r, i)' => Unknown(r, i)
    <3>1. Unknown(r, i)' => task[r][i].row.state = "running" /\ item[run[r].batch][i] = task[r][i].row
      BY <1>2, <1>4 DEF Unknown
    <3>2. task[r][i].row.state = "running" => Before(task[r][i].row) # task[r][i].row.attempts BY <1>1 DEF Before
    <3> QED BY <2>1, <3>1, <3>2 DEF Unknown, Tracks
  <2>5. \A q \in Run \ {r} : Asks(q, run[r].batch, i)' => Asks(q, run[r].batch, i) /\ task'[q][i] = task[q][i]
    BY <1>4 DEF Asks
  <2>6. u.tries > 0 BY <1>1, <1>2
  <2>7. Tracks(r, i)' BY <1>2, <1>4, <2>1, <2>4, <2>5, <2>6 DEF Tracks
  <2> QED BY <2>3, <2>7
<1> QED BY <1>2, <1>3, <1>5, <1>6, SetsTask

\* A step that lets an item go and leaves the items of the store alone.
LEMMA GivesUp ==
    ASSUME IInv, IInv', CInv, NEW r \in Run, NEW i \in Item, LoseAt(r, i) \/ NotMade(r, i), run[r].phase # "none",
           item' = item, \A c \in Batch : Lasting(c), UNCHANGED <<replaced, resumed>>
    PROVE CInv'
<1>1. /\ worked' = worked /\ \A s \in Run : Going(s)
      /\ \A s \in Run, j \in Item : task'[s][j] = task[s][j] \/ task'[s][j].at = "none"
  BY LetGo
<1>2. GoOn BY <1>1 DEF GoOn
<1> QED BY <1>1, <1>2, Quiet

\* A write was not made: the run reads the item back.
LEMMA AskCounts ==
    ASSUME IInv, IInv', CInv, GoOn, UNCHANGED <<item, worked, run>>, NEW r \in Run, NEW i \in Item, NEW b \in Batch,
           run[r].batch = b, task[r][i].at = "move", Owned(b, r), ~run[r].lost, run[r].node \notin closing,
           ~Moves(b, i, task[r][i].from), SetTask(r, i, [task[r][i] EXCEPT !.at = "read"])
    PROVE CInv'
<1> DEFINE u == [task[r][i] EXCEPT !.at = "read"]
<1>1. task[r][i] \in TaskRow /\ task[r][i].row.attempts \in Nat BY TaskAttempts
<1>2. u \in TaskRow /\ u.at = "read" /\ u.row = task[r][i].row /\ u.from = task[r][i].from BY <1>1 DEF TaskRow
<1>3. SetTask(r, i, u) OBVIOUS
<1> HIDE DEF u
<1>4. /\ task'[r][i] = u /\ \A j \in Item \ {i} : task'[r][j] = task[r][j]
      /\ \A s \in Run \ {r} : task'[s] = task[s]
  BY <1>2, <1>3, TaskSet DEF IInv
<1>5. /\ Most' = Most /\ resumed' = resumed /\ \A s \in Run : Keeps(s)' => Keeps(s)
      /\ (Claiming(b)' => Claiming(b)) /\ (batch'[b].state = "none" => batch[b].state = "none")
  BY GoingOn
<1>6. Apart(r, b, i) BY <1>4 DEF Apart
<1>7. Counted(b, i)'
  <2>1. Counted(b, i) BY DEF CInv
  <2> QED BY <1>5, <2>1 DEF Counted
<1>8. Turned(r, i)'
  <2>1. Turned(r, i) BY DEF CInv
  <2> QED BY <1>2, <1>4, <2>1 DEF Turned
<1>9. ASSUME NEW q \in Run, run[q].batch = b PROVE Knows(q, i)'
  <2>1. SUFFICES ASSUME Keeps(q)' PROVE Tracks(q, i)' /\ Entitled(q, i)' BY DEF Knows
  <2>2. q = r BY <1>5, <1>9, <2>1 DEF Keeps, Owned
  <2> QED BY <1>2, <1>4, <2>2 DEF Tracks, Unknown, Entitled
<1>10. ASSUME b \notin resumed, task[r][i].row.state = "running"
       PROVE /\ item[b][i].attempts = task[r][i].row.attempts /\ worked[b][i] < task[r][i].row.attempts
             /\ \A q \in Run \ {r} : Asks(q, b, i) => task[q][i].row.attempts < task[r][i].row.attempts
  <2>1. run[r].phase \in {"requeue", "running"} BY TaskBatch
  <2>2. Holds(r) /\ Keeps(r) BY <1>10, <2>1 DEF Holds, Keeps
  <2>3. item[b][i] = task[r][i].row /\ task[r][i].tries > 0
    BY <2>2 DEF IInv, Runs, Agreeing, Agrees, Moves
  <2>4. Unknown(r, i) /\ Tracks(r, i) BY <1>10, <2>2, <2>3 DEF Unknown, CInv, Knows
  <2> QED BY <2>3, <2>4 DEF Tracks
<1>11. ASSUME NEW q \in Run, run[q].batch = b PROVE Awaits(q, i)'
  <2>1. ASSUME NEW p \in Run, p # r PROVE task'[p][i] = task[p][i] /\ (Asks(p, b, i)' <=> Asks(p, b, i))
    BY <1>4, <2>1 DEF Asks
  <2>2. Asks(r, b, i)' => task[r][i].row.state = "running" BY <1>2, <1>4 DEF Asks
  <2>3. task'[r][i].row = task[r][i].row BY <1>2, <1>4
  <2>4. ASSUME b \notin resumed, Asks(q, b, i)'
        PROVE /\ task'[q][i].row.attempts <= item'[b][i].attempts
              /\ task'[q][i].row.attempts = item'[b][i].attempts => worked'[b][i] < task'[q][i].row.attempts
              /\ \A p \in Run \ {q} : Asks(p, b, i)' => task'[p][i].row.attempts # task'[q][i].row.attempts
    <3>1. CASE q = r
      <4>1. /\ item[b][i].attempts = task[r][i].row.attempts /\ worked[b][i] < task[r][i].row.attempts
            /\ \A p \in Run \ {r} : Asks(p, b, i) => task[p][i].row.attempts < task[r][i].row.attempts
        BY <1>10, <2>2, <2>4, <3>1
      <4>2. \A p \in Run \ {r} : task[p][i].row.attempts \in Nat BY TaskAttempts
      <4> QED BY <1>1, <2>1, <2>3, <3>1, <4>1, <4>2
    <3>2. CASE q # r
      <4>1. Awaits(q, i) /\ Asks(q, b, i) /\ task'[q][i] = task[q][i] /\ task[q][i].row.attempts \in Nat
        BY <2>1, <2>4, <3>2, TaskAttempts DEF CInv
      <4>2. /\ task[q][i].row.attempts <= item[b][i].attempts
            /\ task[q][i].row.attempts = item[b][i].attempts => worked[b][i] < task[q][i].row.attempts
            /\ \A p \in Run \ {q} : Asks(p, b, i) => task[p][i].row.attempts # task[q][i].row.attempts
        BY <1>11, <2>4, <4>1 DEF Awaits
      <4>3. Asks(r, b, i)' => task'[r][i].row.attempts # task'[q][i].row.attempts
        BY <1>1, <1>10, <2>2, <2>3, <2>4, <3>2, <4>1
      <4> QED BY <2>1, <4>1, <4>2, <4>3
    <3> QED BY <3>1, <3>2
  <2> QED BY <1>5, <1>11, <2>4 DEF Awaits
<1> QED BY <1>6, <1>7, <1>8, <1>9, <1>11, OneItem

\* The store answers a write (Runner.move).
LEMMA MoveAnsweredCounts == ASSUME IInv, IInv', CInv, NEW r \in Run, NEW i \in Item, MoveAnswered(r, i) PROVE CInv'
<1>1. /\ task[r][i].at = "move" /\ ~run[r].lost /\ run[r].node \notin closing /\ Owned(run[r].batch, r)
      /\ MoveItem(run[r].batch, i, task[r][i].row, task[r][i].from) /\ UNCHANGED <<replaced, resumed>>
  BY DEF MoveAnswered, CanMove
<1>2. PICK b \in Batch : b = run[r].batch BY <1>1, TaskBatch
<1>3. PICK row \in ItemRow : row = task[r][i].row BY TaskAttempts
<1>4. /\ item'[b][i] = IF Moves(b, i, task[r][i].from) THEN row ELSE item[b][i]
      /\ \A c \in Batch, j \in Item : c # b \/ j # i => item'[c][j] = item[c][j]
      /\ ~Moves(b, i, task[r][i].from) => item' = item
      /\ \A c \in Batch : Lasting(c)
  BY SMTT(20), Z3T(20), <1>1, <1>2, <1>3, Writes
<1>5. run[r].phase \in {"requeue", "running"} BY <1>1, TaskBatch
<1>6. CASE Moves(b, i, task[r][i].from) /\ Made(r, i)
  <2>1. run' = run BY <1>6 DEF Made
  <2>2. GoOn BY <1>1, <1>4, <2>1 DEF GoOn, Going
  <2>3. Claiming(b)' => row.state # "running"
    <3>1. Turned(r, i) /\ batch[b].owner = r BY <1>1, <1>2 DEF CInv, Owned
    <3>2. Claiming(b)' => Claiming(b) BY <2>2, GoingOn
    <3> QED BY <1>1, <1>3, <1>5, <3>1, <3>2 DEF Claiming, Turned
  <2>4. ASSUME b \notin resumed
        PROVE /\ worked[b][i] <= row.attempts /\ (row.state = "running" => worked[b][i] < row.attempts)
              /\ Bounded(row, Most)
              /\ \A q \in Run \ {r} : Asks(q, b, i) =>
                    /\ task[q][i].row.attempts <= row.attempts
                    /\ task[q][i].row.attempts = row.attempts => row.state # "running" /\ worked[b][i] < row.attempts
    <3>1. /\ Bounded(row, Most) /\ row.attempts \in Nat /\ worked[b][i] \in Nat
          /\ Before(row) \in Nat /\ worked[b][i] <= Before(row)
          /\ \A q \in Run : Asks(q, b, i) => task[q][i].row.attempts \in Nat /\ task[q][i].row.attempts <= Before(row)
          /\ \A q \in Run : Asks(q, b, i) /\ task[q][i].row.attempts = Before(row) => worked[b][i] < Before(row)
      BY <1>1, <1>2, <1>3, <1>6, <2>4, WriteKnown
    <3>2. Before(row) = IF row.state = "running" THEN row.attempts - 1 ELSE row.attempts BY DEF Before
    <3>3. CASE row.state = "running"
      <4>1. Before(row) = row.attempts - 1 BY <3>2, <3>3
      <4>2. worked[b][i] < row.attempts BY <3>1, <4>1
      <4>3. \A q \in Run : Asks(q, b, i) => task[q][i].row.attempts < row.attempts BY <3>1, <4>1
      <4>4. \A q \in Run : Asks(q, b, i) => task[q][i].row.attempts \in Nat BY <3>1
      <4> QED BY <3>1, <4>2, <4>3, <4>4
    <3>4. CASE row.state # "running"
      <4>1. Before(row) = row.attempts BY <3>2, <3>4
      <4> QED BY <3>1, <3>4, <4>1
    <3> QED BY <3>3, <3>4
  <2>5. ASSUME NEW q \in Run, q # r, run[q].batch = b PROVE Knows(q, i)'
    <3>1. ~Keeps(q) BY <1>1, <1>2, <2>5 DEF Keeps, Owned
    <3>2. Keeps(q)' => Keeps(q) BY <2>2, GoingOn
    <3> QED BY <3>1, <3>2 DEF Knows
  <2>6. item'[b][i] = row BY <1>4, <1>6
  <2>7. b \notin resumed =>
           /\ worked[b][i] <= row.attempts /\ (row.state = "running" => worked[b][i] < row.attempts)
           /\ Bounded(row, Most)
           /\ Claiming(b)' /\ row.state = "running" => row.attempts < Most
           /\ \A q \in Run \ {r} : Asks(q, b, i) =>
                 /\ task[q][i].row.attempts <= row.attempts
                 /\ task[q][i].row.attempts = row.attempts => row.state # "running" /\ worked[b][i] < row.attempts
           /\ \A q \in Run \ {r} : run[q].batch = b => Knows(q, i)'
    BY <2>3, <2>4, <2>5
  <2> QED BY <1>1, <1>2, <1>3, <1>4, <1>6, <2>2, <2>6, <2>7, MadeCounts
<1>7. CASE ~Moves(b, i, task[r][i].from) /\ NotMade(r, i) BY <1>1, <1>4, <1>5, <1>7, GivesUp
<1>8. CASE /\ ~Moves(b, i, task[r][i].from) /\ SetTask(r, i, [task[r][i] EXCEPT !.at = "read"])
           /\ UNCHANGED <<run, worked>>
  <2>1. GoOn BY <1>1, <1>4, <1>8 DEF GoOn, Going
  <2> QED BY <1>1, <1>2, <1>4, <1>8, <2>1, AskCounts
<1> QED BY <1>2, <1>6, <1>7, <1>8 DEF MoveAnswered

\* The answer of a write is lost, made or not (Runner.move).
LEMMA MoveFailsCounts == ASSUME IInv, IInv', CInv, NEW r \in Run, NEW i \in Item, MoveFails(r, i) PROVE CInv'
<1>1. task[r][i].at = "move" /\ ~run[r].lost /\ UNCHANGED <<replaced, resumed>> BY DEF MoveFails, CanMove
<1>2. PICK b \in Batch : b = run[r].batch BY <1>1, TaskBatch
<1>3. PICK row \in ItemRow : row = task[r][i].row BY TaskAttempts
<1>4. run[r].phase \in {"requeue", "running"} BY <1>1, TaskBatch
<1>5. \/ LoseAt(r, i)
      \/ SetTask(r, i, [task[r][i] EXCEPT !.tries = @ + 1]) /\ UNCHANGED <<run, worked>>
  BY DEF MoveFails
<1>6. CASE item' = item /\ \A c \in Batch : Lasting(c)
  <2>1. CASE LoseAt(r, i) BY <1>1, <1>4, <1>6, <2>1, GivesUp
  <2>2. CASE SetTask(r, i, [task[r][i] EXCEPT !.tries = @ + 1]) /\ UNCHANGED <<run, worked>>
    <3>1. GoOn BY <1>1, <1>6, <2>2 DEF GoOn, Going
    <3> QED BY <1>1, <1>6, <2>2, <3>1, AgainCounts
  <2> QED BY <1>5, <2>1, <2>2
<1>7. CASE /\ Owned(b, r) /\ Moves(b, i, task[r][i].from) /\ item'[b][i] = row
           /\ \A c \in Batch, j \in Item : c # b \/ j # i => item'[c][j] = item[c][j]
           /\ \A c \in Batch : Lasting(c)
  <2>1. CASE LoseAt(r, i)
    <3>1. /\ worked' = worked /\ task'[r][i].at = "none" /\ \A s \in Run : Going(s)
          /\ \A s \in Run, j \in Item : task'[s][j] = task[s][j] \/ task'[s][j].at = "none"
      BY <1>4, <2>1, LetGo
    <3>2. GoOn BY <1>1, <1>7, <3>1 DEF GoOn
    <3>3. Apart(r, b, i) BY <1>7, <3>1 DEF Apart
    <3> QED BY <1>1, <1>2, <1>3, <1>7, <3>1, <3>2, <3>3, LostCounts
  <2>2. CASE SetTask(r, i, [task[r][i] EXCEPT !.tries = @ + 1]) /\ UNCHANGED <<run, worked>>
    <3> DEFINE u == [task[r][i] EXCEPT !.tries = @ + 1]
    <3>1. task[r][i] \in TaskRow /\ task[r][i].tries \in Nat BY TaskAttempts
    <3>2. u \in TaskRow /\ u.at = "move" /\ u.row = row /\ u.from = task[r][i].from /\ u.tries > 0
      BY SMTT(20), Z3T(20), <1>1, <1>3, <3>1 DEF TaskRow
    <3>3. /\ task'[r][i] = u /\ \A j \in Item \ {i} : task'[r][j] = task[r][j]
          /\ \A s \in Run \ {r} : task'[s] = task[s]
      BY SMTT(20), Z3T(20), <2>2, <3>2, TaskSet DEF IInv
    <3> HIDE DEF u
    <3>4. GoOn BY <1>1, <1>7, <2>2 DEF GoOn, Going
    <3>5. Apart(r, b, i) BY <1>7, <2>2, <3>3 DEF Apart
    <3>6. /\ task'[r][i].at = "move" /\ task'[r][i].row = row /\ task'[r][i].from = task[r][i].from
          /\ task'[r][i].tries > 0
      BY <3>2, <3>3
    <3> QED BY <1>1, <1>2, <1>3, <1>7, <2>2, <3>4, <3>5, <3>6, LostCounts
  <2> QED BY <1>5, <2>1, <2>2
<1>8. CASE Owned(b, r) /\ MoveItem(b, i, row, task[r][i].from)
  <2>1. /\ item'[b][i] = IF Moves(b, i, task[r][i].from) THEN row ELSE item[b][i]
        /\ \A c \in Batch, j \in Item : c # b \/ j # i => item'[c][j] = item[c][j]
        /\ ~Moves(b, i, task[r][i].from) => item' = item
        /\ \A c \in Batch : Lasting(c)
    BY <1>8, Writes
  <2> QED BY <1>6, <1>7, <1>8, <2>1
<1>9. CASE UNCHANGED store
  <2>1. item' = item /\ \A c \in Batch : Lasting(c) BY <1>9 DEF store, Lasting
  <2> QED BY <1>6, <2>1
<1> QED BY <1>2, <1>3, <1>8, <1>9 DEF MoveFails

-----------------------------------------------------------------------------
(* Steps that begin or end something else than an item.                    *)

\* The runs go on as they are, and items of the store stay.
LEMMA MoveRefusedCounts == ASSUME IInv, IInv', CInv, NEW r \in Run, NEW i \in Item, MoveRefused(r, i) PROVE CInv'
<1>1. LoseAt(r, i) /\ task[r][i].at = "move" /\ UNCHANGED <<store, replaced, resumed>> BY DEF MoveRefused, CanMove
<1>2. run[r].phase # "none" BY <1>1, TaskBatch
<1>3. item' = item /\ \A c \in Batch : Lasting(c) BY <1>1 DEF store, Lasting
<1> QED BY <1>1, <1>2, <1>3, GivesUp

\* A move of a run that was lost (Runner.move).
LEMMA MoveAbandonedCounts == ASSUME IInv, IInv', CInv, NEW r \in Run, NEW i \in Item, MoveAbandoned(r, i) PROVE CInv'
<1>1. SetTask(r, i, NoTask) /\ UNCHANGED <<store, run, worked, replaced, resumed>> BY DEF MoveAbandoned, history
<1>2. NoTask \in TaskRow /\ NoTask.at = "none" BY TaskTypes
<1>3. /\ task'[r][i] = NoTask /\ \A j \in Item \ {i} : task'[r][j] = task[r][j]
      /\ \A s \in Run \ {r} : task'[s] = task[s]
  BY SMTT(20), Z3T(20), <1>1, <1>2, TaskSet DEF IInv
<1>4. \A s \in Run, j \in Item : task'[s][j] = task[s][j] \/ task'[s][j].at = "none" BY <1>2, <1>3
<1>5. GoOn BY <1>1 DEF GoOn, Going, Lasting, store
<1> QED BY <1>1, <1>4, <1>5, Quiet DEF store

\* The runs of the last owner's items begin, or a run is stopped.
LEMMA RunCounts ==
    ASSUME IInv, IInv', CInv, NEW r \in Run, Resume(r) \/ StopCanceled(r) PROVE CInv'
<1>1. UNCHANGED <<store, task, worked, replaced, resumed>> BY DEF Resume, StopCanceled, history
<1>2. /\ run[r].phase # "none"
      /\ \/ run' = [run EXCEPT ![r].stopped = TRUE]
         \/ run[r].phase = "requeue" /\ run' = [run EXCEPT ![r].phase = "running"]
  BY DEF Resume, StopCanceled, Beating
<1>3. \A s \in Run : Going(s) BY <1>2, RunGoes
<1>4. GoOn BY <1>1, <1>3 DEF GoOn, Lasting, store
<1> QED BY <1>1, <1>4, Quiet DEF store

\* A batch is canceled, or its heartbeat goes stale.
LEMMA BatchCounts == ASSUME IInv, IInv', CInv, NEW b \in Batch, Cancel(b) \/ Age(b) PROVE CInv'
<1>1. UNCHANGED <<item, run, task, worked, replaced, resumed>> BY DEF Cancel, Age, local, history
<1>2. \A c \in Batch : Lasting(c) BY BatchGoes DEF Cancel, Age
<1>3. GoOn BY <1>1, <1>2 DEF GoOn, Going
<1> QED BY <1>1, <1>3, Quiet

\* A process dies, begins to stop or starts again.
LEMMA NodeCounts == ASSUME IInv, IInv', CInv, NEW n \in Node, Crash(n) \/ Close(n) \/ Restart(n) PROVE CInv'
<1>1. UNCHANGED <<store, worked, replaced, resumed>> BY DEF Crash, Close, Restart, history
<1>2. \A s \in Run : Going(s) /\ \A i \in Item : task'[s][i] = task[s][i] \/ task'[s][i].at = "none"
  <2>1. CASE Crash(n)
    <3>1. ASSUME NEW s \in Run, s \in Of(n)
          PROVE Going(s) /\ \A i \in Item : task'[s][i].at = "none"
      <4>1. run[s].phase # "none" /\ run[s] \in RunRow BY <3>1 DEF Of, Active, IInv, TypeOK
      <4>2. run'[s] = [run[s] EXCEPT !.phase = "over"] /\ task'[s] = [i \in Item |-> NoTask] BY <2>1, <3>1 DEF Crash
      <4>3. /\ run'[s].phase = "over" /\ run'[s].batch = run[s].batch /\ run'[s].lost = run[s].lost
        BY <4>1, <4>2 DEF RunRow
      <4> QED BY SMTT(20), Z3T(20), <4>1, <4>2, <4>3, TaskTypes DEF Going
    <3>2. ASSUME NEW s \in Run, s \notin Of(n) PROVE Going(s) /\ task'[s] = task[s]
      <4>1. run'[s] = run[s] /\ task'[s] = task[s] BY <2>1, <3>2 DEF Crash
      <4> QED BY <4>1 DEF Going
    <3> QED BY <3>1, <3>2
  <2>2. CASE Close(n) \/ Restart(n) BY <2>2 DEF Close, Restart, local, Going
  <2> QED BY <2>1, <2>2
<1>3. GoOn BY <1>1, <1>2 DEF GoOn, Lasting, store
<1> QED BY <1>1, <1>2, <1>3, Quiet DEF store

\* A run ends, with its batch or without (Runner.execute).
LEMMA FinishCounts == ASSUME IInv, IInv', CInv, NEW r \in Run, Finish(r) PROVE CInv'
<1>1. /\ run[r].phase \in {"running", "finish"} /\ run' = Retire(r)
      /\ UNCHANGED <<task, worked, replaced, resumed>>
  BY DEF Finish, history
<1>2. PICK b \in Batch : b = run[r].batch BY <1>1 DEF IInv, Runs, RunOK
<1>3. \A s \in Run : Going(s) BY <1>1, RunGoes
<1>4. CASE UNCHANGED store
  <2>1. GoOn BY <1>1, <1>3, <1>4 DEF GoOn, Lasting, store
  <2> QED BY <1>1, <1>4, <2>1, Quiet DEF store
<1>5. CASE Owned(b, r) /\ FinishBatch(b)
  <2>1. \A c \in Batch : Lasting(c) BY <1>5, BatchGoes DEF FinishBatch, Owned, Open
  <2>2. GoOn BY <1>1, <1>3, <2>1 DEF GoOn
  <2>3. batch'[b].state # "open" BY SMTT(20), Z3T(20), <1>5 DEF FinishBatch, IInv, TypeOK, BatchRow
  <2>4. ASSUME NEW i \in Item
        PROVE /\ item[b][i] \in ItemRow /\ [item[b][i] EXCEPT !.state = "canceled"].state = "canceled"
              /\ [item[b][i] EXCEPT !.state = "canceled"].attempts = item[b][i].attempts
    <3>1. item[b][i] \in ItemRow BY ItemAttempts
    <3> QED BY <3>1 DEF ItemRow
  <2>5. /\ \A c \in Batch \ {b} : item'[c] = item[c]
        /\ \A i \in Item : item'[b][i] = IF item[b][i].state \in Settled THEN item[b][i]
                                         ELSE [item[b][i] EXCEPT !.state = "canceled"]
    BY <1>5 DEF IInv, TypeOK, FinishBatch
  <2>6. ASSUME NEW c \in Batch, NEW i \in Item
        PROVE \/ item'[c][i] = item[c][i]
              \/ /\ item'[c][i].attempts = item[c][i].attempts /\ item'[c][i].state \notin {"pending", "running"}
                 /\ batch'[c].state # "open"
    <3>1. CASE c = b /\ item[b][i].state \notin Settled
      <4>1. item'[b][i] = [item[b][i] EXCEPT !.state = "canceled"] BY <2>5, <3>1
      <4> QED BY <2>3, <2>4, <3>1, <4>1
    <3> QED BY <2>5, <3>1
  <2> QED BY <1>1, <2>2, <2>6, Quiet
<1> QED BY <1>2, <1>4, <1>5 DEF Finish

\* Run r begins with the items of batch b, as it finds them.
LEMMA Begins ==
    ASSUME IInv, IInv', CInv, Owners', UNCHANGED <<replaced, resumed, worked, item>>,
           NEW r \in Run, NEW b \in Batch, run'[r].batch = b,
           \A c \in Batch : batch'[c].state = "none" => batch[c].state = "none",
           \A s \in Run \ {r} : run'[s] = run[s] /\ task'[s] = task[s] /\ (Keeps(s)' => Keeps(s)),
           \A c \in Batch, i \in Item : Claiming(c)' /\ item[c][i].state = "running" => Claiming(c),
           \A i \in Item :
              \/ task'[r][i].at = "none"
              \/ /\ task'[r][i].at = "queued" /\ task'[r][i].row.attempts = item[b][i].attempts
                 /\ item[b][i].state = "pending"
              \/ /\ task'[r][i].at = "move" /\ task'[r][i].tries = 0 /\ task'[r][i].row.state = "pending"
                 /\ task'[r][i].row.attempts = item[b][i].attempts /\ item[b][i].state = "running"
                 /\ Keeps(r)' => Claiming(b)
    PROVE CInv'
<1>1. Most' = Most /\ Most \in Nat BY MostNat DEF Most
<1>2. ASSUME NEW c \in Batch, NEW i \in Item PROVE Counted(c, i)'
  <2>1. Counted(c, i) BY DEF CInv
  <2> QED BY <1>1, <2>1 DEF Counted
<1>3. ASSUME NEW i \in Item PROVE Turned(r, i)' /\ Awaits(r, i)' BY DEF Turned, Awaits, Asks
<1>4. ASSUME NEW i \in Item, Keeps(r)' PROVE Tracks(r, i)' /\ Entitled(r, i)'
  <2>1. Counted(b, i) /\ b \notin resumed BY <1>4 DEF CInv, Keeps
  <2>2. CASE task'[r][i].at = "none" BY <2>2 DEF Tracks, Unknown, Entitled
  <2>3. CASE task'[r][i].at = "queued" /\ task'[r][i].row.attempts = item[b][i].attempts /\ item[b][i].state = "pending"
    <3>1. item[b][i].attempts < Most BY <2>1, <2>3 DEF Counted, Bounded
    <3> QED BY <1>1, <2>3, <3>1 DEF Tracks, Unknown, Entitled
  <2>4. CASE /\ task'[r][i].at = "move" /\ task'[r][i].tries = 0 /\ task'[r][i].row.state = "pending"
             /\ task'[r][i].row.attempts = item[b][i].attempts /\ item[b][i].state = "running" /\ Claiming(b)
    <3>1. item[b][i].attempts < Most /\ item[b][i].attempts <= Most BY <2>1, <2>4 DEF Counted, Bounded
    <3>2. PICK row \in ItemRow : row = task'[r][i].row
      <4>1. task'[r][i] \in TaskRow BY SMTT(20), Z3T(20) DEF IInv, TypeOK
      <4> QED BY <4>1 DEF TaskRow
    <3>3. Before(row) = item'[b][i].attempts /\ Bounded(row, Most) BY <2>4, <3>1, <3>2 DEF Before, Bounded
    <3>4. ~Unknown(r, i)' BY <2>4 DEF Unknown
    <3>5. Tracks(r, i)' BY <2>4, <3>2, <3>3, <3>4 DEF Tracks
    <3>6. Entitled(r, i)' BY <1>1, <2>4, <3>2, <3>3 DEF Entitled
    <3> QED BY <3>5, <3>6
  <2> QED BY <1>4, <2>2, <2>3, <2>4
<1>5. ASSUME NEW q \in Run, NEW c, NEW i \in Item, Asks(q, c, i)' PROVE q # r /\ Asks(q, c, i) /\ task'[q][i] = task[q][i]
  <2>1. q # r BY <1>5 DEF Asks
  <2> QED BY SMTT(20), Z3T(20), <1>5, <2>1 DEF Asks
<1>6. ASSUME NEW s \in Run, s # r, NEW i \in Item PROVE Knows(s, i)' /\ Awaits(s, i)' /\ Turned(s, i)'
  <2>1. run'[s] = run[s] /\ task'[s] = task[s] /\ (Keeps(s)' => Keeps(s)) BY <1>6
  <2>2. Knows(s, i) /\ Awaits(s, i) /\ Turned(s, i) BY <1>6 DEF CInv
  <2>3. Turned(s, i)' BY <2>1, <2>2 DEF Turned
  <2>4. Awaits(s, i)'
    <3>1. PICK c : c = run[s].batch OBVIOUS
    <3>2. \A q \in Run : Asks(q, c, i)' => Asks(q, c, i) /\ task'[q][i] = task[q][i] BY <1>5
    <3> QED BY <1>6, <2>1, <2>2, <3>1, <3>2 DEF Awaits
  <2>5. ASSUME Keeps(s)' PROVE Tracks(s, i)' /\ Entitled(s, i)'
    <3>1. Tracks(s, i) /\ Entitled(s, i) BY <2>1, <2>2, <2>5 DEF Knows
    <3>2. Entitled(s, i)' BY <1>1, <2>1, <3>1 DEF Entitled
    <3>3. Unknown(s, i)' => Unknown(s, i) BY <2>1 DEF Unknown
    <3>4. PICK c : c = run[s].batch OBVIOUS
    <3>5. \A q \in Run : Asks(q, c, i)' => Asks(q, c, i) /\ task'[q][i] = task[q][i] BY <1>5
    <3>6. Tracks(s, i)' BY <2>1, <3>1, <3>3, <3>4, <3>5 DEF Tracks
    <3> QED BY <3>2, <3>6
  <2> QED BY <2>3, <2>4, <2>5 DEF Knows
<1>7. \A s \in Run, i \in Item : Knows(s, i)' /\ Awaits(s, i)' /\ Turned(s, i)' BY SMTT(20), Z3T(20), <1>3, <1>4, <1>6 DEF Knows
<1> QED BY <1>2, <1>7 DEF CInv

\* A new batch begins (Runner.Start).
LEMMA StartCounts ==
    ASSUME IInv, IInv', CInv, NEW n \in Node, NEW b \in Batch, NEW r \in Run, Start(n, b, r) PROVE CInv'
<1>1. /\ batch[b].state = "none" /\ batch' = [batch EXCEPT ![b] = [NewBatch EXCEPT !.state = "open", !.owner = r]]
      /\ UNCHANGED <<item, worked, replaced, resumed>> /\ run[r].phase = "none"
  BY DEF Start, CreateBatch, history, Fresh
<1>2. PICK new \in BatchRow : new = [NewBatch EXCEPT !.state = "open", !.owner = r] BY DEF NewBatch, BatchRow
<1>3. new.state = "open" /\ new.owner = r BY <1>2 DEF NewBatch
<1>4. batch'[b] = new /\ \A c \in Batch \ {b} : batch'[c] = batch[c] BY <1>1, <1>2, BatchSet DEF IInv
<1>5. PICK phase \in {"running", "over"} :
         /\ run' = [run EXCEPT ![r] = Begun(phase, n, b)]
         /\ phase = "running" => task' = [task EXCEPT ![r] = [i \in Item |-> Queued(NewItem)]]
         /\ phase = "over" => task' = task
  BY DEF Start
<1>6. PICK row \in RunRow : row = Begun(phase, n, b) /\ row.phase = phase /\ row.batch = b BY SMTT(20), Z3T(20), BegunRow
<1>7. run'[r] = row /\ \A s \in Run \ {r} : run'[s] = run[s] BY <1>5, <1>6, RunSet DEF IInv
<1>8. Queued(NewItem).at = "queued" /\ Queued(NewItem).row.attempts = 0 /\ Queued(NewItem) \in TaskRow
  BY TaskTypes DEF Queued, NoTask, NewItem
<1>9. ASSUME NEW i \in Item PROVE item[b][i].attempts = 0 /\ item[b][i].state = "pending"
  <2>1. Counted(b, i) /\ ItemOK(b, i) BY DEF CInv, IInv, Rows
  <2> QED BY <1>1, <2>1 DEF Counted, ItemOK
<1>10. /\ \A s \in Run \ {r} : task'[s] = task[s]
       /\ \A i \in Item : task'[r][i].at = "none" \/ task'[r][i] = Queued(NewItem)
  <2>1. task \in [Run -> [Item -> TaskRow]] BY DEF IInv, TypeOK
  <2>2. CASE phase = "running" BY <1>5, <2>1, <2>2
  <2>3. CASE phase = "over" BY <1>5, <2>1, <2>3, FreshRun DEF Start
  <2> QED BY <2>2, <2>3
<1>11. ASSUME NEW c \in Batch, c # b, batch[c].state # "none"
       PROVE Owner(c)' /\ batch[c].owner \in Run \ {r}
  <2>1. Owner(c) /\ batch[c].owner \in Run BY <1>11 DEF CInv, Owners, IInv, Rows, RowOK
  <2>2. batch[c].owner # r BY <1>1, <1>11, <2>1 DEF Owner
  <2>3. batch'[c] = batch[c] /\ run'[batch[c].owner] = run[batch[c].owner] BY <1>4, <1>7, <1>11, <2>1, <2>2
  <2> QED BY <1>1, <1>11, <2>1, <2>2, <2>3 DEF Owner
<1>12. Owners'
  <2>1. \A s \in replaced : run[s].phase # "none" /\ s \in Run BY DEF CInv, Owners, IInv, TypeOK
  <2>2. r \notin replaced BY <1>1, <2>1
  <2>3. Owner(b)' BY SMTT(20), Z3T(20), <1>1, <1>3, <1>4, <1>6, <1>7, <2>2 DEF Owner
  <2>4. \A c \in Batch : Owner(c)'
    <3>1. ASSUME NEW c \in Batch, c # b, batch[c].state = "none" PROVE Owner(c)' BY <1>4, <3>1 DEF Owner
    <3> QED BY <1>11, <2>3, <3>1
  <2>5. \A s \in replaced : run'[s].phase # "none" BY <1>7, <2>1, <2>2
  <2>6. IsFiniteSet(replaced) /\ Most \in Nat /\ Attempts <= Most /\ Most' = Most BY <1>1 DEF CInv, Owners, Most
  <2> QED BY <1>1, <2>4, <2>5, <2>6 DEF Owners
<1>13. ASSUME NEW s \in Run \ {r}, Keeps(s)' PROVE Keeps(s)
  <2>1. run'[s] = run[s] BY <1>7
  <2>2. run[s].batch # b BY <1>3, <1>4, <1>13, <2>1 DEF Keeps, Owned
  <2>3. run[s].batch \in Batch BY <1>13, <2>1 DEF Keeps, Owned, Open
  <2> QED BY SMTT(20), Z3T(20), <1>1, <1>4, <1>13, <2>1, <2>2, <2>3 DEF Keeps, Owned, Open
<1>14. ASSUME NEW c \in Batch, NEW i \in Item, Claiming(c)', item[c][i].state = "running" PROVE Claiming(c)
  <2>1. c # b BY <1>9, <1>14
  <2>2. batch'[c] = batch[c] /\ batch[c].state = "open" BY <1>4, <1>14, <2>1 DEF Claiming
  <2>3. run'[batch[c].owner] = run[batch[c].owner] BY <1>7, <1>11, <2>1, <2>2
  <2> QED BY <1>14, <2>2, <2>3 DEF Claiming
<1>15. ASSUME NEW i \in Item
       PROVE \/ task'[r][i].at = "none"
             \/ /\ task'[r][i].at = "queued" /\ task'[r][i].row.attempts = item[b][i].attempts
                /\ item[b][i].state = "pending"
  <2>1. CASE task'[r][i] = Queued(NewItem) BY <1>8, <1>9, <2>1
  <2> QED BY <1>10, <2>1
<1>16. \A c \in Batch : batch'[c].state = "none" => batch[c].state = "none" BY <1>3, <1>4
<1>17. run'[r].batch = b BY <1>6, <1>7
<1> QED BY SMTT(20), Z3T(20), <1>1, <1>7, <1>10, <1>12, <1>13, <1>14, <1>15, <1>16, <1>17, Begins

\* A run that claimed a batch reads it (Runner.claim).
LEMMA ReadClaimedCounts == ASSUME IInv, IInv', CInv, NEW r \in Run, ReadClaimed(r) PROVE CInv'
<1>1. run[r].phase = "claimed" /\ UNCHANGED <<store, worked, replaced, resumed>> BY DEF ReadClaimed, history
<1>2. PICK b \in Batch : b = run[r].batch BY <1>1 DEF IInv, Runs, RunOK
<1>3. item' = item /\ batch' = batch /\ run[r] \in RunRow /\ \A i \in Item : task[r][i].at = "none"
  BY <1>1 DEF store, IInv, TypeOK, Runs, TaskOK
<1>4. PICK phase \in {"over", "finish", "requeue"} :
         /\ run' = [run EXCEPT ![r].phase = phase]
         /\ phase # "requeue" => task' = task
         /\ phase = "requeue" => task' = [task EXCEPT ![r] = [i \in Item |-> Resumed(item[b][i])]]
  BY <1>2 DEF ReadClaimed, Retire
<1>5. /\ run'[r].batch = b /\ run'[r].phase = phase /\ run'[r].lost = run[r].lost
      /\ \A s \in Run \ {r} : run'[s] = run[s]
  BY <1>2, <1>3, <1>4 DEF IInv, TypeOK, RunRow
<1>6. /\ \A s \in Run \ {r} : task'[s] = task[s]
      /\ \A i \in Item : task'[r][i].at = "none" \/ task'[r][i] = Resumed(item[b][i])
  <2>1. task \in [Run -> [Item -> TaskRow]] BY DEF IInv, TypeOK
  <2>2. CASE phase = "requeue" BY <1>4, <2>1, <2>2
  <2>3. CASE phase # "requeue" BY <1>3, <1>4, <2>3
  <2> QED BY <2>2, <2>3
<1>7. Owners'
  <2>1. Owners BY DEF CInv
  <2>2. ASSUME NEW s \in Run PROVE run'[s].batch = run[s].batch /\ (run[s].phase # "none" => run'[s].phase # "none")
    BY <1>2, <1>5
  <2>3. ASSUME NEW c \in Batch PROVE Owner(c)'
    <3>1. Owner(c) /\ (batch[c].state # "none" => batch[c].owner \in Run) BY <2>1 DEF Owners, IInv, Rows, RowOK
    <3> QED BY <1>1, <1>3, <2>2, <3>1 DEF Owner
  <2>4. \A s \in replaced : run'[s].phase # "none" BY <2>1, <2>2 DEF Owners, IInv, TypeOK
  <2>5. Most' = Most BY <1>1 DEF Most
  <2> QED BY <1>1, <2>1, <2>3, <2>4, <2>5 DEF Owners
<1>8. ASSUME NEW s \in Run \ {r}, Keeps(s)' PROVE Keeps(s)
  BY <1>1, <1>3, <1>5, <1>8 DEF Keeps, Owned, Open
<1>9. ASSUME NEW c \in Batch, Claiming(c)' PROVE Claiming(c)
  <2>1. batch[c].state = "open" /\ batch[c].owner \in Run /\ run'[batch[c].owner].phase \in {"claimed", "requeue"}
    BY <1>3, <1>9 DEF Claiming, IInv, Rows, RowOK
  <2>2. run[batch[c].owner].phase \in {"claimed", "requeue"} BY <1>1, <1>5, <2>1
  <2> QED BY <2>1, <2>2 DEF Claiming
<1>10. Keeps(r)' => Claiming(b)
  <2>1. Keeps(r)' => batch[b].state = "open" /\ batch[b].owner = r BY <1>3, <1>5 DEF Keeps, Owned, Open
  <2> QED BY <1>1, <2>1 DEF Claiming
<1>11. ASSUME NEW i \in Item
       PROVE \/ task'[r][i].at = "none"
             \/ /\ task'[r][i].at = "queued" /\ task'[r][i].row.attempts = item[b][i].attempts
                /\ item[b][i].state = "pending"
             \/ /\ task'[r][i].at = "move" /\ task'[r][i].tries = 0 /\ task'[r][i].row.state = "pending"
                /\ task'[r][i].row.attempts = item[b][i].attempts /\ item[b][i].state = "running"
  <2>1. PICK it \in ItemRow : it = item[b][i] BY ItemAttempts
  <2>2. CASE task'[r][i] = Resumed(it)
    <3>1. CASE it.state = "pending"
      <4>1. task'[r][i] = Queued(it) BY <2>2, <3>1 DEF Resumed
      <4>2. Queued(it).at = "queued" /\ Queued(it).row = it BY DEF Queued, NoTask
      <4> QED BY <2>1, <3>1, <4>1, <4>2
    <3>2. CASE it.state = "running"
      <4>1. PICK up \in ItemRow : up = [it EXCEPT !.state = "pending"] BY DEF ItemRow, ItemState
      <4>2. up.state = "pending" /\ up.attempts = it.attempts BY <4>1 DEF ItemRow
      <4>3. task'[r][i] = Moving(up, "running") BY <2>2, <3>2, <4>1 DEF Resumed
      <4>4. /\ task'[r][i].at = "move" /\ task'[r][i].tries = 0 /\ task'[r][i].row = up BY <4>3 DEF Moving
      <4> QED BY <2>1, <3>2, <4>2, <4>4
    <3>3. CASE it.state \notin {"pending", "running"}
      <4>1. task'[r][i] = NoTask BY <2>2, <3>3 DEF Resumed
      <4> QED BY <4>1, TaskTypes
    <3> QED BY <3>1, <3>2, <3>3
  <2> QED BY <1>6, <2>1, <2>2
<1> QED BY SMTT(20), Z3T(20), <1>1, <1>3, <1>5, <1>6, <1>7, <1>8, <1>9, <1>10, <1>11, Begins

-----------------------------------------------------------------------------
(* Runs that are replaced.                                                 *)

Finite == INSTANCE FiniteSetTheorems

\* The facts on finite sets are about these sets and their sizes.
LEMMA Sizes ==
    ASSUME NEW S
    PROVE (Finite!IsFiniteSet(S) <=> IsFiniteSet(S)) /\ Finite!Cardinality(S) = Cardinality(S)
BY DEF Finite!IsFiniteSet, IsFiniteSet, Finite!Cardinality, Cardinality

\* One more run is replaced.
LEMMA OneMore ==
    ASSUME NEW S, IsFiniteSet(S), NEW o
    PROVE /\ IsFiniteSet(S \cup {o})
          /\ Cardinality(S) \in Nat /\ Cardinality(S \cup {o}) \in Nat
          /\ Cardinality(S) <= Cardinality(S \cup {o})
          /\ o \notin S => Cardinality(S \cup {o}) = Cardinality(S) + 1
<1>1. /\ IsFiniteSet(S \cup {o})
      /\ Cardinality(S \cup {o}) = IF o \in S THEN Cardinality(S) ELSE Cardinality(S) + 1
  BY Sizes, Finite!FS_AddElement
<1>2. Cardinality(S) \in Nat BY Sizes, Finite!FS_CardinalityType
<1> QED BY <1>1, <1>2

\* A run takes a batch from another: a new one, or one that was replaced itself.
LEMMA Takes ==
    ASSUME IInv, IInv', CInv, NEW r \in Run, NEW b \in Batch, batch[b].state = "open", batch[b].owner # r,
           ClaimBatch(b, r), UNCHANGED <<item, task, worked>>, run'[r].batch = b, run'[r].phase # "none",
           \A s \in Run \ {r} : run'[s] = run[s],
           \/ run[r].phase = "none"
           \/ run'[r] = run[r] /\ r \in replaced
    PROVE CInv'
<1>1. PICK o \in Run : o = batch[b].owner /\ run[o].phase # "none" /\ run[o].batch = b
  BY DEF IInv, Rows, RowOK, CInv, Owners, Owner
<1>2. PICK new \in BatchRow : new = [batch[b] EXCEPT !.owner = r, !.stale = FALSE]
  <2>1. batch[b] \in BatchRow BY DEF IInv, TypeOK
  <2>2. [batch[b] EXCEPT !.owner = r, !.stale = FALSE] \in BatchRow BY <2>1 DEF BatchRow
  <2> QED BY <2>2
<1>3. new.owner = r /\ new.state = "open"
  <2>1. batch[b] \in BatchRow BY DEF IInv, TypeOK
  <2> QED BY <1>2, <2>1 DEF BatchRow
<1>4. /\ batch'[b] = new /\ \A c \in Batch \ {b} : batch'[c] = batch[c]
  BY <1>2 DEF ClaimBatch, IInv, TypeOK
<1>5. replaced' = replaced \cup {o} /\ o # r BY <1>1 DEF ClaimBatch
<1>6. resumed \subseteq resumed' /\ (r \in replaced => b \in resumed') /\ resumed' \subseteq resumed \cup {b}
  BY DEF ClaimBatch
<1>7. IsFiniteSet(replaced) /\ \A s \in replaced : s \in Run /\ run[s].phase # "none"
  BY DEF CInv, Owners, IInv, TypeOK
<1>8. /\ IsFiniteSet(replaced') /\ Most \in Nat /\ Most' \in Nat /\ Attempts <= Most' /\ Most <= Most'
      /\ o \notin replaced => Most' = Most + 1
  <2>1. /\ IsFiniteSet(replaced') /\ Cardinality(replaced) \in Nat /\ Cardinality(replaced') \in Nat
        /\ Cardinality(replaced) <= Cardinality(replaced')
        /\ o \notin replaced => Cardinality(replaced') = Cardinality(replaced) + 1
    BY <1>5, <1>7, OneMore
  <2> QED BY SMTT(20), Z3T(20), <2>1, BoundAssumption DEF Most
<1>9. ASSUME NEW c \in Batch, c # b, batch[c].state # "none"
      PROVE batch[c].owner \in Run \ {r, o} /\ run'[batch[c].owner] = run[batch[c].owner]
  <2>1. Owner(c) /\ batch[c].owner \in Run BY <1>9 DEF CInv, Owners, IInv, Rows, RowOK
  <2>2. run[batch[c].owner].phase # "none" /\ run[batch[c].owner].batch = c BY <1>9, <2>1 DEF Owner
  <2>3. batch[c].owner # r /\ batch[c].owner # o BY <1>1, <1>9, <2>2
  <2> QED BY <2>1, <2>3
<1>10. Owners'
  <2>1. \A s \in replaced' : run'[s].phase # "none" BY <1>1, <1>5, <1>7
  <2>2. Owner(b)' BY <1>3, <1>4, <1>5, <1>6, <1>7 DEF Owner
  <2>3. ASSUME NEW c \in Batch, c # b PROVE Owner(c)'
    <3>1. batch'[c] = batch[c] /\ Owner(c) BY <1>4, <2>3 DEF CInv, Owners
    <3>2. c \notin resumed' => c \notin resumed BY <1>6
    <3> QED BY <1>5, <1>9, <2>3, <3>1, <3>2 DEF Owner
  <2> QED BY <1>8, <2>1, <2>2, <2>3 DEF Owners
<1>11. ASSUME NEW s \in Run, NEW i \in Item PROVE task'[s][i].at = "none" \/ Same(s, i)
  <2>1. CASE s = r /\ run[r].phase = "none"
    BY <2>1 DEF IInv, Runs, TaskOK
  <2>2. CASE run'[s] = run[s] /\ (s = r => b \in resumed')
    <3>1. ASSUME Keeps(s)' PROVE Keeps(s)
      <4>1. run[s].batch # b BY SMTT(20), Z3T(20), <1>3, <1>4, <2>2, <3>1 DEF Keeps, Owned
      <4>2. run[s].batch \in Batch BY <2>2, <3>1 DEF Keeps, Owned, Open
      <4>3. batch'[run[s].batch] = batch[run[s].batch] BY <1>4, <4>1, <4>2
      <4>4. run[s].batch \notin resumed BY <1>6, <2>2, <3>1 DEF Keeps
      <4> QED BY <2>2, <3>1, <4>2, <4>3, <4>4 DEF Keeps, Owned, Open
    <3> QED BY <2>2, <3>1 DEF Same
  <2> QED BY <1>6, <2>1, <2>2
<1>12. ASSUME NEW c \in Batch, NEW i \in Item, c \notin resumed', Claiming(c)', item'[c][i].state = "running"
       PROVE item'[c][i].attempts < Most'
  <2>1. Counted(c, i) /\ c \notin resumed /\ item[c][i].attempts \in Nat BY <1>6, <1>12, ItemAttempts DEF CInv
  <2>2. CASE c = b
    <3>1. o \notin replaced BY <1>1, <2>1, <2>2 DEF CInv, Owners, Owner
    <3>2. item[c][i].attempts <= Most BY <2>1 DEF Counted, Bounded
    <3> QED BY SMTT(20), Z3T(20), <1>8, <2>1, <3>1, <3>2
  <2>3. CASE c # b
    <3>1. batch'[c] = batch[c] /\ batch[c].state = "open" BY <1>4, <1>12, <2>3 DEF Claiming
    <3>2. Claiming(c) BY <1>9, <1>12, <2>3, <3>1 DEF Claiming
    <3>3. item[c][i].attempts < Most BY <1>12, <2>1, <3>2 DEF Counted
    <3> QED BY SMTT(20), Z3T(20), <1>8, <2>1, <3>3
  <2> QED BY <2>2, <2>3
<1>13. \A c \in Batch : batch'[c].state = "none" => batch[c].state = "none" BY <1>3, <1>4
<1> QED BY <1>6, <1>8, <1>10, <1>11, <1>12, <1>13, Calm

\* A new run claims a batch (Runner.TakeOver).
LEMMA TakeOverCounts ==
    ASSUME IInv, IInv', CInv, NEW n \in Node, NEW b \in Batch, NEW r \in Run, TakeOver(n, b, r) PROVE CInv'
<1>1. /\ run[r].phase = "none" /\ batch[b].state = "open" /\ ClaimBatch(b, r) /\ UNCHANGED <<item, task, worked>>
  BY DEF TakeOver, Fresh, Claimable, Open
<1>2. batch[b].owner # r BY <1>1 DEF CInv, Owners, Owner
<1>3. PICK phase \in {"claimed", "over"} : run' = [run EXCEPT ![r] = Begun(phase, n, b)] BY DEF TakeOver
<1>4. PICK row \in RunRow : row = Begun(phase, n, b) /\ row.phase = phase /\ row.batch = b BY SMTT(20), Z3T(20), BegunRow
<1>5. run'[r] = row /\ \A s \in Run \ {r} : run'[s] = run[s] BY <1>3, <1>4, RunSet DEF IInv
<1> QED BY <1>1, <1>2, <1>4, <1>5, Takes

\* A run beats, or learns that it was replaced (Runner.beat).
LEMMA BeatCounts == ASSUME IInv, IInv', CInv, NEW r \in Run, Beat(r) PROVE CInv'
<1>1. run[r].phase = "running" /\ UNCHANGED <<item, task, worked>> BY DEF Beat, Beating
<1>2. PICK b \in Batch : b = run[r].batch BY <1>1 DEF IInv, Runs, RunOK
<1>3. CASE run' = [run EXCEPT ![r].lost = TRUE, ![r].stopped = TRUE] /\ UNCHANGED <<batch, replaced, resumed>>
  <2>1. \A s \in Run : Going(s) BY <1>1, <1>3, RunGoes
  <2>2. GoOn BY <1>3, <2>1 DEF GoOn, Lasting
  <2> QED BY <1>1, <2>2, Quiet
<1>4. CASE Claimable(b, r) /\ ClaimBatch(b, r) /\ run' = run /\ batch[b].owner = r
  <2>1. r \in replaced => b \in resumed BY <1>4 DEF CInv, Owners, Owner, Claimable, Open
  <2>2. replaced' = replaced /\ resumed' = resumed BY <1>4, <2>1 DEF ClaimBatch
  <2>3. \A c \in Batch : Lasting(c) BY <1>4 DEF ClaimBatch, Lasting, IInv, TypeOK, BatchRow
  <2>4. GoOn BY <1>4, <2>2, <2>3 DEF GoOn, Going
  <2> QED BY <1>1, <2>4, Quiet
<1>5. CASE Claimable(b, r) /\ ClaimBatch(b, r) /\ run' = run /\ batch[b].owner # r
  <2>1. batch[b].state = "open" BY <1>5 DEF Claimable, Open
  <2>2. r \in replaced BY <1>1, <1>2, <1>5 DEF IInv, Runs, RunOK
  <2>3. run'[r].batch = b /\ run'[r].phase # "none" /\ run'[r] = run[r] BY <1>1, <1>2, <1>5
  <2> QED BY <1>1, <1>5, <2>1, <2>2, <2>3, Takes
<1> QED BY <1>2, <1>3, <1>4, <1>5 DEF Beat

-----------------------------------------------------------------------------
(* The theorem.                                                            *)

\* Nothing was worked, and nothing has an attempt.
LEMMA CountsInitially == ASSUME Init PROVE CInv
<1>1. NewItem.attempts = 0 /\ NewItem.state = "pending" /\ NewBatch.state = "none" /\ NewRun.phase = "none" /\ NoTask.at = "none"
  BY DEF NewItem, NewBatch, NewRun, NoTask
<1>2. IsFiniteSet(replaced) /\ Cardinality(replaced) = 0 BY Sizes, Finite!FS_EmptySet DEF Init
<1>3. Most \in Nat /\ Attempts <= Most /\ 0 < Most BY <1>2, BoundAssumption DEF Most
<1>4. ASSUME NEW b \in Batch, NEW i \in Item PROVE Counted(b, i) /\ Owner(b)
  <2>1. item[b][i].attempts = 0 /\ worked[b][i] = 0 /\ batch[b].state = "none" BY <1>1, <1>4 DEF Init
  <2>2. Bounded(item[b][i], Most) BY <1>3, <2>1 DEF Bounded
  <2> QED BY <2>1, <2>2 DEF Counted, Owner, Claiming
<1>5. ASSUME NEW r \in Run, NEW i \in Item PROVE Knows(r, i) /\ Awaits(r, i) /\ Turned(r, i)
  <2>1. run[r].phase = "none" /\ task[r][i].at = "none" BY <1>1, <1>5 DEF Init
  <2> QED BY <2>1 DEF Knows, Keeps, Awaits, Asks, Turned
<1>6. \A b \in Batch : Owner(b) BY <1>1 DEF Init, Owner
<1>7. Owners BY <1>2, <1>3, <1>6 DEF Owners, Init
<1> QED BY <1>4, <1>5, <1>7 DEF CInv

\* Every step keeps the counts.
LEMMA CountsInductive == ASSUME IInv, IInv', CInv, [Next]_vars PROVE CInv'
<1>1. CASE \E n \in Node, b \in Batch, r \in Run : Start(n, b, r) \/ TakeOver(n, b, r)
  BY <1>1, StartCounts, TakeOverCounts
<1>2. ASSUME NEW r \in Run, Step(r) PROVE CInv'
  BY <1>2, ReadClaimedCounts, RunCounts, FinishCounts, MoveAnsweredCounts, MoveRefusedCounts, MoveFailsCounts,
     MoveAbandonedCounts, ReadBackCounts, TakeCounts, LaterCounts, WorkCounts DEF Step
<1>3. ASSUME NEW r \in Run, Heartbeat(r) PROVE CInv' BY <1>3, BeatCounts, RunCounts DEF Heartbeat
<1>4. CASE \E b \in Batch : Cancel(b) \/ Age(b) BY <1>4, BatchCounts
<1>5. CASE \E n \in Node : Crash(n) \/ Close(n) \/ Restart(n) BY <1>5, NodeCounts
<1>6. CASE UNCHANGED vars
  <2>1. UNCHANGED <<batch, item, run, task, worked, replaced, resumed>> BY <1>6 DEF vars, store, local, history
  <2>2. GoOn BY <2>1 DEF GoOn, Going, Lasting
  <2> QED BY <2>1, <2>2, Quiet
<1> QED BY <1>1, <1>2, <1>3, <1>4, <1>5, <1>6 DEF Next

\* No item is worked more often than its attempts say, and beyond Options.Attempts
\* only once for each run its batch was taken from, whatever crashes, late heartbeats,
\* lost answers and takeovers there are (Runner.runItem, move, written, claim).
THEOREM AttemptsCounted == Spec => []AttemptsCountRuns
<1>1. Init => IInv /\ CInv BY Initially, CountsInitially
<1>2. IInv /\ CInv /\ [Next]_vars => (IInv /\ CInv)'
  <2>1. SUFFICES ASSUME IInv, CInv, [Next]_vars PROVE IInv' /\ CInv' OBVIOUS
  <2>2. IInv' BY <2>1, Inductive
  <2> QED BY <2>1, <2>2, CountsInductive
<1>3. IInv /\ CInv => AttemptsCountRuns BY DEF CInv, Counted, Bounded, Most, AttemptsCountRuns
<1> QED BY <1>1, <1>2, <1>3, PTL DEF Spec
=============================================================================
