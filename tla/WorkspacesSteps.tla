-------------------------- MODULE WorkspacesSteps --------------------------
(***************************************************************************)
(* What the steps of Workspaces do: to the store of revisions, to the      *)
(* versions and bases of workspaces, and to the items, conflicts and       *)
(* checkpoints of the workspace an operation writes (After).               *)
(***************************************************************************)
EXTENDS Workspaces, TLAPS

\* Most leaves are first-order; what needs more goes to SMT.
USE ZenonT(20), SMTT(10), Z3T(10)

-----------------------------------------------------------------------------
(* The store.                                                              *)

\* What a step of the system does to the store: one of its operations, with
\* whatever arguments, or nothing.
StoreStep ==
    \/ \E parent, payload, by : Create(parent, payload, by)
    \/ \E id, expected : Publish(id, expected)
    \/ \E id : Discard(id)
    \/ \E expected, target, by : Rollback(expected, target, by)
    \/ \E h \in History : ImportHistory(h)
    \/ UNCHANGED store

\* Every step of every operation is a StoreStep.
LEMMA OnlyStoreSteps == ASSUME [WNext]_vars PROVE StoreStep
<1>1. ASSUME NEW p \in Proc, Steps(p) PROVE StoreStep
  <2>1. CASE Build(p) BY <2>1 DEF Build, StoreStep
  <2>2. CASE PublishStore(p) BY <2>2 DEF PublishStore, StoreStep
  <2>3. CASE RollbackStore(p) BY <2>3 DEF RollbackStore, StoreStep
  <2>4. CASE DiscardNext(p) BY <2>4 DEF DiscardNext, StoreStep
  <2>5. CASE Put(p) BY <2>5 DEF Put, StoreStep
  <2> QED
    BY <1>1, <2>1, <2>2, <2>3, <2>4, <2>5
    DEF Steps, ReadPublished, Load, NothingToWrite, ReadAgain, PutRetries, PutFails, BuildFails, PublishCheck,
        PublishFails, PublishRefused, RollbackRefused, DiscardFails, Cut, untouched, StoreStep
<1>2. ASSUME NEW p \in Proc, NEW j, Begin(p, j) PROVE StoreStep
  BY <1>2 DEF Begin, StoreStep
<1>3. CASE \E p \in Proc : \E to \in OncePublished \cup {0} : BeginRollback(p, to)
  BY <1>2, <1>3 DEF BeginRollback
<1>4. CASE \E p \in Proc, u \in User :
         \/ \E r \in Ref, v \in Value : BeginWrite(p, u, r, v)
         \/ \E op \in {"update", "reset"}, to \in OncePublished : BeginMove(p, u, op, to)
         \/ \E op \in {"merge", "load", "keep"}, rev \in Ids : BeginTake(p, u, op, rev)
         \/ \E op \in {"checkpoint", "commit"} : BeginSave(p, u, op)
         \/ Kept(u) /\ \E c \in ws[u].conflicts, theirs \in BOOLEAN : BeginResolve(p, u, c, theirs)
  <2>1. PICK p \in Proc : \E j : Begin(p, j)
    BY <1>4 DEF BeginWrite, BeginMove, BeginTake, BeginSave, BeginResolve
  <2> QED BY <1>2, <2>1
<1>5. CASE \E payload \in Payload : CliDraft(payload) BY <1>5 DEF CliDraft, StoreStep
<1>6. CASE \E id \in Ids : CliPublish(id) \/ CliDiscard(id) BY <1>6 DEF CliPublish, CliDiscard, StoreStep
<1>7. CASE \E h \in History : Import(h) BY <1>7 DEF Import, StoreStep
<1>8. CASE UNCHANGED vars BY <1>8 DEF vars, StoreStep
<1> QED BY <1>1, <1>3, <1>4, <1>5, <1>6, <1>7, <1>8 DEF WNext

\* Published is the published revision when there is one.
LEMMA PublishedIs == ASSUME OnePublished, NEW i \in InState("published") PROVE i = Published
BY DEF OnePublished, Published

\* The rows of the store are records of a revision, numbered below nextID.
Rows ==
    /\ nextID \in Nat \ {0}
    /\ \A i \in Ids :
         /\ i \in Nat \ {0} /\ i < nextID
         /\ DOMAIN revs[i] = {"parent", "payload", "state", "at", "by"}

\* Replacing the published revision leaves none published, and changes no
\* other revision and nothing but the state.
LEMMA ReplacedIs ==
    ASSUME OnePublished, Rows, NEW s, s # "published"
    PROVE /\ DOMAIN Replaced(s) = Ids
          /\ \A i \in Ids :
               /\ DOMAIN Replaced(s)[i] = {"parent", "payload", "state", "at", "by"}
               /\ Replaced(s)[i].payload = revs[i].payload /\ Replaced(s)[i].parent = revs[i].parent
               /\ Replaced(s)[i].by = revs[i].by
               /\ IF revs[i].state = "published" THEN Replaced(s)[i].state = s
                  ELSE i # Published => Replaced(s)[i].state = revs[i].state
<1> SUFFICES ASSUME NEW i \in Ids
             PROVE /\ DOMAIN Replaced(s)[i] = {"parent", "payload", "state", "at", "by"}
                   /\ Replaced(s)[i].payload = revs[i].payload /\ Replaced(s)[i].parent = revs[i].parent
                   /\ Replaced(s)[i].by = revs[i].by
                   /\ IF revs[i].state = "published" THEN Replaced(s)[i].state = s
                      ELSE i # Published => Replaced(s)[i].state = revs[i].state
  BY DEF Replaced
<1>1. CASE i = Published
  <2>1. Replaced(s)[i] = [revs[i] EXCEPT !.state = s] BY <1>1 DEF Replaced
  <2>2. DOMAIN revs[i] = {"parent", "payload", "state", "at", "by"} BY DEF Rows
  <2> QED BY <1>1, <2>1, <2>2
<1>2. CASE i # Published
  <2>1. Replaced(s)[i] = revs[i] BY <1>2 DEF Replaced
  <2>2. revs[i].state # "published" BY <1>2, PublishedIs DEF InState
  <2> QED BY <1>2, <2>1, <2>2 DEF Rows
<1> QED BY <1>1, <1>2

\* Published is a number: 0, or the revision in state published.
LEMMA PublishedType == ASSUME Rows PROVE Published \in Nat /\ (Published # 0 => Published \in InState("published"))
BY DEF Rows, Published, InState

\* If Published names a revision, it is published.
LEMMA PublishedState == ASSUME Rows, NEW i \in Ids, i = Published PROVE revs[i].state = "published"
BY PublishedType DEF InState, Rows

StoreInv == Rows /\ OnePublished

\* Creating a draft.
LEMMA CreateStep ==
    ASSUME StoreInv, NEW parent, NEW payload, NEW by, Create(parent, payload, by)
    PROVE StoreInv' /\ \A i \in Ids : Alive(i)
<1>1. DOMAIN revs' = Ids \cup {nextID} /\ nextID' = nextID + 1
  BY DEF Create, With
<1>2. \A i \in Ids \cup {nextID} : revs'[i] = IF i = nextID THEN Draft(parent, payload, by) ELSE revs[i]
  BY DEF Create, With
<1>3. nextID \notin Ids BY DEF StoreInv, Rows
<1>4. \A i \in Ids : revs'[i] = revs[i] BY <1>2, <1>3
<1>5. revs'[nextID] = Draft(parent, payload, by) BY <1>2
<1>6. Rows'
  <2>1. nextID' \in Nat \ {0} /\ \A i \in Ids \cup {nextID} : i \in Nat \ {0} /\ i < nextID'
    BY SMTT(20), Z3T(20), <1>1 DEF StoreInv, Rows
  <2>2. \A i \in Ids \cup {nextID} : DOMAIN revs'[i] = {"parent", "payload", "state", "at", "by"}
    BY SMTT(20), Z3T(20), <1>4, <1>5 DEF StoreInv, Rows, Draft
  <2> QED BY <1>1, <2>1, <2>2 DEF Rows, Ids
<1>7. OnePublished'
  <2>1. \A i \in Ids' : revs'[i].state = "published" => i \in Ids /\ revs[i].state = "published"
    BY <1>1, <1>4, <1>5 DEF Draft, Ids
  <2> QED BY <2>1 DEF StoreInv, OnePublished, InState
<1> QED BY <1>1, <1>4, <1>6, <1>7 DEF StoreInv, Alive

\* Publishing a draft.
LEMMA PublishStep ==
    ASSUME StoreInv, NEW id, NEW expected, Publish(id, expected)
    PROVE StoreInv' /\ \A i \in Ids : Alive(i)
<1> DEFINE s == "superseded"
<1>1. id \in Ids /\ revs[id].state = "draft" /\ nextID' = nextID
  BY DEF Publish, InState
<1>2. id # Published BY <1>1, PublishedState DEF StoreInv
<1>3. DOMAIN Replaced(s) = Ids /\ DOMAIN revs' = Ids
  BY ReplacedIs DEF Publish, StoreInv
<1>4. \A i \in Ids \ {id} : revs'[i] = Replaced(s)[i]
  BY <1>3 DEF Publish
<1>5. revs'[id] = [revs[id] EXCEPT !.state = "published", !.at = Now]
  BY <1>1, <1>2, <1>3 DEF Publish, Replaced
<1>6. DOMAIN revs[id] = {"parent", "payload", "state", "at", "by"} BY <1>1 DEF StoreInv, Rows
<1>7. /\ DOMAIN revs'[id] = {"parent", "payload", "state", "at", "by"} /\ revs'[id].state = "published"
      /\ revs'[id].payload = revs[id].payload /\ revs'[id].parent = revs[id].parent /\ revs'[id].by = revs[id].by
  BY <1>5, <1>6
<1>8. \A i \in Ids \ {id} :
        /\ DOMAIN revs'[i] = {"parent", "payload", "state", "at", "by"}
        /\ revs'[i].payload = revs[i].payload /\ revs'[i].parent = revs[i].parent /\ revs'[i].by = revs[i].by
        /\ revs'[i].state = IF revs[i].state = "published" THEN s ELSE revs[i].state
  BY SMTT(20), Z3T(20), <1>4, ReplacedIs, PublishedState DEF StoreInv
<1>9. Rows' BY <1>1, <1>3, <1>7, <1>8 DEF StoreInv, Rows, Ids
<1>10. OnePublished' BY <1>3, <1>8 DEF OnePublished, InState, Ids
<1>11. \A i \in Ids : Alive(i)
  BY <1>1, <1>3, <1>7, <1>8 DEF Alive
<1> QED BY <1>9, <1>10, <1>11 DEF StoreInv

\* Discarding a draft.
LEMMA DiscardStep ==
    ASSUME StoreInv, NEW id, Discard(id)
    PROVE StoreInv' /\ \A i \in Ids : Alive(i)
<1>1. id \in Ids /\ revs[id].state = "draft" /\ nextID' = nextID
  BY DEF Discard, InState
<1>2. DOMAIN revs' = Ids /\ \A i \in Ids \ {id} : revs'[i] = revs[i]
  BY <1>1 DEF Discard, Ids
<1>3. revs'[id] = [revs[id] EXCEPT !.state = "discarded"]
  BY <1>1 DEF Discard, Ids
<1>4. DOMAIN revs[id] = {"parent", "payload", "state", "at", "by"} BY <1>1 DEF StoreInv, Rows
<1>5. /\ DOMAIN revs'[id] = {"parent", "payload", "state", "at", "by"} /\ revs'[id].state = "discarded"
      /\ revs'[id].payload = revs[id].payload /\ revs'[id].parent = revs[id].parent /\ revs'[id].by = revs[id].by
  BY <1>3, <1>4
<1>6. Rows' BY SMTT(20), Z3T(20), <1>1, <1>2, <1>5 DEF StoreInv, Rows, Ids
<1>7. OnePublished' BY <1>2, <1>5 DEF StoreInv, OnePublished, InState, Ids
<1>8. \A i \in Ids : Alive(i) BY <1>1, <1>2, <1>5 DEF Alive
<1> QED BY <1>6, <1>7, <1>8 DEF StoreInv

\* Restoring an earlier revision as a new one.
LEMMA RollbackStep ==
    ASSUME StoreInv, NEW expected, NEW target, NEW by, Rollback(expected, target, by)
    PROVE StoreInv' /\ \A i \in Ids : Alive(i)
<1> DEFINE s == "rolled-back"
<1>1. nextID' = nextID + 1 /\ nextID \notin Ids
  BY SMTT(20), Z3T(20) DEF Rollback, StoreInv, Rows
<1>2. PICK source :
        revs' = [i \in Ids \cup {nextID} |->
                   IF i = nextID
                   THEN [Draft(source, revs[source].payload, by) EXCEPT !.state = "published", !.at = Now]
                   ELSE Replaced(s)[i]]
  BY DEF Rollback
<1>3. DOMAIN revs' = Ids \cup {nextID} BY <1>2
<1>4. \A i \in Ids : revs'[i] = Replaced(s)[i] BY <1>1, <1>2
<1>5. DOMAIN revs'[nextID] = {"parent", "payload", "state", "at", "by"}
  BY <1>2 DEF Draft
<1>6. \A i \in Ids :
        /\ DOMAIN revs'[i] = {"parent", "payload", "state", "at", "by"}
        /\ revs'[i].payload = revs[i].payload /\ revs'[i].parent = revs[i].parent /\ revs'[i].by = revs[i].by
        /\ revs'[i].state = IF revs[i].state = "published" THEN s ELSE revs[i].state
  BY SMTT(20), Z3T(20), <1>4, ReplacedIs, PublishedState DEF StoreInv
<1>7. Rows'
  <2>1. nextID' \in Nat \ {0} /\ \A i \in Ids \cup {nextID} : i \in Nat \ {0} /\ i < nextID'
    BY SMTT(20), Z3T(20), <1>1 DEF StoreInv, Rows
  <2> QED BY <1>3, <1>5, <1>6, <2>1 DEF Rows, Ids
<1>8. OnePublished' BY <1>3, <1>6 DEF OnePublished, InState, Ids
<1>9. \A i \in Ids : Alive(i) BY <1>3, <1>6 DEF Alive
<1> QED BY <1>7, <1>8, <1>9 DEF StoreInv

\* Importing a history into a store that has none.
LEMMA ImportStep ==
    ASSUME StoreInv, NEW h \in History, ImportHistory(h)
    PROVE StoreInv' /\ \A i \in Ids : Alive(i)
<1>1. revs' = h /\ Ids = {} /\ 0 \notin DOMAIN h BY DEF ImportHistory, ValidateHistory
<1>2. DOMAIN h \subseteq Nat /\ \A i \in DOMAIN h : h[i] \in Revision BY HistoryAssumption
<1>3. \A i \in DOMAIN h : DOMAIN h[i] = {"parent", "payload", "state", "at", "by"}
  BY <1>2 DEF Revision
<1>4. nextID' \in Nat \ {0} /\ \A i \in DOMAIN h : i < nextID'
  BY SMTT(20), Z3T(20), <1>1, <1>2 DEF ImportHistory, StoreInv, Rows
<1>5. Rows' BY <1>1, <1>2, <1>3, <1>4 DEF Rows, Ids
<1>6. OnePublished' BY <1>1 DEF ImportHistory, ValidateHistory, OnePublished, InState, Ids
<1> QED BY <1>1, <1>5, <1>6 DEF StoreInv

\* Whatever a step does to the store.
LEMMA StoreInvStep == ASSUME StoreInv, StoreStep PROVE StoreInv' /\ \A i \in Ids : Alive(i) \/ UNCHANGED store
<1>1. CASE UNCHANGED store
  BY <1>1 DEF store, StoreInv, Rows, OnePublished, InState, Ids
<1> QED
  BY <1>1, CreateStep, PublishStep, DiscardStep, RollbackStep, ImportStep DEF StoreStep

\* The store starts empty.
LEMMA StoreInvInit == WInit => StoreInv
BY SMTT(20), Z3T(20) DEF WInit, Init, StoreInv, Rows, OnePublished, InState, Ids

-----------------------------------------------------------------------------
(* The workspaces.  A row written at a version nobody else wrote is the row *)
(* read: so what an operation compared before it writes still holds then.   *)

Fields == {"base", "items", "conflicts", "taken", "checkpoint", "checkpointAt", "version"}
Row(w) == DOMAIN w = Fields /\ w.base \in Nat /\ w.version \in Nat

Takes == {"merge", "load", "keep"}
Saves == {"checkpoint", "commit"}
Applied == {"write", "update", "reset", "resolve"} \cup Takes \cup Saves

\* The operation a process is in: where it can be, and the workspace it read.
JobInv(j) ==
    /\ DOMAIN j = DOMAIN Idle
    /\ j.arg \in Nat /\ j.at \in Nat /\ j.draft \in Nat
    /\ j.pc \in {"idle", "published", "load", "put", "build", "publish", "store", "rollback", "discard"}
    /\ j.pc = "published" => j.op \in Takes
    /\ j.pc \in {"load", "put"} => j.op \in Applied
    /\ j.pc \in {"build", "publish", "store"} => j.op \in Saves
    /\ j.pc \in {"published", "load", "put", "build", "publish", "store"} => j.user \in User
    /\ j.pc = "put" =>
         /\ Row(j.w)
         /\ j.w.version <= ws[j.user].version
         /\ j.w.version = ws[j.user].version /\ Kept(j.user) => j.w = ws[j.user]

WorkspaceInv ==
    /\ DOMAIN ws = User /\ \A u \in User : Row(ws[u])
    /\ DOMAIN job = Proc /\ \A p \in Proc : JobInv(job[p])

\* What an operation makes of the workspace it read is a workspace, and but
\* for a reset its base is no older.
LEMMA ChangedRow ==
    ASSUME NEW j, Row(j.w), j.arg \in Nat, j.at \in Nat, j.draft \in Nat, j.op \in Applied,
           ~Unchanged(j), ~PublishedMoved(j)
    PROVE /\ DOMAIN Changed(j) = Fields /\ Changed(j).base \in Nat
          /\ j.op # "reset" => Changed(j).base >= j.w.base
<1> DEFINE w == j.w
<1>1. CASE j.op = "write"
  <2>1. Changed(j) = Written(w, j) BY <1>1 DEF Changed
  <2> QED BY SMTT(20), Z3T(20), <2>1 DEF Written, Row, Fields
<1>2. CASE j.op = "update"
  <2>1. Changed(j) = MoveOnto(w, Content(w.base), j.arg) BY <1>2 DEF Changed, Updated
  <2>2. ~(w.base > j.arg) BY <1>2 DEF Unchanged
  <2> QED BY SMTT(20), Z3T(20), <2>1, <2>2 DEF MoveOnto, Row, Fields
<1>3. CASE j.op = "reset"
  <2>1. Changed(j) = WasReset(w, j) BY <1>3 DEF Changed
  <2> QED BY <1>3, <2>1 DEF WasReset, Forget, Row, Fields
<1>4. CASE j.op = "load"
  <2>1. Changed(j) = Loaded(w, j) BY <1>4 DEF Changed
  <2>2. ~(w.base > j.at) BY <1>4 DEF PublishedMoved
  <2> QED BY SMTT(20), Z3T(20), <2>1, <2>2 DEF Loaded, Forget, Row, Fields
<1>5. CASE j.op = "keep"
  <2>1. Changed(j) = LoadedOnto(w, j) BY <1>5 DEF Changed
  <2>2. ~(w.base > j.at) BY <1>5 DEF PublishedMoved
  <2> QED BY SMTT(20), Z3T(20), <2>1, <2>2 DEF LoadedOnto, Row, Fields
<1>6. CASE j.op = "merge"
  <2>1. Changed(j) = Merged(w, j) BY <1>6 DEF Changed
  <2>2. ~(w.base > j.at) BY <1>6 DEF PublishedMoved
  <2>3. DOMAIN Moved(w, j) = Fields /\ Moved(w, j).base = j.at
    BY DEF Moved, MoveOnto, Row, Fields
  <2> QED BY SMTT(20), Z3T(20), <2>1, <2>2, <2>3 DEF Merged, Row, Fields
<1>7. CASE j.op = "resolve"
  <2>1. Changed(j) = Resolved(w, j) BY <1>7 DEF Changed
  <2>2. PICK items, conflicts : Resolved(w, j) = [w EXCEPT !.items = items, !.conflicts = conflicts]
    BY Zenon DEF Resolved
  <2> QED BY SMTT(20), Z3T(20), <2>1, <2>2 DEF Row, Fields
<1>8. CASE j.op = "checkpoint"
  <2>1. Changed(j) = Checkpointed(w, j) BY <1>8 DEF Changed
  <2> QED BY SMTT(20), Z3T(20), <2>1 DEF Checkpointed, Row, Fields
<1>9. CASE j.op = "commit"
  <2>1. Changed(j) = Committed(w, j) BY <1>9 DEF Changed
  <2> QED BY SMTT(20), Z3T(20), <2>1 DEF Committed, MoveOnto, Row, Fields
<1> QED BY <1>1, <1>2, <1>3, <1>4, <1>5, <1>6, <1>7, <1>8, <1>9 DEF Applied, Takes, Saves
\* What load reads is a workspace, at the version kept.
LEMMA ReadRow ==
    ASSUME StoreInv, WorkspaceInv, NEW u \in User, Readable(u)
    PROVE Row(Read(u)) /\ Read(u).version = ws[u].version /\ (Kept(u) => Read(u) = ws[u])
<1>1. CASE Kept(u) BY <1>1 DEF Read, WorkspaceInv
<1>2. CASE ~Kept(u)
  <2>1. Read(u) = Unwritten BY <1>2 DEF Read
  <2> QED BY <1>2, <2>1, PublishedType DEF Unwritten, Row, Fields, StoreInv, Kept
<1> QED BY <1>1, <1>2

\* A process begins, goes on or ends; the workspaces stay.
LEMMA JobStep ==
    ASSUME WorkspaceInv, NEW p \in Proc, NEW j, JobInv(j), job' = [job EXCEPT ![p] = j], UNCHANGED ws
    PROVE WorkspaceInv'
<1>1. DOMAIN job' = Proc /\ \A q \in Proc : job'[q] = IF q = p THEN j ELSE job[q]
  BY DEF WorkspaceInv
<1>2. \A q \in Proc : JobInv(job'[q]) BY <1>1 DEF WorkspaceInv
<1>3. \A q \in Proc : JobInv(job[q])' BY SMTT(20), Z3T(20), <1>2 DEF JobInv, Kept
<1> QED BY <1>1, <1>3 DEF WorkspaceInv, Row

\* An operation that ended satisfies the invariant, one that discards too.
LEMMA EndedJobs ==
    /\ JobInv(Idle)
    /\ \A op, u, ids : JobInv([Start("discard", op, u) EXCEPT !.todo = ids])
BY SMTT(20), Z3T(20) DEF JobInv, Idle, Start, Takes, Saves, Applied

\* Returning, or discarding what is left.
LEMMA EndStep ==
    ASSUME WorkspaceInv, NEW p \in Proc, NEW ids, Discarding(p, ids) \/ Return(p), UNCHANGED ws
    PROVE WorkspaceInv'
<1>1. CASE Return(p) BY <1>1, JobStep, EndedJobs DEF Return
<1>2. CASE Discarding(p, ids) /\ ids # {}
  <2>1. job' = [job EXCEPT ![p] = [Start("discard", job[p].op, job[p].user) EXCEPT !.todo = ids]]
    BY <1>2 DEF Discarding, WorkspaceInv
  <2> QED BY <2>1, JobStep, EndedJobs
<1> QED BY <1>1, <1>2 DEF Discarding

\* An operation begins.
LEMMA BeginStep ==
    ASSUME WorkspaceInv, NEW p \in Proc, NEW j, JobInv(j), Begin(p, j)
    PROVE WorkspaceInv'
BY JobStep DEF Begin

\* Every operation begins well.
LEMMA BeginSteps ==
    ASSUME StoreInv, WorkspaceInv, NEW p \in Proc, NEW u \in User,
           \/ \E r \in Ref, v \in Value : BeginWrite(p, u, r, v)
           \/ \E op \in {"update", "reset"}, to \in OncePublished : BeginMove(p, u, op, to)
           \/ \E op \in {"merge", "load", "keep"}, rev \in Ids : BeginTake(p, u, op, rev)
           \/ \E op \in {"checkpoint", "commit"} : BeginSave(p, u, op)
           \/ Kept(u) /\ \E c \in ws[u].conflicts, theirs \in BOOLEAN : BeginResolve(p, u, c, theirs)
    PROVE WorkspaceInv'
<1>1. ASSUME NEW r \in Ref, NEW v \in Value, BeginWrite(p, u, r, v) PROVE WorkspaceInv'
  <2> DEFINE j == [Start("load", "write", u) EXCEPT !.item = [ref |-> r, value |-> v], !.view = Seen(Read(u))]
  <2>1. JobInv(j) BY DEF JobInv, Start, Idle, Applied, Takes, Saves
  <2> QED BY <1>1, <2>1, BeginStep DEF BeginWrite
<1>2. ASSUME NEW op \in {"update", "reset"}, NEW to \in OncePublished, BeginMove(p, u, op, to) PROVE WorkspaceInv'
  <2> DEFINE j == [Start("put", op, u) EXCEPT !.arg = to, !.w = Read(u)]
  <2>1. to \in Nat BY DEF OncePublished, StoreInv, Rows
  <2>2. Row(Read(u)) /\ Read(u).version = ws[u].version /\ (Kept(u) => Read(u) = ws[u])
    BY <1>2, ReadRow DEF BeginMove
  <2>3. DOMAIN j = DOMAIN Idle /\ j.pc = "put" /\ j.op = op /\ j.user = u /\ j.arg = to /\ j.w = Read(u)
        /\ j.at = 0 /\ j.draft = 0
    BY DEF Start, Idle
  <2>4. JobInv(j)
    <3>1. ws[u].version \in Nat BY DEF WorkspaceInv, Row
    <3> HIDE DEF j
    <3> QED BY <2>1, <2>2, <2>3, <3>1 DEF JobInv, Applied, Takes, Saves
  <2> QED BY <1>2, <2>4, BeginStep DEF BeginMove
<1>3. ASSUME NEW op \in {"merge", "load", "keep"}, NEW rev \in Ids, BeginTake(p, u, op, rev) PROVE WorkspaceInv'
  <2> DEFINE j == [Start("published", op, u) EXCEPT !.arg = rev, !.from = BasedOn(rev)]
  <2>1. rev \in Nat BY DEF StoreInv, Rows
  <2>2. JobInv(j) BY <2>1 DEF JobInv, Start, Idle, Takes
  <2> QED BY <1>3, <2>2, BeginStep DEF BeginTake
<1>4. ASSUME NEW op \in {"checkpoint", "commit"}, BeginSave(p, u, op) PROVE WorkspaceInv'
  <2> DEFINE j == [Start("build", op, u) EXCEPT !.view = Read(u)]
  <2>1. JobInv(j) BY DEF JobInv, Start, Idle, Saves
  <2> QED BY <1>4, <2>1, BeginStep DEF BeginSave
<1>5. ASSUME NEW c, NEW theirs, BeginResolve(p, u, c, theirs) PROVE WorkspaceInv'
  <2> DEFINE j == [Start("load", "resolve", u) EXCEPT
                    !.item = [born |-> c.born, ref |-> c.ref, pinned |-> c.pinned, theirs |-> theirs]]
  <2>1. JobInv(j) BY DEF JobInv, Start, Idle, Applied
  <2> QED BY <1>5, <2>1, BeginStep DEF BeginResolve
<1> QED BY <1>1, <1>2, <1>3, <1>4, <1>5

\* An operation reads the workspace.
LEMMA LoadStep == ASSUME StoreInv, WorkspaceInv, NEW p \in Proc, Load(p) PROVE WorkspaceInv'
<1> DEFINE u == job[p].user
           j == [job[p] EXCEPT !.w = Read(u), !.pc = "put"]
<1>1. JobInv(job[p]) /\ job[p].pc = "load" BY DEF WorkspaceInv, Load, At
<1>2. u \in User BY <1>1 DEF JobInv
<1>3. Row(Read(u)) /\ Read(u).version = ws[u].version /\ (Kept(u) => Read(u) = ws[u])
  BY <1>2, ReadRow DEF Load
<1>4. DOMAIN job[p] = DOMAIN Idle BY <1>1 DEF JobInv
<1>5. /\ DOMAIN j = DOMAIN Idle /\ j.pc = "put" /\ j.op = job[p].op /\ j.user = u /\ j.arg = job[p].arg /\ j.w = Read(u)
      /\ j.at = job[p].at /\ j.draft = job[p].draft
  BY <1>4 DEF Idle
<1>6. JobInv(j)
  <2>1. ws[u].version \in Nat BY <1>2 DEF WorkspaceInv, Row
  <2> HIDE DEF j
  <2> QED BY <1>1, <1>2, <1>3, <1>5, <2>1 DEF JobInv
<1>7. job' = [job EXCEPT ![p] = j] BY DEF Load, WorkspaceInv
<1> QED BY <1>6, <1>7, JobStep DEF Load, untouched

\* An operation goes on at a step other than the write.
LEMMA GoOn ==
    ASSUME WorkspaceInv, NEW p \in Proc, NEW j, DOMAIN j = DOMAIN Idle,
           j.op = job[p].op, j.user = job[p].user, j.arg \in Nat, j.at \in Nat, j.draft \in Nat,
           \/ job[p].pc \in {"published", "load", "put"} /\ j.pc = "load"
           \/ job[p].pc = "put" /\ job[p].op \in Takes /\ j.pc = "published"
           \/ job[p].pc \in {"build", "publish", "store"} /\ j.pc \in {"publish", "store", "load"},
           job' = [job EXCEPT ![p] = j], UNCHANGED ws
    PROVE WorkspaceInv'
<1>1. JobInv(job[p]) BY DEF WorkspaceInv
<1>2. JobInv(j) BY <1>1 DEF JobInv, Applied
<1> QED BY <1>2, JobStep

\* The steps of an operation before the write.
LEMMA GoOnSteps ==
    ASSUME StoreInv, WorkspaceInv, NEW p \in Proc,
           ReadPublished(p) \/ ReadAgain(p) \/ PutRetries(p) \/ Build(p) \/ PublishCheck(p) \/ PublishStore(p)
    PROVE WorkspaceInv'
<1> USE DEF At
<1>1. /\ DOMAIN job[p] = DOMAIN Idle /\ job[p].arg \in Nat /\ job[p].at \in Nat /\ job[p].draft \in Nat
      /\ Published \in Nat /\ nextID \in Nat /\ p \in DOMAIN job
  BY PublishedType DEF WorkspaceInv, JobInv, StoreInv, Rows
<1>2. CASE ReadPublished(p) /\ Published = 0
  BY <1>2, EndStep DEF ReadPublished, untouched
<1>3. CASE ReadPublished(p) /\ Published # 0
  <2> DEFINE j == [job[p] EXCEPT !.at = Published, !.pc = "load"]
  <2>1. job' = [job EXCEPT ![p] = j] BY <1>1, <1>3 DEF ReadPublished
  <2>2. /\ DOMAIN j = DOMAIN Idle /\ j.op = job[p].op /\ j.user = job[p].user /\ j.arg = job[p].arg
        /\ j.at = Published /\ j.draft = job[p].draft /\ j.pc = "load"
    BY <1>1 DEF Idle
  <2> HIDE DEF j
  <2> QED BY <1>1, <1>3, <2>1, <2>2, GoOn DEF ReadPublished, untouched
<1>4. CASE ReadAgain(p) /\ ~(job[p].rounds + 1 < Attempts)
  BY <1>4, EndStep DEF ReadAgain, untouched
<1>5. CASE ReadAgain(p) /\ job[p].rounds + 1 < Attempts
  <2> DEFINE j == [job[p] EXCEPT !.pc = "published", !.rounds = @ + 1, !.tries = 0, !.w = None]
  <2>1. job' = [job EXCEPT ![p] = j] BY <1>1, <1>5 DEF ReadAgain
  <2>2. /\ DOMAIN j = DOMAIN Idle /\ j.op = job[p].op /\ j.user = job[p].user /\ j.arg = job[p].arg
        /\ j.at = job[p].at /\ j.draft = job[p].draft /\ j.pc = "published"
    BY <1>1 DEF Idle
  <2>3. job[p].op \in Takes BY <1>5 DEF ReadAgain, PublishedMoved, Takes
  <2> HIDE DEF j
  <2> QED BY <1>1, <1>5, <2>1, <2>2, <2>3, GoOn DEF ReadAgain, untouched
<1>6. CASE PutRetries(p)
  <2> DEFINE j == [job[p] EXCEPT !.pc = "load", !.tries = @ + 1, !.w = None]
  <2>1. job' = [job EXCEPT ![p] = j] BY <1>1, <1>6 DEF PutRetries
  <2>2. /\ DOMAIN j = DOMAIN Idle /\ j.op = job[p].op /\ j.user = job[p].user /\ j.arg = job[p].arg
        /\ j.at = job[p].at /\ j.draft = job[p].draft /\ j.pc = "load"
    BY <1>1 DEF Idle
  <2> HIDE DEF j
  <2> QED BY <1>1, <1>6, <2>1, <2>2, GoOn DEF PutRetries, untouched
<1>7. CASE Build(p)
  <2> DEFINE j == [job[p] EXCEPT !.draft = nextID, !.pc = IF job[p].op = "commit" THEN "publish" ELSE "load"]
  <2>1. job' = [job EXCEPT ![p] = j] BY <1>1, <1>7 DEF Build
  <2>2. /\ DOMAIN j = DOMAIN Idle /\ j.op = job[p].op /\ j.user = job[p].user /\ j.arg = job[p].arg
        /\ j.at = job[p].at /\ j.draft = nextID /\ j.pc \in {"publish", "load"}
    BY <1>1 DEF Idle
  <2> HIDE DEF j
  <2>3. job[p].pc = "build" /\ UNCHANGED ws BY <1>7 DEF Build
  <2>4. /\ j.arg \in Nat /\ j.at \in Nat /\ j.draft \in Nat
        /\ job[p].pc \in {"build", "publish", "store"} /\ j.pc \in {"publish", "store", "load"}
    BY <1>1, <2>2, <2>3
  <2> QED BY <2>1, <2>2, <2>3, <2>4, GoOn
<1>8. CASE PublishCheck(p)
  <2> DEFINE j == [job[p] EXCEPT !.at = Published, !.pc = "store"]
  <2>1. job' = [job EXCEPT ![p] = j] BY <1>1, <1>8 DEF PublishCheck
  <2>2. /\ DOMAIN j = DOMAIN Idle /\ j.op = job[p].op /\ j.user = job[p].user /\ j.arg = job[p].arg
        /\ j.at = Published /\ j.draft = job[p].draft /\ j.pc = "store"
    BY <1>1 DEF Idle
  <2> HIDE DEF j
  <2>3. job[p].pc = "publish" /\ UNCHANGED ws BY <1>8 DEF PublishCheck, untouched
  <2> QED BY <1>1, <2>1, <2>2, <2>3, GoOn
<1>9. CASE PublishStore(p)
  <2> DEFINE j == [job[p] EXCEPT !.pc = "load"]
  <2>1. job' = [job EXCEPT ![p] = j] BY <1>1, <1>9 DEF PublishStore, Goto
  <2>2. /\ DOMAIN j = DOMAIN Idle /\ j.op = job[p].op /\ j.user = job[p].user /\ j.arg = job[p].arg
        /\ j.at = job[p].at /\ j.draft = job[p].draft /\ j.pc = "load"
    BY <1>1 DEF Idle
  <2> HIDE DEF j
  <2> QED BY <1>1, <1>9, <2>1, <2>2, GoOn DEF PublishStore
<1> QED BY <1>2, <1>3, <1>4, <1>5, <1>6, <1>7, <1>8, <1>9

Back(u) == Kept(u) /\ ws'[u].base < ws[u].base

\* The write: at the version read it is the workspace read that is replaced,
\* so its base is no older, and every other operation finds a newer version.
LEMMA PutStep ==
    ASSUME StoreInv, WorkspaceInv, NEW p \in Proc, Put(p)
    PROVE /\ WorkspaceInv'
          /\ \A u \in User : Back(u) => job[p].pc = "put" /\ job[p].user = u /\ job[p].op = "reset" /\ job'[p] # job[p]
<1> DEFINE j == job[p]
           v == j.user
           after == [Changed(j) EXCEPT !.version = j.w.version + 1]
<1>1. /\ j.pc = "put" /\ ~Unchanged(j) /\ ~PublishedMoved(j) /\ Read(v).version = j.w.version
      /\ ws' = [ws EXCEPT ![v] = after] /\ Finish(p, j)
  BY DEF Put, At
<1>2. JobInv(j) BY DEF WorkspaceInv
<1>3. v \in User /\ Row(j.w) /\ j.op \in Applied BY <1>1, <1>2 DEF JobInv
<1>4. /\ DOMAIN Changed(j) = Fields /\ Changed(j).base \in Nat
      /\ j.op # "reset" => Changed(j).base >= j.w.base
  BY <1>1, <1>2, <1>3, ChangedRow DEF JobInv
<1>5. Row(after) /\ after.version = j.w.version + 1 /\ after.base = Changed(j).base
  BY SMTT(20), Z3T(20), <1>3, <1>4 DEF Row, Fields
<1>6. j.w.version = ws[v].version /\ (Kept(v) => j.w = ws[v])
  <2>1. Read(v).version = ws[v].version BY DEF Read, Unwritten, Kept
  <2> QED BY <1>1, <1>2, <1>3, <2>1 DEF JobInv
<1>7. DOMAIN ws' = User /\ \A u \in User : ws'[u] = IF u = v THEN after ELSE ws[u]
  BY <1>1, <1>3 DEF WorkspaceInv
<1>8. job' = [job EXCEPT ![p] = Idle] \/ \E ids : job' = [job EXCEPT ![p] = [Start("discard", j.op, v) EXCEPT !.todo = ids]]
  BY <1>1 DEF Finish, Done, Discarding, Return, WorkspaceInv
<1>9. PICK k : job' = [job EXCEPT ![p] = k] /\ JobInv(k) /\ k.pc \in {"idle", "discard"}
  <2>1. Idle.pc = "idle" /\ \A op, u, ids : [Start("discard", op, u) EXCEPT !.todo = ids].pc = "discard"
    BY DEF Idle, Start
  <2>2. CASE job' = [job EXCEPT ![p] = Idle] BY <2>1, <2>2, EndedJobs
  <2>3. CASE \E ids : job' = [job EXCEPT ![p] = [Start("discard", j.op, v) EXCEPT !.todo = ids]]
    <3>1. PICK ids : job' = [job EXCEPT ![p] = [Start("discard", j.op, v) EXCEPT !.todo = ids]] BY <2>3
    <3> DEFINE ended == [Start("discard", j.op, v) EXCEPT !.todo = ids]
    <3>2. JobInv(ended) BY EndedJobs
    <3>3. ended.pc = "discard" BY SMTT(20), Z3T(20), <2>1
    <3>4. job' = [job EXCEPT ![p] = ended] BY <3>1
    <3> HIDE DEF ended
    <3> QED BY <3>2, <3>3, <3>4
  <2> QED BY <1>8, <2>2, <2>3
<1>10. DOMAIN job' = Proc /\ \A q \in Proc : job'[q] = IF q = p THEN k ELSE job[q]
  BY <1>9 DEF WorkspaceInv
<1>11. JobInv(k)' BY <1>9 DEF JobInv
<1>12. ASSUME NEW q \in Proc, q # p PROVE JobInv(job[q])'
  <2> DEFINE i == job[q]
  <2>1. JobInv(i) /\ job'[q] = i BY <1>10, <1>12 DEF WorkspaceInv
  <2>2. ASSUME i.pc = "put", i.user = v PROVE i.w.version < after.version
    <3>1. Row(i.w) BY <2>1, <2>2 DEF JobInv
    <3>2. i.w.version <= j.w.version BY <1>6, <2>1, <2>2 DEF JobInv
    <3> QED BY <1>3, <1>5, <3>1, <3>2 DEF Row
  <2>3. CASE i.pc = "put" /\ i.user = v
    <3>1. ws'[v] = after /\ Row(i.w) BY <1>3, <1>7, <2>1, <2>3 DEF JobInv
    <3>2. i.w.version <= ws'[v].version /\ i.w.version # ws'[v].version
      BY SMTT(20), Z3T(20), <1>5, <2>2, <2>3, <3>1 DEF Row
    <3> HIDE DEF i, after
    <3> QED BY <2>1, <2>3, <3>1, <3>2 DEF JobInv
  <2>4. CASE i.pc = "put" /\ i.user # v
    <3>1. i.user \in User /\ ws'[i.user] = ws[i.user] BY <1>7, <2>1, <2>4 DEF JobInv
    <3> HIDE DEF i, after
    <3> QED BY <2>1, <3>1 DEF JobInv, Kept
  <2>5. CASE i.pc # "put" BY <2>1, <2>5 DEF JobInv
  <2> QED BY <2>3, <2>4, <2>5
<1>13. WorkspaceInv'
  <2>1. \A u \in User : Row(ws'[u])
    BY <1>3, <1>5, <1>7 DEF WorkspaceInv, Row
  <2> QED BY <1>7, <1>10, <1>11, <1>12, <2>1 DEF WorkspaceInv, Row
<1>14. ASSUME NEW u \in User, Back(u) PROVE u = v /\ j.op = "reset"
  <2>1. u = v BY SMTT(20), Z3T(20), <1>3, <1>7, <1>14 DEF Back, WorkspaceInv, Row
  <2>2. ws'[v] = after /\ Kept(v) /\ ws'[v].base < ws[v].base BY <1>3, <1>7, <1>14, <2>1 DEF Back
  <2>3. Changed(j).base < j.w.base BY <1>5, <1>6, <2>2
  <2> QED BY <1>3, <1>4, <2>1, <2>3 DEF Row
<1> QED BY <1>1, <1>9, <1>10, <1>13, <1>14

\* A step but a write moves no workspace.
LEMMA OtherSteps ==
    ASSUME StoreInv, WorkspaceInv, [WNext]_vars, ~\E p \in Proc : Put(p)
    PROVE WorkspaceInv' /\ UNCHANGED ws
<1>1. ASSUME NEW p \in Proc, NEW u \in User,
           \/ \E r \in Ref, v \in Value : BeginWrite(p, u, r, v)
           \/ \E op \in {"update", "reset"}, to \in OncePublished : BeginMove(p, u, op, to)
           \/ \E op \in {"merge", "load", "keep"}, rev \in Ids : BeginTake(p, u, op, rev)
           \/ \E op \in {"checkpoint", "commit"} : BeginSave(p, u, op)
           \/ Kept(u) /\ \E c \in ws[u].conflicts, theirs \in BOOLEAN : BeginResolve(p, u, c, theirs)
      PROVE WorkspaceInv' /\ UNCHANGED ws
  <2>1. UNCHANGED ws
    BY <1>1 DEF BeginWrite, BeginMove, BeginTake, BeginSave, BeginResolve, Begin
  <2> QED BY <1>1, <2>1, BeginSteps
<1>2. ASSUME NEW p \in Proc, Steps(p) PROVE WorkspaceInv' /\ UNCHANGED ws
  <2>1. CASE ReadPublished(p) \/ ReadAgain(p) \/ PutRetries(p) \/ Build(p) \/ PublishCheck(p) \/ PublishStore(p)
    BY <2>1, GoOnSteps DEF ReadPublished, ReadAgain, PutRetries, Build, PublishCheck, PublishStore, untouched
  <2>2. CASE Load(p) BY <2>2, LoadStep DEF Load, untouched
  <2>3. CASE NothingToWrite(p) \/ BuildFails(p) BY <2>3, EndStep DEF NothingToWrite, BuildFails, untouched
  <2>4. CASE PutFails(p) BY <2>4, EndStep DEF PutFails, untouched
  <2>5. CASE PublishFails(p) \/ PublishRefused(p) BY <2>5, EndStep DEF PublishFails, PublishRefused, untouched
  <2>6. CASE RollbackStore(p) \/ RollbackRefused(p) BY <2>6, EndStep DEF RollbackStore, RollbackRefused, untouched
  <2>7. CASE DiscardNext(p) \/ DiscardFails(p) \/ Cut(p) BY <2>7, EndStep DEF DiscardNext, DiscardFails, Cut
  <2> QED BY <1>2, <2>1, <2>2, <2>3, <2>4, <2>5, <2>6, <2>7 DEF Steps
<1>3. ASSUME NEW p \in Proc, NEW to, BeginRollback(p, to) PROVE WorkspaceInv' /\ UNCHANGED ws
  <2>1. PICK target \in RollbackTarget(Published, to) :
          Begin(p, [Start("rollback", "rollback", Cli) EXCEPT !.arg = target, !.at = Published])
    BY <1>3 DEF BeginRollback
  <2>2. target \in Nat
    BY DEF RollbackTarget, OncePublished, Earlier, InState, StoreInv, Rows
  <2> DEFINE j == [Start("rollback", "rollback", Cli) EXCEPT !.arg = target, !.at = Published]
  <2>3. JobInv(j) BY <2>2, PublishedType DEF JobInv, Start, Idle, StoreInv
  <2>4. UNCHANGED ws BY <2>1 DEF Begin
  <2> QED BY <2>1, <2>3, <2>4, BeginStep
<1>4. ASSUME UNCHANGED <<ws, job>> PROVE WorkspaceInv' /\ UNCHANGED ws
  BY SMTT(20), Z3T(20), <1>4 DEF WorkspaceInv, JobInv, Row, Kept
<1>5. CASE \E payload \in Payload : CliDraft(payload) BY <1>4, <1>5 DEF CliDraft
<1>6. CASE \E id \in Ids : CliPublish(id) \/ CliDiscard(id) BY <1>4, <1>6 DEF CliPublish, CliDiscard
<1>7. CASE \E h \in History : Import(h) BY <1>4, <1>7 DEF Import
<1>8. CASE UNCHANGED vars BY <1>4, <1>8 DEF vars
<1> QED BY <1>1, <1>2, <1>3, <1>5, <1>6, <1>7, <1>8 DEF WNext

\* Nobody has a workspace at first.
LEMMA WorkspaceInvInit == WInit => WorkspaceInv
BY SMTT(20), Z3T(20) DEF WInit, WorkspaceInv, Absent, Row, Fields, JobInv, Idle

-----------------------------------------------------------------------------
(* What workspaces and operations hold, of revisions that exist.           *)

\* The revisions of a store rs that were published once.
Out(rs) == {i \in DOMAIN rs : rs[i].state \notin Unpublished}

\* From rs to rt no revision is lost, and each keeps what it holds.
Grows(rs, rt) ==
    /\ DOMAIN rs \subseteq DOMAIN rt /\ Out(rs) \subseteq Out(rt)
    /\ \A i \in DOMAIN rs :
         rt[i].payload = rs[i].payload /\ rt[i].by = rs[i].by /\ rt[i].parent = rs[i].parent

Conflict ==
    [ref : Ref, kind : {"published", "draft", "workspace"}, id : Nat, pinned : BOOLEAN,
     theirs : Value \cup {None}, born : Nat]
Sound(c) == c \in Conflict /\ (c.pinned => c.theirs \in Value)

\* A workspace over the revisions rs.  One never written holds its base.
Good(w, rs) ==
    /\ w \in Workspace /\ w.base \in Out(rs) /\ \A c \in w.conflicts : Sound(c)
    /\ w.taken \cup {w.checkpoint} \subseteq DOMAIN rs \cup {0}
    /\ w.checkpointAt <= w.version
    /\ w.version = 0 => w.items = rs[w.base].payload

\* The rows of the store are revisions.
Stored(rs) == \A i \in DOMAIN rs : rs[i] \in Revision

\* Contents are functions from items to values.
LEMMA Contents == ASSUME NEW rs, Stored(rs), NEW i \in DOMAIN rs PROVE rs[i].payload \in [Ref -> Value]
BY ContentAssumption DEF Stored, Revision

\* The conflicts just found.
LEMMA FoundSound ==
    ASSUME NEW old, NEW local, NEW next \in [Ref -> Value], NEW kind \in {"published", "draft", "workspace"},
           NEW id \in Nat, NEW pinned \in BOOLEAN, NEW born \in Nat
    PROVE \A c \in Found(old, local, next, kind, id, pinned, born) : Sound(c)
<1> SUFFICES ASSUME NEW r \in Ref
             PROVE Sound([ref |-> r, kind |-> kind, id |-> id, pinned |-> pinned,
                          theirs |-> IF pinned THEN next[r] ELSE None, born |-> born])
  BY DEF Found
<1>1. next[r] \in Value OBVIOUS
<1> QED BY <1>1 DEF Sound, Conflict

\* What is carried is what was pending, or was just found.
LEMMA CarrySound ==
    ASSUME NEW pending, NEW found, NEW now, NEW base, NEW onto \in Nat,
           \A c \in pending : Sound(c), \A c \in found : Sound(c)
    PROVE \A c \in Carry(pending, found, now, base, onto) : Sound(c)
<1> DEFINE renewed(p) == IF p.pinned \/ onto = 0 THEN p ELSE [p EXCEPT !.kind = "published", !.id = onto]
<1>1. ASSUME NEW p \in pending PROVE Sound(renewed(p))
  <2>1. Sound(p) OBVIOUS
  <2>2. CASE p.pinned \/ onto = 0 BY <2>1, <2>2
  <2>3. CASE ~(p.pinned \/ onto = 0)
    <3> DEFINE q == [p EXCEPT !.kind = "published", !.id = onto]
    <3>1. q \in Conflict BY <2>1 DEF Sound, Conflict
    <3>2. q.pinned = p.pinned BY <2>1 DEF Sound, Conflict
    <3> HIDE DEF q
    <3>3. Sound(q) BY <2>3, <3>1, <3>2 DEF Sound
    <3> QED BY <2>3, <3>3 DEF q
  <2> QED BY <2>2, <2>3
<1>2. ASSUME NEW c \in Carry(pending, found, now, base, onto)
      PROVE c \in found \/ \E p \in pending : c = renewed(p)
  BY DEF Carry
<1> QED BY <1>1, <1>2

\* A pending conflict stands while it is open and nothing was found on its
\* item; a conflict found stands.
LEMMA CarryKeeps ==
    ASSUME NEW pending, NEW found, NEW now, NEW base, NEW onto
    PROVE /\ \A p \in pending :
               Sound(p) /\ Open(now, base, p) /\ (\A f \in found : f.ref # p.ref) =>
                 \E c \in Carry(pending, found, now, base, onto) :
                   c.ref = p.ref /\ c.pinned = p.pinned /\ c.theirs = p.theirs
          /\ (\A p \in pending : Sound(p)) => \A f \in found : f \in Carry(pending, found, now, base, onto)
<1> DEFINE renewed(p) == IF p.pinned \/ onto = 0 THEN p ELSE [p EXCEPT !.kind = "published", !.id = onto]
           standing == {q \in pending : Open(now, base, q) /\ \A f \in found : f.ref # q.ref}
           carried == {renewed(p) : p \in standing}
<1>1. ASSUME NEW p, Sound(p) PROVE renewed(p).ref = p.ref /\ renewed(p).pinned = p.pinned /\ renewed(p).theirs = p.theirs
  BY <1>1 DEF Sound, Conflict
<1>2. Carry(pending, found, now, base, onto) = carried \cup {f \in found : \A p \in carried : p.ref # f.ref}
  BY DEF Carry
<1>3. ASSUME NEW p \in pending, Sound(p), Open(now, base, p), \A f \in found : f.ref # p.ref
      PROVE \E c \in Carry(pending, found, now, base, onto) :
              c.ref = p.ref /\ c.pinned = p.pinned /\ c.theirs = p.theirs
  <2>1. renewed(p) \in carried BY <1>3
  <2>2. renewed(p).ref = p.ref /\ renewed(p).pinned = p.pinned /\ renewed(p).theirs = p.theirs BY <1>1, <1>3
  <2> HIDE DEF renewed, carried
  <2> QED BY <1>2, <2>1, <2>2
<1>4. ASSUME \A p \in pending : Sound(p), NEW f \in found PROVE f \in Carry(pending, found, now, base, onto)
  <2>1. ASSUME NEW c \in carried PROVE c.ref # f.ref
    <3>1. PICK p \in standing : c = renewed(p) OBVIOUS
    <3>2. p \in pending /\ f.ref # p.ref BY <3>1
    <3> QED BY <1>1, <1>4, <3>1, <3>2
  <2> HIDE DEF carried
  <2> QED BY <1>2, <2>1
<1> QED BY <1>3, <1>4

\* What an operation has in hand: its arguments, the revisions it read, the
\* view it saves and the draft of it, and the workspace it read.
JobOK(j, rs, s) ==
    /\ j.pc # "discard" => j.todo = {}
    /\ j.pc \in {"idle", "build", "discard"} => j.draft = 0
    /\ j.pc = "rollback" => j.op = "rollback"
    /\ j.pc \in {"load", "put"} =>
         /\ j.op = "write" => j.item.ref \in Ref /\ j.item.value \in Value /\ j.view.items \in [Ref -> Value]
         /\ j.op \in {"update", "reset"} => j.arg \in Out(rs)
         /\ j.op \in Takes => j.at \in Out(rs)
         /\ j.op = "commit" => j.draft \in Out(rs)
    /\ j.pc \in {"published", "load", "put"} /\ j.op \in Takes =>
         j.arg \in DOMAIN rs /\ (j.op = "merge" => j.from \in Out(rs))
    /\ j.pc \in {"build", "publish", "store", "load", "put"} /\ j.op \in Saves =>
         /\ Good(j.view, rs) /\ j.view.version <= s[j.user].version
         /\ j.view.version = s[j.user].version /\ j.view.version # 0 => j.view = s[j.user]
         /\ j.pc # "build" =>
              /\ j.draft \in DOMAIN rs /\ rs[j.draft].payload = j.view.items /\ rs[j.draft].by = j.user
              /\ rs[j.draft].parent = j.view.base
         /\ j.pc = "store" => j.at = j.view.base
    /\ j.pc = "put" =>
         /\ Good(j.w, rs)
         /\ j.op = "checkpoint" /\ j.w.version = j.view.version /\ j.w.version # 0 => j.w = j.view

\* From s to t workspaces are written at higher versions.
Ahead(s, t) == \A u \in User : t[u] = s[u] \/ (s[u].version \in Nat /\ t[u].version \in Nat /\ t[u].version > s[u].version)

\* A workspace stays one, and an operation keeps what it has in hand,
\* whatever others publish and write.
LEMMA GoodKept ==
    ASSUME NEW w, NEW rs, NEW rt, Good(w, rs), Grows(rs, rt)
    PROVE Good(w, rt)
<1>1. w.base \in Out(rt) /\ w.base \in DOMAIN rs BY DEF Good, Grows, Out
<1>2. rt[w.base].payload = rs[w.base].payload BY <1>1 DEF Grows
<1>3. w.taken \cup {w.checkpoint} \subseteq DOMAIN rt \cup {0} BY DEF Good, Grows
<1> QED BY <1>1, <1>2, <1>3 DEF Good

\* What an operation holds stays right while the store grows and workspaces go on.
LEMMA JobKept ==
    ASSUME NEW j, NEW rs, NEW rt, NEW s, NEW t, JobOK(j, rs, s), Grows(rs, rt), Ahead(s, t),
           j.pc \in {"build", "publish", "store", "load", "put"} => j.user \in User
    PROVE JobOK(j, rt, t)
<1>1. j.pc \in {"load", "put"} =>
         /\ j.op = "write" => j.item.ref \in Ref /\ j.item.value \in Value /\ j.view.items \in [Ref -> Value]
         /\ j.op \in {"update", "reset"} => j.arg \in Out(rt)
         /\ j.op \in Takes => j.at \in Out(rt)
         /\ j.op = "commit" => j.draft \in Out(rt)
  BY DEF JobOK, Grows
<1>2. j.pc \in {"published", "load", "put"} /\ j.op \in Takes =>
         j.arg \in DOMAIN rt /\ (j.op = "merge" => j.from \in Out(rt))
  BY DEF JobOK, Grows
<1>3. ASSUME j.pc \in {"build", "publish", "store", "load", "put"}, j.op \in Saves
      PROVE /\ Good(j.view, rt) /\ j.view.version <= t[j.user].version
            /\ j.view.version = t[j.user].version /\ j.view.version # 0 => j.view = t[j.user]
            /\ j.pc # "build" =>
                 /\ j.draft \in DOMAIN rt /\ rt[j.draft].payload = j.view.items /\ rt[j.draft].by = j.user
                 /\ rt[j.draft].parent = j.view.base
            /\ j.pc = "store" => j.at = j.view.base
  <2>1. /\ Good(j.view, rs) /\ j.view.version <= s[j.user].version
        /\ j.view.version = s[j.user].version /\ j.view.version # 0 => j.view = s[j.user]
        /\ j.pc # "build" =>
             /\ j.draft \in DOMAIN rs /\ rs[j.draft].payload = j.view.items /\ rs[j.draft].by = j.user
             /\ rs[j.draft].parent = j.view.base
        /\ j.pc = "store" => j.at = j.view.base
    BY <1>3 DEF JobOK
  <2>2. Good(j.view, rt) BY <2>1, GoodKept
  <2>3. j.view.version \in Nat BY <2>1 DEF Good, Workspace
  <2>4. CASE t[j.user] = s[j.user] BY <2>1, <2>2, <2>4 DEF Grows
  <2>5. CASE s[j.user].version \in Nat /\ t[j.user].version \in Nat /\ t[j.user].version > s[j.user].version
    <3>1. j.view.version <= t[j.user].version /\ j.view.version # t[j.user].version BY <2>1, <2>3, <2>5
    <3> QED BY <2>1, <2>2, <3>1 DEF Grows
  <2> QED BY <1>3, <2>4, <2>5 DEF Ahead
<1>4. j.pc = "put" =>
         /\ Good(j.w, rt)
         /\ j.op = "checkpoint" /\ j.w.version = j.view.version /\ j.w.version # 0 => j.w = j.view
  BY GoodKept DEF JobOK
<1> QED BY <1>1, <1>2, <1>3, <1>4 DEF JobOK

-----------------------------------------------------------------------------
(* What an operation makes of the workspace it read, field by field.       *)

Made(base, items, conflicts, taken, checkpoint, checkpointAt, version) ==
    [base |-> base, items |-> items, conflicts |-> conflicts, taken |-> taken,
     checkpoint |-> checkpoint, checkpointAt |-> checkpointAt, version |-> version]
After(j) == [Changed(j) EXCEPT !.version = j.w.version + 1]

\* A write: the value it leaves, and the conflict it finds.
WriteNow(j) ==
    [j.w.items EXCEPT ![j.item.ref] = Merge(j.view.items[j.item.ref], j.item.value, j.w.items[j.item.ref])]
WriteFound(j) ==
    IF Clash(j.view.items[j.item.ref], j.item.value, j.w.items[j.item.ref])
    THEN {[ref |-> j.item.ref, kind |-> "workspace", id |-> 0, pinned |-> TRUE,
           theirs |-> j.w.items[j.item.ref], born |-> j.w.version + 1]}
    ELSE {}

\* A row is its fields, and stays one as they are set.
IsRow(w) == w = [f \in Fields |-> w[f]]

\* A row is made of its fields.
LEMMA RowIs ==
    ASSUME NEW w, IsRow(w)
    PROVE w = Made(w.base, w.items, w.conflicts, w.taken, w.checkpoint, w.checkpointAt, w.version)
BY DEF Made, Fields, IsRow

\* A row that is made has the fields it was made of.
LEMMA MadeIs ==
    ASSUME NEW b, NEW i, NEW c, NEW t, NEW k, NEW a, NEW v, NEW w, w = Made(b, i, c, t, k, a, v)
    PROVE /\ IsRow(w) /\ w.base = b /\ w.items = i /\ w.conflicts = c /\ w.taken = t
          /\ w.checkpoint = k /\ w.checkpointAt = a /\ w.version = v
BY DEF Made, Fields, IsRow

\* A workspace is such a row.
LEMMA WorkspaceIs == ASSUME NEW w \in Workspace PROVE IsRow(w)
BY DEF Workspace, IsRow, Fields

\* The row of a change with its new version (PutWorkspace).
LEMMA RowVersion ==
    ASSUME NEW w, IsRow(w), NEW v
    PROVE [w EXCEPT !.version = v] =
            Made(w.base, w.items, w.conflicts, w.taken, w.checkpoint, w.checkpointAt, v)
<1> DEFINE x == [w EXCEPT !.version = v]
<1>1. /\ IsRow(x) /\ x.base = w.base /\ x.items = w.items /\ x.conflicts = w.conflicts /\ x.taken = w.taken
      /\ x.checkpoint = w.checkpoint /\ x.checkpointAt = w.checkpointAt /\ x.version = v
  BY DEF Fields, IsRow
<1> HIDE DEF x
<1> QED BY <1>1, RowIs DEF x

\* The row with other items and conflicts (Service.batch).
LEMMA RowItems ==
    ASSUME NEW w, IsRow(w), NEW c, NEW i
    PROVE [w EXCEPT !.items = i, !.conflicts = c] =
            Made(w.base, i, c, w.taken, w.checkpoint, w.checkpointAt, w.version)
<1> DEFINE x == [w EXCEPT !.items = i, !.conflicts = c]
<1>1. /\ IsRow(x) /\ x.base = w.base /\ x.items = i /\ x.conflicts = c /\ x.taken = w.taken
      /\ x.checkpoint = w.checkpoint /\ x.checkpointAt = w.checkpointAt /\ x.version = w.version
  BY DEF Fields, IsRow
<1> HIDE DEF x
<1> QED BY <1>1, RowIs DEF x

\* The row moved onto another base (Service.moveOnto).
LEMMA RowMoved ==
    ASSUME NEW w, IsRow(w), NEW b, NEW c, NEW i
    PROVE [w EXCEPT !.items = i, !.base = b, !.conflicts = c] =
            Made(b, i, c, w.taken, w.checkpoint, w.checkpointAt, w.version)
<1> DEFINE x == [w EXCEPT !.items = i, !.base = b, !.conflicts = c]
<1>1. /\ IsRow(x) /\ x.base = b /\ x.items = i /\ x.conflicts = c /\ x.taken = w.taken
      /\ x.checkpoint = w.checkpoint /\ x.checkpointAt = w.checkpointAt /\ x.version = w.version
  BY DEF Fields, IsRow
<1> HIDE DEF x
<1> QED BY <1>1, RowIs DEF x

\* The row that forgot its drafts and conflicts (Service.Reset, loadRevision).
LEMMA RowForgot ==
    ASSUME NEW w, IsRow(w), NEW b, NEW i
    PROVE [Forget(w) EXCEPT !.items = i, !.base = b] =
            Made(b, i, {}, {}, 0, 0, w.version)
<1> DEFINE x == [Forget(w) EXCEPT !.items = i, !.base = b]
<1>1. /\ IsRow(x) /\ x.base = b /\ x.items = i /\ x.conflicts = {} /\ x.taken = {}
      /\ x.checkpoint = 0 /\ x.checkpointAt = 0 /\ x.version = w.version
  BY DEF Fields, IsRow, Forget
<1> HIDE DEF x
<1> QED BY <1>1, RowIs DEF x

\* What an operation makes of the row, at the next version.
LEMMA Versioned ==
    ASSUME NEW j, NEW b, NEW i, NEW c, NEW t, NEW k, NEW a, NEW v, Changed(j) = Made(b, i, c, t, k, a, v)
    PROVE After(j) = Made(b, i, c, t, k, a, j.w.version + 1)
<1> DEFINE w == Changed(j)
<1>1. /\ IsRow(w) /\ w.base = b /\ w.items = i /\ w.conflicts = c /\ w.taken = t
      /\ w.checkpoint = k /\ w.checkpointAt = a
  BY SMTT(20), Z3T(20), MadeIs
<1>2. [w EXCEPT !.version = j.w.version + 1] =
        Made(w.base, w.items, w.conflicts, w.taken, w.checkpoint, w.checkpointAt, j.w.version + 1)
  BY <1>1, RowVersion
<1> QED BY <1>1, <1>2 DEF After

\* The row after a write of an item (Service.batch).
LEMMA AfterWrite ==
    ASSUME NEW j, j.w \in Workspace, j.op = "write"
    PROVE After(j) = Made(j.w.base, WriteNow(j), Carry(j.w.conflicts, WriteFound(j), WriteNow(j), Content(j.w.base), 0),
                          j.w.taken, j.w.checkpoint, j.w.checkpointAt, j.w.version + 1)
<1> DEFINE now == WriteNow(j)
           conflicts == Carry(j.w.conflicts, WriteFound(j), WriteNow(j), Content(j.w.base), 0)
<1>1. Changed(j) = Written(j.w, j) BY DEF Changed
<1>2. Written(j.w, j) = [j.w EXCEPT !.items = now, !.conflicts = conflicts]
  BY DEF Written, WriteNow, WriteFound, Workspace
<1> HIDE DEF now, conflicts
<1>3. IsRow(j.w) BY WorkspaceIs
<1>4. Changed(j) = Made(j.w.base, now, conflicts, j.w.taken, j.w.checkpoint, j.w.checkpointAt, j.w.version)
  BY <1>1, <1>2, <1>3, RowItems
<1> QED BY <1>4, Versioned DEF now, conflicts

\* A workspace moved onto another revision.
MoveNow(w, old, to) == Replay(old, w.items, Content(to))
MoveFound(w, old, to) == Found(old, w.items, Content(to), "published", to, FALSE, w.version + 1)
MoveConflicts(w, old, to) == Carry(w.conflicts, MoveFound(w, old, to), MoveNow(w, old, to), Content(to), to)

\* The row moved onto a revision, with the conflicts it meets (Service.moveOnto).
LEMMA MoveIs ==
    ASSUME NEW w \in Workspace, NEW old, NEW to
    PROVE MoveOnto(w, old, to) =
            Made(to, MoveNow(w, old, to), MoveConflicts(w, old, to), w.taken, w.checkpoint, w.checkpointAt, w.version)
<1>1. MoveOnto(w, old, to) = [w EXCEPT !.items = MoveNow(w, old, to), !.base = to, !.conflicts = MoveConflicts(w, old, to)]
  BY DEF MoveOnto, MoveNow, MoveFound, MoveConflicts, Workspace
<1> QED BY <1>1, WorkspaceIs, RowMoved

\* The row after an update (Service.Update).
LEMMA AfterUpdate ==
    ASSUME NEW j, j.w \in Workspace, j.op = "update"
    PROVE After(j) = Made(j.arg, MoveNow(j.w, Content(j.w.base), j.arg), MoveConflicts(j.w, Content(j.w.base), j.arg),
                          j.w.taken, j.w.checkpoint, j.w.checkpointAt, j.w.version + 1)
<1>1. Changed(j) = MoveOnto(j.w, Content(j.w.base), j.arg) BY DEF Changed, Updated
<1> QED BY <1>1, MoveIs, Versioned

\* The row after a reset, or after a load that discards its changes.
LEMMA AfterReset ==
    ASSUME NEW j, j.w \in Workspace, j.op \in {"reset", "load"}
    PROVE After(j) = Made(IF j.op = "reset" THEN j.arg ELSE j.at, Content(j.arg), {}, {}, 0, 0, j.w.version + 1)
<1>1. CASE j.op = "reset"
  <2>1. Changed(j) = WasReset(j.w, j) BY <1>1 DEF Changed
  <2>2. WasReset(j.w, j) = Made(j.arg, Content(j.arg), {}, {}, 0, 0, j.w.version)
    BY WorkspaceIs, RowForgot DEF WasReset
  <2> QED BY <1>1, <2>1, <2>2, Versioned
<1>2. CASE j.op = "load"
  <2>1. Changed(j) = Loaded(j.w, j) BY <1>2 DEF Changed
  <2>2. Loaded(j.w, j) = Made(j.at, Content(j.arg), {}, {}, 0, 0, j.w.version)
    BY WorkspaceIs, RowForgot DEF Loaded
  <2> QED BY <1>2, <2>1, <2>2, Versioned
<1> QED BY <1>1, <1>2

\* A load that keeps what was changed.
KeepNow(j) == Replay(Content(j.w.base), j.w.items, Content(j.arg))
KeepFound(j) ==
    Found(Content(j.w.base), j.w.items, Content(j.arg),
          IF revs[j.arg].state \in Unpublished THEN "draft" ELSE "published", j.arg, TRUE, j.w.version + 1)

\* The row after a load that keeps its changes (Service.Load).
LEMMA AfterKeep ==
    ASSUME NEW j, j.w \in Workspace, j.op = "keep"
    PROVE After(j) = Made(j.at, KeepNow(j), Carry(j.w.conflicts, KeepFound(j), KeepNow(j), Content(j.at), j.at),
                          j.w.taken, j.w.checkpoint, j.w.checkpointAt, j.w.version + 1)
<1> DEFINE now == KeepNow(j)
           conflicts == Carry(j.w.conflicts, KeepFound(j), KeepNow(j), Content(j.at), j.at)
<1>1. Changed(j) = LoadedOnto(j.w, j) BY DEF Changed
<1>2. LoadedOnto(j.w, j) = [j.w EXCEPT !.items = now, !.base = j.at, !.conflicts = conflicts]
  BY DEF LoadedOnto, KeepNow, KeepFound, Workspace
<1> HIDE DEF now, conflicts
<1>3. IsRow(j.w) BY WorkspaceIs
<1>4. Changed(j) = Made(j.at, now, conflicts, j.w.taken, j.w.checkpoint, j.w.checkpointAt, j.w.version)
  <2> DEFINE x == [j.w EXCEPT !.items = now, !.base = j.at, !.conflicts = conflicts]
  <2>1. /\ IsRow(x) /\ x.base = j.at /\ x.items = now /\ x.conflicts = conflicts /\ x.taken = j.w.taken
        /\ x.checkpoint = j.w.checkpoint /\ x.checkpointAt = j.w.checkpointAt /\ x.version = j.w.version
    BY <1>3 DEF IsRow, Fields
  <2>2. Changed(j) = x BY <1>1, <1>2
  <2> HIDE DEF x
  <2> QED BY <2>1, <2>2, RowIs
<1> QED BY <1>4, Versioned DEF now, conflicts

\* A draft merged: its changes onto what is published, and these onto the
\* workspace moved there.
DraftNow(j) == Replay(Content(j.from), Content(j.arg), Content(j.at))
MergeNow(j) == Replay(Content(j.at), Moved(j.w, j).items, DraftNow(j))
MergeFound(j) ==
    Found(Content(j.from), Content(j.arg), Content(j.at), "published", j.at, FALSE, j.w.version + 1)
    \cup Found(Content(j.at), Moved(j.w, j).items, DraftNow(j), "draft", j.arg, TRUE, j.w.version + 1)

\* The row a merge starts from, moved onto what is published (Service.mergeDraft).
LEMMA MovedIs ==
    ASSUME NEW j, j.w \in Workspace
    PROVE Moved(j.w, j) = Made(j.at, Moved(j.w, j).items, Moved(j.w, j).conflicts,
                               j.w.taken, j.w.checkpoint, j.w.checkpointAt, j.w.version)
<1>1. CASE j.w.base = j.at
  <2>1. Moved(j.w, j) = j.w BY <1>1 DEF Moved
  <2>2. j.w = Made(j.w.base, j.w.items, j.w.conflicts, j.w.taken, j.w.checkpoint, j.w.checkpointAt, j.w.version)
    BY WorkspaceIs, RowIs
  <2> QED BY <1>1, <2>1, <2>2
<1>2. CASE j.w.base # j.at
  <2>1. Moved(j.w, j) = MoveOnto(j.w, Content(j.w.base), j.at) BY <1>2 DEF Moved
  <2>2. Moved(j.w, j) = Made(j.at, MoveNow(j.w, Content(j.w.base), j.at), MoveConflicts(j.w, Content(j.w.base), j.at),
                                j.w.taken, j.w.checkpoint, j.w.checkpointAt, j.w.version)
    BY <2>1, MoveIs
  <2>3. /\ Moved(j.w, j).items = MoveNow(j.w, Content(j.w.base), j.at)
        /\ Moved(j.w, j).conflicts = MoveConflicts(j.w, Content(j.w.base), j.at)
    BY SMTT(20), Z3T(20), <2>2, MadeIs
  <2> QED BY <2>2, <2>3
<1> QED BY <1>1, <1>2

\* The row after a merge of a draft (Service.mergeDraft).
LEMMA AfterMerge ==
    ASSUME NEW j, j.w \in Workspace, j.op = "merge"
    PROVE After(j) = Made(j.at, MergeNow(j), Carry(Moved(j.w, j).conflicts, MergeFound(j), MergeNow(j), Content(j.at), 0),
                          j.w.taken \cup {j.arg}, j.w.checkpoint, j.w.checkpointAt, j.w.version + 1)
<1>1. Changed(j) = Merged(j.w, j) BY DEF Changed
<1> DEFINE m == Moved(j.w, j)
           now == MergeNow(j)
           conflicts == Carry(m.conflicts, MergeFound(j), MergeNow(j), Content(j.at), 0)
           taken == m.taken \cup {j.arg}
<1>2. m = Made(j.at, m.items, m.conflicts, j.w.taken, j.w.checkpoint, j.w.checkpointAt, j.w.version) BY MovedIs
<1>3. Merged(j.w, j) = [m EXCEPT !.items = now, !.conflicts = conflicts, !.taken = taken]
  BY <1>2 DEF Merged, MergeNow, MergeFound, DraftNow, Made
<1>4. /\ IsRow(m) /\ m.base = j.at /\ m.taken = j.w.taken
      /\ m.checkpoint = j.w.checkpoint /\ m.checkpointAt = j.w.checkpointAt
  BY SMTT(20), Z3T(20), <1>2, MadeIs
<1>5. taken = j.w.taken \cup {j.arg} BY <1>4
<1> HIDE DEF m, now, conflicts, taken
<1>6. Changed(j) = Made(m.base, now, conflicts, taken, m.checkpoint, m.checkpointAt, m.version)
  <2> DEFINE x == [m EXCEPT !.items = now, !.conflicts = conflicts, !.taken = taken]
  <2>1. /\ IsRow(x) /\ x.base = m.base /\ x.items = now /\ x.conflicts = conflicts /\ x.taken = taken
        /\ x.checkpoint = m.checkpoint /\ x.checkpointAt = m.checkpointAt /\ x.version = m.version
    BY <1>4 DEF IsRow, Fields
  <2>2. Changed(j) = x BY <1>1, <1>3
  <2> HIDE DEF x
  <2> QED BY <2>1, <2>2, RowIs
<1>7. After(j) = Made(m.base, now, conflicts, taken, m.checkpoint, m.checkpointAt, j.w.version + 1)
  BY <1>6, Versioned
<1> QED BY <1>4, <1>5, <1>7 DEF m, now, conflicts

\* The value an administrator chose, and the conflicts left.
ResolveNow(j) ==
    LET c == Chosen(j.w, j)
    IN IF j.item.theirs
       THEN [j.w.items EXCEPT ![c.ref] = IF c.pinned THEN c.theirs ELSE Content(j.w.base)[c.ref]]
       ELSE j.w.items

\* The row after a conflict was resolved (Schema.Resolve).
LEMMA AfterResolve ==
    ASSUME NEW j, j.w \in Workspace, j.op = "resolve"
    PROVE After(j) = Made(j.w.base, ResolveNow(j),
                          {d \in j.w.conflicts : d # Chosen(j.w, j) /\ Open(ResolveNow(j), Content(j.w.base), d)},
                          j.w.taken, j.w.checkpoint, j.w.checkpointAt, j.w.version + 1)
<1>1. Changed(j) = Resolved(j.w, j) BY DEF Changed
<1> DEFINE left == {d \in j.w.conflicts : d # Chosen(j.w, j) /\ Open(ResolveNow(j), Content(j.w.base), d)}
           now == ResolveNow(j)
<1>2. Resolved(j.w, j) = [j.w EXCEPT !.items = now, !.conflicts = left]
  BY DEF Resolved, ResolveNow, Workspace
<1> HIDE DEF now, left
<1>3. IsRow(j.w) BY WorkspaceIs
<1>4. Changed(j) = Made(j.w.base, now, left, j.w.taken, j.w.checkpoint, j.w.checkpointAt, j.w.version)
  BY <1>1, <1>2, <1>3, RowItems
<1> QED BY <1>4, Versioned DEF now, left

\* The row after its checkpoint was recorded (Service.Checkpoint).
LEMMA AfterCheckpoint ==
    ASSUME NEW j, j.w \in Workspace, j.op = "checkpoint"
    PROVE After(j) = Made(j.w.base, j.w.items, j.w.conflicts, (j.w.taken \ {j.w.checkpoint}) \cup {j.draft}, j.draft,
                          IF j.w.version = j.view.version /\ j.w.base = j.view.base THEN j.w.version + 1 ELSE 0,
                          j.w.version + 1)
<1> DEFINE taken == (j.w.taken \ {j.w.checkpoint}) \cup {j.draft}
           at == IF j.w.version = j.view.version /\ j.w.base = j.view.base THEN j.w.version + 1 ELSE 0
<1>1. Changed(j) = [j.w EXCEPT !.taken = taken, !.checkpoint = j.draft, !.checkpointAt = at]
  BY DEF Changed, Checkpointed, Workspace
<1> HIDE DEF taken, at
<1>2. IsRow(j.w) BY WorkspaceIs
<1>3. Changed(j) = Made(j.w.base, j.w.items, j.w.conflicts, taken, j.draft, at, j.w.version)
  <2> DEFINE x == [j.w EXCEPT !.taken = taken, !.checkpoint = j.draft, !.checkpointAt = at]
  <2>1. /\ IsRow(x) /\ x.base = j.w.base /\ x.items = j.w.items /\ x.conflicts = j.w.conflicts /\ x.taken = taken
        /\ x.checkpoint = j.draft /\ x.checkpointAt = at /\ x.version = j.w.version
    BY <1>2 DEF IsRow, Fields
  <2>2. Changed(j) = x BY <1>1
  <2> HIDE DEF x
  <2> QED BY <2>1, <2>2, RowIs
<1> QED BY <1>3, Versioned DEF taken, at

\* The row after its commit (Service.moveAfterCommit).
LEMMA AfterCommit ==
    ASSUME NEW j, j.w \in Workspace, j.op = "commit"
    PROVE After(j) = Made(IF j.w.base <= j.draft THEN j.draft ELSE j.w.base,
                          IF j.w.base <= j.draft THEN MoveNow(j.w, j.view.items, j.draft) ELSE j.w.items,
                          IF j.w.base <= j.draft THEN MoveConflicts(j.w, j.view.items, j.draft) ELSE j.w.conflicts,
                          j.w.taken \ j.view.taken, IF j.w.checkpoint = j.view.checkpoint THEN 0 ELSE j.w.checkpoint, 0,
                          j.w.version + 1)
<1> DEFINE m == IF j.w.base <= j.draft THEN MoveOnto(j.w, j.view.items, j.draft) ELSE j.w
           taken == j.w.taken \ j.view.taken
           checkpoint == IF j.w.checkpoint = j.view.checkpoint THEN 0 ELSE j.w.checkpoint
<1>1. /\ IsRow(m) /\ m.taken = j.w.taken /\ m.checkpoint = j.w.checkpoint
      /\ m.base = IF j.w.base <= j.draft THEN j.draft ELSE j.w.base
      /\ m.items = IF j.w.base <= j.draft THEN MoveNow(j.w, j.view.items, j.draft) ELSE j.w.items
      /\ m.conflicts = IF j.w.base <= j.draft THEN MoveConflicts(j.w, j.view.items, j.draft) ELSE j.w.conflicts
  <2>1. CASE j.w.base <= j.draft
    <3>1. m = Made(j.draft, MoveNow(j.w, j.view.items, j.draft), MoveConflicts(j.w, j.view.items, j.draft),
                   j.w.taken, j.w.checkpoint, j.w.checkpointAt, j.w.version)
      BY <2>1, MoveIs
    <3> HIDE DEF m
    <3> QED BY SMTT(20), Z3T(20), <2>1, <3>1, MadeIs
  <2>2. CASE ~(j.w.base <= j.draft) BY <2>2, WorkspaceIs
  <2> QED BY <2>1, <2>2
<1>2. Changed(j) = [m EXCEPT !.taken = m.taken \ j.view.taken, !.checkpointAt = 0,
                             !.checkpoint = IF m.checkpoint = j.view.checkpoint THEN 0 ELSE m.checkpoint]
  <2>1. Changed(j) = [m EXCEPT !.taken = @ \ j.view.taken, !.checkpointAt = 0,
                               !.checkpoint = IF @ = j.view.checkpoint THEN 0 ELSE @]
    BY DEF Changed, Committed
  <2> HIDE DEF m
  <2> QED BY <1>1, <2>1 DEF IsRow, Fields
<1> HIDE DEF m
<1>3. Changed(j) = [m EXCEPT !.taken = taken, !.checkpointAt = 0, !.checkpoint = checkpoint] BY <1>1, <1>2
<1> HIDE DEF taken, checkpoint
<1>4. Changed(j) = Made(m.base, m.items, m.conflicts, taken, checkpoint, 0, m.version)
  <2> DEFINE x == [m EXCEPT !.taken = taken, !.checkpointAt = 0, !.checkpoint = checkpoint]
  <2>1. /\ IsRow(x) /\ x.base = m.base /\ x.items = m.items /\ x.conflicts = m.conflicts /\ x.taken = taken
        /\ x.checkpoint = checkpoint /\ x.checkpointAt = 0 /\ x.version = m.version
    BY <1>1 DEF IsRow, Fields
  <2>2. Changed(j) = x BY <1>3
  <2> HIDE DEF x
  <2> QED BY <2>1, <2>2, RowIs
<1>5. After(j) = Made(m.base, m.items, m.conflicts, taken, checkpoint, 0, j.w.version + 1) BY <1>4, Versioned
<1> QED BY <1>1, <1>5 DEF taken, checkpoint

\* The same, field by field, of a merge.
LEMMA MergeFields ==
    ASSUME NEW j, j.w \in Workspace, j.op = "merge"
    PROVE /\ After(j).base = j.at
          /\ After(j).items = MergeNow(j)
          /\ After(j).conflicts = Carry(Moved(j.w, j).conflicts, MergeFound(j), MergeNow(j), Content(j.at), 0)
          /\ After(j).taken = j.w.taken \cup {j.arg}
          /\ After(j).checkpoint = j.w.checkpoint
          /\ After(j).checkpointAt = j.w.checkpointAt
<1> DEFINE conflicts == Carry(Moved(j.w, j).conflicts, MergeFound(j), MergeNow(j), Content(j.at), 0)
           taken == j.w.taken \cup {j.arg}
<1>1. After(j) = Made(j.at, MergeNow(j), conflicts, taken, j.w.checkpoint, j.w.checkpointAt, j.w.version + 1)
  BY AfterMerge
<1> HIDE DEF conflicts, taken
<1>2. /\ After(j).base = j.at
      /\ After(j).items = MergeNow(j)
      /\ After(j).conflicts = conflicts
      /\ After(j).taken = taken
      /\ After(j).checkpoint = j.w.checkpoint
      /\ After(j).checkpointAt = j.w.checkpointAt
  BY SMTT(20), Z3T(20), <1>1, MadeIs
<1> QED BY <1>2 DEF conflicts, taken

\* Of a resolution.
LEMMA ResolveFields ==
    ASSUME NEW j, j.w \in Workspace, j.op = "resolve"
    PROVE /\ After(j).base = j.w.base
          /\ After(j).items = ResolveNow(j)
          /\ After(j).conflicts = {d \in j.w.conflicts : d # Chosen(j.w, j) /\ Open(ResolveNow(j), Content(j.w.base), d)}
          /\ After(j).taken = j.w.taken
          /\ After(j).checkpoint = j.w.checkpoint
          /\ After(j).checkpointAt = j.w.checkpointAt
<1> DEFINE conflicts == {d \in j.w.conflicts : d # Chosen(j.w, j) /\ Open(ResolveNow(j), Content(j.w.base), d)}
<1>1. After(j) = Made(j.w.base, ResolveNow(j), conflicts, j.w.taken, j.w.checkpoint, j.w.checkpointAt, j.w.version + 1)
  BY AfterResolve
<1> HIDE DEF conflicts
<1>2. /\ After(j).base = j.w.base
      /\ After(j).items = ResolveNow(j)
      /\ After(j).conflicts = conflicts
      /\ After(j).taken = j.w.taken
      /\ After(j).checkpoint = j.w.checkpoint
      /\ After(j).checkpointAt = j.w.checkpointAt
  BY SMTT(20), Z3T(20), <1>1, MadeIs
<1> QED BY <1>2 DEF conflicts

\* Of a checkpoint.
LEMMA CheckpointFields ==
    ASSUME NEW j, j.w \in Workspace, j.op = "checkpoint"
    PROVE /\ After(j).base = j.w.base
          /\ After(j).items = j.w.items
          /\ After(j).conflicts = j.w.conflicts
          /\ After(j).taken = (j.w.taken \ {j.w.checkpoint}) \cup {j.draft}
          /\ After(j).checkpoint = j.draft
          /\ After(j).checkpointAt = IF j.w.version = j.view.version /\ j.w.base = j.view.base THEN j.w.version + 1 ELSE 0
<1> DEFINE taken == (j.w.taken \ {j.w.checkpoint}) \cup {j.draft}
           checkpointAt == IF j.w.version = j.view.version /\ j.w.base = j.view.base THEN j.w.version + 1 ELSE 0
<1>1. After(j) = Made(j.w.base, j.w.items, j.w.conflicts, taken, j.draft, checkpointAt, j.w.version + 1)
  BY AfterCheckpoint
<1> HIDE DEF taken, checkpointAt
<1>2. /\ After(j).base = j.w.base
      /\ After(j).items = j.w.items
      /\ After(j).conflicts = j.w.conflicts
      /\ After(j).taken = taken
      /\ After(j).checkpoint = j.draft
      /\ After(j).checkpointAt = checkpointAt
  BY SMTT(20), Z3T(20), <1>1, MadeIs
<1> QED BY <1>2 DEF taken, checkpointAt

\* Of a commit.
LEMMA CommitFields ==
    ASSUME NEW j, j.w \in Workspace, j.op = "commit"
    PROVE /\ After(j).base = IF j.w.base <= j.draft THEN j.draft ELSE j.w.base
          /\ After(j).items = IF j.w.base <= j.draft THEN MoveNow(j.w, j.view.items, j.draft) ELSE j.w.items
          /\ After(j).conflicts = IF j.w.base <= j.draft THEN MoveConflicts(j.w, j.view.items, j.draft) ELSE j.w.conflicts
          /\ After(j).taken = j.w.taken \ j.view.taken
          /\ After(j).checkpoint = IF j.w.checkpoint = j.view.checkpoint THEN 0 ELSE j.w.checkpoint
          /\ After(j).checkpointAt = 0
<1> DEFINE base == IF j.w.base <= j.draft THEN j.draft ELSE j.w.base
           items == IF j.w.base <= j.draft THEN MoveNow(j.w, j.view.items, j.draft) ELSE j.w.items
           conflicts == IF j.w.base <= j.draft THEN MoveConflicts(j.w, j.view.items, j.draft) ELSE j.w.conflicts
           taken == j.w.taken \ j.view.taken
           checkpoint == IF j.w.checkpoint = j.view.checkpoint THEN 0 ELSE j.w.checkpoint
<1>1. After(j) = Made(base, items, conflicts, taken, checkpoint, 0, j.w.version + 1)
  BY AfterCommit
<1> HIDE DEF base, items, conflicts, taken, checkpoint
<1>2. /\ After(j).base = base
      /\ After(j).items = items
      /\ After(j).conflicts = conflicts
      /\ After(j).taken = taken
      /\ After(j).checkpoint = checkpoint
      /\ After(j).checkpointAt = 0
  BY SMTT(20), Z3T(20), <1>1, MadeIs
<1> QED BY <1>2 DEF base, items, conflicts, taken, checkpoint

-----------------------------------------------------------------------------
(* What an operation makes of a workspace is a workspace.                  *)

\* A row made of good fields is good.
LEMMA MadeGood ==
    ASSUME NEW rs, DOMAIN rs \subseteq Nat, NEW w, Good(w, rs), NEW b \in Out(rs), NEW i \in [Ref -> Value],
           NEW c, \A d \in c : Sound(d), NEW t, t \subseteq DOMAIN rs \cup {0}, NEW k \in DOMAIN rs \cup {0},
           NEW a \in Nat, a <= w.version + 1, NEW x, x = Made(b, i, c, t, k, a, w.version + 1)
    PROVE Good(x, rs)
<1>1. w.version \in Nat BY DEF Good, Workspace
<1>2. b \in Nat /\ k \in Nat /\ t \subseteq Nat BY SMTT(20), Z3T(20) DEF Out
<1>3. c \subseteq Conflict BY DEF Sound
<1>4. x \in Workspace BY SMTT(20), Z3T(20), <1>1, <1>2, <1>3, ContentAssumption DEF Workspace, Made, Conflict
<1>5. /\ x.base = b /\ x.items = i /\ x.conflicts = c /\ x.taken = t
      /\ x.checkpoint = k /\ x.checkpointAt = a /\ x.version = w.version + 1
  BY SMTT(20), Z3T(20), MadeIs
<1> QED BY <1>1, <1>4, <1>5 DEF Good

\* Changes re-applied leave an item one of the two values.
LEMMA ReplayIs ==
    ASSUME NEW old, NEW local \in [Ref -> Value], NEW next \in [Ref -> Value]
    PROVE /\ Replay(old, local, next) \in [Ref -> Value]
          /\ \A r \in Ref : Replay(old, local, next)[r] = Merge(old[r], local[r], next[r])
BY DEF Replay, Merge

\* A workspace moved onto a revision.
LEMMA MoveGood ==
    ASSUME Rows, Stored(revs), NEW w, Good(w, revs), NEW old, NEW to \in Out(revs)
    PROVE /\ MoveNow(w, old, to) \in [Ref -> Value]
          /\ \A c \in MoveConflicts(w, old, to) : Sound(c)
<1>1. to \in Ids /\ to \in Nat BY DEF Out, Rows, Ids
<1>2. Content(to) \in [Ref -> Value] BY <1>1, Contents DEF Content, Ids
<1>3. w.items \in [Ref -> Value] /\ w.version + 1 \in Nat BY SMTT(20), Z3T(20), ContentAssumption DEF Good, Workspace
<1>4. MoveNow(w, old, to) \in [Ref -> Value] BY <1>2, <1>3, ReplayIs DEF MoveNow
<1>5. \A c \in MoveFound(w, old, to) : Sound(c) BY <1>1, <1>2, <1>3, FoundSound DEF MoveFound
<1>6. \A c \in w.conflicts : Sound(c) BY DEF Good
<1> QED BY <1>1, <1>4, <1>5, <1>6, CarrySound DEF MoveConflicts

\* So are the items and conflicts of a row moved for a merge.
LEMMA MovedGood ==
    ASSUME Rows, Stored(revs), NEW j, Good(j.w, revs), j.at \in Out(revs)
    PROVE /\ Moved(j.w, j).items \in [Ref -> Value]
          /\ \A c \in Moved(j.w, j).conflicts : Sound(c)
<1>1. j.w \in Workspace BY DEF Good
<1>2. CASE j.w.base = j.at
  <2>1. Moved(j.w, j) = j.w BY <1>2 DEF Moved
  <2> QED BY <2>1, ContentAssumption DEF Good, Workspace
<1>3. CASE j.w.base # j.at
  <2>1. Moved(j.w, j) = MoveOnto(j.w, Content(j.w.base), j.at) BY <1>3 DEF Moved
  <2>2. /\ Moved(j.w, j).items = MoveNow(j.w, Content(j.w.base), j.at)
        /\ Moved(j.w, j).conflicts = MoveConflicts(j.w, Content(j.w.base), j.at)
    BY SMTT(20), Z3T(20), <1>1, <2>1, MoveIs, MadeIs
  <2> QED BY SMTT(20), Z3T(20), <2>2, MoveGood
<1> QED BY <1>2, <1>3

\* The conflict chosen is one of the open ones.
LEMMA ChosenIs ==
    ASSUME NEW j, j.op = "resolve", ~Unchanged(j)
    PROVE LET c == Chosen(j.w, j) IN c \in j.w.conflicts /\ Open(j.w.items, Content(j.w.base), c) /\ c.ref = j.item.ref
<1>1. \E c \in OpenConflicts(j.w) : Named(c, j) BY DEF Unchanged
<1>2. Chosen(j.w, j) \in OpenConflicts(j.w) /\ Named(Chosen(j.w, j), j) BY <1>1 DEF Chosen
<1> QED BY <1>2 DEF OpenConflicts, Named

\* What an operation writes.
LEMMA AfterGood ==
    ASSUME Rows, Stored(revs), NEW j, JobInv(j), JobOK(j, revs, ws), j.pc = "put", ~Unchanged(j)
    PROVE Good(After(j), revs) /\ After(j).version = j.w.version + 1
<1> DEFINE w == j.w
<1>1. Good(w, revs) /\ w \in Workspace BY DEF JobOK, Good
<1>2. DOMAIN revs \subseteq Nat BY DEF Rows, Ids
<1>3. /\ w.base \in Out(revs) /\ w.items \in [Ref -> Value] /\ \A c \in w.conflicts : Sound(c)
      /\ w.taken \subseteq DOMAIN revs \cup {0} /\ w.checkpoint \in DOMAIN revs \cup {0}
      /\ w.checkpointAt \in Nat /\ w.checkpointAt <= w.version + 1 /\ w.version \in Nat /\ w.version + 1 \in Nat
  BY SMTT(20), Z3T(20), <1>1, ContentAssumption DEF Good, Workspace
<1>4. \A i \in DOMAIN revs : Content(i) \in [Ref -> Value] BY Contents DEF Content
<1>5. Out(revs) \subseteq DOMAIN revs BY DEF Out
<1> HIDE DEF w
<1> SUFFICES Good(After(j), revs) /\ After(j).version = w.version + 1 BY DEF w
<1> DEFINE Goal == Good(After(j), revs) /\ After(j).version = w.version + 1
<1> SUFFICES Goal OBVIOUS
<1>6. ASSUME NEW b \in Out(revs), NEW i \in [Ref -> Value],
             NEW c, \A d \in c : Sound(d), NEW t, t \subseteq DOMAIN revs \cup {0}, NEW k \in DOMAIN revs \cup {0},
             NEW a \in Nat, a <= w.version + 1, After(j) = Made(b, i, c, t, k, a, w.version + 1)
      PROVE Goal
  <2>1. Good(After(j), revs) BY <1>1, <1>2, <1>6, MadeGood
  <2>2. After(j).version = w.version + 1 BY SMTT(20), Z3T(20), <1>6, MadeIs
  <2> QED BY <2>1, <2>2
<1> HIDE DEF Goal
<1>7. CASE j.op = "write"
  <2>1. j.item.ref \in Ref /\ j.item.value \in Value BY <1>7 DEF JobOK
  <2>2. WriteNow(j) \in [Ref -> Value]
    <3>1. w.items[j.item.ref] \in Value BY <1>3, <2>1
    <3> QED BY <1>3, <2>1, <3>1 DEF WriteNow, Merge, w
  <2>3. \A c \in WriteFound(j) : Sound(c)
    <3>1. w.items[j.item.ref] \in Value BY <1>3, <2>1
    <3>2. Sound([ref |-> j.item.ref, kind |-> "workspace", id |-> 0, pinned |-> TRUE,
                 theirs |-> w.items[j.item.ref], born |-> w.version + 1])
      BY <1>3, <2>1, <3>1 DEF Sound, Conflict
    <3> QED BY <3>2 DEF WriteFound, w
  <2>4. \A c \in Carry(w.conflicts, WriteFound(j), WriteNow(j), Content(w.base), 0) : Sound(c)
    BY <1>3, <2>3, CarrySound
  <2>5. After(j) = Made(w.base, WriteNow(j), Carry(w.conflicts, WriteFound(j), WriteNow(j), Content(w.base), 0),
                        w.taken, w.checkpoint, w.checkpointAt, w.version + 1)
    BY <1>1, <1>7, AfterWrite DEF w
  <2> QED BY <1>3, <1>6, <2>2, <2>4, <2>5
<1>8. CASE j.op = "update"
  <2>1. j.arg \in Out(revs) BY <1>8 DEF JobOK
  <2>2. /\ MoveNow(w, Content(w.base), j.arg) \in [Ref -> Value]
        /\ \A c \in MoveConflicts(w, Content(w.base), j.arg) : Sound(c)
    BY <1>1, <2>1, MoveGood
  <2>3. After(j) = Made(j.arg, MoveNow(w, Content(w.base), j.arg), MoveConflicts(w, Content(w.base), j.arg),
                        w.taken, w.checkpoint, w.checkpointAt, w.version + 1)
    BY <1>1, <1>8, AfterUpdate DEF w
  <2> QED BY <1>3, <1>6, <2>1, <2>2, <2>3
<1>9. CASE j.op \in {"reset", "load"}
  <2> DEFINE to == IF j.op = "reset" THEN j.arg ELSE j.at
  <2>1. to \in Out(revs) /\ j.arg \in DOMAIN revs BY <1>5, <1>9 DEF JobOK, Takes
  <2>2. After(j) = Made(to, Content(j.arg), {}, {}, 0, 0, w.version + 1) BY <1>1, <1>9, AfterReset DEF w
  <2> HIDE DEF to
  <2>3. \A d \in {} : Sound(d) OBVIOUS
  <2>4. {} \subseteq DOMAIN revs \cup {0} /\ 0 \in DOMAIN revs \cup {0} /\ 0 <= w.version + 1 BY <1>3
  <2> QED BY <1>4, <1>6, <2>1, <2>2, <2>3, <2>4
<1>10. CASE j.op = "keep"
  <2>1. j.at \in Out(revs) /\ j.arg \in DOMAIN revs /\ j.at \in Nat /\ j.arg \in Nat
    BY <1>2, <1>5, <1>10 DEF JobOK, Takes
  <2>2. KeepNow(j) \in [Ref -> Value] BY <1>3, <1>4, <2>1, ReplayIs DEF KeepNow, w
  <2>3. \A c \in KeepFound(j) : Sound(c) BY <1>3, <1>4, <2>1, FoundSound DEF KeepFound, w
  <2>4. \A c \in Carry(w.conflicts, KeepFound(j), KeepNow(j), Content(j.at), j.at) : Sound(c)
    BY <1>3, <2>1, <2>3, CarrySound
  <2>5. After(j) = Made(j.at, KeepNow(j), Carry(w.conflicts, KeepFound(j), KeepNow(j), Content(j.at), j.at),
                        w.taken, w.checkpoint, w.checkpointAt, w.version + 1)
    BY <1>1, <1>10, AfterKeep DEF w
  <2> QED BY <1>3, <1>6, <2>1, <2>2, <2>4, <2>5
<1>11. CASE j.op = "merge"
  <2>1. /\ j.at \in Out(revs) /\ j.arg \in DOMAIN revs /\ j.at \in Nat /\ j.arg \in Nat /\ j.at \in DOMAIN revs
    BY <1>2, <1>5, <1>11 DEF JobOK, Takes
  <2> DEFINE m == Moved(w, j)
  <2>2. m.items \in [Ref -> Value] /\ \A c \in m.conflicts : Sound(c) BY <1>1, <2>1, MovedGood DEF w
  <2>3. DraftNow(j) \in [Ref -> Value] BY <1>4, <2>1, ReplayIs DEF DraftNow
  <2>4. MergeNow(j) \in [Ref -> Value] BY <2>2, <2>3, ReplayIs DEF MergeNow, w
  <2>5. \A c \in MergeFound(j) : Sound(c)
    <3>1. \A c \in Found(Content(j.from), Content(j.arg), Content(j.at), "published", j.at, FALSE, w.version + 1) : Sound(c)
      BY <1>3, <1>4, <2>1, FoundSound
    <3>2. \A c \in Found(Content(j.at), m.items, DraftNow(j), "draft", j.arg, TRUE, w.version + 1) : Sound(c)
      BY <1>3, <2>1, <2>3, FoundSound
    <3> QED BY <3>1, <3>2 DEF MergeFound, w
  <2>6. \A c \in Carry(m.conflicts, MergeFound(j), MergeNow(j), Content(j.at), 0) : Sound(c)
    BY <2>2, <2>5, CarrySound
  <2>7. After(j) = Made(j.at, MergeNow(j), Carry(m.conflicts, MergeFound(j), MergeNow(j), Content(j.at), 0),
                        w.taken \cup {j.arg}, w.checkpoint, w.checkpointAt, w.version + 1)
    BY <1>1, <1>11, AfterMerge DEF w
  <2>8. w.taken \cup {j.arg} \subseteq DOMAIN revs \cup {0} BY <1>3, <2>1
  <2> HIDE DEF m
  <2> QED BY <1>3, <1>6, <2>1, <2>4, <2>6, <2>7, <2>8
<1>12. CASE j.op = "resolve"
  <2> DEFINE c == Chosen(w, j)
             left == {d \in w.conflicts : d # c /\ Open(ResolveNow(j), Content(w.base), d)}
  <2>1. c \in w.conflicts BY <1>12, ChosenIs DEF w
  <2>2. c.ref \in Ref /\ (c.pinned => c.theirs \in Value) BY <1>3, <2>1 DEF Sound, Conflict
  <2>3. Content(w.base)[c.ref] \in Value BY <1>3, <1>4, <1>5, <2>2
  <2>4. ResolveNow(j) \in [Ref -> Value]
    <3>1. ResolveNow(j) = IF j.item.theirs
                          THEN [w.items EXCEPT ![c.ref] = IF c.pinned THEN c.theirs ELSE Content(w.base)[c.ref]]
                          ELSE w.items
      BY DEF ResolveNow, w
    <3> HIDE DEF c
    <3> QED BY <1>3, <2>2, <2>3, <3>1
  <2>5. After(j) = Made(w.base, ResolveNow(j), left, w.taken, w.checkpoint, w.checkpointAt, w.version + 1)
    BY <1>1, <1>12, AfterResolve DEF w
  <2>6. \A d \in left : Sound(d) BY <1>3
  <2> HIDE DEF left
  <2> QED BY <1>3, <1>6, <2>4, <2>5, <2>6
<1>13. CASE j.op = "checkpoint"
  <2> DEFINE taken == (w.taken \ {w.checkpoint}) \cup {j.draft}
             at == IF w.version = j.view.version /\ w.base = j.view.base THEN w.version + 1 ELSE 0
  <2>1. j.draft \in DOMAIN revs BY <1>13 DEF JobOK, Saves
  <2>2. taken \subseteq DOMAIN revs \cup {0} /\ at \in Nat /\ at <= w.version + 1 BY <1>3, <2>1
  <2>3. After(j) = Made(w.base, w.items, w.conflicts, taken, j.draft, at, w.version + 1)
    BY <1>1, <1>13, AfterCheckpoint DEF w
  <2> HIDE DEF taken, at
  <2> QED BY <1>3, <1>6, <2>1, <2>2, <2>3
<1>14. CASE j.op = "commit"
  <2> DEFINE moves == w.base <= j.draft
             to == IF moves THEN j.draft ELSE w.base
             now == IF moves THEN MoveNow(w, j.view.items, j.draft) ELSE w.items
             conflicts == IF moves THEN MoveConflicts(w, j.view.items, j.draft) ELSE w.conflicts
             taken == w.taken \ j.view.taken
             checkpoint == IF w.checkpoint = j.view.checkpoint THEN 0 ELSE w.checkpoint
  <2>1. j.draft \in Out(revs) BY <1>14 DEF JobOK
  <2>2. /\ MoveNow(w, j.view.items, j.draft) \in [Ref -> Value]
        /\ \A c \in MoveConflicts(w, j.view.items, j.draft) : Sound(c)
    BY <1>1, <2>1, MoveGood
  <2>3. After(j) = Made(to, now, conflicts, taken, checkpoint, 0, w.version + 1) BY <1>1, <1>14, AfterCommit DEF w
  <2>4. to \in Out(revs) /\ now \in [Ref -> Value] /\ \A c \in conflicts : Sound(c) BY <1>3, <2>1, <2>2
  <2>5. taken \subseteq DOMAIN revs \cup {0} /\ checkpoint \in DOMAIN revs \cup {0} /\ 0 <= w.version + 1 BY <1>3
  <2> HIDE DEF to, now, conflicts, taken, checkpoint
  <2> QED BY <1>6, <2>3, <2>4, <2>5
<1>15. j.op \in Applied BY DEF JobInv
<1> QED BY <1>7, <1>8, <1>9, <1>10, <1>11, <1>12, <1>13, <1>14, <1>15 DEF Applied, Takes, Saves

-----------------------------------------------------------------------------
(* What an operation may write over.                                       *)

\* A checkpoint said to hold the workspace does.
LEMMA AfterCheckpointed ==
    ASSUME Rows, Stored(revs), NEW j, JobInv(j), JobOK(j, revs, ws), j.pc = "put", ~Unchanged(j),
           After(j).checkpointAt = After(j).version
    PROVE After(j).checkpoint \in DOMAIN revs /\ Content(After(j).checkpoint) = After(j).items
<1> DEFINE w == j.w
<1>1. Good(w, revs) /\ w \in Workspace BY DEF JobOK, Good
<1>2. /\ w.checkpointAt \in Nat /\ w.version \in Nat /\ w.checkpointAt # w.version + 1 /\ 0 # w.version + 1
  BY SMTT(20), Z3T(20), <1>1 DEF Good, Workspace
<1>3. After(j).version = w.version + 1 BY AfterGood
<1>4. After(j).checkpointAt = w.version + 1 BY <1>3
<1>5. ASSUME j.op # "checkpoint" PROVE After(j).checkpointAt \in {w.checkpointAt, 0}
  <2>1. CASE j.op = "write" BY SMTT(20), Z3T(20), <1>1, <2>1, AfterWrite, MadeIs
  <2>2. CASE j.op = "update" BY SMTT(20), Z3T(20), <1>1, <2>2, AfterUpdate, MadeIs
  <2>3. CASE j.op \in {"reset", "load"} BY SMTT(20), Z3T(20), <1>1, <2>3, AfterReset, MadeIs
  <2>4. CASE j.op = "keep" BY SMTT(20), Z3T(20), <1>1, <2>4, AfterKeep, MadeIs
  <2>5. CASE j.op = "merge" BY <1>1, <2>5, MergeFields
  <2>6. CASE j.op = "resolve" BY <1>1, <2>6, ResolveFields
  <2>7. CASE j.op = "commit" BY <1>1, <2>7, CommitFields
  <2> QED BY <1>5, <2>1, <2>2, <2>3, <2>4, <2>5, <2>6, <2>7 DEF JobInv, Applied, Takes, Saves
<1>6. j.op = "checkpoint" BY <1>2, <1>4, <1>5
<1>7. /\ After(j).items = w.items /\ After(j).checkpoint = j.draft
      /\ After(j).checkpointAt = IF w.version = j.view.version /\ w.base = j.view.base THEN w.version + 1 ELSE 0
  BY <1>1, <1>6, CheckpointFields
<1>8. w.version = j.view.version /\ w.base = j.view.base BY <1>2, <1>4, <1>7
<1>9. Content(j.draft) = j.view.items /\ Good(j.view, revs) /\ j.draft \in DOMAIN revs
  BY <1>6 DEF JobOK, Saves, Content
<1>10. w.items = j.view.items
  <2>1. CASE w.version # 0 BY <1>6, <1>8, <2>1 DEF JobOK
  <2>2. CASE w.version = 0 BY <1>1, <1>8, <1>9, <2>2 DEF Good
  <2> QED BY <2>1, <2>2
<1> QED BY <1>7, <1>9, <1>10

\* An operation that writes leaves what was changed in the workspace, but
\* for what it replaces knowingly.
LEMMA AfterKeeps ==
    ASSUME Rows, Stored(revs), NEW j, JobInv(j), JobOK(j, revs, ws), j.pc = "put", ~Unchanged(j), NEW r \in Ref,
           j.w.items[r] # Content(j.w.base)[r], After(j).items[r] # j.w.items[r]
    PROVE \/ j.op \in {"reset", "load"}
          \/ j.w.items[r] = Content(After(j).base)[r]
          \/ j.op = "resolve" /\ j.item.ref = r /\ j.item.theirs
          \/ /\ j.op = "write" /\ j.item.ref = r
             /\ \/ j.w.items[r] = j.view.items[r]
                \/ \E c \in After(j).conflicts : c.ref = r /\ c.pinned /\ c.theirs = j.w.items[r]
<1> DEFINE w == j.w
           mine == w.items[r]
           base == Content(w.base)
<1>1. Good(w, revs) /\ w \in Workspace BY DEF JobOK, Good
<1>2. w.items \in [Ref -> Value] /\ \A c \in w.conflicts : Sound(c) BY <1>1, ContentAssumption DEF Good, Workspace
<1>3. \A i \in DOMAIN revs : Content(i) \in [Ref -> Value] BY Contents DEF Content
<1>4. Out(revs) \subseteq DOMAIN revs BY DEF Out
<1>5. ASSUME NEW next \in [Ref -> Value] PROVE Replay(base, w.items, next)[r] = mine
  BY SMTT(20), Z3T(20), <1>2, ReplayIs DEF Merge
<1>6. CASE j.op = "write"
  <2>1. /\ After(j).items = WriteNow(j)
        /\ After(j).conflicts = Carry(w.conflicts, WriteFound(j), WriteNow(j), Content(w.base), 0)
    BY SMTT(20), Z3T(20), <1>1, <1>6, AfterWrite, MadeIs
  <2>2. j.item.ref = r BY <1>2, <2>1 DEF WriteNow
  <2>3. WriteNow(j)[r] = Merge(j.view.items[r], j.item.value, mine) BY <1>2, <2>2 DEF WriteNow
  <2>4. CASE mine # j.view.items[r]
    <3>1. Clash(j.view.items[r], j.item.value, mine) BY <2>1, <2>3, <2>4 DEF Clash, Merge
    <3> DEFINE f == [ref |-> r, kind |-> "workspace", id |-> 0, pinned |-> TRUE, theirs |-> mine, born |-> w.version + 1]
    <3>2. f \in WriteFound(j) BY <2>2, <3>1 DEF WriteFound
    <3>3. f.ref = r /\ f.pinned /\ f.theirs = mine OBVIOUS
    <3> HIDE DEF f
    <3>4. f \in After(j).conflicts BY SMTT(20), Z3T(20), <1>2, <2>1, <3>2, CarryKeeps
    <3> QED BY <1>6, <2>2, <3>3, <3>4
  <2> QED BY <1>6, <2>2, <2>4
<1>7. CASE j.op = "update"
  <2>1. Content(j.arg) \in [Ref -> Value] BY <1>3, <1>4, <1>7 DEF JobOK
  <2>2. After(j).items = MoveNow(w, base, j.arg) BY SMTT(20), Z3T(20), <1>1, <1>7, AfterUpdate, MadeIs
  <2> QED BY <1>5, <2>1, <2>2 DEF MoveNow
<1>8. CASE j.op = "keep"
  <2>1. Content(j.arg) \in [Ref -> Value] BY <1>3, <1>8 DEF JobOK, Takes
  <2>2. After(j).items = KeepNow(j) BY SMTT(20), Z3T(20), <1>1, <1>8, AfterKeep, MadeIs
  <2> QED BY <1>5, <2>1, <2>2 DEF KeepNow
<1>9. CASE j.op = "merge"
  <2>1. j.at \in Out(revs) /\ Content(j.at) \in [Ref -> Value] /\ Content(j.arg) \in [Ref -> Value]
    BY <1>3, <1>4, <1>9 DEF JobOK, Takes
  <2>2. After(j).items = MergeNow(j) /\ After(j).base = j.at BY <1>1, <1>9, MergeFields
  <2>3. Moved(w, j).items \in [Ref -> Value] BY <1>1, <2>1, MovedGood
  <2>4. Moved(w, j).items[r] = mine
    <3>1. CASE w.base = j.at BY <3>1 DEF Moved
    <3>2. CASE w.base # j.at
      <4>1. Moved(w, j) = MoveOnto(w, base, j.at) BY <3>2 DEF Moved
      <4>2. Moved(w, j).items = MoveNow(w, base, j.at) BY SMTT(20), Z3T(20), <1>1, <4>1, MoveIs, MadeIs
      <4> QED BY <1>5, <2>1, <4>2 DEF MoveNow
    <3> QED BY <3>1, <3>2
  <2>5. DraftNow(j) \in [Ref -> Value] BY <2>1, ReplayIs DEF DraftNow
  <2>6. MergeNow(j)[r] = Merge(Content(j.at)[r], Moved(w, j).items[r], DraftNow(j)[r])
    BY <2>3, <2>5, ReplayIs DEF MergeNow
  <2>7. mine = Content(j.at)[r] BY <2>2, <2>4, <2>6 DEF Merge
  <2> QED BY <2>2, <2>7
<1>10. CASE j.op = "resolve"
  <2> DEFINE c == Chosen(w, j)
  <2>1. c.ref = j.item.ref BY <1>10, ChosenIs
  <2>2. After(j).items = ResolveNow(j) BY <1>1, <1>10, ResolveFields
  <2>3. ResolveNow(j) = IF j.item.theirs
                        THEN [w.items EXCEPT ![c.ref] = IF c.pinned THEN c.theirs ELSE Content(w.base)[c.ref]]
                        ELSE w.items
    BY DEF ResolveNow
  <2> HIDE DEF c
  <2>4. j.item.theirs /\ c.ref = r BY <1>2, <2>2, <2>3
  <2> QED BY <1>10, <2>1, <2>4
<1>11. CASE j.op = "checkpoint"
  <2>1. After(j).items = w.items BY <1>1, <1>11, CheckpointFields
  <2> QED BY <2>1
<1>12. CASE j.op = "commit"
  <2>1. After(j).items = IF w.base <= j.draft THEN MoveNow(w, j.view.items, j.draft) ELSE w.items
    BY <1>1, <1>12, CommitFields
  <2>2. j.draft \in Out(revs) /\ Content(j.draft) = j.view.items BY <1>12 DEF JobOK, Saves, Content
  <2>3. MoveNow(w, j.view.items, j.draft)[r] = Merge(j.view.items[r], mine, j.view.items[r])
    BY SMTT(20), Z3T(20), <1>2, <1>3, <1>4, <2>2, ReplayIs DEF MoveNow
  <2> QED BY <2>1, <2>3 DEF Merge
<1> QED BY <1>6, <1>7, <1>8, <1>9, <1>10, <1>11, <1>12 DEF JobInv, Applied, Takes, Saves

-----------------------------------------------------------------------------
(* What is published comes to light.  More than the property says, a       *)
(* conflict on the item holds the base's value against the workspace's:    *)
(* one with another writer may be closed without a word about the base.    *)

Surface(w, known, r) ==
    w.items[r] # Content(w.base)[r] => known \in {Content(w.base)[r], Displaced} \/ Tells(w, r)

TellsIn(cs, v, r) == \E c \in cs : c.ref = r /\ (~c.pinned \/ c.theirs = v)
HeldIn(cs, born, r) == \E c \in cs : c.ref = r /\ c.pinned /\ c.born = born
NoneAt(cs, r) == \A c \in cs : c.ref # r
AllSound(cs) == \A c \in cs : Sound(c)

\* A conflict that tells of the base is carried on, where nothing was found.
LEMMA CarryTells ==
    ASSUME NEW pending, NEW found, NEW now, NEW base, NEW onto, NEW r, now[r] # base[r],
           AllSound(pending), NoneAt(found, r), TellsIn(pending, base[r], r)
    PROVE TellsIn(Carry(pending, found, now, base, onto), base[r], r)
<1>1. PICK p \in pending : p.ref = r /\ (~p.pinned \/ p.theirs = base[r]) BY DEF TellsIn
<1>2. Sound(p) /\ \A f \in found : f.ref # p.ref BY <1>1 DEF AllSound, NoneAt
<1>3. Open(now, base, p) BY <1>1 DEF Open
<1>4. PICK c \in Carry(pending, found, now, base, onto) : c.ref = p.ref /\ c.pinned = p.pinned /\ c.theirs = p.theirs
  BY <1>2, <1>3, CarryKeeps
<1> QED BY <1>1, <1>4 DEF TellsIn

\* A clash of an update tells of the base; where there is none nothing is found.
LEMMA FoundTells ==
    ASSUME NEW old, NEW local, NEW next, NEW kind, NEW id, NEW born, NEW r \in Ref, NEW v,
           Clash(old[r], local[r], next[r])
    PROVE TellsIn(Found(old, local, next, kind, id, FALSE, born), v, r)
<1> DEFINE c == [ref |-> r, kind |-> kind, id |-> id, pinned |-> FALSE, theirs |-> None, born |-> born]
<1>1. c \in Found(old, local, next, kind, id, FALSE, born) BY DEF Found
<1>2. c.ref = r /\ ~c.pinned OBVIOUS
<1> HIDE DEF c
<1> QED BY <1>1, <1>2 DEF TellsIn

\* An item that clashes is held by a conflict (Schema.Replay).
LEMMA FoundHeld ==
    ASSUME NEW old, NEW local, NEW next, NEW kind, NEW id, NEW born, NEW r \in Ref,
           Clash(old[r], local[r], next[r])
    PROVE HeldIn(Found(old, local, next, kind, id, TRUE, born), born, r)
<1> DEFINE c == [ref |-> r, kind |-> kind, id |-> id, pinned |-> TRUE, theirs |-> next[r], born |-> born]
<1>1. c \in Found(old, local, next, kind, id, TRUE, born) BY DEF Found
<1>2. c.ref = r /\ c.pinned /\ c.born = born OBVIOUS
<1> HIDE DEF c
<1> QED BY <1>1, <1>2 DEF HeldIn

\* One that does not is not.
LEMMA FoundNone ==
    ASSUME NEW old, NEW local, NEW next, NEW kind, NEW id, NEW pinned, NEW born, NEW r \in Ref,
           ~Clash(old[r], local[r], next[r])
    PROVE NoneAt(Found(old, local, next, kind, id, pinned, born), r)
<1> SUFFICES ASSUME NEW q \in Ref, Clash(old[q], local[q], next[q])
             PROVE [ref |-> q, kind |-> kind, id |-> id, pinned |-> pinned,
                    theirs |-> IF pinned THEN next[q] ELSE None, born |-> born].ref # r
  BY DEF Found, NoneAt
<1> QED OBVIOUS

\* What is found tells on.
LEMMA CarryFinds ==
    ASSUME NEW pending, NEW found, NEW now, NEW base, NEW onto, NEW r, NEW v,
           AllSound(pending), TellsIn(found, v, r)
    PROVE TellsIn(Carry(pending, found, now, base, onto), v, r)
BY CarryKeeps DEF AllSound, TellsIn

\* Moving a workspace onto a revision, a change of the base is told of.
LEMMA MoveSurfaces ==
    ASSUME Rows, Stored(revs), NEW w, Good(w, revs), NEW to \in Out(revs), NEW known, NEW r \in Ref,
           Surface(w, known, r)
    PROVE Surface(MoveOnto(w, Content(w.base), to), known, r)
<1> DEFINE old == Content(w.base)
           next == Content(to)
           now == MoveNow(w, old, to)
           found == MoveFound(w, old, to)
           m == MoveOnto(w, old, to)
<1>1. w \in Workspace /\ w.items \in [Ref -> Value] /\ next \in [Ref -> Value] /\ AllSound(w.conflicts)
  BY Contents, ContentAssumption DEF Good, Workspace, Content, Out, AllSound
<1>2. m = Made(to, now, MoveConflicts(w, old, to), w.taken, w.checkpoint, w.checkpointAt, w.version) BY <1>1, MoveIs
<1> HIDE DEF m
<1>3. m.items = now /\ m.base = to /\ m.conflicts = Carry(w.conflicts, found, now, next, to)
  BY SMTT(20), Z3T(20), <1>2, MadeIs DEF MoveConflicts
<1>4. now[r] = Merge(old[r], w.items[r], next[r]) BY <1>1, ReplayIs DEF MoveNow
<1>5. found = Found(old, w.items, next, "published", to, FALSE, w.version + 1) BY DEF MoveFound
<1>6. Tells(w, r) <=> TellsIn(w.conflicts, old[r], r) BY DEF Tells, TellsIn
<1>7. Tells(m, r) <=> TellsIn(m.conflicts, next[r], r) BY <1>3 DEF Tells, TellsIn
<1> SUFFICES ASSUME now[r] # next[r] PROVE known \in {next[r], Displaced} \/ Tells(m, r)
  BY <1>3 DEF Surface, m
<1>8. w.items[r] # old[r] /\ w.items[r] # next[r] BY <1>4 DEF Merge
<1>9. known \in {old[r], Displaced} \/ Tells(w, r) BY <1>8 DEF Surface
<1> HIDE DEF old, next, now, found
<1>10. CASE next[r] # old[r]
  <2>1. Clash(old[r], w.items[r], next[r]) BY <1>8, <1>10 DEF Clash
  <2>2. TellsIn(found, next[r], r) BY <1>5, <2>1, FoundTells
  <2>3. TellsIn(Carry(w.conflicts, found, now, next, to), next[r], r) BY <1>1, <2>2, CarryFinds
  <2> QED BY <1>3, <1>7, <2>3
<1>11. CASE next[r] = old[r]
  <2>1. ~Clash(old[r], w.items[r], next[r]) BY <1>11 DEF Clash
  <2>2. NoneAt(found, r) BY <1>5, <2>1, FoundNone
  <2>3. CASE TellsIn(w.conflicts, old[r], r)
    <3>1. TellsIn(Carry(w.conflicts, found, now, next, to), next[r], r) BY <1>1, <1>11, <2>2, <2>3, CarryTells
    <3> QED BY <1>3, <1>7, <3>1
  <2> QED BY <1>6, <1>9, <1>11, <2>3
<1> QED BY <1>10, <1>11

\* Where a conflict was just found, Knows is right whatever was known.
LEMMA KnowsSurfaces ==
    ASSUME NEW j, NEW after, NEW r,
           \/ seen[j.user][r] \in {Content(after.base)[r], Displaced}
           \/ \E c \in after.conflicts : c.ref = r /\ c.pinned /\ c.born = j.w.version + 1
           \/ Tells(after, r)
    PROVE Surface(after, Knows(j, after, r), r)
BY DEF Surface, Knows

\* What was known before still is, where neither item nor base changed.
LEMMA SameSurfaces ==
    ASSUME NEW w, NEW after, NEW known, NEW r, Surface(w, known, r),
           after.items[r] = w.items[r], after.base = w.base,
           w.items[r] # Content(w.base)[r] /\ Tells(w, r) => Tells(after, r)
    PROVE Surface(after, known, r)
BY DEF Surface

\* A write.
LEMMA WriteSurfaces ==
    ASSUME Rows, Stored(revs), NEW j, JobInv(j), JobOK(j, revs, ws), j.pc = "put", j.op = "write", NEW r \in Ref,
           Surface(j.w, seen[j.user][r], r)
    PROVE Surface(After(j), Knew(j, After(j), r), r)
<1> DEFINE w == j.w
           base == Content(w.base)
           after == After(j)
           prior == seen[j.user][r]
           found == WriteFound(j)
           now == WriteNow(j)
<1>1. w \in Workspace /\ w.items \in [Ref -> Value] /\ AllSound(w.conflicts)
  BY ContentAssumption DEF JobOK, Good, Workspace, AllSound
<1>2. after.items = now /\ after.base = w.base /\ after.conflicts = Carry(w.conflicts, found, now, base, 0)
  BY SMTT(20), Z3T(20), <1>1, AfterWrite, MadeIs
<1>3. ASSUME NoneAt(found, r), after.items[r] # base[r], Tells(w, r) PROVE Tells(after, r)
  <2>1. TellsIn(w.conflicts, base[r], r) BY <1>3 DEF Tells, TellsIn
  <2> HIDE DEF found, now, base, after
  <2>2. TellsIn(Carry(w.conflicts, found, now, base, 0), base[r], r) BY <1>1, <1>2, <1>3, <2>1, CarryTells
  <2> QED BY <1>2, <2>2 DEF Tells, TellsIn, base
<1> HIDE DEF after
<1> SUFFICES ASSUME after.items[r] # base[r] PROVE Surface(after, Knew(j, after, r), r)
  BY <1>2 DEF Surface, after
<1>4. CASE j.item.ref # r
  <2>1. Knew(j, after, r) = prior BY <1>2, <1>4 DEF Knew
  <2>2. after.items[r] = w.items[r] BY <1>1, <1>2, <1>4 DEF WriteNow
  <2>3. NoneAt(found, r) BY <1>4 DEF WriteFound, NoneAt
  <2> QED BY <1>2, <1>3, <2>1, <2>2, <2>3, SameSurfaces
<1>5. CASE j.item.ref = r /\ j.view.base >= w.base
  <2>1. Knew(j, after, r) = base[r] BY <1>2, <1>5 DEF Knew
  <2> QED BY <1>2, <2>1 DEF Surface
<1>6. CASE j.item.ref = r /\ ~(j.view.base >= w.base)
  <2>1. now[r] = Merge(j.view.items[r], j.item.value, w.items[r]) BY <1>1, <1>6 DEF WriteNow
  <2>2. ASSUME Clash(j.view.items[r], j.item.value, w.items[r])
        PROVE \E f \in after.conflicts : f.ref = r /\ f.pinned /\ f.born = w.version + 1 /\ f.theirs = w.items[r]
    <3> DEFINE f == [ref |-> r, kind |-> "workspace", id |-> 0, pinned |-> TRUE,
                     theirs |-> w.items[r], born |-> w.version + 1]
    <3>1. f \in found BY <1>6, <2>2 DEF WriteFound
    <3>2. f.ref = r /\ f.pinned /\ f.born = w.version + 1 /\ f.theirs = w.items[r] OBVIOUS
    <3> HIDE DEF f, found, now
    <3>3. f \in after.conflicts BY SMTT(20), Z3T(20), <1>1, <1>2, <3>1, CarryKeeps DEF AllSound
    <3> QED BY <3>2, <3>3
  <2>3. CASE w.items[r] # base[r]
    <3>1. Knew(j, after, r) = Knows(j, after, r) BY <1>2, <1>6, <2>3 DEF Knew
    <3>2. CASE Clash(j.view.items[r], j.item.value, w.items[r]) BY <2>2, <3>1, <3>2, KnowsSurfaces
    <3>3. CASE ~Clash(j.view.items[r], j.item.value, w.items[r])
      <4>1. NoneAt(found, r) BY <1>6, <3>3 DEF WriteFound, NoneAt
      <4>2. prior \in {base[r], Displaced} \/ Tells(w, r) BY <2>3 DEF Surface
      <4>3. prior \in {Content(after.base)[r], Displaced} \/ Tells(after, r) BY <1>2, <1>3, <4>1, <4>2
      <4> QED BY <3>1, <4>3, KnowsSurfaces
    <3> QED BY <3>2, <3>3
  <2>4. CASE w.items[r] = base[r]
    <3>1. Knew(j, after, r) = j.view.items[r] BY <1>2, <1>6, <2>4 DEF Knew
    <3>2. CASE j.view.items[r] = base[r] BY <1>2, <3>1, <3>2 DEF Surface
    <3>3. CASE j.view.items[r] # base[r]
      <4>1. Clash(j.view.items[r], j.item.value, w.items[r]) BY <1>2, <2>1, <2>4, <3>3 DEF Clash, Merge
      <4>2. Tells(after, r) BY <1>2, <2>2, <2>4, <4>1 DEF Tells
      <4> QED BY <4>2 DEF Surface
    <3> QED BY <3>2, <3>3
  <2> QED BY <2>3, <2>4
<1> QED BY <1>4, <1>5, <1>6

\* A merge.
LEMMA MergeSurfaces ==
    ASSUME Rows, Stored(revs), NEW j, JobInv(j), JobOK(j, revs, ws), j.pc = "put", j.op = "merge", NEW r \in Ref,
           Surface(j.w, seen[j.user][r], r)
    PROVE Surface(After(j), Knew(j, After(j), r), r)
<1> DEFINE w == j.w
           m == Moved(w, j)
           onto == Content(j.at)
           from == Content(j.from)
           arg == Content(j.arg)
           draft == DraftNow(j)
           now == MergeNow(j)
           found == MergeFound(j)
           after == After(j)
           prior == seen[j.user][r]
<1>1. Good(w, revs) /\ w \in Workspace /\ j.at \in Out(revs) BY DEF JobOK, Good, Takes
<1>2. onto \in [Ref -> Value] /\ arg \in [Ref -> Value] BY Contents DEF JobOK, Content, Takes, Out
<1>3. m.items \in [Ref -> Value] /\ AllSound(m.conflicts) BY <1>1, MovedGood DEF AllSound
<1>4. after.items = now /\ after.base = j.at /\ after.conflicts = Carry(m.conflicts, found, now, onto, 0)
  BY <1>1, MergeFields
<1>5. draft \in [Ref -> Value] /\ draft[r] = Merge(from[r], arg[r], onto[r]) BY <1>2, ReplayIs DEF DraftNow
<1>6. now[r] = Merge(onto[r], m.items[r], draft[r]) BY <1>3, <1>5, ReplayIs DEF MergeNow
<1>7. Surface(m, prior, r) /\ m.base = j.at
  <2>1. CASE w.base = j.at BY <2>1 DEF Moved
  <2>2. CASE w.base # j.at
    <3>1. m = MoveOnto(w, Content(w.base), j.at) BY <2>2 DEF Moved
    <3>2. m.base = j.at BY SMTT(20), Z3T(20), <1>1, MovedIs, MadeIs
    <3> QED BY <1>1, <3>1, <3>2, MoveSurfaces
  <2> QED BY <2>1, <2>2
<1> DEFINE first == Found(from, arg, onto, "published", j.at, FALSE, w.version + 1)
           second == Found(onto, m.items, draft, "draft", j.arg, TRUE, w.version + 1)
<1>8. found = first \cup second BY DEF MergeFound
<1>9. Tells(after, r) <=> TellsIn(after.conflicts, onto[r], r) BY <1>4 DEF Tells, TellsIn
<1>10. Tells(m, r) <=> TellsIn(m.conflicts, onto[r], r) BY <1>7 DEF Tells, TellsIn
<1> SUFFICES ASSUME now[r] # onto[r] PROVE Surface(after, Knew(j, after, r), r)
  BY <1>4 DEF Surface
<1>11. Knew(j, after, r) = IF m.items[r] = onto[r] THEN from[r] ELSE Knows(j, after, r)
  BY <1>4 DEF Knew
<1>12. Content(after.base) = onto BY <1>4
<1> HIDE DEF m, onto, from, arg, draft, now, found, after, first, second
<1>13. CASE m.items[r] = onto[r]
  <2>1. CASE from[r] = onto[r] BY <1>11, <1>12, <1>13, <2>1 DEF Surface
  <2>2. CASE from[r] # onto[r]
    <3>1. Clash(from[r], arg[r], onto[r]) BY <1>5, <1>6, <1>13, <2>2 DEF Clash, Merge
    <3>2. TellsIn(first, onto[r], r) BY <3>1, FoundTells DEF first
    <3>3. TellsIn(found, onto[r], r) BY <1>8, <3>2 DEF TellsIn
    <3>4. TellsIn(Carry(m.conflicts, found, now, onto, 0), onto[r], r) BY <1>3, <3>3, CarryFinds
    <3>5. Tells(after, r) BY <1>4, <1>9, <3>4
    <3> QED BY <3>5 DEF Surface
  <2> QED BY <2>1, <2>2
<1>14. CASE m.items[r] # onto[r]
  <2>1. Knew(j, after, r) = Knows(j, after, r) BY <1>11, <1>14
  <2>2. prior \in {onto[r], Displaced} \/ Tells(m, r) BY <1>7, <1>14 DEF Surface, onto
  <2>3. CASE prior \in {onto[r], Displaced} BY <1>12, <2>1, <2>3, KnowsSurfaces
  <2>4. CASE Clash(from[r], arg[r], onto[r])
    <3>1. TellsIn(first, onto[r], r) BY <2>4, FoundTells DEF first
    <3>2. TellsIn(found, onto[r], r) BY <1>8, <3>1 DEF TellsIn
    <3>3. TellsIn(Carry(m.conflicts, found, now, onto, 0), onto[r], r) BY <1>3, <3>2, CarryFinds
    <3>4. Tells(after, r) BY <1>4, <1>9, <3>3
    <3> QED BY <3>4 DEF Surface
  <2>5. CASE Clash(onto[r], m.items[r], draft[r])
    <3>1. HeldIn(second, w.version + 1, r) BY <2>5, FoundHeld DEF second
    <3>2. PICK c \in second : c.ref = r /\ c.pinned /\ c.born = w.version + 1 BY <3>1 DEF HeldIn
    <3>3. c \in found BY <1>8, <3>2
    <3>4. c \in Carry(m.conflicts, found, now, onto, 0) BY <1>3, <3>3, CarryKeeps DEF AllSound
    <3>5. \E d \in after.conflicts : d.ref = r /\ d.pinned /\ d.born = j.w.version + 1 BY <1>4, <3>2, <3>4
    <3> QED BY <2>1, <3>5, KnowsSurfaces
  <2>6. CASE Tells(m, r) /\ ~Clash(from[r], arg[r], onto[r]) /\ ~Clash(onto[r], m.items[r], draft[r])
    <3>1. NoneAt(first, r) BY <2>6, FoundNone DEF first
    <3>2. NoneAt(second, r) BY <2>6, FoundNone DEF second
    <3>3. NoneAt(found, r) BY <1>8, <3>1, <3>2 DEF NoneAt
    <3>4. TellsIn(m.conflicts, onto[r], r) BY <1>10, <2>6
    <3>5. TellsIn(Carry(m.conflicts, found, now, onto, 0), onto[r], r) BY <1>3, <3>3, <3>4, CarryTells
    <3>6. Tells(after, r) BY <1>4, <1>9, <3>5
    <3> QED BY <3>6 DEF Surface
  <2> QED BY <2>2, <2>3, <2>4, <2>5, <2>6
<1> QED BY <1>13, <1>14

\* A choice.
LEMMA ResolveSurfaces ==
    ASSUME NEW j, JobOK(j, revs, ws), j.pc = "put", j.op = "resolve", ~Unchanged(j), NEW r \in Ref,
           Surface(j.w, seen[j.user][r], r)
    PROVE Surface(After(j), Knew(j, After(j), r), r)
<1> DEFINE w == j.w
           c == Chosen(w, j)
           base == Content(w.base)
           now == ResolveNow(j)
           after == After(j)
           prior == seen[j.user][r]
<1>1. w \in Workspace /\ w.items \in [Ref -> Value] BY ContentAssumption DEF JobOK, Good, Workspace
<1>2. c \in w.conflicts /\ c.ref = j.item.ref BY ChosenIs
<1>3. after.items = now /\ after.base = w.base /\ after.conflicts = {d \in w.conflicts : d # c /\ Open(now, base, d)}
  BY <1>1, ResolveFields
<1>4. now = IF j.item.theirs THEN [w.items EXCEPT ![c.ref] = IF c.pinned THEN c.theirs ELSE base[c.ref]] ELSE w.items
  BY DEF ResolveNow
<1> SUFFICES ASSUME now[r] # base[r] PROVE Surface(after, Knew(j, after, r), r)
  BY <1>3 DEF Surface
<1>5. Knew(j, after, r) = IF j.item.ref = r /\ base[r] \in {w.items[r], IF c.pinned THEN c.theirs ELSE base[r]}
                          THEN base[r] ELSE prior
  BY <1>3 DEF Knew
<1>6. Content(after.base) = base BY <1>3
<1> HIDE DEF c, now, after, base
<1>7. ASSUME NEW d \in w.conflicts, d.ref = r, ~d.pinned \/ d.theirs = base[r], d # c PROVE Tells(after, r)
  <2>1. Open(now, base, d) BY <1>7 DEF Open
  <2>2. d \in after.conflicts BY <1>3, <1>7, <2>1
  <2> QED BY <1>6, <1>7, <2>2 DEF Tells
<1>8. CASE j.item.ref # r
  <2>1. now[r] = w.items[r] BY <1>1, <1>2, <1>4, <1>8
  <2>2. Knew(j, after, r) = prior BY <1>5, <1>8
  <2>3. prior \in {base[r], Displaced} \/ Tells(w, r) BY <2>1 DEF Surface, base
  <2>4. CASE Tells(w, r)
    <3>1. PICK d \in w.conflicts : d.ref = r /\ (~d.pinned \/ d.theirs = base[r]) BY <2>4 DEF Tells, base
    <3>2. Tells(after, r) BY <1>2, <1>7, <1>8, <3>1
    <3> QED BY <3>2 DEF Surface
  <2> QED BY <1>6, <2>2, <2>3, <2>4 DEF Surface
<1>9. CASE j.item.ref = r /\ base[r] \in {w.items[r], IF c.pinned THEN c.theirs ELSE base[r]}
  BY <1>5, <1>6, <1>9 DEF Surface
<1>10. CASE j.item.ref = r /\ base[r] \notin {w.items[r], IF c.pinned THEN c.theirs ELSE base[r]}
  <2>1. w.items[r] # base[r] /\ c.pinned /\ c.theirs # base[r] BY <1>10
  <2>2. Knew(j, after, r) = prior BY <1>5, <1>10
  <2>3. prior \in {base[r], Displaced} \/ Tells(w, r) BY <2>1 DEF Surface, base
  <2>4. CASE Tells(w, r)
    <3>1. PICK d \in w.conflicts : d.ref = r /\ (~d.pinned \/ d.theirs = base[r]) BY <2>4 DEF Tells, base
    <3>2. Tells(after, r) BY <1>7, <2>1, <3>1
    <3> QED BY <3>2 DEF Surface
  <2> QED BY <1>6, <2>2, <2>3, <2>4 DEF Surface
<1> QED BY <1>8, <1>9, <1>10

\* Any operation.
LEMMA AfterSurfaces ==
    ASSUME Rows, Stored(revs), NEW j, JobInv(j), JobOK(j, revs, ws), j.pc = "put", ~Unchanged(j), NEW r \in Ref,
           Surface(j.w, seen[j.user][r], r)
    PROVE Surface(After(j), Knew(j, After(j), r), r)
<1> DEFINE w == j.w
           after == After(j)
           prior == seen[j.user][r]
<1>1. w \in Workspace /\ Good(w, revs) BY DEF JobOK, Good
<1> SUFFICES ASSUME after.items[r] # Content(after.base)[r] PROVE Surface(after, Knew(j, after, r), r)
  BY DEF Surface
<1>2. CASE j.op = "write" BY <1>2, WriteSurfaces
<1>3. CASE j.op = "merge" BY <1>3, MergeSurfaces
<1>4. CASE j.op = "resolve" BY <1>4, ResolveSurfaces
<1>5. CASE j.op = "update"
  <2>1. Surface(MoveOnto(w, Content(w.base), j.arg), prior, r) BY <1>1, <1>5, MoveSurfaces DEF JobOK
  <2> DEFINE m == MoveOnto(w, Content(w.base), j.arg)
  <2>2. after.items = m.items /\ after.base = m.base /\ after.conflicts = m.conflicts
    BY SMTT(20), Z3T(20), <1>1, <1>5, AfterUpdate, MoveIs, MadeIs
  <2>3. Knew(j, after, r) = prior BY <1>5 DEF Knew
  <2> HIDE DEF m
  <2> QED BY <2>1, <2>2, <2>3 DEF Surface, Tells, m
<1>6. CASE j.op = "reset"
  <2>1. after.items = Content(after.base) BY SMTT(20), Z3T(20), <1>1, <1>6, AfterReset, MadeIs
  <2> QED BY <2>1
<1>7. CASE j.op \in {"load", "keep"}
  <2>1. Knew(j, after, r) = Content(after.base)[r] BY <1>7 DEF Knew
  <2> QED BY <2>1 DEF Surface
<1>8. CASE j.op = "checkpoint"
  <2>1. after.items = w.items /\ after.base = w.base /\ after.conflicts = w.conflicts
    BY <1>1, <1>8, CheckpointFields
  <2>2. Knew(j, after, r) = prior BY <1>8 DEF Knew
  <2> QED BY <2>1, <2>2 DEF Surface, Tells
<1>9. CASE j.op = "commit" /\ w.base <= j.draft
  <2>1. Knew(j, after, r) = Content(after.base)[r] BY <1>9 DEF Knew
  <2> QED BY <2>1 DEF Surface
<1>10. CASE j.op = "commit" /\ ~(w.base <= j.draft)
  <2>1. after.items = w.items /\ after.base = w.base /\ after.conflicts = w.conflicts
    BY <1>1, <1>10, CommitFields
  <2>2. Knew(j, after, r) = prior BY <1>10 DEF Knew
  <2> QED BY <2>1, <2>2 DEF Surface, Tells
<1> QED BY <1>2, <1>3, <1>4, <1>5, <1>6, <1>7, <1>8, <1>9, <1>10 DEF JobInv, Applied, Takes, Saves

-----------------------------------------------------------------------------
(* The rows of the store are revisions, whatever is stored.                *)

\* What a step does to the store, with the arguments it has.
TypedStep ==
    \/ \E parent \in Ids \cup {0}, payload \in Payload, by \in Author : Create(parent, payload, by)
    \/ \E id, expected : Publish(id, expected)
    \/ \E id : Discard(id)
    \/ \E expected, target : \E by \in Author : Rollback(expected, target, by)
    \/ \E h \in History : ImportHistory(h)
    \/ UNCHANGED store

\* Revisions stay and keep what they hold, in every step.
LEMMA StoreGrows == ASSUME StoreInv, StoreStep PROVE Grows(revs, revs')
<1>1. CASE UNCHANGED store BY <1>1 DEF store, Grows
<1>2. CASE ~UNCHANGED store
  <2>1. \A i \in Ids : Alive(i) BY <1>2, StoreInvStep
  <2>2. DOMAIN revs \subseteq DOMAIN revs' BY <2>1 DEF Alive, Ids
  <2>3. \A i \in DOMAIN revs :
          revs'[i].payload = revs[i].payload /\ revs'[i].by = revs[i].by /\ revs'[i].parent = revs[i].parent
    BY <2>1 DEF Alive, Ids
  <2>4. ASSUME NEW i \in Out(revs) PROVE i \in Out(revs')
    <3>1. Alive(i) /\ revs[i].state \notin {"draft", "discarded"} BY <2>1 DEF Out, Ids, Unpublished
    <3>2. revs'[i].state \notin {"draft", "discarded"} BY <3>1 DEF Alive
    <3> QED BY <3>1, <3>2 DEF Alive, Out, Unpublished
  <2> QED BY <2>2, <2>3, <2>4 DEF Grows
<1> QED BY <1>1, <1>2

-----------------------------------------------------------------------------
(* The operations, step by step.                                           *)

Jobs == \A p \in Proc : JobOK(job[p], revs, ws)

\* An operation that ended, or discards, has nothing in hand but drafts.
LEMMA EndedOK ==
    ASSUME NEW rs, NEW s
    PROVE /\ JobOK(Idle, rs, s)
          /\ \A op, u, ids : JobOK([Start("discard", op, u) EXCEPT !.todo = ids], rs, s)
BY SMTT(20), Z3T(20) DEF JobOK, Idle, Start

\* One process takes a step, the others keep what they have.
LEMMA JobsStep ==
    ASSUME WorkspaceInv, Jobs, Grows(revs, revs'), Ahead(ws, ws'), NEW p \in Proc, NEW k,
           job' = [job EXCEPT ![p] = k], JobOK(k, revs', ws')
    PROVE Jobs'
<1>1. \A q \in Proc : job'[q] = IF q = p THEN k ELSE job[q] BY DEF WorkspaceInv
<1>2. ASSUME NEW q \in Proc PROVE JobOK(job[q], revs', ws')
  <2>1. JobOK(job[q], revs, ws) BY DEF Jobs
  <2>2. job[q].pc \in {"build", "publish", "store", "load", "put"} => job[q].user \in User
    BY DEF WorkspaceInv, JobInv
  <2> QED BY <2>1, <2>2, JobKept
<1>3. \A q \in Proc : JobOK(job'[q], revs', ws') BY <1>1, <1>2
<1> QED BY <1>3 DEF Jobs

\* No process takes a step: all keep what they have.
LEMMA JobsStay ==
    ASSUME WorkspaceInv, Jobs, Grows(revs, revs'), UNCHANGED <<ws, job>>
    PROVE Jobs'
<1>1. ASSUME NEW q \in Proc PROVE JobOK(job'[q], revs', ws')
  <2>1. JobOK(job[q], revs, ws) BY DEF Jobs
  <2>2. job[q].pc \in {"build", "publish", "store", "load", "put"} => job[q].user \in User
    BY DEF WorkspaceInv, JobInv
  <2>3. Ahead(ws, ws') BY DEF Ahead
  <2> QED BY <2>1, <2>2, <2>3, JobKept
<1> QED BY <1>1 DEF Jobs

\* The operation of a process, over the store as a step leaves it.
LEMMA JobNow ==
    ASSUME WorkspaceInv, Jobs, Grows(revs, revs'), UNCHANGED ws, NEW p \in Proc
    PROVE JobOK(job[p], revs', ws')
<1>1. JobOK(job[p], revs, ws) BY DEF Jobs
<1>2. job[p].pc \in {"build", "publish", "store", "load", "put"} => job[p].user \in User
  BY DEF WorkspaceInv, JobInv
<1>3. Ahead(ws, ws') BY DEF Ahead
<1> QED BY <1>1, <1>2, <1>3, JobKept

\* An operation goes on.
LEMMA GoOnOK ==
    ASSUME NEW rs, NEW s, NEW j, JobOK(j, rs, s), NEW k,
           k.op = j.op, k.user = j.user, k.arg = j.arg, k.item = j.item, k.view = j.view, k.from = j.from, k.todo = j.todo,
           \/ /\ j.pc = "put" /\ k.pc = "load" /\ k.at = j.at /\ k.draft = j.draft
           \/ /\ j.pc = "put" /\ k.pc = "published" /\ j.op \in Takes
           \/ /\ j.pc = "published" /\ k.pc = "load" /\ j.op \in Takes /\ k.at \in Out(rs)
           \/ /\ j.pc = "publish" /\ k.pc = "store" /\ j.op \in Saves /\ k.draft = j.draft /\ k.at = j.view.base
           \/ /\ j.pc = "store" /\ k.pc = "load" /\ j.op \in Saves /\ k.draft = j.draft /\ k.draft \in Out(rs)
           \/ /\ j.pc = "build" /\ j.op \in Saves /\ k.pc = (IF j.op = "commit" THEN "publish" ELSE "load")
              /\ k.draft \in DOMAIN rs /\ rs[k.draft].payload = j.view.items
              /\ rs[k.draft].by = j.user /\ rs[k.draft].parent = j.view.base
    PROVE JobOK(k, rs, s)
<1>1. CASE j.pc = "put" /\ k.pc = "load" /\ k.at = j.at /\ k.draft = j.draft BY <1>1 DEF JobOK
<1>2. CASE j.pc = "put" /\ k.pc = "published" /\ j.op \in Takes BY <1>2 DEF JobOK
<1>3. CASE j.pc = "published" /\ k.pc = "load" /\ j.op \in Takes /\ k.at \in Out(rs) BY <1>3 DEF JobOK, Takes, Saves
<1>4. CASE /\ j.pc = "publish" /\ k.pc = "store" /\ j.op \in Saves /\ k.draft = j.draft
           /\ k.at = j.view.base
  BY <1>4 DEF JobOK
<1>5. CASE j.pc = "store" /\ k.pc = "load" /\ j.op \in Saves /\ k.draft = j.draft /\ k.draft \in Out(rs)
  BY <1>5 DEF JobOK, Takes, Saves
<1>6. CASE /\ j.pc = "build" /\ j.op \in Saves /\ k.pc = (IF j.op = "commit" THEN "publish" ELSE "load")
           /\ k.draft \in DOMAIN rs /\ rs[k.draft].payload = j.view.items
           /\ rs[k.draft].by = j.user /\ rs[k.draft].parent = j.view.base
  BY <1>6 DEF JobOK, Takes, Saves
<1> QED BY <1>1, <1>2, <1>3, <1>4, <1>5, <1>6

\* What load reads is a workspace.
LEMMA ReadGood ==
    ASSUME StoreInv, Stored(revs), NEW u \in User, Readable(u), Kept(u) => Good(ws[u], revs)
    PROVE Good(Read(u), revs)
<1>1. CASE Kept(u) BY <1>1 DEF Read
<1>2. CASE ~Kept(u)
  <2>1. Read(u) = Unwritten /\ Published # 0 BY <1>2 DEF Read, Readable
  <2>2. Published \in InState("published") /\ Published \in Nat BY <2>1, PublishedType DEF StoreInv
  <2>3. Published \in Out(revs) /\ Published \in DOMAIN revs BY <2>2 DEF InState, Out, Ids, Unpublished
  <2>4. Content(Published) \in Payload BY <2>3 DEF Stored, Revision, Content
  <2>5. Unwritten = Made(Published, Content(Published), {}, {}, 0, 0, 0) BY DEF Unwritten, Made
  <2> DEFINE w == Unwritten
  <2>6. w \in Workspace BY <2>2, <2>4 DEF Unwritten, Workspace
  <2>7. /\ w.base = Published /\ w.items = Content(Published) /\ w.conflicts = {} /\ w.taken = {}
        /\ w.checkpoint = 0 /\ w.checkpointAt = 0 /\ w.version = 0
    BY SMTT(20), Z3T(20), <2>5, MadeIs
  <2> HIDE DEF w
  <2>8. Good(w, revs) BY SMTT(20), Z3T(20), <2>3, <2>6, <2>7 DEF Good, Content
  <2> QED BY <2>1, <2>8 DEF w
<1> QED BY <1>1, <1>2

Owned == \A u \in User : Kept(u) => Good(ws[u], revs)

\* Operations begin.
LEMMA BeginsOK ==
    ASSUME StoreInv, WorkspaceInv, Stored(revs), Owned, Jobs, NEW p \in Proc, NEW u \in User,
           \/ \E r \in Ref, v \in Value : BeginWrite(p, u, r, v)
           \/ \E op \in {"update", "reset"}, to \in OncePublished : BeginMove(p, u, op, to)
           \/ \E op \in {"merge", "load", "keep"}, rev \in Ids : BeginTake(p, u, op, rev)
           \/ \E op \in {"checkpoint", "commit"} : BeginSave(p, u, op)
           \/ Kept(u) /\ \E c \in ws[u].conflicts, theirs \in BOOLEAN : BeginResolve(p, u, c, theirs)
    PROVE Jobs'
<1>1. ASSUME NEW k, Begin(p, k), JobOK(k, revs, ws) PROVE Jobs'
  <2>1. job' = [job EXCEPT ![p] = k] /\ UNCHANGED <<revs, nextID, ws>> BY <1>1 DEF Begin, store
  <2>2. Grows(revs, revs') /\ Ahead(ws, ws') /\ JobOK(k, revs', ws') BY <1>1, <2>1 DEF Grows, Ahead
  <2> QED BY <2>1, <2>2, JobsStep
<1>2. ASSUME NEW r \in Ref, NEW v \in Value, BeginWrite(p, u, r, v) PROVE Jobs'
  <2> DEFINE view == Seen(Read(u))
             item == [ref |-> r, value |-> v]
             k == [Start("load", "write", u) EXCEPT !.item = item, !.view = view]
  <2>1. Begin(p, k) /\ Readable(u) BY <1>2 DEF BeginWrite
  <2>2. Good(Read(u), revs) BY <2>1, ReadGood DEF Owned
  <2>3. view.items \in [Ref -> Value]
    <3>1. Read(u) \in Workspace BY <2>2 DEF Good
    <3>2. view.items = Read(u).items BY <3>1 DEF Seen, Forget, Workspace
    <3> QED BY <3>1, <3>2, ContentAssumption DEF Workspace
  <2>4. item.ref = r /\ item.value = v OBVIOUS
  <2> HIDE DEF view, item
  <2>5. k.pc = "load" /\ k.op = "write" /\ k.item = item /\ k.view = view /\ k.todo = {} BY DEF Start, Idle
  <2> HIDE DEF k
  <2>6. JobOK(k, revs, ws) BY <2>3, <2>4, <2>5 DEF JobOK, Takes, Saves
  <2> QED BY <1>1, <2>1, <2>6
<1>3. ASSUME NEW op \in {"update", "reset"}, NEW to \in OncePublished, BeginMove(p, u, op, to) PROVE Jobs'
  <2> DEFINE w == Read(u)
             k == [Start("put", op, u) EXCEPT !.arg = to, !.w = w]
  <2>1. Begin(p, k) /\ Readable(u) BY <1>3 DEF BeginMove
  <2>2. Good(w, revs) BY <2>1, ReadGood DEF Owned
  <2> HIDE DEF w
  <2>3. k.pc = "put" /\ k.op = op /\ k.arg = to /\ k.w = w /\ k.todo = {} BY DEF Start, Idle
  <2>4. to \in Out(revs) BY DEF OncePublished, Out, Ids
  <2> HIDE DEF k
  <2>5. JobOK(k, revs, ws) BY <2>2, <2>3, <2>4 DEF JobOK, Takes, Saves
  <2> QED BY <1>1, <2>1, <2>5
<1>4. ASSUME NEW op \in {"merge", "load", "keep"}, NEW rev \in Ids, BeginTake(p, u, op, rev) PROVE Jobs'
  <2> DEFINE from == BasedOn(rev)
             k == [Start("published", op, u) EXCEPT !.arg = rev, !.from = from]
  <2>1. Begin(p, k) /\ (op = "merge" => from # 0) BY <1>4 DEF BeginTake
  <2>2. op = "merge" => from \in Out(revs)
    <3>1. from \in OncePublished \cup {0} BY Zenon DEF BasedOn
    <3> HIDE DEF from
    <3> QED BY <2>1, <3>1 DEF OncePublished, Out, Ids
  <2> HIDE DEF from
  <2>3. k.pc = "published" /\ k.op = op /\ k.arg = rev /\ k.from = from /\ k.todo = {} BY DEF Start, Idle
  <2> HIDE DEF k
  <2>4. JobOK(k, revs, ws) BY <2>2, <2>3 DEF JobOK, Takes, Saves, Ids
  <2> QED BY <1>1, <2>1, <2>4
<1>5. ASSUME NEW op \in {"checkpoint", "commit"}, BeginSave(p, u, op) PROVE Jobs'
  <2> DEFINE w == Read(u)
             k == [Start("build", op, u) EXCEPT !.view = w]
  <2>1. Begin(p, k) /\ Readable(u) BY <1>5 DEF BeginSave
  <2>2. Good(w, revs) BY <2>1, ReadGood DEF Owned
  <2>3. w.version = ws[u].version /\ (Kept(u) => w = ws[u]) /\ ws[u].version \in Nat
    BY <2>1, ReadRow DEF WorkspaceInv, Row
  <2> HIDE DEF w
  <2>4. k.pc = "build" /\ k.op = op /\ k.user = u /\ k.view = w /\ k.todo = {} /\ k.draft = 0 BY DEF Start, Idle
  <2> HIDE DEF k
  <2>5. JobOK(k, revs, ws) BY SMTT(20), Z3T(20), <2>2, <2>3, <2>4 DEF JobOK, Takes, Saves, Kept
  <2> QED BY <1>1, <2>1, <2>5
<1>6. ASSUME NEW c, NEW theirs, BeginResolve(p, u, c, theirs) PROVE Jobs'
  <2> DEFINE item == [born |-> c.born, ref |-> c.ref, pinned |-> c.pinned, theirs |-> theirs]
             k == [Start("load", "resolve", u) EXCEPT !.item = item]
  <2>1. Begin(p, k) BY <1>6 DEF BeginResolve
  <2> HIDE DEF item
  <2>2. k.pc = "load" /\ k.op = "resolve" /\ k.todo = {} BY DEF Start, Idle
  <2> HIDE DEF k
  <2>3. JobOK(k, revs, ws) BY <2>2 DEF JobOK, Takes, Saves
  <2> QED BY <1>1, <2>1, <2>3
<1> QED BY <1>2, <1>3, <1>4, <1>5, <1>6

\* Operations end.
LEMMA EndsOK ==
    ASSUME WorkspaceInv, Jobs, Grows(revs, revs'), UNCHANGED ws, NEW p \in Proc, NEW ids, Discarding(p, ids) \/ Return(p)
    PROVE Jobs'
<1>1. Ahead(ws, ws') BY DEF Ahead
<1>2. CASE Return(p)
  <2>1. job' = [job EXCEPT ![p] = Idle] /\ JobOK(Idle, revs', ws') BY <1>2, EndedOK DEF Return
  <2> QED BY <1>1, <2>1, JobsStep
<1>3. CASE Discarding(p, ids) /\ ids # {}
  <2> DEFINE k == [Start("discard", job[p].op, job[p].user) EXCEPT !.todo = ids]
  <2>1. job' = [job EXCEPT ![p] = k] BY <1>3 DEF Discarding, WorkspaceInv
  <2>2. JobOK(k, revs', ws') BY EndedOK
  <2> HIDE DEF k
  <2> QED BY <1>1, <2>1, <2>2, JobsStep
<1> QED BY <1>2, <1>3 DEF Discarding

\* Operations read the workspace.
LEMMA LoadOK ==
    ASSUME StoreInv, WorkspaceInv, Stored(revs), Owned, Jobs, NEW p \in Proc, Load(p)
    PROVE Jobs'
<1> DEFINE j == job[p]
           u == j.user
           w == Read(u)
           k == [j EXCEPT !.w = w, !.pc = "put"]
<1>1. JobInv(j) /\ JobOK(j, revs, ws) /\ j.pc = "load" BY DEF WorkspaceInv, Jobs, Load, At
<1>2. u \in User /\ j.op \in Applied BY <1>1 DEF JobInv
<1>3. Readable(u) /\ UNCHANGED <<revs, ws>> BY DEF Load, untouched, store
<1>4. Good(w, revs) BY <1>2, <1>3, ReadGood DEF Owned
<1>5. w.version = ws[u].version /\ (Kept(u) => w = ws[u]) BY <1>2, <1>3, ReadRow
<1>6. job' = [job EXCEPT ![p] = k] BY DEF Load, WorkspaceInv
<1> HIDE DEF w
<1>7. DOMAIN j = DOMAIN Idle BY <1>1 DEF JobInv
<1>8. /\ k.pc = "put" /\ k.w = w /\ k.op = j.op /\ k.user = u /\ k.arg = j.arg /\ k.item = j.item /\ k.view = j.view
      /\ k.at = j.at /\ k.from = j.from /\ k.draft = j.draft /\ k.todo = j.todo
  BY <1>7 DEF Idle
<1> HIDE DEF k
<1>9. k.op = "checkpoint" /\ k.w.version = k.view.version /\ k.w.version # 0 => k.w = k.view
  <2> SUFFICES ASSUME j.op = "checkpoint", w.version = j.view.version, w.version # 0 PROVE w = j.view
    BY <1>8
  <2>1. j.view.version = ws[u].version /\ j.view.version # 0 => j.view = ws[u]
    BY <1>1 DEF JobOK, Saves
  <2> QED BY <1>5, <2>1 DEF Kept
<1>10. JobOK(k, revs, ws) BY <1>1, <1>4, <1>8, <1>9 DEF JobOK
<1>11. Grows(revs, revs') /\ Ahead(ws, ws') /\ JobOK(k, revs', ws') BY <1>3, <1>10 DEF Grows, Ahead
<1> QED BY <1>6, <1>11, JobsStep

\* Operations go on.
LEMMA GoesOn ==
    ASSUME WorkspaceInv, Jobs, Grows(revs, revs'), UNCHANGED ws, NEW p \in Proc, NEW k,
           job' = [job EXCEPT ![p] = k],
           k.op = job[p].op, k.user = job[p].user, k.arg = job[p].arg, k.item = job[p].item, k.view = job[p].view,
           k.from = job[p].from, k.todo = job[p].todo,
           \/ /\ job[p].pc = "put" /\ k.pc = "load" /\ k.at = job[p].at /\ k.draft = job[p].draft
           \/ /\ job[p].pc = "put" /\ k.pc = "published" /\ job[p].op \in Takes
           \/ /\ job[p].pc = "published" /\ k.pc = "load" /\ k.at \in Out(revs')
           \/ /\ job[p].pc = "publish" /\ k.pc = "store" /\ k.draft = job[p].draft /\ k.at = job[p].view.base
           \/ /\ job[p].pc = "store" /\ k.pc = "load" /\ k.draft = job[p].draft /\ k.draft \in Out(revs')
           \/ /\ job[p].pc = "build" /\ k.pc = (IF job[p].op = "commit" THEN "publish" ELSE "load")
              /\ k.draft \in DOMAIN revs' /\ revs'[k.draft].payload = job[p].view.items
              /\ revs'[k.draft].by = job[p].user /\ revs'[k.draft].parent = job[p].view.base
    PROVE Jobs'
<1> DEFINE j == job[p]
<1>1. JobOK(j, revs', ws') BY JobNow
<1>2. (j.pc = "published" => j.op \in Takes) /\ (j.pc \in {"build", "publish", "store"} => j.op \in Saves)
  BY DEF WorkspaceInv, JobInv
<1>3. JobOK(k, revs', ws') BY <1>1, <1>2, GoOnOK
<1>4. Ahead(ws, ws') BY DEF Ahead
<1> QED BY <1>3, <1>4, JobsStep

\* The fields of an operation that goes on.
LEMMA JobFields ==
    ASSUME NEW j, DOMAIN j = DOMAIN Idle, NEW pc, NEW at, NEW draft, NEW tries, NEW rounds
    PROVE /\ LET k == [j EXCEPT !.at = at, !.pc = pc] IN
               /\ k.pc = pc /\ k.at = at /\ k.op = j.op /\ k.user = j.user /\ k.arg = j.arg /\ k.item = j.item
               /\ k.view = j.view /\ k.from = j.from /\ k.todo = j.todo /\ k.draft = j.draft
          /\ LET k == [j EXCEPT !.pc = pc, !.rounds = rounds, !.tries = tries, !.w = None] IN
               /\ k.pc = pc /\ k.at = j.at /\ k.op = j.op /\ k.user = j.user /\ k.arg = j.arg /\ k.item = j.item
               /\ k.view = j.view /\ k.from = j.from /\ k.todo = j.todo /\ k.draft = j.draft
          /\ LET k == [j EXCEPT !.pc = pc, !.tries = tries, !.w = None] IN
               /\ k.pc = pc /\ k.at = j.at /\ k.op = j.op /\ k.user = j.user /\ k.arg = j.arg /\ k.item = j.item
               /\ k.view = j.view /\ k.from = j.from /\ k.todo = j.todo /\ k.draft = j.draft
          /\ LET k == [j EXCEPT !.draft = draft, !.pc = pc] IN
               /\ k.pc = pc /\ k.at = j.at /\ k.op = j.op /\ k.user = j.user /\ k.arg = j.arg /\ k.item = j.item
               /\ k.view = j.view /\ k.from = j.from /\ k.todo = j.todo /\ k.draft = draft
          /\ LET k == [j EXCEPT !.pc = pc] IN
               /\ k.pc = pc /\ k.at = j.at /\ k.op = j.op /\ k.user = j.user /\ k.arg = j.arg /\ k.item = j.item
               /\ k.view = j.view /\ k.from = j.from /\ k.todo = j.todo /\ k.draft = j.draft
BY DEF Idle

\* The steps an operation takes between its reads and writes keep what it holds right.
LEMMA GoOnsOK ==
    ASSUME StoreInv, WorkspaceInv, Jobs, Grows(revs, revs'), NEW p \in Proc,
           ReadPublished(p) \/ ReadAgain(p) \/ PutRetries(p) \/ Build(p) \/ PublishCheck(p) \/ PublishStore(p)
    PROVE Jobs'
<1> USE DEF At
<1> DEFINE j == job[p]
<1>1. DOMAIN j = DOMAIN Idle /\ p \in DOMAIN job BY DEF WorkspaceInv, JobInv
<1>2. CASE ReadPublished(p) /\ Published = 0
  BY <1>2, EndsOK DEF ReadPublished, untouched
<1>3. CASE ReadPublished(p) /\ Published # 0
  <2> DEFINE k == [j EXCEPT !.at = Published, !.pc = "load"]
  <2>1. job' = [job EXCEPT ![p] = k] BY <1>1, <1>3 DEF ReadPublished
  <2>2. /\ k.pc = "load" /\ k.at = Published /\ k.op = j.op /\ k.user = j.user /\ k.arg = j.arg /\ k.item = j.item
        /\ k.view = j.view /\ k.from = j.from /\ k.todo = j.todo
    BY SMTT(20), Z3T(20), <1>1, JobFields
  <2>3. j.pc = "published" /\ UNCHANGED ws BY <1>3 DEF ReadPublished, untouched
  <2>4. Published \in Out(revs)
    BY <1>3, PublishedType DEF StoreInv, InState, Out, Ids, Unpublished
  <2>5. Published \in Out(revs') BY <2>4 DEF Grows
  <2> HIDE DEF k
  <2> QED BY <2>1, <2>2, <2>3, <2>5, GoesOn
<1>4. CASE ReadAgain(p) /\ ~(j.rounds + 1 < Attempts)
  BY <1>4, EndsOK DEF ReadAgain, untouched
<1>5. CASE ReadAgain(p) /\ j.rounds + 1 < Attempts
  <2> DEFINE k == [j EXCEPT !.pc = "published", !.rounds = j.rounds + 1, !.tries = 0, !.w = None]
  <2>1. job' = [job EXCEPT ![p] = k] BY <1>1, <1>5 DEF ReadAgain, Idle
  <2>2. /\ k.pc = "published" /\ k.op = j.op /\ k.user = j.user /\ k.arg = j.arg /\ k.item = j.item
        /\ k.view = j.view /\ k.from = j.from /\ k.todo = j.todo
    BY SMTT(20), Z3T(20), <1>1, JobFields
  <2>3. j.pc = "put" /\ UNCHANGED ws /\ j.op \in Takes BY <1>5 DEF ReadAgain, untouched, PublishedMoved, Takes
  <2> HIDE DEF k
  <2> QED BY <2>1, <2>2, <2>3, GoesOn
<1>6. CASE PutRetries(p)
  <2> DEFINE k == [j EXCEPT !.pc = "load", !.tries = j.tries + 1, !.w = None]
  <2>1. job' = [job EXCEPT ![p] = k] BY <1>1, <1>6 DEF PutRetries, Idle
  <2>2. /\ k.pc = "load" /\ k.op = j.op /\ k.user = j.user /\ k.arg = j.arg /\ k.item = j.item
        /\ k.view = j.view /\ k.from = j.from /\ k.todo = j.todo /\ k.at = j.at /\ k.draft = j.draft
    BY SMTT(20), Z3T(20), <1>1, JobFields
  <2>3. j.pc = "put" /\ UNCHANGED ws BY <1>6 DEF PutRetries, untouched
  <2> HIDE DEF k
  <2> QED BY <2>1, <2>2, <2>3, GoesOn
<1>7. CASE Build(p)
  <2> DEFINE pc == IF j.op = "commit" THEN "publish" ELSE "load"
             k == [j EXCEPT !.draft = nextID, !.pc = pc]
  <2>1. job' = [job EXCEPT ![p] = k] BY <1>1, <1>7 DEF Build
  <2>2. /\ k.pc = pc /\ k.op = j.op /\ k.user = j.user /\ k.arg = j.arg /\ k.item = j.item
        /\ k.view = j.view /\ k.from = j.from /\ k.todo = j.todo /\ k.draft = nextID
    BY SMTT(20), Z3T(20), <1>1, JobFields
  <2>3. j.pc = "build" /\ UNCHANGED ws BY <1>7 DEF Build
  <2>4. nextID \in DOMAIN revs' /\ revs'[nextID] = Draft(j.view.base, j.view.items, j.user)
    BY <1>7 DEF Build, Create, With
  <2>5. revs'[nextID].payload = j.view.items /\ revs'[nextID].by = j.user /\ revs'[nextID].parent = j.view.base
    BY <2>4 DEF Draft
  <2> HIDE DEF k
  <2> QED BY <2>1, <2>2, <2>3, <2>4, <2>5, GoesOn
<1>8. CASE PublishCheck(p)
  <2> DEFINE k == [j EXCEPT !.at = Published, !.pc = "store"]
  <2>1. job' = [job EXCEPT ![p] = k] BY <1>1, <1>8 DEF PublishCheck
  <2>2. /\ k.pc = "store" /\ k.op = j.op /\ k.user = j.user /\ k.arg = j.arg /\ k.item = j.item
        /\ k.view = j.view /\ k.from = j.from /\ k.todo = j.todo /\ k.draft = j.draft /\ k.at = Published
    BY SMTT(20), Z3T(20), <1>1, JobFields
  <2>3. j.pc = "publish" /\ UNCHANGED ws /\ Published = j.view.base BY <1>8 DEF PublishCheck, untouched
  <2> HIDE DEF k
  <2> QED BY <2>1, <2>2, <2>3, GoesOn
<1>9. CASE PublishStore(p)
  <2> DEFINE k == [j EXCEPT !.pc = "load"]
  <2>1. job' = [job EXCEPT ![p] = k] BY <1>1, <1>9 DEF PublishStore, Goto
  <2>2. /\ k.pc = "load" /\ k.op = j.op /\ k.user = j.user /\ k.arg = j.arg /\ k.item = j.item
        /\ k.view = j.view /\ k.from = j.from /\ k.todo = j.todo /\ k.draft = j.draft
    BY SMTT(20), Z3T(20), <1>1, JobFields
  <2>3. j.pc = "store" /\ UNCHANGED ws /\ Publish(j.draft, j.at) BY <1>9 DEF PublishStore
  <2>4. j.draft \in Out(revs')
    <3>1. j.draft \in Ids /\ DOMAIN Replaced("superseded") = Ids BY <2>3 DEF Publish, InState, Replaced
    <3>2. j.draft \in DOMAIN revs' /\ revs'[j.draft] = [Replaced("superseded")[j.draft] EXCEPT !.state = "published", !.at = Now]
      BY <2>3, <3>1 DEF Publish
    <3>3. DOMAIN Replaced("superseded")[j.draft] = {"parent", "payload", "state", "at", "by"}
      BY SMTT(20), Z3T(20), <3>1, ReplacedIs DEF StoreInv
    <3>4. revs'[j.draft].state = "published" BY <3>2, <3>3
    <3> QED BY <3>2, <3>4 DEF Out, Unpublished
  <2> HIDE DEF k
  <2> QED BY <2>1, <2>2, <2>3, <2>4, GoesOn
<1> QED BY <1>2, <1>3, <1>4, <1>5, <1>6, <1>7, <1>8, <1>9
=============================================================================
