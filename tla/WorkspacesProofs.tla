-------------------------- MODULE WorkspacesProofs --------------------------
(***************************************************************************)
(* Theorems about Workspaces for any administrators, processes, items and  *)
(* values and any bounds: at most one revision is published, a revision    *)
(* lives its life in order, a workspace never moves back, what it says of  *)
(* its checkpoint and of what is published holds, no change in it is       *)
(* overwritten silently, no draft saved from it is left behind, and        *)
(* revisions are published in order, each over the one it builds on.  They *)
(* rest on the inductive invariant WInv; what an operation makes of the    *)
(* workspace it read is in WorkspacesSteps.                                *)
(***************************************************************************)
EXTENDS WorkspacesSteps

\* Most leaves are first-order; what needs more goes to SMT.
USE ZenonT(20), SMTT(10), Z3T(10)

-----------------------------------------------------------------------------
(* The workspaces, as they are written.                                    *)

\* The write replaces the workspace that was read, and others find a newer one.
LEMMA PutIs ==
    ASSUME StoreInv, WorkspaceInv, Stored(revs), Jobs, NEW p \in Proc, Put(p)
    PROVE LET j == job[p] IN
          /\ JobInv(j) /\ JobOK(j, revs, ws) /\ j.pc = "put" /\ ~Unchanged(j) /\ j.user \in User /\ j.op \in Applied
          /\ j.w.version = ws[j.user].version /\ (Kept(j.user) => j.w = ws[j.user])
          /\ Good(After(j), revs) /\ After(j).version = j.w.version + 1 /\ j.w.version \in Nat
          /\ \A u \in User : ws'[u] = IF u = j.user THEN After(j) ELSE ws[u]
          /\ DOMAIN ws' = User /\ Ahead(ws, ws')
          /\ UNCHANGED <<revs, nextID>> /\ Finish(p, j)
          /\ seen' = [seen EXCEPT ![j.user] = [r \in Ref |-> Knew(j, After(j), r)]]
<1> DEFINE j == job[p]
           v == j.user
<1>1. /\ j.pc = "put" /\ ~Unchanged(j) /\ Read(v).version = j.w.version
      /\ ws' = [ws EXCEPT ![v] = After(j)] /\ Finish(p, j) /\ UNCHANGED <<revs, nextID>>
      /\ seen' = [seen EXCEPT ![v] = [r \in Ref |-> Knew(j, After(j), r)]]
  BY DEF Put, At, After, store
<1>2. JobInv(j) /\ JobOK(j, revs, ws) BY DEF WorkspaceInv, Jobs
<1>3. v \in User /\ Row(j.w) /\ j.op \in Applied BY <1>1, <1>2 DEF JobInv
<1>4. j.w.version = ws[v].version /\ (Kept(v) => j.w = ws[v])
  <2>1. Read(v).version = ws[v].version BY DEF Read, Unwritten, Kept
  <2> QED BY <1>1, <1>2, <1>3, <2>1 DEF JobInv
<1>5. Good(After(j), revs) /\ After(j).version = j.w.version + 1 BY <1>1, <1>2, AfterGood DEF StoreInv
<1>6. DOMAIN ws' = User /\ \A u \in User : ws'[u] = IF u = v THEN After(j) ELSE ws[u]
  BY <1>1, <1>3 DEF WorkspaceInv
<1>7. j.w.version \in Nat BY <1>3 DEF Row
<1>8. Ahead(ws, ws')
  <2> SUFFICES ASSUME NEW u \in User
               PROVE ws'[u] = ws[u] \/ (ws[u].version \in Nat /\ ws'[u].version \in Nat /\ ws'[u].version > ws[u].version)
    BY DEF Ahead
  <2>1. CASE u = v BY SMTT(20), Z3T(20), <1>4, <1>5, <1>6, <1>7, <2>1
  <2>2. CASE u # v BY <1>6, <2>2
  <2> QED BY <2>1, <2>2
<1> QED BY <1>1, <1>2, <1>3, <1>4, <1>5, <1>6, <1>7, <1>8

\* It ends the operation, but for the drafts done with.
LEMMA FinishIs ==
    ASSUME WorkspaceInv, NEW p \in Proc, Finish(p, job[p])
    PROVE \/ job' = [job EXCEPT ![p] = Idle]
          \/ \E ids : job' = [job EXCEPT ![p] = [Start("discard", job[p].op, job[p].user) EXCEPT !.todo = ids]]
BY DEF Finish, Done, Discarding, Return, WorkspaceInv

\* A write of a workspace keeps what every operation holds right (PutWorkspace).
LEMMA PutOK ==
    ASSUME StoreInv, WorkspaceInv, Stored(revs), Jobs, NEW p \in Proc, Put(p)
    PROVE Jobs'
<1> DEFINE j == job[p]
<1>1. Ahead(ws, ws') /\ UNCHANGED revs /\ Finish(p, j) BY PutIs
<1>2. Grows(revs, revs') BY <1>1 DEF Grows
<1>3. CASE job' = [job EXCEPT ![p] = Idle]
  <2>1. JobOK(Idle, revs', ws') BY EndedOK
  <2> QED BY <1>1, <1>2, <1>3, <2>1, JobsStep
<1>4. CASE \E ids : job' = [job EXCEPT ![p] = [Start("discard", j.op, j.user) EXCEPT !.todo = ids]]
  <2>1. PICK ids : job' = [job EXCEPT ![p] = [Start("discard", j.op, j.user) EXCEPT !.todo = ids]] BY <1>4
  <2> DEFINE k == [Start("discard", j.op, j.user) EXCEPT !.todo = ids]
  <2>2. JobOK(k, revs', ws') BY EndedOK
  <2>3. job' = [job EXCEPT ![p] = k] BY <2>1
  <2> HIDE DEF k
  <2> QED BY <1>1, <1>2, <2>2, <2>3, JobsStep
<1> QED BY <1>1, <1>3, <1>4, FinishIs

\* A rollback begins.
LEMMA RollbackOK ==
    ASSUME WorkspaceInv, Jobs, NEW p \in Proc, NEW to, BeginRollback(p, to)
    PROVE Jobs'
<1>1. PICK target : Begin(p, [Start("rollback", "rollback", Cli) EXCEPT !.arg = target, !.at = Published])
  BY DEF BeginRollback
<1> DEFINE k == [Start("rollback", "rollback", Cli) EXCEPT !.arg = target, !.at = Published]
<1>2. job' = [job EXCEPT ![p] = k] /\ UNCHANGED <<revs, ws>> BY <1>1 DEF Begin, store
<1>3. k.pc = "rollback" /\ k.op = "rollback" /\ k.todo = {} BY DEF Start, Idle
<1> HIDE DEF k
<1>4. JobOK(k, revs', ws') BY <1>3 DEF JobOK
<1>5. Grows(revs, revs') /\ Ahead(ws, ws') BY <1>2 DEF Grows, Ahead
<1> QED BY <1>2, <1>4, <1>5, JobsStep

\* Whatever happens, operations have what they need in hand.
LEMMA JobsHold ==
    ASSUME StoreInv, WorkspaceInv, Stored(revs), Owned, Jobs, [WNext]_vars
    PROVE Jobs' /\ Grows(revs, revs')
<1>1. Grows(revs, revs') BY OnlyStoreSteps, StoreGrows
<1>2. ASSUME NEW p \in Proc, NEW u \in User,
           \/ \E r \in Ref, v \in Value : BeginWrite(p, u, r, v)
           \/ \E op \in {"update", "reset"}, to \in OncePublished : BeginMove(p, u, op, to)
           \/ \E op \in {"merge", "load", "keep"}, rev \in Ids : BeginTake(p, u, op, rev)
           \/ \E op \in {"checkpoint", "commit"} : BeginSave(p, u, op)
           \/ Kept(u) /\ \E c \in ws[u].conflicts, theirs \in BOOLEAN : BeginResolve(p, u, c, theirs)
      PROVE Jobs'
  BY <1>2, BeginsOK
<1>3. ASSUME NEW p \in Proc, Steps(p) PROVE Jobs'
  <2>1. CASE ReadPublished(p) \/ ReadAgain(p) \/ PutRetries(p) \/ Build(p) \/ PublishCheck(p) \/ PublishStore(p)
    BY <1>1, <2>1, GoOnsOK
  <2>2. CASE Load(p) BY <2>2, LoadOK
  <2>3. CASE NothingToWrite(p) \/ BuildFails(p) BY <1>1, <2>3, EndsOK DEF NothingToWrite, BuildFails, untouched
  <2>4. CASE PutFails(p) BY <1>1, <2>4, EndsOK DEF PutFails, untouched
  <2>5. CASE PublishFails(p) \/ PublishRefused(p) BY <1>1, <2>5, EndsOK DEF PublishFails, PublishRefused, untouched
  <2>6. CASE RollbackStore(p) \/ RollbackRefused(p) BY <1>1, <2>6, EndsOK DEF RollbackStore, RollbackRefused, untouched
  <2>7. CASE DiscardNext(p) \/ DiscardFails(p) \/ Cut(p) BY <1>1, <2>7, EndsOK DEF DiscardNext, DiscardFails, Cut
  <2>8. CASE Put(p) BY <2>8, PutOK
  <2> QED BY <1>3, <2>1, <2>2, <2>3, <2>4, <2>5, <2>6, <2>7, <2>8 DEF Steps
<1>4. ASSUME NEW p \in Proc, NEW to, BeginRollback(p, to) PROVE Jobs' BY <1>4, RollbackOK
<1>5. CASE \E payload \in Payload : CliDraft(payload)
  <2>1. UNCHANGED <<ws, job>> BY <1>5 DEF CliDraft
  <2> QED BY <1>1, <2>1, JobsStay
<1>6. CASE \E id \in Ids : CliPublish(id) \/ CliDiscard(id)
  <2>1. UNCHANGED <<ws, job>> BY <1>6 DEF CliPublish, CliDiscard
  <2> QED BY <1>1, <2>1, JobsStay
<1>7. CASE \E h \in History : Import(h)
  <2>1. UNCHANGED <<ws, job>> BY <1>7 DEF Import
  <2> QED BY <1>1, <2>1, JobsStay
<1>8. CASE UNCHANGED vars
  <2>1. UNCHANGED <<ws, job>> BY <1>8 DEF vars
  <2> QED BY <1>1, <2>1, JobsStay
<1> QED BY <1>1, <1>2, <1>3, <1>4, <1>5, <1>6, <1>7, <1>8 DEF WNext

\* What is stored comes from administrators and the command line.
LEMMA TypedSteps ==
    ASSUME StoreInv, WorkspaceInv, Stored(revs), Jobs, [WNext]_vars
    PROVE TypedStep
<1>1. ASSUME NEW p \in Proc, Steps(p) PROVE TypedStep
  <2>1. CASE Build(p)
    <3>1. job[p].pc = "build" /\ Create(job[p].view.base, job[p].view.items, job[p].user) BY <2>1 DEF Build, At
    <3>2. JobInv(job[p]) /\ JobOK(job[p], revs, ws) BY DEF WorkspaceInv, Jobs
    <3>3. job[p].user \in Author BY <3>1, <3>2, ContentAssumption DEF JobInv
    <3>4. job[p].view \in Workspace BY <3>1, <3>2 DEF JobInv, JobOK, Good
    <3>5. job[p].view.items \in Payload BY <3>4 DEF Workspace
    <3>6. job[p].view.base \in Ids BY <3>1, <3>2 DEF JobInv, JobOK, Good, Out, Ids
    <3> QED BY <3>1, <3>3, <3>5, <3>6 DEF TypedStep
  <2>2. CASE PublishStore(p) BY <2>2 DEF PublishStore, TypedStep
  <2>3. CASE RollbackStore(p) BY <2>3, ContentAssumption DEF RollbackStore, TypedStep
  <2>4. CASE DiscardNext(p) BY <2>4 DEF DiscardNext, TypedStep
  <2>5. CASE Put(p) BY <2>5 DEF Put, TypedStep
  <2> QED
    BY <1>1, <2>1, <2>2, <2>3, <2>4, <2>5
    DEF Steps, ReadPublished, Load, NothingToWrite, ReadAgain, PutRetries, PutFails, BuildFails, PublishCheck,
        PublishFails, PublishRefused, RollbackRefused, DiscardFails, Cut, untouched, TypedStep
<1>2. ASSUME NEW p \in Proc, NEW j, Begin(p, j) PROVE TypedStep
  BY <1>2 DEF Begin, TypedStep
<1>3. CASE \E p \in Proc : \E to \in OncePublished \cup {0} : BeginRollback(p, to)
  BY <1>2, <1>3 DEF BeginRollback
<1>4. CASE \E p \in Proc, u \in User :
         \/ \E r \in Ref, v \in Value : BeginWrite(p, u, r, v)
         \/ \E op \in {"update", "reset"}, to \in OncePublished : BeginMove(p, u, op, to)
         \/ \E op \in {"merge", "load", "keep"}, rev \in Ids : BeginTake(p, u, op, rev)
         \/ \E op \in {"checkpoint", "commit"} : BeginSave(p, u, op)
         \/ Kept(u) /\ \E c \in ws[u].conflicts, theirs \in BOOLEAN : BeginResolve(p, u, c, theirs)
  <2>1. PICK p \in Proc : \E j : Begin(p, j)
    BY <1>4 DEF BeginWrite, BeginMove, BeginTake, BeginSave, BeginResolve
  <2> QED BY <1>2, <2>1
<1>5. CASE \E payload \in Payload : CliDraft(payload)
  <2>1. Published \in Ids \cup {0} /\ Cli \in Author BY PublishedType, ContentAssumption DEF StoreInv, InState
  <2> QED BY <1>5, <2>1 DEF CliDraft, TypedStep
<1>6. CASE \E id \in Ids : CliPublish(id) \/ CliDiscard(id) BY <1>6 DEF CliPublish, CliDiscard, TypedStep
<1>7. CASE \E h \in History : Import(h) BY <1>7 DEF Import, TypedStep
<1>8. CASE UNCHANGED vars BY <1>8 DEF vars, TypedStep
<1> QED BY <1>1, <1>3, <1>4, <1>5, <1>6, <1>7, <1>8 DEF WNext

-----------------------------------------------------------------------------
(* What a workspace says of its checkpoint and of what is published.       *)

\* Surface and CheckpointHolds, of a workspace w over the revisions rs.
SurfaceIn(w, base, known, r) == w.items[r] # base[r] => known \in {base[r], Displaced} \/ TellsIn(w.conflicts, base[r], r)
HoldsIn(w, rs) == w.checkpointAt = w.version => w.checkpoint \in DOMAIN rs /\ rs[w.checkpoint].payload = w.items
RowOK(w, rs, known) ==
    w.version # 0 => Good(w, rs) /\ HoldsIn(w, rs) /\ \A r \in Ref : SurfaceIn(w, rs[w.base].payload, known[r], r)
Known == [Ref -> Value \cup {None, Displaced}]

Contained == seen \in [User -> Known] /\ \A u \in User : RowOK(ws[u], revs, seen[u])

\* What a workspace says stays right while the store grows.
LEMMA RowKept ==
    ASSUME NEW w, NEW rs, NEW rt, NEW known, RowOK(w, rs, known), Grows(rs, rt)
    PROVE RowOK(w, rt, known)
<1> SUFFICES ASSUME w.version # 0 PROVE RowOK(w, rt, known) BY DEF RowOK
<1>1. Good(w, rs) /\ HoldsIn(w, rs) /\ \A r \in Ref : SurfaceIn(w, rs[w.base].payload, known[r], r) BY DEF RowOK
<1>2. Good(w, rt) BY <1>1, GoodKept
<1>3. w.base \in DOMAIN rs BY <1>1 DEF Good, Out
<1>4. rt[w.base].payload = rs[w.base].payload BY <1>3 DEF Grows
<1>5. HoldsIn(w, rt) BY <1>1 DEF HoldsIn, Grows
<1>6. \A r \in Ref : SurfaceIn(w, rt[w.base].payload, known[r], r) BY <1>1, <1>4
<1> QED BY <1>2, <1>5, <1>6 DEF RowOK

\* What surfaces of a published change, by the content of the base.
LEMMA SurfaceIs == ASSUME NEW w, NEW known, NEW r PROVE Surface(w, known, r) <=> SurfaceIn(w, revs[w.base].payload, known, r)
BY DEF Surface, SurfaceIn, Tells, TellsIn, Content

\* What the one who changed an item knew is a value.
LEMMA KnewIs ==
    ASSUME Rows, Stored(revs), NEW j, JobInv(j), JobOK(j, revs, ws), j.pc = "put", ~Unchanged(j), NEW r \in Ref,
           Good(After(j), revs), seen[j.user][r] \in Value \cup {None, Displaced}
    PROVE Knew(j, After(j), r) \in Value \cup {None, Displaced}
<1> DEFINE after == After(j)
           known == Value \cup {None, Displaced}
           prior == seen[j.user][r]
           base == Content(after.base)[r]
           shown(c) == {j.w.items[r], IF c.pinned THEN c.theirs ELSE base}
<1>1. base \in Value
  <2>1. after.base \in DOMAIN revs BY DEF Good, Out
  <2>2. Content(after.base) \in [Ref -> Value] BY <2>1, Contents DEF Content
  <2> QED BY <2>2
<1>2. Knows(j, after, r) \in known BY DEF Knows
<1>3. j.op = "write" => j.view.items[r] \in Value BY DEF JobOK
<1>4. j.op = "merge" => Content(j.from)[r] \in Value
  <2>1. j.op = "merge" => j.from \in DOMAIN revs BY DEF JobOK, Out, Takes
  <2>2. j.op = "merge" => Content(j.from) \in [Ref -> Value] BY <2>1, Contents DEF Content
  <2> QED BY <2>2
<1>5. \/ Knew(j, after, r) = None
      \/ Knew(j, after, r) = base
      \/ Knew(j, after, r) = Knows(j, after, r)
      \/ j.op = "write" /\ Knew(j, after, r) = j.view.items[r]
      \/ j.op = "merge" /\ Knew(j, after, r) = Content(j.from)[r]
      \/ Knew(j, after, r) = prior
  <2> HIDE DEF after
  <2>1. CASE after.items[r] = base
    <3>1. Knew(j, after, r) = None BY <2>1 DEF Knew
    <3> QED BY <3>1
  <2>2. CASE after.items[r] # base /\ j.op = "write" /\ j.item.ref = r
    <3>1. Knew(j, after, r) = IF j.view.base >= after.base THEN base
                             ELSE IF j.w.items[r] # base THEN Knows(j, after, r) ELSE j.view.items[r]
      BY <2>2 DEF Knew
    <3> QED BY <2>2, <3>1
  <2>3. CASE after.items[r] # base /\ ~(j.op = "write" /\ j.item.ref = r) /\ j.op = "resolve"
             /\ j.item.ref = r /\ base \in shown(Chosen(j.w, j))
    BY <2>3 DEF Knew
  <2> DEFINE none == /\ after.items[r] # base /\ ~(j.op = "write" /\ j.item.ref = r)
                     /\ ~(j.op = "resolve" /\ j.item.ref = r /\ base \in shown(Chosen(j.w, j)))
             all == j.op \in {"load", "keep"} \/ (j.op = "commit" /\ j.w.base <= j.draft)
  <2>4. CASE none /\ all BY <2>4 DEF Knew
  <2>5. CASE none /\ ~all /\ j.op = "merge" BY <2>5 DEF Knew
  <2>6. CASE none /\ ~all /\ j.op # "merge" BY <2>6 DEF Knew
  <2> QED BY <2>1, <2>2, <2>3, <2>4, <2>5, <2>6
<1> QED BY <1>1, <1>2, <1>3, <1>4, <1>5

\* The write of a workspace.
LEMMA PutContained ==
    ASSUME StoreInv, WorkspaceInv, Stored(revs), Jobs, Contained, NEW p \in Proc, Put(p)
    PROVE Contained'
<1> DEFINE j == job[p]
           v == j.user
           after == After(j)
           known == [r \in Ref |-> Knew(j, after, r)]
<1>1. /\ JobInv(j) /\ JobOK(j, revs, ws) /\ j.pc = "put" /\ ~Unchanged(j) /\ v \in User
      /\ j.w.version = ws[v].version /\ (Kept(v) => j.w = ws[v])
      /\ Good(after, revs)
      /\ \A u \in User : ws'[u] = IF u = v THEN after ELSE ws[u]
      /\ UNCHANGED revs /\ seen' = [seen EXCEPT ![v] = known]
  BY PutIs
<1>2. \A r \in Ref : seen[v][r] \in Value \cup {None, Displaced} BY <1>1 DEF Contained, Known
<1>3. known \in Known
  <2>1. ASSUME NEW r \in Ref PROVE Knew(j, after, r) \in Value \cup {None, Displaced}
    BY <1>1, <1>2, KnewIs DEF StoreInv
  <2> QED BY <2>1 DEF Known
<1>4. ASSUME NEW r \in Ref PROVE Surface(j.w, seen[v][r], r)
  <2>1. CASE Kept(v)
    <3>1. RowOK(j.w, revs, seen[v]) /\ j.w.version # 0 BY <1>1, <2>1 DEF Contained, Kept
    <3>2. SurfaceIn(j.w, revs[j.w.base].payload, seen[v][r], r) BY <3>1 DEF RowOK
    <3> QED BY <3>2, SurfaceIs
  <2>2. CASE ~Kept(v)
    <3>1. j.w.version = 0 /\ Good(j.w, revs) BY <1>1, <2>2 DEF Kept, JobOK
    <3>2. j.w.items = Content(j.w.base) BY <3>1 DEF Good, Content
    <3> QED BY <3>2 DEF Surface
  <2> QED BY <2>1, <2>2
<1>5. \A r \in Ref : SurfaceIn(after, revs[after.base].payload, known[r], r)
  <2> SUFFICES ASSUME NEW r \in Ref PROVE SurfaceIn(after, revs[after.base].payload, Knew(j, after, r), r) OBVIOUS
  <2>1. Surface(j.w, seen[v][r], r) BY <1>4
  <2>2. Surface(after, Knew(j, after, r), r) BY <1>1, <2>1, AfterSurfaces DEF StoreInv
  <2> HIDE DEF after
  <2> QED BY <2>2, SurfaceIs
<1>6. HoldsIn(after, revs) BY <1>1, AfterCheckpointed DEF StoreInv, HoldsIn, Content
<1> HIDE DEF after, known
<1>7. RowOK(after, revs, known) BY <1>1, <1>5, <1>6 DEF RowOK
<1>8. seen' \in [User -> Known] /\ \A u \in User : seen'[u] = IF u = v THEN known ELSE seen[u]
  BY <1>1, <1>3 DEF Contained
<1>9. ASSUME NEW u \in User PROVE RowOK(ws'[u], revs', seen'[u])
  <2>1. CASE u = v BY <1>1, <1>7, <1>8, <2>1
  <2>2. CASE u # v
    <3>1. ws'[u] = ws[u] /\ seen'[u] = seen[u] /\ revs' = revs BY <1>1, <1>8, <2>2
    <3> QED BY <3>1 DEF Contained
  <2> QED BY <2>1, <2>2
<1> QED BY <1>8, <1>9 DEF Contained

\* No other step writes one, or what was known.
LEMMA SeenStays == ASSUME [WNext]_vars, ~\E p \in Proc : Put(p) PROVE UNCHANGED seen
<1>1. ASSUME NEW p \in Proc, Steps(p) PROVE UNCHANGED seen
  BY <1>1
  DEF Steps, ReadPublished, Load, NothingToWrite, ReadAgain, PutRetries, PutFails, Build, BuildFails, PublishCheck,
      PublishFails, PublishStore, PublishRefused, RollbackStore, RollbackRefused, DiscardNext, DiscardFails, Cut, untouched
<1>2. ASSUME NEW p \in Proc, NEW j, Begin(p, j) PROVE UNCHANGED seen BY <1>2 DEF Begin
<1>3. CASE \E p \in Proc : \E to \in OncePublished \cup {0} : BeginRollback(p, to)
  BY <1>2, <1>3 DEF BeginRollback
<1>4. CASE \E p \in Proc, u \in User :
         \/ \E r \in Ref, v \in Value : BeginWrite(p, u, r, v)
         \/ \E op \in {"update", "reset"}, to \in OncePublished : BeginMove(p, u, op, to)
         \/ \E op \in {"merge", "load", "keep"}, rev \in Ids : BeginTake(p, u, op, rev)
         \/ \E op \in {"checkpoint", "commit"} : BeginSave(p, u, op)
         \/ Kept(u) /\ \E c \in ws[u].conflicts, theirs \in BOOLEAN : BeginResolve(p, u, c, theirs)
  <2>1. PICK p \in Proc : \E j : Begin(p, j)
    BY <1>4 DEF BeginWrite, BeginMove, BeginTake, BeginSave, BeginResolve
  <2> QED BY <1>2, <2>1
<1> QED BY <1>1, <1>3, <1>4 DEF WNext, CliDraft, CliPublish, CliDiscard, Import, vars

\* Every step keeps what workspaces say right.
LEMMA ContainedStep ==
    ASSUME StoreInv, WorkspaceInv, Stored(revs), Jobs, Contained, Grows(revs, revs'), [WNext]_vars
    PROVE Contained'
<1>1. CASE \E p \in Proc : Put(p) BY <1>1, PutContained
<1>2. CASE ~\E p \in Proc : Put(p)
  <2>1. UNCHANGED <<ws, seen>> BY <1>2, OtherSteps, SeenStays
  <2>2. ASSUME NEW u \in User PROVE RowOK(ws'[u], revs', seen'[u])
    <3>1. RowOK(ws[u], revs, seen[u]) BY DEF Contained
    <3>2. RowOK(ws[u], revs', seen[u]) BY <3>1, RowKept
    <3> QED BY <2>1, <3>2
  <2> QED BY <2>1, <2>2 DEF Contained
<1> QED BY <1>1, <1>2

-----------------------------------------------------------------------------
(* The drafts of workspaces, from when they are stored until they are done *)
(* with.                                                                   *)

Hand(j, i) == j.op \in Saves /\ (j.draft = i \/ i \in j.todo)
Cared(i, u, s, jb) == (s[u].version # 0 /\ s[u].checkpoint = i) \/ \E p \in Proc : Hand(jb[p], i)
NoStray == \A i \in DOMAIN revs : revs[i].state = "draft" /\ i \notin dropped /\ revs[i].by \in User => Cared(i, revs[i].by, ws, job)

\* A process takes a step, and has the draft in hand still if it had it.
LEMMA CaredOn ==
    ASSUME WorkspaceInv, UNCHANGED ws, NEW p \in Proc, NEW k, job' = [job EXCEPT ![p] = k],
           NEW i, NEW u, Cared(i, u, ws, job), Hand(job[p], i) => Hand(k, i)
    PROVE Cared(i, u, ws', job')
<1>1. \A q \in Proc : job'[q] = IF q = p THEN k ELSE job[q] BY DEF WorkspaceInv
<1>2. CASE ws[u].version # 0 /\ ws[u].checkpoint = i BY <1>2 DEF Cared
<1>3. CASE \E q \in Proc : Hand(job[q], i)
  <2>1. PICK q \in Proc : Hand(job[q], i) BY <1>3
  <2>2. Hand(job'[q], i) BY <1>1, <2>1
  <2> QED BY <2>2 DEF Cared
<1> QED BY <1>2, <1>3 DEF Cared

\* An operation that ends has none in hand, or discards it.
LEMMA CaredEnd ==
    ASSUME WorkspaceInv, UNCHANGED ws, NEW p \in Proc, NEW ids, Discarding(p, ids) \/ (Return(p) /\ ids = {}),
           NEW i, NEW u, Cared(i, u, ws, job), Hand(job[p], i) => i \in ids
    PROVE Cared(i, u, ws', job')
<1>1. CASE ids = {}
  <2>1. job' = [job EXCEPT ![p] = Idle] BY <1>1 DEF Discarding, Return
  <2> QED BY <1>1, <2>1, CaredOn
<1>2. CASE ids # {}
  <2> DEFINE k == [Start("discard", job[p].op, job[p].user) EXCEPT !.todo = ids]
  <2>1. job' = [job EXCEPT ![p] = k] BY <1>2 DEF Discarding, WorkspaceInv
  <2>2. k.op = job[p].op /\ k.todo = ids BY DEF Start, Idle
  <2> HIDE DEF k
  <2>3. Hand(job[p], i) => Hand(k, i) BY <2>2 DEF Hand
  <2> QED BY <2>1, <2>3, CaredOn
<1> QED BY <1>1, <1>2

\* Nothing is in hand before it is stored, nor is a draft that was published.
LEMMA NoneInHand ==
    ASSUME StoreInv, Jobs, NEW p \in Proc, NEW i \in DOMAIN revs, revs[i].state = "draft", Hand(job[p], i)
    PROVE /\ i # 0 /\ job[p].pc \notin {"idle", "build"}
          /\ job[p].pc = "discard" => i \in job[p].todo
          /\ job[p].pc # "discard" => i = job[p].draft
          /\ job[p].pc \in {"load", "put"} => job[p].op = "checkpoint"
<1>1. JobOK(job[p], revs, ws) BY DEF Jobs
<1>2. i # 0 BY DEF StoreInv, Rows, Ids
<1>3. i \notin Out(revs) BY DEF Out, Unpublished
<1> QED BY <1>1, <1>2, <1>3 DEF JobOK, Hand, Saves

\* The steps that go on keep the draft.
LEMMA CaredGoOn ==
    ASSUME StoreInv, WorkspaceInv, Jobs, NEW p \in Proc,
           Load(p) \/ ReadPublished(p) \/ ReadAgain(p) \/ PutRetries(p) \/ Build(p) \/ PublishCheck(p) \/ PublishStore(p),
           NEW i \in DOMAIN revs, revs[i].state = "draft", NEW u, Cared(i, u, ws, job)
    PROVE Cared(i, u, ws', job')
<1> USE DEF At
<1> DEFINE j == job[p]
<1>1. DOMAIN j = DOMAIN Idle /\ p \in DOMAIN job /\ JobInv(j) BY DEF WorkspaceInv, JobInv
<1>2. CASE (ReadPublished(p) \/ ReadAgain(p)) /\ Return(p)
  <2>1. j.op \notin Saves BY <1>1, <1>2 DEF ReadPublished, ReadAgain, PublishedMoved, JobInv, Takes, Saves
  <2>2. UNCHANGED ws BY <1>2 DEF ReadPublished, ReadAgain, untouched
  <2>3. ~Hand(j, i) BY <2>1 DEF Hand
  <2> QED BY <1>2, <2>2, <2>3, CaredEnd
<1>3. ASSUME NEW k, job' = [job EXCEPT ![p] = k], k.op = j.op, k.draft = j.draft, k.todo = j.todo, UNCHANGED ws
      PROVE Cared(i, u, ws', job')
  <2>1. Hand(j, i) => Hand(k, i) BY <1>3 DEF Hand
  <2> QED BY <1>3, <2>1, CaredOn
<1>4. CASE ReadPublished(p) /\ ~Return(p)
  <2> DEFINE k == [j EXCEPT !.at = Published, !.pc = "load"]
  <2>1. job' = [job EXCEPT ![p] = k] /\ UNCHANGED ws BY <1>1, <1>4 DEF ReadPublished, untouched
  <2>2. k.op = j.op /\ k.draft = j.draft /\ k.todo = j.todo BY SMTT(20), Z3T(20), <1>1, JobFields
  <2> HIDE DEF k
  <2> QED BY <1>3, <2>1, <2>2
<1>5. CASE ReadAgain(p) /\ ~Return(p)
  <2> DEFINE k == [j EXCEPT !.pc = "published", !.rounds = j.rounds + 1, !.tries = 0, !.w = None]
  <2>1. job' = [job EXCEPT ![p] = k] /\ UNCHANGED ws BY <1>1, <1>5 DEF ReadAgain, Idle, untouched
  <2>2. k.op = j.op /\ k.draft = j.draft /\ k.todo = j.todo BY SMTT(20), Z3T(20), <1>1, JobFields
  <2> HIDE DEF k
  <2> QED BY <1>3, <2>1, <2>2
<1>6. CASE PutRetries(p)
  <2> DEFINE k == [j EXCEPT !.pc = "load", !.tries = j.tries + 1, !.w = None]
  <2>1. job' = [job EXCEPT ![p] = k] /\ UNCHANGED ws BY <1>1, <1>6 DEF PutRetries, Idle, untouched
  <2>2. k.op = j.op /\ k.draft = j.draft /\ k.todo = j.todo BY SMTT(20), Z3T(20), <1>1, JobFields
  <2> HIDE DEF k
  <2> QED BY <1>3, <2>1, <2>2
<1>7. CASE Build(p)
  <2> DEFINE k == [j EXCEPT !.draft = nextID, !.pc = IF j.op = "commit" THEN "publish" ELSE "load"]
  <2>1. job' = [job EXCEPT ![p] = k] /\ UNCHANGED ws BY <1>1, <1>7 DEF Build
  <2>2. ~Hand(j, i) BY <1>7, NoneInHand DEF Build
  <2> HIDE DEF k
  <2> QED BY <2>1, <2>2, CaredOn
<1>8. CASE PublishCheck(p)
  <2> DEFINE k == [j EXCEPT !.at = Published, !.pc = "store"]
  <2>1. job' = [job EXCEPT ![p] = k] /\ UNCHANGED ws BY <1>1, <1>8 DEF PublishCheck, untouched
  <2>2. k.op = j.op /\ k.draft = j.draft /\ k.todo = j.todo BY SMTT(20), Z3T(20), <1>1, JobFields
  <2> HIDE DEF k
  <2> QED BY <1>3, <2>1, <2>2
<1>9. CASE PublishStore(p)
  <2> DEFINE k == [j EXCEPT !.pc = "load"]
  <2>1. job' = [job EXCEPT ![p] = k] /\ UNCHANGED ws BY <1>1, <1>9 DEF PublishStore, Goto
  <2>2. k.op = j.op /\ k.draft = j.draft /\ k.todo = j.todo BY SMTT(20), Z3T(20), <1>1, JobFields
  <2> HIDE DEF k
  <2> QED BY <1>3, <2>1, <2>2
<1>10. CASE Load(p)
  <2> DEFINE w == Read(j.user)
             k == [j EXCEPT !.w = w, !.pc = "put"]
  <2>1. job' = [job EXCEPT ![p] = k] /\ UNCHANGED ws BY <1>1, <1>10 DEF Load, untouched
  <2> HIDE DEF w
  <2>2. k.op = j.op /\ k.draft = j.draft /\ k.todo = j.todo BY <1>1 DEF Idle
  <2> HIDE DEF k
  <2> QED BY <1>3, <2>1, <2>2
<1> QED BY <1>2, <1>4, <1>5, <1>6, <1>7, <1>8, <1>9, <1>10

\* Those that end an operation leave it to be discarded, or let it go.
LEMMA CaredEnds ==
    ASSUME StoreInv, WorkspaceInv, Jobs, NEW p \in Proc,
           \/ NothingToWrite(p) \/ PutFails(p) \/ BuildFails(p) \/ PublishFails(p) \/ PublishRefused(p)
           \/ RollbackStore(p) \/ RollbackRefused(p) \/ DiscardNext(p) \/ DiscardFails(p) \/ Cut(p),
           NEW i \in DOMAIN revs, revs[i].state = "draft", revs'[i].state = "draft", i \notin dropped',
           NEW u, Cared(i, u, ws, job)
    PROVE Cared(i, u, ws', job')
<1> USE DEF At
<1> DEFINE j == job[p]
<1>1. JobInv(j) /\ JobOK(j, revs, ws) BY DEF WorkspaceInv, Jobs
<1>2. CASE NothingToWrite(p)
  <2>1. ~Hand(j, i) BY <1>2 DEF NothingToWrite, Unchanged, Hand, Saves
  <2> QED BY <1>2, <2>1, CaredEnd DEF NothingToWrite, untouched
<1>3. CASE BuildFails(p)
  <2>1. ~Hand(j, i) BY <1>3, NoneInHand DEF BuildFails
  <2> QED BY <1>3, <2>1, CaredEnd DEF BuildFails, untouched
<1>4. CASE PutFails(p)
  <2> DEFINE ids == IF j.op = "checkpoint" THEN {j.draft} ELSE {}
  <2>1. Discarding(p, ids) /\ UNCHANGED ws /\ j.pc = "put" BY <1>4 DEF PutFails, untouched
  <2>2. Hand(j, i) => i \in ids BY <2>1, NoneInHand
  <2> HIDE DEF ids
  <2> QED BY <2>1, <2>2, CaredEnd
<1>5. CASE PublishFails(p) \/ PublishRefused(p)
  <2>1. Discarding(p, {j.draft}) /\ UNCHANGED ws /\ j.pc \in {"publish", "store"}
    BY <1>5 DEF PublishFails, PublishRefused, untouched
  <2>2. Hand(j, i) => i \in {j.draft} BY <2>1, NoneInHand
  <2> QED BY <2>1, <2>2, CaredEnd
<1>6. CASE RollbackStore(p) \/ RollbackRefused(p)
  <2>1. j.op = "rollback" BY <1>1, <1>6 DEF RollbackStore, RollbackRefused, JobOK
  <2>2. ~Hand(j, i) BY <2>1 DEF Hand, Saves
  <2> QED BY <1>6, <2>2, CaredEnd DEF RollbackStore, RollbackRefused, untouched
<1>7. CASE DiscardNext(p)
  <2>1. PICK id \in j.todo :
          /\ Discarding(p, j.todo \ {id})
          /\ IF id \in InState("draft") THEN Discard(id) ELSE UNCHANGED store
    BY <1>7 DEF DiscardNext
  <2>2. UNCHANGED ws /\ j.pc = "discard" BY <1>7 DEF DiscardNext
  <2>3. i # id
    <3>1. CASE id \in InState("draft")
      <4>1. revs' = [revs EXCEPT ![id].state = "discarded"] /\ id \in DOMAIN revs BY <2>1, <3>1 DEF Discard, InState, Ids
      <4>2. DOMAIN revs[id] = {"parent", "payload", "state", "at", "by"} BY <4>1 DEF StoreInv, Rows, Ids
      <4>3. revs'[id].state = "discarded" BY <4>1, <4>2
      <4> QED BY <4>3
    <3>2. CASE id \notin InState("draft") BY <3>2 DEF InState, Ids
    <3> QED BY <3>1, <3>2
  <2>4. Hand(j, i) => i \in j.todo \ {id} BY <2>2, <2>3, NoneInHand
  <2> QED BY <2>1, <2>2, <2>4, CaredEnd
<1>8. i \in InState("draft") BY DEF InState, Ids
<1>9. CASE DiscardFails(p)
  <2>1. PICK id \in j.todo : Discarding(p, j.todo \ {id}) /\ LetGo({id}) BY <1>9 DEF DiscardFails
  <2>2. UNCHANGED ws /\ j.pc = "discard" BY <1>9 DEF DiscardFails
  <2>3. i # id BY <1>8, <2>1 DEF LetGo
  <2>4. Hand(j, i) => i \in j.todo \ {id} BY <2>2, <2>3, NoneInHand
  <2> QED BY <2>1, <2>2, <2>4, CaredEnd
<1>10. CASE Cut(p)
  <2>1. Return(p) /\ LetGo({j.draft} \cup j.todo) /\ UNCHANGED ws BY <1>10 DEF Cut
  <2>2. ~Hand(j, i) BY <1>8, <2>1 DEF LetGo, Hand
  <2> QED BY <2>1, <2>2, CaredEnd
<1> QED BY <1>2, <1>3, <1>4, <1>5, <1>6, <1>7, <1>9, <1>10

\* The checkpoint of the workspace written.
LEMMA AfterDraft ==
    ASSUME NEW j, j.w \in Workspace, j.op \in Applied
    PROVE /\ j.op \in {"write", "update", "keep", "merge", "resolve"} => After(j).checkpoint = j.w.checkpoint
          /\ j.op = "checkpoint" => After(j).checkpoint = j.draft
          /\ j.op = "commit" => After(j).checkpoint = IF j.w.checkpoint = j.view.checkpoint THEN 0 ELSE j.w.checkpoint
<1>1. CASE j.op = "write" BY SMTT(20), Z3T(20), <1>1, AfterWrite, MadeIs
<1>2. CASE j.op = "update" BY SMTT(20), Z3T(20), <1>2, AfterUpdate, MadeIs
<1>3. CASE j.op = "keep" BY SMTT(20), Z3T(20), <1>3, AfterKeep, MadeIs
<1>4. CASE j.op = "merge" BY <1>4, MergeFields
<1>5. CASE j.op = "resolve" BY <1>5, ResolveFields
<1>6. CASE j.op = "checkpoint" BY <1>6, CheckpointFields
<1>7. CASE j.op = "commit" BY <1>7, CommitFields
<1> QED BY <1>1, <1>2, <1>3, <1>4, <1>5, <1>6, <1>7

\* A write keeps the draft of the workspace it replaces, or lets it go, or
\* leaves it to be discarded.
LEMMA CaredPut ==
    ASSUME StoreInv, WorkspaceInv, Stored(revs), Jobs, NEW p \in Proc, Put(p),
           NEW i \in DOMAIN revs, revs[i].state = "draft", i \notin dropped', NEW u \in User, u = revs[i].by,
           Cared(i, u, ws, job)
    PROVE Cared(i, u, ws', job')
<1> DEFINE j == job[p]
           v == j.user
<1>1. /\ JobInv(j) /\ JobOK(j, revs, ws) /\ j.pc = "put" /\ v \in User /\ j.op \in Applied
      /\ (Kept(v) => j.w = ws[v])
      /\ Good(After(j), revs) /\ After(j).version = j.w.version + 1 /\ j.w.version \in Nat
      /\ \A x \in User : ws'[x] = IF x = v THEN After(j) ELSE ws[x]
      /\ Finish(p, j)
  BY PutIs
<1>2. j.w \in Workspace BY <1>1 DEF JobOK, Good
<1>3. i # 0 /\ i \notin Out(revs) BY DEF StoreInv, Rows, Ids, Out, Unpublished
<1>4. After(j).version # 0 BY SMTT(20), Z3T(20), <1>1
<1>5. ASSUME NEW ids, Discarding(p, ids), j.op \in Saves, i \in ids PROVE Cared(i, u, ws', job')
  <2> DEFINE k == [Start("discard", j.op, v) EXCEPT !.todo = ids]
  <2>1. job' = [job EXCEPT ![p] = k] BY <1>5 DEF Discarding, WorkspaceInv
  <2>2. k.op = j.op /\ k.todo = ids BY DEF Start, Idle
  <2> HIDE DEF k
  <2>3. Hand(k, i) BY <1>5, <2>2 DEF Hand
  <2>4. job'[p] = k BY <2>1 DEF WorkspaceInv
  <2> QED BY <2>3, <2>4 DEF Cared
<1>6. CASE ws[u].version # 0 /\ ws[u].checkpoint = i /\ u # v
  <2>1. ws'[u] = ws[u] BY <1>1, <1>6
  <2> QED BY <1>6, <2>1 DEF Cared
<1>7. CASE ws[u].version # 0 /\ ws[u].checkpoint = i /\ u = v
  <2>1. j.w.checkpoint = i /\ ws'[u] = After(j) BY <1>1, <1>7 DEF Kept
  <2>2. ~LetGo({j.w.checkpoint}) BY <2>1 DEF LetGo, InState, Ids
  <2>3. CASE After(j).checkpoint = i BY <1>4, <2>1, <2>3 DEF Cared
  <2>4. CASE j.op = "checkpoint"
    <3>1. Discarding(p, {j.w.checkpoint} \ {0}) BY <1>1, <2>2, <2>4 DEF Finish, Done
    <3>2. i \in {j.w.checkpoint} \ {0} BY <1>3, <2>1
    <3> QED BY <1>5, <2>4, <3>1, <3>2 DEF Saves
  <2>5. CASE j.op = "commit" /\ j.w.checkpoint = j.view.checkpoint
    <3>1. Discarding(p, (j.view.taken \cup {j.view.checkpoint}) \ {0, j.draft}) BY <1>1, <2>5 DEF Finish, Done
    <3>2. j.draft \in Out(revs) BY <1>1, <2>5 DEF JobOK
    <3>3. i \in (j.view.taken \cup {j.view.checkpoint}) \ {0, j.draft} BY <1>3, <2>1, <2>5, <3>2
    <3> QED BY <1>5, <2>5, <3>1, <3>3 DEF Saves
  <2>6. j.op \notin {"reset", "load"} BY <1>1, <2>2 DEF Finish, Forgotten
  <2> QED BY <1>1, <1>2, <2>1, <2>3, <2>4, <2>5, <2>6, AfterDraft DEF Applied, Takes, Saves
<1>8. CASE \E q \in Proc : Hand(job[q], i)
  <2>1. PICK q \in Proc : Hand(job[q], i) BY <1>8
  <2>2. CASE q # p
    <3>1. job'[q] = job[q] BY <1>1, <2>2, FinishIs DEF WorkspaceInv
    <3> QED BY <2>1, <3>1 DEF Cared
  <2>3. CASE q = p
    <3>1. j.op = "checkpoint" /\ j.draft = i BY <1>1, <2>1, <2>3, NoneInHand
    <3>2. u = v BY <1>1, <3>1 DEF JobOK, Saves
    <3>3. After(j).checkpoint = i BY <1>1, <1>2, <3>1, AfterDraft
    <3>4. ws'[u] = After(j) BY <1>1, <3>2
    <3> QED BY <1>4, <3>3, <3>4 DEF Cared
  <2> QED BY <2>2, <2>3
<1> QED BY <1>6, <1>7, <1>8 DEF Cared

\* A draft cared for stays so while it is a draft.
LEMMA CaredStep ==
    ASSUME StoreInv, WorkspaceInv, Stored(revs), Jobs, [WNext]_vars, NEW i \in DOMAIN revs, revs[i].state = "draft",
           revs'[i].state = "draft", i \notin dropped', NEW u \in User, u = revs[i].by, Cared(i, u, ws, job)
    PROVE Cared(i, u, ws', job')
<1>1. ASSUME NEW p \in Proc, Steps(p) PROVE Cared(i, u, ws', job')
  <2>1. CASE Put(p) BY <2>1, CaredPut
  <2>2. CASE Load(p) \/ ReadPublished(p) \/ ReadAgain(p) \/ PutRetries(p) \/ Build(p) \/ PublishCheck(p) \/ PublishStore(p)
    BY <2>2, CaredGoOn
  <2>3. CASE \/ NothingToWrite(p) \/ PutFails(p) \/ BuildFails(p) \/ PublishFails(p) \/ PublishRefused(p)
             \/ RollbackStore(p) \/ RollbackRefused(p) \/ DiscardNext(p) \/ DiscardFails(p) \/ Cut(p)
    BY <2>3, CaredEnds
  <2> QED BY <1>1, <2>1, <2>2, <2>3 DEF Steps
<1>2. ASSUME NEW p \in Proc, NEW k, Begin(p, k) PROVE Cared(i, u, ws', job')
  <2>1. job[p].pc = "idle" /\ job' = [job EXCEPT ![p] = k] /\ UNCHANGED ws BY <1>2 DEF Begin, At
  <2>2. ~Hand(job[p], i) BY <2>1, NoneInHand
  <2> QED BY <2>1, <2>2, CaredOn
<1>3. CASE \E p \in Proc : \E to \in OncePublished \cup {0} : BeginRollback(p, to)
  BY <1>2, <1>3 DEF BeginRollback
<1>4. CASE \E p \in Proc, x \in User :
         \/ \E r \in Ref, v \in Value : BeginWrite(p, x, r, v)
         \/ \E op \in {"update", "reset"}, to \in OncePublished : BeginMove(p, x, op, to)
         \/ \E op \in {"merge", "load", "keep"}, rev \in Ids : BeginTake(p, x, op, rev)
         \/ \E op \in {"checkpoint", "commit"} : BeginSave(p, x, op)
         \/ Kept(x) /\ \E c \in ws[x].conflicts, theirs \in BOOLEAN : BeginResolve(p, x, c, theirs)
  <2>1. PICK p \in Proc : \E k : Begin(p, k)
    BY <1>4 DEF BeginWrite, BeginMove, BeginTake, BeginSave, BeginResolve
  <2> QED BY <1>2, <2>1
<1>5. CASE UNCHANGED <<ws, job>> BY <1>5
<1> QED BY <1>1, <1>3, <1>4, <1>5 DEF WNext, CliDraft, CliPublish, CliDiscard, Import, vars

\* A draft just stored is in hand, or of the command line, or imported.
LEMMA CaredNew ==
    ASSUME StoreInv, WorkspaceInv, [WNext]_vars, NEW i \in DOMAIN revs', i \notin DOMAIN revs,
           revs'[i].state = "draft", i \notin dropped', revs'[i].by \in User
    PROVE \E p \in Proc : Hand(job'[p], i)
<1>1. ASSUME NEW id, NEW expected, Publish(id, expected) PROVE FALSE BY <1>1 DEF Publish, Replaced, Ids
<1>2. ASSUME NEW id, Discard(id) PROVE FALSE BY <1>2 DEF Discard, Ids
<1>3. UNCHANGED store => FALSE BY DEF store
<1>4. ASSUME NEW parent, NEW payload, NEW by, Create(parent, payload, by) PROVE i = nextID /\ by \in User
  <2>1. DOMAIN revs' = Ids \cup {nextID} /\ revs'[nextID] = Draft(parent, payload, by) BY <1>4 DEF Create, With
  <2>2. i = nextID BY <2>1 DEF Ids
  <2> QED BY SMTT(20), Z3T(20), <2>1, <2>2 DEF Draft
<1>5. ASSUME NEW expected, NEW target, NEW by, Rollback(expected, target, by) PROVE FALSE
  <2>1. PICK source :
          revs' = [n \in Ids \cup {nextID} |->
                     IF n = nextID
                     THEN [Draft(source, revs[source].payload, by) EXCEPT !.state = "published", !.at = Now]
                     ELSE Replaced("rolled-back")[n]]
    BY <1>5 DEF Rollback
  <2>2. i = nextID BY <2>1 DEF Ids
  <2>3. revs'[i] = [Draft(source, revs[source].payload, by) EXCEPT !.state = "published", !.at = Now] BY <2>1, <2>2
  <2>4. revs'[i].state = "published" BY <2>3 DEF Draft
  <2> QED BY <2>4
<1>6. ASSUME NEW p \in Proc, Steps(p) PROVE Build(p)
  <2>1. CASE PublishStore(p) BY <1>1, <2>1 DEF PublishStore
  <2>2. CASE RollbackStore(p) BY <1>5, <2>2 DEF RollbackStore
  <2>3. CASE DiscardNext(p) BY <1>2, <1>3, <2>3 DEF DiscardNext
  <2>4. CASE Put(p) BY <1>3, <2>4 DEF Put
  <2> QED
    BY <1>3, <1>6, <2>1, <2>2, <2>3, <2>4
    DEF Steps, ReadPublished, Load, NothingToWrite, ReadAgain, PutRetries, PutFails, BuildFails, PublishCheck,
        PublishFails, PublishRefused, RollbackRefused, DiscardFails, Cut, untouched
<1>7. ASSUME NEW p \in Proc, Build(p) PROVE Hand(job'[p], i)
  <2> DEFINE j == job[p]
             k == [j EXCEPT !.draft = nextID, !.pc = IF j.op = "commit" THEN "publish" ELSE "load"]
  <2>1. i = nextID /\ j.pc = "build" BY <1>4, <1>7 DEF Build, At
  <2>2. JobInv(j) /\ DOMAIN j = DOMAIN Idle /\ p \in DOMAIN job BY DEF WorkspaceInv, JobInv
  <2>3. j.op \in Saves BY <2>1, <2>2 DEF JobInv
  <2>4. job'[p] = k BY <1>7, <2>2 DEF Build
  <2>5. k.op = j.op /\ k.draft = nextID BY SMTT(20), Z3T(20), <2>2, JobFields
  <2> HIDE DEF k
  <2> QED BY <2>1, <2>3, <2>4, <2>5 DEF Hand
<1>8. ASSUME NEW p \in Proc, NEW k, Begin(p, k) PROVE FALSE BY <1>3, <1>8 DEF Begin
<1>9. CASE \E p \in Proc : \E to \in OncePublished \cup {0} : BeginRollback(p, to)
  BY <1>8, <1>9 DEF BeginRollback
<1>10. CASE \E p \in Proc, u \in User :
         \/ \E r \in Ref, v \in Value : BeginWrite(p, u, r, v)
         \/ \E op \in {"update", "reset"}, to \in OncePublished : BeginMove(p, u, op, to)
         \/ \E op \in {"merge", "load", "keep"}, rev \in Ids : BeginTake(p, u, op, rev)
         \/ \E op \in {"checkpoint", "commit"} : BeginSave(p, u, op)
         \/ Kept(u) /\ \E c \in ws[u].conflicts, theirs \in BOOLEAN : BeginResolve(p, u, c, theirs)
  <2>1. PICK p \in Proc : \E k : Begin(p, k)
    BY <1>10 DEF BeginWrite, BeginMove, BeginTake, BeginSave, BeginResolve
  <2> QED BY <1>8, <2>1
<1>11. CASE \E payload \in Payload : CliDraft(payload) BY <1>4, <1>11, CliAssumption DEF CliDraft
<1>12. CASE \E id \in Ids : CliPublish(id) \/ CliDiscard(id) BY <1>1, <1>2, <1>12 DEF CliPublish, CliDiscard
<1>13. CASE \E h \in History : Import(h) BY <1>13 DEF Import, ImportHistory
<1>14. CASE UNCHANGED vars BY <1>3, <1>14 DEF vars
<1> QED BY <1>6, <1>7, <1>9, <1>10, <1>11, <1>12, <1>13, <1>14 DEF WNext

\* What was let go stays so.
LEMMA DroppedGrows == ASSUME [WNext]_vars PROVE dropped \subseteq dropped'
<1>1. ASSUME NEW p \in Proc, Steps(p) PROVE dropped \subseteq dropped'
  BY <1>1
  DEF Steps, ReadPublished, Load, NothingToWrite, ReadAgain, Put, PutRetries, PutFails, Build, BuildFails, PublishCheck,
      PublishFails, PublishStore, PublishRefused, RollbackStore, RollbackRefused, DiscardNext, DiscardFails, Cut, untouched,
      Finish, LetGo
<1>2. ASSUME NEW p \in Proc, NEW j, Begin(p, j) PROVE dropped \subseteq dropped' BY <1>2 DEF Begin
<1>3. CASE \E p \in Proc : \E to \in OncePublished \cup {0} : BeginRollback(p, to)
  BY <1>2, <1>3 DEF BeginRollback
<1>4. CASE \E p \in Proc, u \in User :
         \/ \E r \in Ref, v \in Value : BeginWrite(p, u, r, v)
         \/ \E op \in {"update", "reset"}, to \in OncePublished : BeginMove(p, u, op, to)
         \/ \E op \in {"merge", "load", "keep"}, rev \in Ids : BeginTake(p, u, op, rev)
         \/ \E op \in {"checkpoint", "commit"} : BeginSave(p, u, op)
         \/ Kept(u) /\ \E c \in ws[u].conflicts, theirs \in BOOLEAN : BeginResolve(p, u, c, theirs)
  <2>1. PICK p \in Proc : \E j : Begin(p, j)
    BY <1>4 DEF BeginWrite, BeginMove, BeginTake, BeginSave, BeginResolve
  <2> QED BY <1>2, <2>1
<1> QED BY <1>1, <1>3, <1>4 DEF WNext, CliDraft, CliPublish, CliDiscard, Import, vars

\* Every step leaves each draft with a workspace, or with an operation that will discard it.
LEMMA NoStrayStep ==
    ASSUME StoreInv, WorkspaceInv, Stored(revs), Jobs, NoStray, [WNext]_vars
    PROVE NoStray'
<1>1. StoreStep BY OnlyStoreSteps
<1>2. ASSUME NEW i \in DOMAIN revs', revs'[i].state = "draft", i \notin dropped', revs'[i].by \in User
      PROVE Cared(i, revs'[i].by, ws', job')
  <2>1. CASE i \notin DOMAIN revs BY <1>2, <2>1, CaredNew DEF Cared
  <2>2. CASE i \in DOMAIN revs
    <3>1. i \notin dropped BY <1>2, DroppedGrows
    <3>2. revs'[i].by = revs[i].by BY <1>1, <2>2, StoreGrows DEF Grows
    <3>3. revs[i].state = "draft"
      <4>1. CASE UNCHANGED store BY <1>2, <4>1 DEF store
      <4>2. CASE Alive(i) BY <1>2, <4>2 DEF Alive
      <4> QED BY <1>1, <2>2, <4>1, <4>2, StoreInvStep DEF Ids
    <3>4. Cared(i, revs[i].by, ws, job) BY <1>2, <2>2, <3>1, <3>2, <3>3 DEF NoStray
    <3>5. Cared(i, revs[i].by, ws', job') BY <1>2, <2>2, <3>2, <3>3, <3>4, CaredStep
    <3> QED BY <3>2, <3>5
  <2> QED BY <2>1, <2>2
<1> QED BY <1>2 DEF NoStray

-----------------------------------------------------------------------------
(* The rows of the store are revisions, whatever is stored.                *)

\* A store whose published revision is replaced holds revisions.
LEMMA ReplacedStored ==
    ASSUME Stored(revs), NEW s \in State, NEW i \in Ids
    PROVE Replaced(s)[i] \in Revision
<1>1. revs[i] \in Revision BY DEF Stored, Ids
<1>2. [revs[i] EXCEPT !.state = s] \in Revision BY <1>1 DEF Revision
<1> QED BY <1>1, <1>2 DEF Replaced

\* Every step leaves revisions in the store.
LEMMA StoredStep ==
    ASSUME StoreInv, Stored(revs), Now \in Nat, TypedStep
    PROVE Stored(revs')
<1>1. ASSUME NEW parent \in Ids \cup {0}, NEW payload \in Payload, NEW by \in Author, Create(parent, payload, by)
      PROVE Stored(revs')
  <2>0. parent \in Nat BY DEF StoreInv, Rows
  <2>1. Draft(parent, payload, by) \in Revision BY <2>0 DEF Draft, Revision, State
  <2>2. DOMAIN revs' = Ids \cup {nextID} BY <1>1 DEF Create, With
  <2>3. \A i \in Ids \cup {nextID} : revs'[i] = IF i = nextID THEN Draft(parent, payload, by) ELSE revs[i]
    BY <1>1 DEF Create, With
  <2> QED BY <2>1, <2>2, <2>3 DEF Stored, Ids
<1>2. ASSUME NEW id, NEW expected, Publish(id, expected) PROVE Stored(revs')
  <2> DEFINE s == "superseded"
             published == [Replaced(s)[id] EXCEPT !.state = "published", !.at = Now]
  <2>1. id \in Ids BY <1>2 DEF Publish, InState
  <2>2. DOMAIN Replaced(s) = Ids BY DEF Replaced
  <2>3. DOMAIN revs' = Ids /\ \A i \in Ids : revs'[i] = IF i = id THEN published ELSE Replaced(s)[i]
    BY <1>2, <2>1, <2>2 DEF Publish
  <2>4. \A i \in Ids : Replaced(s)[i] \in Revision BY ReplacedStored DEF State
  <2>5. published \in Revision
    <3>1. Replaced(s)[id] \in Revision /\ Now \in Nat BY <2>1, <2>4
    <3> QED BY <3>1 DEF Revision, State
  <2> HIDE DEF published
  <2> QED BY <2>3, <2>4, <2>5 DEF Stored
<1>3. ASSUME NEW id, Discard(id) PROVE Stored(revs')
  <2>1. id \in Ids /\ revs[id] \in Revision BY <1>3 DEF Discard, InState, Stored, Ids
  <2>2. [revs[id] EXCEPT !.state = "discarded"] \in Revision BY <2>1 DEF Revision, State
  <2>3. DOMAIN revs' = Ids /\ \A i \in Ids : revs'[i] = IF i = id THEN [revs[id] EXCEPT !.state = "discarded"] ELSE revs[i]
    BY <1>3, <2>1 DEF Discard, Ids
  <2> QED BY <2>2, <2>3 DEF Stored, Ids
<1>4. ASSUME NEW expected, NEW target, NEW by \in Author, Rollback(expected, target, by) PROVE Stored(revs')
  <2> DEFINE s == "rolled-back"
  <2>1. PICK source \in RollbackTarget(expected, target) :
          revs' = [i \in Ids \cup {nextID} |->
                     IF i = nextID
                     THEN [Draft(source, revs[source].payload, by) EXCEPT !.state = "published", !.at = Now]
                     ELSE Replaced(s)[i]]
    BY <1>4 DEF Rollback
  <2>2. source \in Ids BY DEF RollbackTarget, OncePublished, Earlier, InState
  <2>3. source \in Nat /\ revs[source].payload \in Payload
    BY <2>2 DEF StoreInv, Rows, Stored, Ids, Revision
  <2>5. [Draft(source, revs[source].payload, by) EXCEPT !.state = "published", !.at = Now] \in Revision
    BY <2>3 DEF Draft, Revision, State
  <2>6. \A i \in Ids : Replaced(s)[i] \in Revision BY ReplacedStored DEF State
  <2> QED BY <2>1, <2>5, <2>6 DEF Stored
<1>5. ASSUME NEW h \in History, ImportHistory(h) PROVE Stored(revs')
  BY <1>5, HistoryAssumption DEF ImportHistory, Stored
<1>6. CASE UNCHANGED store BY <1>6 DEF store, Stored
<1> QED BY <1>1, <1>2, <1>3, <1>4, <1>5, <1>6 DEF TypedStep

\* The store is a table by number.
Table(rs) == rs = [i \in DOMAIN rs |-> rs[i]]

\* Every step leaves the store a table by number.
LEMMA TableStep == ASSUME Table(revs), StoreStep PROVE Table(revs')
<1>1. ASSUME NEW parent, NEW payload, NEW by, Create(parent, payload, by) PROVE Table(revs')
  BY <1>1 DEF Create, With, Table
<1>2. ASSUME NEW id, NEW expected, Publish(id, expected) PROVE Table(revs')
  BY <1>2 DEF Publish, Replaced, Table
<1>3. ASSUME NEW id, Discard(id) PROVE Table(revs') BY <1>3 DEF Discard, Table
<1>4. ASSUME NEW expected, NEW target, NEW by, Rollback(expected, target, by) PROVE Table(revs')
  BY <1>4 DEF Rollback, Table
<1>5. ASSUME NEW h \in History, ImportHistory(h) PROVE Table(revs')
  BY <1>5, HistoryAssumption DEF ImportHistory, Table
<1>6. CASE UNCHANGED store BY <1>6 DEF store, Table
<1> QED BY <1>1, <1>2, <1>3, <1>4, <1>5, <1>6 DEF StoreStep

-----------------------------------------------------------------------------
(* The theorems.                                                           *)

WInv == StoreInv /\ Table(revs) /\ Stored(revs) /\ WorkspaceInv /\ Jobs /\ Contained /\ NoStray

\* The empty store, without workspaces or operations.
LEMMA WInvInit == WInit => WInv
<1> SUFFICES ASSUME WInit PROVE WInv OBVIOUS
<1>1. StoreInv /\ WorkspaceInv BY StoreInvInit, WorkspaceInvInit
<1>2. DOMAIN revs = {} BY DEF WInit, Init
<1>3. Stored(revs) /\ NoStray /\ Table(revs)
  <2>1. Table(revs) BY DEF WInit, Init, Table
  <2> QED BY <1>2, <2>1 DEF Stored, NoStray
<1>4. Jobs BY EndedOK DEF WInit, Jobs
<1>5. \A u \in User : ws[u].version = 0 BY DEF WInit, Absent
<1>6. seen \in [User -> Known] BY DEF WInit, Known
<1>7. Contained BY <1>5, <1>6 DEF Contained, RowOK
<1> QED BY <1>1, <1>3, <1>4, <1>7 DEF WInv

\* The facts on finite sets are about these sets and their sizes.
Finite == INSTANCE FiniteSetTheorems
LEMMA Sizes ==
    ASSUME NEW S
    PROVE (Finite!IsFiniteSet(S) <=> IsFiniteSet(S)) /\ Finite!Cardinality(S) = Cardinality(S)
BY DEF Finite!IsFiniteSet, IsFiniteSet, Finite!Cardinality, Cardinality

\* The time of a publication is a number.
LEMMA NowIs == ASSUME Rows PROVE Now \in Nat
<1>1. OncePublished \subseteq 1..nextID BY SMTT(20), Z3T(20) DEF OncePublished, Rows, Ids
<1>2. IsFiniteSet(1..nextID) BY Sizes, Finite!FS_Interval DEF Rows
<1>3. IsFiniteSet(OncePublished) BY <1>1, <1>2, Sizes, Finite!FS_Subset
<1>4. Cardinality(OncePublished) \in Nat BY <1>3, Sizes, Finite!FS_CardinalityType
<1> QED BY <1>4 DEF Now

\* Every step keeps the invariant.
LEMMA WInvStep == ASSUME WInv, [WNext]_vars PROVE WInv'
<1> USE DEF WInv
<1>1. StoreInv' BY OnlyStoreSteps, StoreInvStep
<1>2. WorkspaceInv' BY PutStep, OtherSteps
<1>3. TypedStep BY TypedSteps
<1>0. Now \in Nat BY NowIs DEF StoreInv
<1>4. Stored(revs') /\ Table(revs') BY <1>0, <1>3, StoredStep, OnlyStoreSteps, TableStep
<1>5. Owned BY DEF Owned, Contained, RowOK, Kept
<1>6. Jobs' /\ Grows(revs, revs') BY <1>5, JobsHold
<1>7. Contained' BY <1>6, ContainedStep
<1>8. NoStray' BY NoStrayStep
<1> QED BY <1>1, <1>2, <1>4, <1>6, <1>7, <1>8

\* The inductive invariant holds of every behaviour.
LEMMA WInvAlways == WSpec => []WInv
BY WInvInit, WInvStep, PTL DEF WSpec

\* Rows and workspaces keep their types, and a workspace builds on a revision
\* that was published and names drafts that exist, whatever the operations of
\* administrators and the command line do between each other's reads and
\* writes (x/workspaceops, x/revisionops).
THEOREM WorkspacesTyped == WSpec => []TypeOK
<1>1. WInv => TypeOK
  <2> SUFFICES ASSUME WInv PROVE TypeOK OBVIOUS
  <2>1. Rows /\ Stored(revs) /\ Table(revs) /\ Contained BY DEF WInv, StoreInv
  <2>2. StoreTypeOK
    <3>1. nextID \in Nat \ {0} /\ Ids \subseteq 1..(nextID - 1) BY SMTT(20), Z3T(20), <2>1 DEF Rows, Ids
    <3>2. revs \in [Ids -> Revision] BY <2>1 DEF Stored, Table, Ids
    <3> QED BY <3>1, <3>2 DEF StoreTypeOK
  <2>3. ASSUME NEW u \in User, Kept(u)
        PROVE /\ ws[u] \in Workspace /\ ws[u].base \in OncePublished
              /\ ws[u].taken \cup {ws[u].checkpoint} \subseteq Ids \cup {0}
    <3>1. Good(ws[u], revs) BY <2>1, <2>3 DEF Contained, RowOK, Kept
    <3> QED BY <3>1 DEF Good, Out, OncePublished, Ids
  <2>4. seen \in [User -> [Ref -> Value \cup {None, Displaced}]] BY <2>1 DEF Contained, Known
  <2> QED BY <2>2, <2>3, <2>4 DEF TypeOK
<1> QED BY <1>1, WInvAlways, PTL

\* A workspace that says its checkpoint holds it is right: CheckpointAt is set
\* only if neither the version nor the base moved since the view that was
\* saved was read, and then the workspace read is that view (x/workspaceops
\* Checkpoint).
THEOREM CheckpointsHold == WSpec => []CheckpointHolds
<1>1. WInv => CheckpointHolds
  <2> SUFFICES ASSUME WInv, NEW u \in User, Kept(u), ws[u].checkpointAt = ws[u].version
               PROVE Content(ws[u].checkpoint) = ws[u].items
    BY DEF CheckpointHolds
  <2>1. HoldsIn(ws[u], revs) BY DEF WInv, Contained, RowOK, Kept
  <2> QED BY <2>1 DEF HoldsIn, Content
<1> QED BY <1>1, WInvAlways, PTL

\* What others published is not undone silently: where a workspace differs
\* from its base, whoever changed it knew what the base holds, or a conflict
\* blocks the commit, but for one displaced by a later conflict
\* (core/workspace/conflicts.go Carry).
THEOREM ChangesSurface == WSpec => []PublishedChangesSurface
<1>1. WInv => PublishedChangesSurface
  <2> SUFFICES ASSUME WInv, NEW u \in User, Kept(u), NEW r \in Ref, ws[u].items[r] # Content(ws[u].base)[r]
               PROVE \/ seen[u][r] \in {Content(ws[u].base)[r], Displaced}
                     \/ \E c \in OpenConflicts(ws[u]) : c.ref = r
    BY DEF PublishedChangesSurface
  <2>1. SurfaceIn(ws[u], Content(ws[u].base), seen[u][r], r) BY DEF WInv, Contained, RowOK, Kept, Content
  <2>2. ASSUME TellsIn(ws[u].conflicts, Content(ws[u].base)[r], r) PROVE \E c \in OpenConflicts(ws[u]) : c.ref = r
    <3>1. PICK c \in ws[u].conflicts : c.ref = r /\ (~c.pinned \/ c.theirs = Content(ws[u].base)[r]) BY <2>2 DEF TellsIn
    <3>2. Open(ws[u].items, Content(ws[u].base), c) BY <3>1 DEF Open
    <3> QED BY <3>1, <3>2 DEF OpenConflicts
  <2> QED BY <2>1, <2>2 DEF SurfaceIn
<1> QED BY <1>1, WInvAlways, PTL

\* No draft saved from a workspace is left behind: it is the checkpoint of its
\* author's workspace, or an operation has it in hand or still to discard, or
\* a reset, a load or an import let it go, or the attempt to discard it
\* failed or was cut (x/workspaceops Checkpoint, Commit, discard).
THEOREM DraftsCaredFor == WSpec => []NoStrayDrafts
<1>1. WInv => NoStrayDrafts
  BY DEF WInv, NoStray, NoStrayDrafts, Cared, Hand, Saves, Kept, InState, Ids
<1> QED BY <1>1, WInvAlways, PTL

\* Of what was changed in a workspace nothing is overwritten silently: a write
\* at the version read replaces the workspace read, so what came between is
\* kept, or replaced knowingly, or held as the other side of a conflict
\* (x/workspaceops apply, core/workspace/merge.go).
THEOREM WritesKept == WSpec => NothingOverwritten
<1> DEFINE Kept2(u) ==
      \E p \in Proc :
           LET j == job[p] IN
           /\ j.pc = "put" /\ j.user = u /\ job'[p] # j
           /\ \A r \in Ref :
                LET mine == ws[u].items[r] IN
                mine # Content(ws[u].base)[r] /\ ws'[u].items[r] # mine =>
                  \/ j.op \in {"reset", "load"}
                  \/ mine = Content(ws'[u].base)[r]
                  \/ j.op = "resolve" /\ j.item.ref = r /\ j.item.theirs
                  \/ /\ j.op = "write" /\ j.item.ref = r
                     /\ \/ mine = j.view.items[r]
                        \/ \E c \in ws'[u].conflicts : c.ref = r /\ c.pinned /\ c.theirs = mine
<1>1. ASSUME WInv, [WNext]_vars, NEW u \in User, Kept(u), ws'[u] # ws[u] PROVE Kept2(u)
  <2>1. PICK p \in Proc : Put(p) BY <1>1, OtherSteps DEF WInv
  <2> DEFINE j == job[p]
  <2>2. /\ JobInv(j) /\ JobOK(j, revs, ws) /\ j.pc = "put" /\ ~Unchanged(j)
        /\ (Kept(j.user) => j.w = ws[j.user])
        /\ \A x \in User : ws'[x] = IF x = j.user THEN After(j) ELSE ws[x]
        /\ Finish(p, j)
    BY <1>1, <2>1, PutIs DEF WInv
  <2>3. j.user = u /\ ws'[u] = After(j) /\ j.w = ws[u] BY <1>1, <2>2
  <2>4. job'[p] # j
    <3>1. Idle.pc # "put" BY DEF Idle
    <3>2. p \in DOMAIN job BY <1>1 DEF WInv, WorkspaceInv
    <3>3. CASE job' = [job EXCEPT ![p] = Idle]
      <4>1. job'[p] = Idle BY <3>2, <3>3
      <4> QED BY <2>2, <3>1, <4>1
    <3>4. CASE \E ids : job' = [job EXCEPT ![p] = [Start("discard", j.op, j.user) EXCEPT !.todo = ids]]
      <4>1. PICK ids : job'[p] = [Start("discard", j.op, j.user) EXCEPT !.todo = ids] BY <3>2, <3>4
      <4> DEFINE k == [Start("discard", j.op, j.user) EXCEPT !.todo = ids]
      <4>2. k.pc = "discard" /\ job'[p] = k BY <4>1 DEF Start, Idle
      <4> HIDE DEF k
      <4> QED BY <2>2, <4>2
    <3> QED BY <1>1, <2>2, <3>3, <3>4, FinishIs DEF WInv
  <2>5. ASSUME NEW r \in Ref, ws[u].items[r] # Content(ws[u].base)[r], ws'[u].items[r] # ws[u].items[r]
        PROVE \/ j.op \in {"reset", "load"}
              \/ ws[u].items[r] = Content(ws'[u].base)[r]
              \/ j.op = "resolve" /\ j.item.ref = r /\ j.item.theirs
              \/ /\ j.op = "write" /\ j.item.ref = r
                 /\ \/ ws[u].items[r] = j.view.items[r]
                    \/ \E c \in ws'[u].conflicts : c.ref = r /\ c.pinned /\ c.theirs = ws[u].items[r]
    BY SMTT(20), Z3T(20), <1>1, <2>2, <2>3, <2>5, AfterKeeps DEF WInv, StoreInv
  <2> QED BY <2>2, <2>3, <2>4, <2>5
<1>2. WInv /\ [WNext]_vars => [\A u \in User : Kept(u) /\ ws'[u] # ws[u] => Kept2(u)]_vars BY <1>1
<1> QED BY <1>2, WInvAlways, PTL DEF WSpec, NothingOverwritten

\* At most one revision is published, whatever administrators and the
\* command line do at once (package revision, core/revision/revision.go).
THEOREM AtMostOnePublished == WSpec => []OnePublished
<1>1. StoreInv /\ [WNext]_vars => StoreInv' BY OnlyStoreSteps, StoreInvStep
<1> QED BY <1>1, StoreInvInit, PTL DEF WSpec, StoreInv

\* A revision keeps its content and its parent, and its state changes in
\* order: no operation of the store (x/configstore/sqlstore.go) brings back
\* a revision that was discarded, superseded or rolled back.
THEOREM RevisionsLiveOnce == WSpec => Lifecycle
<1>1. StoreInv /\ [WNext]_vars => StoreInv' BY OnlyStoreSteps, StoreInvStep
<1>2. StoreInv /\ [WNext]_vars => [\A i \in Ids : Alive(i)]_store
  BY OnlyStoreSteps, StoreInvStep
<1> QED BY <1>1, <1>2, StoreInvInit, PTL DEF WSpec, Lifecycle

\* A workspace moves back by a reset only: whatever was published, loaded,
\* merged or committed between the read and the write of an operation, the
\* version it writes at and errPublishedMoved keep it from taking the
\* workspace to an older base (x/workspaceops apply, MergeDraft, Load).
THEOREM WorkspacesMoveForward == WSpec => BasesMoveForward
<1> DEFINE Forward ==
      \A u \in User : Back(u) =>
         \E p \in Proc : job[p].pc = "put" /\ job[p].user = u /\ job[p].op = "reset" /\ job'[p] # job[p]
<1>1. WInit => StoreInv /\ WorkspaceInv BY StoreInvInit, WorkspaceInvInit
<1>2. ASSUME StoreInv, WorkspaceInv, [WNext]_vars PROVE StoreInv' /\ WorkspaceInv' /\ Forward
  <2>1. StoreInv' BY <1>2, OnlyStoreSteps, StoreInvStep
  <2>2. CASE \E p \in Proc : Put(p) BY <1>2, <2>1, <2>2, PutStep
  <2>3. CASE ~\E p \in Proc : Put(p)
    <3>1. WorkspaceInv' /\ UNCHANGED ws BY <1>2, <2>3, OtherSteps
    <3>2. Forward BY SMTT(20), Z3T(20), <1>2, <3>1 DEF Back, WorkspaceInv, Row
    <3> QED BY <2>1, <3>1, <3>2
  <2> QED BY <2>2, <2>3
<1>3. Forward => [\A u \in User : Kept(u) /\ ws'[u].base < ws[u].base =>
         \E p \in Proc : job[p].pc = "put" /\ job[p].user = u /\ job[p].op = "reset" /\ job'[p] # job[p]]_vars
  BY DEF Back
<1> QED BY <1>1, <1>2, <1>3, PTL DEF WSpec, BasesMoveForward

-----------------------------------------------------------------------------
(* Induction over the rounds of a computation.  The induction theorems of   *)
(* the library take a predicate, which no prover can be given; that a set   *)
(* of numbers has a least one is enough.                                    *)

\* A set of numbers has a least one.
LEMMA Least == ASSUME NEW S \in SUBSET Nat, S # {} PROVE \E m \in S : \A k \in S : m <= k
<1>1. PICK m \in S : \A k \in S : ~(<<k, m>> \in Finite!OpToRel(<, Nat)) BY Finite!NatLessThanWellFounded, Finite!WFMin
<1>2. \A k \in S : ~(k < m) BY <1>1 DEF Finite!OpToRel
<1> QED BY SMTT(20), Z3T(20), <1>2

\* What holds at 0 and of each number after one it holds of holds up to N.
LEMMA UpTo ==
    ASSUME NEW N \in Nat, NEW S, 0 \in S, \A n \in 0..(N - 1) : n \in S => n + 1 \in S
    PROVE \A n \in 0..N : n \in S
<1>1. PICK T : T = (0..N) \ S OBVIOUS
<1> SUFFICES ASSUME T # {} PROVE FALSE BY <1>1
<1>2. PICK m \in T : \A k \in T : m <= k
  <2>1. T \in SUBSET Nat BY SMTT(20), Z3T(20), <1>1
  <2> QED BY <2>1, Least
<1>3. m # 0 BY <1>1
<1>4. m - 1 \in 0..(N - 1) /\ m - 1 \in S /\ m - 1 + 1 = m BY <1>1, <1>2, <1>3
<1> QED BY <1>1, <1>4

\* g is N rounds of F from a.
Iterates(g, F, a, V, N) == g \in [0..N -> V] /\ g[0] = a /\ \A i \in 1..N : g[i] = F[g[i - 1]]

\* A function may be applied any number of times.
LEMMA Rounds == ASSUME NEW V, NEW F \in [V -> V], NEW a \in V, NEW N \in Nat PROVE \E g : Iterates(g, F, a, V, N)
<1>0. PICK S : S = {n \in 0..N : \E g : Iterates(g, F, a, V, n)} OBVIOUS
<1>1. 0 \in S
  <2> DEFINE g == [i \in 0..0 |-> a]
  <2>1. Iterates(g, F, a, V, 0) BY DEF Iterates
  <2> HIDE DEF g
  <2> QED BY <1>0, <2>1
<1>2. ASSUME NEW n \in 0..(N - 1), n \in S PROVE n + 1 \in S
  <2>1. PICK g : Iterates(g, F, a, V, n) BY <1>0, <1>2
  <2> DEFINE h == [i \in 0..(n + 1) |-> IF i = n + 1 THEN F[g[n]] ELSE g[i]]
  <2>2. h \in [0..(n + 1) -> V] /\ h[0] = a BY SMTT(20), Z3T(20), <2>1 DEF Iterates
  <2>3. ASSUME NEW i \in 1..(n + 1) PROVE h[i] = F[h[i - 1]]
    <3>1. CASE i = n + 1 BY <3>1
    <3>2. CASE i # n + 1 BY SMTT(20), Z3T(20), <2>1, <3>2 DEF Iterates
    <3> QED BY <3>1, <3>2
  <2> HIDE DEF h
  <2>4. Iterates(h, F, a, V, n + 1) BY <2>2, <2>3 DEF Iterates
  <2>5. n + 1 \in 0..N OBVIOUS
  <2> QED BY <1>0, <2>4, <2>5
<1>3. N \in S BY SMTT(20), Z3T(20), <1>1, <1>2, UpTo
<1> QED BY <1>0, <1>3


-----------------------------------------------------------------------------
(* What a draft builds on.                                                 *)

\* Revisions follow their parents, and once one was published one is.
Linked(rs) == \A i \in DOMAIN rs : rs[i].parent \in DOMAIN rs \cup {0} /\ rs[i].parent < i
Serves(rs) == Out(rs) # {} => \E i \in DOMAIN rs : rs[i].state = "published"
Chained(rs) == Linked(rs) /\ Serves(rs)

\* From a revision to the one it builds on.
Up(x) == IF x \in OncePublished \cup {0} THEN x ELSE revs[x].parent

\* The rounds of BasedOn, one by one.
LEMMA BasedOnRounds ==
    ASSUME Rows, Linked(revs), NEW id \in Ids, NEW C, C = Cardinality(Ids)
    PROVE /\ C \in Nat /\ C # 0
          /\ \E h \in [0..C -> Ids \cup {0}] :
               /\ h[0] = id /\ \A n \in 1..C : h[n] = Up(h[n - 1])
               /\ BasedOn(id) = IF h[C] \in OncePublished THEN h[C] ELSE 0
<1>1. C \in Nat /\ C # 0
  <2>1. Ids \subseteq 1..nextID BY SMTT(20), Z3T(20) DEF Rows
  <2>2. IsFiniteSet(1..nextID) BY SMTT(20), Z3T(20), Sizes, Finite!FS_Interval DEF Rows
  <2>3. IsFiniteSet(Ids) BY <2>1, <2>2, Sizes, Finite!FS_Subset
  <2> QED BY <2>3, Sizes, Finite!FS_CardinalityType, Finite!FS_EmptySet
<1>2. PICK V, F : V = Ids \cup {0} /\ F = [x \in V |-> Up(x)] OBVIOUS
<1>3. F \in [V -> V] BY <1>2 DEF Up, Linked, Ids
<1>4. PICK g : Iterates(g, F, id, V, C) BY <1>1, <1>2, <1>3, Rounds
<1>5. ASSUME NEW n \in 0..C PROVE g[n] = IF n = 0 THEN id ELSE Up(g[n - 1])
  <2>1. CASE n = 0 BY <1>4, <2>1 DEF Iterates
  <2>2. CASE n # 0
    <3>1. n \in 1..C /\ n - 1 \in 0..C BY <1>1, <2>2
    <3> QED BY <1>2, <1>4, <2>2, <3>1 DEF Iterates
  <2> QED BY <2>1, <2>2
<1>6. g = [n \in 0..C |-> IF n = 0 THEN id ELSE Up(g[n - 1])]
  <2>1. g = [n \in 0..C |-> g[n]] BY <1>4 DEF Iterates
  <2> QED BY <1>5, <2>1
<1>7. PICK h : h = CHOOSE x : x = [n \in 0..C |-> IF n = 0 THEN id ELSE Up(x[n - 1])] OBVIOUS
<1>8. h = [n \in 0..C |-> IF n = 0 THEN id ELSE Up(h[n - 1])] BY <1>6, <1>7
<1>9. BasedOn(id) = IF h[C] \in OncePublished THEN h[C] ELSE 0 BY <1>7 DEF BasedOn, Up
<1>10. h[0] = id /\ \A n \in 1..C : h[n] = Up(h[n - 1])
  <2>1. \A n \in 0..C : h[n] = IF n = 0 THEN id ELSE Up(h[n - 1]) BY <1>8
  <2> QED BY SMTT(20), Z3T(20), <1>1, <2>1
<1>11. \A n \in 0..C : h[n] \in V
  <2>0. PICK S : S = {n \in 0..C : h[n] \in V} OBVIOUS
  <2>1. 0 \in S BY SMTT(20), Z3T(20), <1>1, <1>2, <1>10, <2>0
  <2>2. ASSUME NEW n \in 0..(C - 1), n \in S PROVE n + 1 \in S
    <3>1. n + 1 \in 1..C /\ n + 1 \in 0..C /\ n + 1 - 1 = n BY <1>1
    <3>2. h[n + 1] = Up(h[n]) BY SMTT(20), Z3T(20), <1>10, <3>1
    <3>3. h[n + 1] \in V BY <1>2, <1>3, <2>0, <2>2, <3>2
    <3> QED BY <2>0, <3>1, <3>3
  <2>3. \A n \in 0..C : n \in S BY <1>1, <2>1, <2>2, UpTo
  <2> QED BY <2>0, <2>3
<1>12. h \in [0..C -> V]
  <2>1. h = [n \in 0..C |-> h[n]] BY <1>8
  <2> QED BY <1>11, <2>1
<1> QED BY <1>1, <1>2, <1>9, <1>10, <1>12

\* What a revision builds on is no newer than it is.
LEMMA BasedBefore == ASSUME Rows, Linked(revs), NEW id \in Ids PROVE BasedOn(id) <= id
<1>0. PICK C : C = Cardinality(Ids) OBVIOUS
<1>1. C \in Nat BY <1>0, BasedOnRounds
<1>2. PICK h \in [0..C -> Ids \cup {0}] :
          /\ h[0] = id /\ \A n \in 1..C : h[n] = Up(h[n - 1])
          /\ BasedOn(id) = IF h[C] \in OncePublished THEN h[C] ELSE 0
  BY <1>0, BasedOnRounds
<1>3. \A x \in Ids \cup {0} : x \in Nat BY SMTT(20), Z3T(20) DEF Rows
<1>4. PICK S : S = {n \in 0..C : h[n] <= id} OBVIOUS
<1>5. 0 \in S BY <1>1, <1>2, <1>3, <1>4
<1>6. ASSUME NEW n \in 0..(C - 1), n \in S PROVE n + 1 \in S
  <2>1. n \in 0..C /\ n + 1 \in 1..C /\ n + 1 \in 0..C /\ n + 1 - 1 = n BY <1>1
  <2>2. h[n] \in Ids \cup {0} /\ h[n + 1] \in Ids \cup {0} /\ h[n + 1] = Up(h[n]) /\ h[n] <= id BY SMTT(20), Z3T(20), <1>2, <1>4, <1>6, <2>1
  <2>3. h[n + 1] = h[n] \/ (h[n] \in Ids /\ h[n + 1] = revs[h[n]].parent) BY <2>2 DEF Up
  <2>4. h[n + 1] <= h[n] BY <1>3, <2>2, <2>3 DEF Linked, Ids
  <2>5. h[n + 1] <= id BY SMTT(20), Z3T(20), <1>3, <2>2, <2>4
  <2> QED BY <1>4, <2>1, <2>5
<1>7. h[C] <= id
  <2>1. \A n \in 0..C : n \in S BY <1>1, <1>5, <1>6, UpTo
  <2> QED BY SMTT(20), Z3T(20), <1>1, <1>4, <2>1
<1> QED BY SMTT(20), Z3T(20), <1>2, <1>3, <1>7

\* A draft whose parent was published builds on it.
LEMMA BasedOnParent ==
    ASSUME Rows, Linked(revs), NEW id \in Ids, id \notin OncePublished, revs[id].parent \in OncePublished
    PROVE BasedOn(id) = revs[id].parent
<1>0. PICK C, p : C = Cardinality(Ids) /\ p = revs[id].parent OBVIOUS
<1>1. C \in Nat /\ C # 0 BY <1>0, BasedOnRounds
<1>2. PICK h \in [0..C -> Ids \cup {0}] :
          /\ h[0] = id /\ \A n \in 1..C : h[n] = Up(h[n - 1])
          /\ BasedOn(id) = IF h[C] \in OncePublished THEN h[C] ELSE 0
  BY <1>0, BasedOnRounds
<1>3. id # 0 BY DEF Rows
<1>4. PICK S : S = {n \in 0..C : n = 0 \/ h[n] = p} OBVIOUS
<1>5. 0 \in S BY SMTT(20), Z3T(20), <1>1, <1>4
<1>6. ASSUME NEW n \in 0..(C - 1), n \in S PROVE n + 1 \in S
  <2>1. n \in 0..C /\ n + 1 \in 1..C /\ n + 1 \in 0..C /\ n + 1 - 1 = n BY SMTT(20), Z3T(20), <1>1
  <2>2. h[n + 1] = Up(h[n]) BY SMTT(20), Z3T(20), <1>2, <2>1
  <2>3. h[n + 1] = p
    <3>1. CASE n = 0 BY <1>0, <1>2, <1>3, <2>2, <3>1 DEF Up
    <3>2. CASE n # 0 BY <1>0, <1>4, <1>6, <2>2, <3>2 DEF Up
    <3> QED BY <3>1, <3>2
  <2> QED BY <1>4, <2>1, <2>3
<1>7. h[C] = p
  <2>1. \A n \in 0..C : n \in S BY <1>1, <1>5, <1>6, UpTo
  <2> QED BY SMTT(20), Z3T(20), <1>1, <1>4, <2>1
<1> QED BY <1>0, <1>2, <1>7

-----------------------------------------------------------------------------
(* What is published, and over what.                                       *)

\* A new revision, with an existing parent, leaves revisions chained.
LEMMA LinkedNew ==
    ASSUME StoreInv, Linked(revs), \A i \in Ids : Alive(i), NEW parent \in Ids \cup {0},
           DOMAIN revs' = Ids \cup {nextID}, revs'[nextID].parent = parent
    PROVE Linked(revs')
<1>1. parent \in Nat /\ parent < nextID BY SMTT(20), Z3T(20) DEF StoreInv, Rows
<1>2. \A i \in Ids : revs'[i].parent = revs[i].parent BY DEF Alive
<1>3. ASSUME NEW i \in DOMAIN revs' PROVE revs'[i].parent \in DOMAIN revs' \cup {0} /\ revs'[i].parent < i
  <2>1. CASE i = nextID BY <1>1, <2>1
  <2>2. CASE i # nextID BY <1>2, <2>2 DEF Linked, Ids
  <2> QED BY <2>1, <2>2
<1> QED BY <1>3 DEF Linked

\* So does a step that adds none.
LEMMA LinkedSame ==
    ASSUME Linked(revs), \A i \in Ids : Alive(i), DOMAIN revs' = Ids
    PROVE Linked(revs')
BY DEF Linked, Alive, Ids

\* A published revision that stays so is the one published.
LEMMA ServesBy == ASSUME NEW rs, NEW i \in DOMAIN rs, rs[i].state = "published" PROVE Serves(rs)
BY DEF Serves

\* A draft is created: the same revisions are published.
LEMMA CreateSame ==
    ASSUME StoreInv, NEW parent, NEW payload, NEW by, Create(parent, payload, by)
    PROVE /\ DOMAIN revs' = Ids \cup {nextID} /\ revs'[nextID].parent = parent
          /\ \A i \in Ids : Alive(i)
          /\ InState("published")' = InState("published") /\ Out(revs') = Out(revs)
<1>1. DOMAIN revs' = Ids \cup {nextID} /\ nextID \notin Ids BY SMTT(20), Z3T(20) DEF Create, With, StoreInv, Rows
<1>2. \A i \in Ids : revs'[i] = revs[i] BY <1>1 DEF Create, With
<1>3. revs'[nextID] = Draft(parent, payload, by) BY DEF Create, With
<1>4. revs'[nextID].parent = parent /\ revs'[nextID].state = "draft" BY <1>3 DEF Draft
<1>5. \A i \in Ids : Alive(i) BY CreateStep
<1>6. InState("published")' = InState("published") BY <1>1, <1>2, <1>4 DEF InState, Ids
<1>7. Out(revs') = Out(revs) BY <1>1, <1>2, <1>4 DEF Out, Ids, Unpublished
<1> QED BY <1>1, <1>4, <1>5, <1>6, <1>7

\* A draft is discarded: the same.
LEMMA DiscardSame ==
    ASSUME StoreInv, NEW id, Discard(id)
    PROVE /\ DOMAIN revs' = Ids /\ \A i \in Ids : Alive(i)
          /\ InState("published")' = InState("published") /\ Out(revs') = Out(revs)
<1>1. id \in Ids /\ revs[id].state = "draft" BY DEF Discard, InState
<1>2. DOMAIN revs' = Ids /\ \A i \in Ids \ {id} : revs'[i] = revs[i] BY <1>1 DEF Discard, Ids
<1>3. revs'[id] = [revs[id] EXCEPT !.state = "discarded"] BY <1>1 DEF Discard, Ids
<1>4. DOMAIN revs[id] = {"parent", "payload", "state", "at", "by"} BY <1>1 DEF StoreInv, Rows
<1>5. revs'[id].state = "discarded" BY <1>3, <1>4
<1>6. \A i \in Ids : Alive(i) BY DiscardStep
<1>7. InState("published")' = InState("published") BY <1>1, <1>2, <1>5 DEF InState, Ids
<1>8. Out(revs') = Out(revs) BY <1>1, <1>2, <1>5 DEF Out, Ids, Unpublished
<1> QED BY <1>2, <1>6, <1>7, <1>8

\* A draft is published: it is what is published then.
LEMMA PublishMoves ==
    ASSUME StoreInv, NEW id, NEW expected, Publish(id, expected)
    PROVE /\ id \in Ids /\ revs[id].state = "draft" /\ Published = expected
          /\ DOMAIN revs' = Ids /\ \A i \in Ids : Alive(i)
          /\ revs'[id].state = "published" /\ Published' = id
<1> DEFINE s == "superseded"
<1>1. id \in Ids /\ revs[id].state = "draft" /\ Published = expected BY DEF Publish, InState
<1>2. id # Published BY <1>1, PublishedState DEF StoreInv
<1>3. DOMAIN Replaced(s) = Ids /\ DOMAIN revs' = Ids BY ReplacedIs DEF Publish, StoreInv
<1>4. revs'[id] = [revs[id] EXCEPT !.state = "published", !.at = Now]
  BY <1>1, <1>2, <1>3 DEF Publish, Replaced
<1>5. DOMAIN revs[id] = {"parent", "payload", "state", "at", "by"} BY <1>1 DEF StoreInv, Rows
<1>6. revs'[id].state = "published" BY <1>4, <1>5
<1>7. OnePublished' /\ \A i \in Ids : Alive(i) BY PublishStep DEF StoreInv
<1>8. id \in InState("published")' BY <1>1, <1>3, <1>6 DEF InState, Ids
<1>9. Published' = id BY <1>7, <1>8 DEF OnePublished, Published
<1> QED BY <1>1, <1>3, <1>6, <1>7, <1>9

\* A revision is restored as a new one, and that is what is published then.
LEMMA RollbackMoves ==
    ASSUME StoreInv, NEW expected, NEW target, NEW by, Rollback(expected, target, by)
    PROVE /\ DOMAIN revs' = Ids \cup {nextID} /\ \A i \in Ids : Alive(i)
          /\ revs'[nextID].state = "published" /\ Published' = nextID
          /\ revs'[nextID].parent \in Ids
<1>1. PICK source \in RollbackTarget(expected, target) :
        revs' = [i \in Ids \cup {nextID} |->
                   IF i = nextID
                   THEN [Draft(source, revs[source].payload, by) EXCEPT !.state = "published", !.at = Now]
                   ELSE Replaced("rolled-back")[i]]
  BY DEF Rollback
<1>2. source \in Ids BY DEF RollbackTarget, OncePublished, Earlier, InState
<1>3. DOMAIN revs' = Ids \cup {nextID} BY <1>1
<1>4. revs'[nextID] = [Draft(source, revs[source].payload, by) EXCEPT !.state = "published", !.at = Now] BY <1>1
<1>5. revs'[nextID].state = "published" /\ revs'[nextID].parent = source BY <1>4 DEF Draft
<1>6. OnePublished' /\ \A i \in Ids : Alive(i) BY RollbackStep DEF StoreInv
<1>7. nextID \in InState("published")' BY <1>3, <1>5 DEF InState, Ids
<1>8. Published' = nextID BY <1>6, <1>7 DEF OnePublished, Published
<1> QED BY <1>2, <1>3, <1>5, <1>6, <1>8

\* The store keeps revisions chained, if the histories imported are.
LEMMA ChainedStep ==
    ASSUME \A h \in History : Chained(h), StoreInv, Chained(revs), TypedStep
    PROVE Chained(revs')
<1> USE DEF Chained
<1>0. ASSUME InState("published")' = InState("published"), Out(revs') = Out(revs) PROVE Serves(revs')
  <2> SUFFICES ASSUME Out(revs') # {} PROVE \E i \in DOMAIN revs' : revs'[i].state = "published" BY DEF Serves
  <2>1. PICK i \in Ids : revs[i].state = "published" BY <1>0 DEF Serves, Ids
  <2>2. i \in InState("published")' BY <1>0, <2>1 DEF InState
  <2> QED BY <2>2 DEF InState, Ids
<1>1. ASSUME NEW parent \in Ids \cup {0}, NEW payload \in Payload, NEW by \in Author, Create(parent, payload, by)
      PROVE Chained(revs')
  BY <1>0, <1>1, CreateSame, LinkedNew
<1>2. ASSUME NEW id, NEW expected, Publish(id, expected) PROVE Chained(revs')
  BY <1>2, PublishMoves, LinkedSame, ServesBy
<1>3. ASSUME NEW id, Discard(id) PROVE Chained(revs')
  BY <1>0, <1>3, DiscardSame, LinkedSame
<1>4. ASSUME NEW expected, NEW target, NEW by \in Author, Rollback(expected, target, by) PROVE Chained(revs')
  <2>1. /\ DOMAIN revs' = Ids \cup {nextID} /\ \A i \in Ids : Alive(i)
        /\ revs'[nextID].state = "published" /\ revs'[nextID].parent \in Ids
    BY <1>4, RollbackMoves
  <2>2. Linked(revs') BY <2>1, LinkedNew
  <2>3. Serves(revs') BY <2>1, ServesBy
  <2> QED BY <2>2, <2>3
<1>5. ASSUME NEW h \in History, ImportHistory(h) PROVE Chained(revs')
  BY <1>5 DEF ImportHistory
<1>6. CASE UNCHANGED store BY <1>6 DEF store
<1> QED BY <1>1, <1>2, <1>3, <1>4, <1>5, <1>6 DEF TypedStep

Over == Published' # Published => Published' > Published /\ (Published' \in Ids => BasedOn(Published') = Published)

\* A draft published over the revision it builds on, or over none.
LEMMA PublishOver ==
    ASSUME StoreInv, Chained(revs), NEW id, NEW expected, Publish(id, expected),
           Publishable(id) \/ (revs[id].parent = Published /\ Published \in OncePublished)
    PROVE Over
<1>1. id \in Ids /\ revs[id].state = "draft" /\ Published' = id BY PublishMoves
<1>2. id \notin OncePublished /\ id \in Nat /\ id # 0 /\ Published \in Nat
  BY <1>1, PublishedType DEF OncePublished, Unpublished, StoreInv, Rows
<1>3. Rows /\ Linked(revs) BY DEF StoreInv, Chained
<1>4. BasedOn(id) = Published
  <2>1. CASE revs[id].parent = Published /\ Published \in OncePublished BY <1>1, <1>2, <1>3, <2>1, BasedOnParent
  <2>2. CASE Publishable(id) /\ Published # 0 BY <2>2 DEF Publishable
  <2>3. CASE Published = 0
    <3>1. InState("published") = {} BY <2>3, <1>3 DEF Published, Rows, InState
    <3>2. Out(revs) = {} BY <3>1 DEF Chained, Serves, InState, Ids
    <3>3. OncePublished = {} BY <3>2 DEF Out, OncePublished, Ids
    <3> QED BY SMTT(20), Z3T(20), <2>3, <3>3 DEF BasedOn
  <2> QED BY <2>1, <2>2, <2>3
<1>5. Published # id BY <1>1, PublishedState DEF StoreInv
<1>6. Published <= id BY <1>1, <1>3, <1>4, BasedBefore
<1>7. id > Published BY SMTT(20), Z3T(20), <1>2, <1>5, <1>6
<1> QED BY <1>1, <1>4, <1>7 DEF Over

\* Whatever a step publishes.
LEMMA OverStep == ASSUME WInv, Chained(revs), [WNext]_vars PROVE Over
<1> USE DEF WInv
<1>1. ASSUME NEW p \in Proc, PublishStore(p) PROVE Over
  <2>1. job[p].pc = "store" /\ Publish(job[p].draft, job[p].at) BY <1>1 DEF PublishStore, At
  <2>2. JobOK(job[p], revs, ws) /\ job[p].op \in Saves BY <2>1 DEF Jobs, WorkspaceInv, JobInv
  <2>3. /\ job[p].at = job[p].view.base /\ Good(job[p].view, revs)
        /\ revs[job[p].draft].parent = job[p].view.base
    BY <2>1, <2>2 DEF JobOK
  <2>4. Published = job[p].at BY <2>1 DEF Publish
  <2>5. Published \in OncePublished BY <2>3, <2>4 DEF Good, Out, OncePublished, Ids
  <2> QED BY <2>1, <2>3, <2>4, <2>5, PublishOver
<1>2. ASSUME NEW id, CliPublish(id) PROVE Over BY <1>2, PublishOver DEF CliPublish
<1>3. ASSUME NEW parent, NEW payload, NEW by, Create(parent, payload, by) PROVE Over
  <2>1. InState("published")' = InState("published") BY <1>3, CreateSame
  <2> QED BY <2>1 DEF Over, Published
<1>4. ASSUME NEW id, Discard(id) PROVE Over
  <2>1. InState("published")' = InState("published") BY <1>4, DiscardSame
  <2> QED BY <2>1 DEF Over, Published
<1>5. ASSUME NEW expected, NEW target, NEW by, Rollback(expected, target, by) PROVE Over
  <2>1. Published' = nextID BY <1>5, RollbackMoves
  <2>2. nextID \notin Ids /\ nextID \in Nat /\ nextID # 0 BY SMTT(20), Z3T(20) DEF StoreInv, Rows
  <2>3. nextID > Published
    <3>1. Published \in Nat /\ (Published # 0 => Published \in Ids) BY PublishedType DEF StoreInv, InState
    <3> QED BY SMTT(20), Z3T(20), <2>2, <3>1 DEF StoreInv, Rows
  <2> QED BY <2>1, <2>2, <2>3 DEF Over
<1>6. ASSUME NEW h \in History, ImportHistory(h) PROVE Over
  <2>1. Ids = {} BY <1>6 DEF ImportHistory
  <2>2. Published = 0 BY <2>1 DEF Published, InState
  <2>3. Rows' BY <1>6, ImportStep DEF StoreInv
  <2>4. Published' \in Nat BY <2>3 DEF Rows, Published, InState
  <2> QED BY SMTT(20), Z3T(20), <2>1, <2>2, <2>4 DEF Over
<1>7. CASE UNCHANGED store
  <2>1. InState("published")' = InState("published") BY <1>7 DEF store, InState, Ids
  <2> QED BY <2>1 DEF Over, Published
<1>8. ASSUME NEW p \in Proc, Steps(p) PROVE Over
  <2>1. CASE Build(p) BY <1>3, <2>1 DEF Build
  <2>2. CASE PublishStore(p) BY <1>1, <2>2
  <2>3. CASE RollbackStore(p) BY <1>5, <2>3 DEF RollbackStore
  <2>4. CASE DiscardNext(p) BY <1>4, <1>7, <2>4 DEF DiscardNext
  <2>5. CASE Put(p) BY <1>7, <2>5 DEF Put
  <2> QED
    BY <1>7, <1>8, <2>1, <2>2, <2>3, <2>4, <2>5
    DEF Steps, ReadPublished, Load, NothingToWrite, ReadAgain, PutRetries, PutFails, BuildFails, PublishCheck,
        PublishFails, PublishRefused, RollbackRefused, DiscardFails, Cut, untouched
<1>9. ASSUME NEW p \in Proc, NEW j, Begin(p, j) PROVE Over BY <1>7, <1>9 DEF Begin
<1>10. CASE \E p \in Proc : \E to \in OncePublished \cup {0} : BeginRollback(p, to)
  BY <1>9, <1>10 DEF BeginRollback
<1>11. CASE \E p \in Proc, u \in User :
         \/ \E r \in Ref, v \in Value : BeginWrite(p, u, r, v)
         \/ \E op \in {"update", "reset"}, to \in OncePublished : BeginMove(p, u, op, to)
         \/ \E op \in {"merge", "load", "keep"}, rev \in Ids : BeginTake(p, u, op, rev)
         \/ \E op \in {"checkpoint", "commit"} : BeginSave(p, u, op)
         \/ Kept(u) /\ \E c \in ws[u].conflicts, theirs \in BOOLEAN : BeginResolve(p, u, c, theirs)
  <2>1. PICK p \in Proc : \E j : Begin(p, j)
    BY <1>11 DEF BeginWrite, BeginMove, BeginTake, BeginSave, BeginResolve
  <2> QED BY <1>9, <2>1
<1>12. CASE \E payload \in Payload : CliDraft(payload) BY <1>3, <1>12 DEF CliDraft
<1>13. CASE \E id \in Ids : CliPublish(id) \/ CliDiscard(id) BY <1>2, <1>4, <1>13 DEF CliDiscard
<1>14. CASE \E h \in History : Import(h) BY <1>6, <1>14 DEF Import
<1>15. CASE UNCHANGED vars BY <1>7, <1>15 DEF vars
<1> QED BY <1>8, <1>10, <1>11, <1>12, <1>13, <1>14, <1>15 DEF WNext

\* Where the histories imported are those of a store (parents come first, and
\* once something was published something is), a revision is published only
\* over the one it builds on, whatever was published between the check of
\* Service.Publish and its write, and revisions are published in the order of
\* their numbers (x/revisionops Publish, x/workspaceops Commit).
THEOREM PublishesInOrder ==
    ASSUME \A h \in History : Chained(h)
    PROVE WSpec => PublishesBuildOn
<1>1. WInit => WInv /\ Chained(revs)
  <2>1. WInit => Ids = {} BY DEF WInit, Init, Ids
  <2> QED BY <2>1, WInvInit DEF Chained, Linked, Serves, Out, Ids
<1>2. ASSUME WInv, Chained(revs), [WNext]_vars PROVE WInv' /\ Chained(revs)' /\ Over
  <2>1. WInv' /\ Over BY <1>2, WInvStep, OverStep
  <2>2. StoreInv /\ TypedStep BY <1>2, TypedSteps DEF WInv
  <2>3. Chained(revs') BY <1>2, <2>2, ChainedStep
  <2> QED BY <2>1, <2>3
<1>3. Over => [Published' # Published =>
                 /\ Published' > Published
                 /\ Published' \in Ids => BasedOn(Published') = Published]_vars
  BY DEF Over
<1> QED BY <1>1, <1>2, <1>3, PTL DEF WSpec, PublishesBuildOn
=============================================================================
