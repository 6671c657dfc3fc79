----------------------------- MODULE Workspaces -----------------------------
(***************************************************************************)
(* Configuration versioning: administrators edit workspaces, in any number *)
(* of consoles and with agents, and commit them as revisions               *)
(* (x/workspaceops, core/workspace), while others create, publish, restore *)
(* and discard revisions (x/revisionops).                                  *)
(*                                                                         *)
(* An operation reads revisions and workspaces, builds what it writes, and *)
(* writes it at the version it read; each read and each write of a store   *)
(* is a step, so anything may happen between them.  Items hold opaque      *)
(* values, one of which may stand for an item that is missing, and are     *)
(* merged whole.  Notes and the log of a workspace are left out, and so    *)
(* are renames (a write of two items).                                     *)
(***************************************************************************)
EXTENDS Revisions

CONSTANTS
    User,       \* administrators
    Proc,       \* operations in progress at once
    Ref,        \* the items of a configuration
    Value,      \* their values
    Cli,        \* the author of the revisions of the command line
    None,       \* no value
    Attempts,   \* how often an operation reads the workspace again
    MaxVersion, \* bound of the model: the versions of a workspace
    MaxOps      \* bound of the model: the operations begun

ASSUME ContentAssumption == Payload = [Ref -> Value] /\ Author = User \cup {Cli}
ASSUME WorkspaceNone == None \notin Value
ASSUME AttemptsAssumption == Attempts \in Nat \ {0}
ASSUME CliAssumption == Cli \notin User

VARIABLES
    ws,        \* the workspaces kept, by administrator
    job,       \* the operation each process is in
    ops,       \* how many operations were begun, the command line's drafts too
    seen,      \* history: for an item changed in a workspace, the base's
               \* value whoever changed it knew of
    dropped    \* history: drafts nobody is to discard any more: those a
               \* workspace forgot, those imported, and those left by a
               \* failure of the discard or by the end of the process

vars == <<store, ws, job, ops, seen, dropped>>

-----------------------------------------------------------------------------
\* A workspace row.
Workspace ==
    [base : Nat, items : Payload, conflicts : SUBSET
        [ref : Ref, kind : {"published", "draft", "workspace"}, id : Nat, pinned : BOOLEAN,
         theirs : Value \cup {None}, born : Nat],
     taken : SUBSET Nat, checkpoint : Nat, checkpointAt : Nat, version : Nat]

Content(id) == revs[id].payload

\* load: an administrator's workspace; one never written is the published
\* revision, at version 0.
Unwritten ==
    [base |-> Published, items |-> Content(Published), conflicts |-> {}, taken |-> {},
     checkpoint |-> 0, checkpointAt |-> 0, version |-> 0]
Absent ==
    [base |-> 0, items |-> None, conflicts |-> {}, taken |-> {},
     checkpoint |-> 0, checkpointAt |-> 0, version |-> 0]
Kept(u) == ws[u].version # 0
Readable(u) == Kept(u) \/ Published # 0
Forget(w) == [w EXCEPT !.conflicts = {}, !.taken = {}, !.checkpoint = 0, !.checkpointAt = 0]

\* What a writer keeps of a workspace it read: its items and its base.
Seen(w) == [Forget(w) EXCEPT !.version = 0]
Read(u) == IF Kept(u) THEN ws[u] ELSE Unwritten

-----------------------------------------------------------------------------
(* Merging: from base to local and from base to next.                      *)
Merge(base, local, next) == IF local = base THEN next ELSE local
Clash(base, local, next) == local # base /\ next # base /\ next # local

\* The changes from old to local re-applied onto next, and the conflicts.
Replay(old, local, next) == [r \in Ref |-> Merge(old[r], local[r], next[r])]
Found(old, local, next, kind, id, pinned, born) ==
    {[ref |-> r, kind |-> kind, id |-> id, pinned |-> pinned,
      theirs |-> IF pinned THEN next[r] ELSE None, born |-> born] :
        r \in {q \in Ref : Clash(old[q], local[q], next[q])}}

\* A conflict stands while the workspace differs from the other side.
Open(now, base, c) == now[c.ref] # (IF c.pinned THEN c.theirs ELSE base[c.ref])
OpenConflicts(w) == {c \in w.conflicts : Open(w.items, Content(w.base), c)}

\* Mutant: what was just found is all that stands.
CarryFound(pending, found, now, base, onto) == found

\* The conflicts not resolved before, next to those just found; those
\* against the base stand, after an update, against the newest one (onto).
Carry(pending, found, now, base, onto) ==
    LET renewed(p) == IF p.pinned \/ onto = 0 THEN p ELSE [p EXCEPT !.kind = "published", !.id = onto]
        carried == {renewed(p) : p \in {q \in pending : Open(now, base, q) /\ \A f \in found : f.ref # q.ref}}
    IN carried \cup {f \in found : \A p \in carried : p.ref # f.ref}

\* moveOnto: the workspace on revision to, its changes since old re-applied.
MoveOnto(w, old, to) ==
    LET next == Content(to)
        now == Replay(old, w.items, next)
        found == Found(old, w.items, next, "published", to, FALSE, w.version + 1)
    IN [w EXCEPT !.items = now, !.base = to, !.conflicts = Carry(@, found, now, next, to)]

-----------------------------------------------------------------------------
(* What each operation makes of the workspace it read (w), in apply.       *)

Written(w, j) ==
    LET r == j.item.ref
        clash == Clash(j.view.items[r], j.item.value, w.items[r])
        now == [w.items EXCEPT ![r] = Merge(j.view.items[r], j.item.value, @)]
        found == IF clash
                 THEN {[ref |-> r, kind |-> "workspace", id |-> 0, pinned |-> TRUE,
                        theirs |-> w.items[r], born |-> w.version + 1]}
                 ELSE {}
    IN [w EXCEPT !.items = now, !.conflicts = Carry(@, found, now, Content(w.base), 0)]

Updated(w, j) == MoveOnto(w, Content(w.base), j.arg)

WasReset(w, j) == [Forget(w) EXCEPT !.items = Content(j.arg), !.base = j.arg]

Loaded(w, j) == [Forget(w) EXCEPT !.items = Content(j.arg), !.base = j.at]

\* Load with keep: what was changed here is re-applied onto revision arg.
LoadedOnto(w, j) ==
    LET now == Replay(Content(w.base), w.items, Content(j.arg))
        kind == IF revs[j.arg].state \in Unpublished THEN "draft" ELSE "published"
        found == Found(Content(w.base), w.items, Content(j.arg), kind, j.arg, TRUE, w.version + 1)
    IN [w EXCEPT !.items = now, !.base = j.at, !.conflicts = Carry(@, found, now, Content(j.at), j.at)]

\* A draft's changes join the workspace, on the published revision.
Moved(w, j) == IF w.base = j.at THEN w ELSE MoveOnto(w, Content(w.base), j.at)
Merged(w, j) ==
    LET onto == Content(j.at)
        moved == Moved(w, j)
        withDraft == Replay(Content(j.from), Content(j.arg), onto)
        now == Replay(onto, moved.items, withDraft)
        found == Found(Content(j.from), Content(j.arg), onto, "published", j.at, FALSE, w.version + 1)
            \cup Found(onto, moved.items, withDraft, "draft", j.arg, TRUE, w.version + 1)
    IN [moved EXCEPT !.items = now, !.conflicts = Carry(@, found, now, onto, 0), !.taken = @ \cup {j.arg}]

\* Mutant: the version alone tells that the draft holds the workspace.
CheckpointedAtVersion(w, j) ==
    [w EXCEPT !.taken = (@ \ {w.checkpoint}) \cup {j.draft}, !.checkpoint = j.draft,
              !.checkpointAt = IF w.version = j.view.version THEN w.version + 1 ELSE 0]

Checkpointed(w, j) ==
    [w EXCEPT !.taken = (@ \ {w.checkpoint}) \cup {j.draft}, !.checkpoint = j.draft,
              !.checkpointAt = IF w.version = j.view.version /\ w.base = j.view.base THEN w.version + 1 ELSE 0]

\* moveAfterCommit: what was written since the view that was published stays.
Committed(w, j) ==
    LET moved == IF w.base <= j.draft THEN MoveOnto(w, j.view.items, j.draft) ELSE w
    IN [moved EXCEPT !.taken = @ \ j.view.taken, !.checkpointAt = 0,
                     !.checkpoint = IF @ = j.view.checkpoint THEN 0 ELSE @]

\* The conflict an administrator resolves, by its ID.
Named(c, j) == c.born = j.item.born /\ c.ref = j.item.ref /\ c.pinned = j.item.pinned
Chosen(w, j) == CHOOSE c \in OpenConflicts(w) : Named(c, j)

Resolved(w, j) ==
    LET c == Chosen(w, j)
        other == IF c.pinned THEN c.theirs ELSE Content(w.base)[c.ref]
        now == IF j.item.theirs THEN [w.items EXCEPT ![c.ref] = other] ELSE w.items
    IN [w EXCEPT !.items = now,
                 !.conflicts = {d \in @ : d # c /\ Open(now, Content(w.base), d)}]

-----------------------------------------------------------------------------
Idle ==
    [pc |-> "idle", op |-> "none", user |-> None, arg |-> 0, item |-> None, view |-> None, w |-> None,
     at |-> 0, from |-> 0, draft |-> 0, tries |-> 0, rounds |-> 0, todo |-> {}]
Start(pc, op, u) == [Idle EXCEPT !.pc = pc, !.op = op, !.user = u]

\* An operation goes on at pc, or ends; an end discards what is left to do.
Goto(p, pc) == job' = [job EXCEPT ![p].pc = pc]
Return(p) == job' = [job EXCEPT ![p] = Idle]
Discarding(p, ids) ==
    IF ids = {} THEN Return(p)
    ELSE job' = [job EXCEPT ![p] = [Start("discard", @.op, @.user) EXCEPT !.todo = ids]]

\* Drafts nobody will discard.
LetGo(ids) == dropped' = dropped \cup (ids \cap InState("draft"))

At(p, pc) == job[p].pc = pc
Begin(p, j) ==
    /\ At(p, "idle") /\ ops < MaxOps
    /\ ops' = ops + 1 /\ job' = [job EXCEPT ![p] = j]
    /\ UNCHANGED <<store, ws, seen, dropped>>
untouched == <<store, ws, ops, seen, dropped>>

-----------------------------------------------------------------------------
(* Operations begin.                                                       *)

\* WriteItems: a writer read the workspace and wants r to hold v.
BeginWrite(p, u, r, v) ==
    /\ Readable(u) /\ Read(u).items[r] # v
    /\ Begin(p, [Start("load", "write", u) EXCEPT !.item = [ref |-> r, value |-> v], !.view = Seen(Read(u))])

\* Update and Reset move onto a revision that was published.
BeginMove(p, u, op, to) ==
    /\ to \in OncePublished /\ Readable(u)
    /\ Begin(p, [Start("put", op, u) EXCEPT !.arg = to, !.w = Read(u)])

\* Load takes any revision; MergeDraft one that builds on a published one.
BeginTake(p, u, op, rev) ==
    /\ rev \in Ids /\ (op = "merge" => BasedOn(rev) # 0)
    /\ Begin(p, [Start("published", op, u) EXCEPT !.arg = rev, !.from = BasedOn(rev)])

BeginResolve(p, u, c, theirs) ==
    /\ Kept(u) /\ c \in OpenConflicts(ws[u])
    /\ Begin(p, [Start("load", "resolve", u) EXCEPT
                    !.item = [born |-> c.born, ref |-> c.ref, pinned |-> c.pinned, theirs |-> theirs]])

\* Checkpoint and Commit read the workspace they save; conflicts block them.
\* A commit is of the version and the base its reviewer saw: those it reads.
BeginSave(p, u, op) ==
    /\ Readable(u) /\ OpenConflicts(Read(u)) = {}
    /\ Begin(p, [Start("build", op, u) EXCEPT !.view = Read(u)])

-----------------------------------------------------------------------------
(* Reading what is published, loading and writing the workspace (apply).   *)

ReadPublished(p) ==
    /\ At(p, "published")
    /\ IF Published = 0 THEN Return(p)
       ELSE job' = [job EXCEPT ![p].at = Published, ![p].pc = "load"]
    /\ UNCHANGED untouched

Load(p) ==
    /\ At(p, "load") /\ Readable(job[p].user)
    /\ job' = [job EXCEPT ![p].w = Read(job[p].user), ![p].pc = "put"]
    /\ UNCHANGED untouched

\* Mutant: a workspace that moved on meanwhile is not noticed.
PublishedMovedNever(j) == FALSE

\* errPublishedMoved: the workspace builds on a revision published after the
\* one read, which is read again.
PublishedMoved(j) == j.op \in {"merge", "load", "keep"} /\ j.w.base > j.at
\* errUnchanged, ErrNoConflict: nothing to write.
Unchanged(j) ==
    \/ j.op = "update" /\ j.w.base > j.arg
    \/ j.op = "merge" /\ j.arg \in j.w.taken
    \/ j.op = "resolve" /\ \A c \in OpenConflicts(j.w) : ~Named(c, j)

Changed(j) ==
    CASE j.op = "write" -> Written(j.w, j)
      [] j.op = "update" -> Updated(j.w, j)
      [] j.op = "reset" -> WasReset(j.w, j)
      [] j.op = "load" -> Loaded(j.w, j)
      [] j.op = "keep" -> LoadedOnto(j.w, j)
      [] j.op = "merge" -> Merged(j.w, j)
      [] j.op = "resolve" -> Resolved(j.w, j)
      [] j.op = "checkpoint" -> Checkpointed(j.w, j)
      [] j.op = "commit" -> Committed(j.w, j)

NothingToWrite(p) ==
    /\ At(p, "put") /\ Unchanged(job[p])
    /\ Return(p) /\ UNCHANGED untouched

ReadAgain(p) ==
    /\ At(p, "put") /\ ~Unchanged(job[p]) /\ PublishedMoved(job[p])
    /\ IF job[p].rounds + 1 < Attempts
       THEN job' = [job EXCEPT ![p].pc = "published", ![p].rounds = @ + 1, ![p].tries = 0, ![p].w = None]
       ELSE Return(p)
    /\ UNCHANGED untouched

\* Whether a conflict holds the base's value of item r against the workspace's.
Tells(w, r) == \E c \in w.conflicts : c.ref = r /\ (~c.pinned \/ c.theirs = Content(w.base)[r])

\* What was known of item r before, unless a conflict just found, with what
\* another writer or a draft holds, took the place of the one with the base.
Displaced == "displaced"
Knows(j, after, r) ==
    LET prior == seen[j.user][r]
        found == \E c \in after.conflicts : c.ref = r /\ c.pinned /\ c.born = j.w.version + 1
    IN IF found /\ prior # Content(after.base)[r] /\ ~Tells(after, r) THEN Displaced ELSE prior

\* What the changer of item r knew of the base: what its writer, the draft
\* it came from, or the administrator who chose, saw there.
Knew(j, after, r) ==
    LET base == Content(after.base)[r]
        shown(c) == {j.w.items[r], IF c.pinned THEN c.theirs ELSE base}
    IN IF after.items[r] = base THEN None ELSE
       CASE j.op = "write" /\ j.item.ref = r ->
                IF j.view.base >= after.base THEN base
                ELSE IF j.w.items[r] # base THEN Knows(j, after, r) ELSE j.view.items[r]
         [] j.op = "resolve" /\ j.item.ref = r /\ base \in shown(Chosen(j.w, j)) -> base
         [] j.op \in {"load", "keep"} \/ (j.op = "commit" /\ j.w.base <= j.draft) -> base
         [] j.op = "merge" -> IF Moved(j.w, j).items[r] = base THEN Content(j.from)[r] ELSE Knows(j, after, r)
         [] OTHER -> seen[j.user][r]

\* What follows the write of a checkpoint or a commit: the drafts done with.
Done(p, j) ==
    CASE j.op = "checkpoint" -> Discarding(p, {j.w.checkpoint} \ {0})
      [] j.op = "commit" -> Discarding(p, (j.view.taken \cup {j.view.checkpoint}) \ {0, j.draft})
      [] OTHER -> Return(p)

\* A reset or a load makes the workspace forget its checkpoint.  When the
\* answer to the write is lost, a checkpoint takes it for not made: it
\* discards the draft the workspace now names, and not the one before.
Forgotten(j) == IF j.op \in {"reset", "load"} THEN {j.w.checkpoint} ELSE {}
Finish(p, j) ==
    \/ Done(p, j) /\ LetGo(Forgotten(j))
    \/ j.op = "checkpoint" /\ Discarding(p, {j.draft}) /\ LetGo({j.w.checkpoint})

\* Mutant: the version read is not compared.
PutOverwrites(p) ==
    LET j == job[p]
        after == [Changed(j) EXCEPT !.version = Read(j.user).version + 1]
    IN /\ At(p, "put") /\ ~Unchanged(j) /\ ~PublishedMoved(j) /\ Read(j.user).version < MaxVersion
       /\ ws' = [ws EXCEPT ![j.user] = after]
       /\ seen' = [seen EXCEPT ![j.user] = [r \in Ref |-> Knew(j, after, r)]]
       /\ Finish(p, j)
       /\ UNCHANGED <<store, ops>>

\* PutWorkspace at the version read.
Put(p) ==
    LET j == job[p]
        after == [Changed(j) EXCEPT !.version = j.w.version + 1]
    IN /\ At(p, "put") /\ ~Unchanged(j) /\ ~PublishedMoved(j)
       /\ Read(j.user).version = j.w.version /\ j.w.version < MaxVersion
       /\ ws' = [ws EXCEPT ![j.user] = after]
       /\ seen' = [seen EXCEPT ![j.user] = [r \in Ref |-> Knew(j, after, r)]]
       /\ Finish(p, j)
       /\ UNCHANGED <<store, ops>>

\* ErrChanged: another write came between, and the workspace is read again.
PutRetries(p) ==
    LET j == job[p]
    IN /\ At(p, "put") /\ ~Unchanged(j) /\ ~PublishedMoved(j)
       /\ Read(j.user).version # j.w.version /\ j.tries + 1 < Attempts
       /\ job' = [job EXCEPT ![p].pc = "load", ![p].tries = @ + 1, ![p].w = None]
       /\ UNCHANGED untouched

\* Mutant: a checkpoint that was not recorded keeps its draft.
PutFailsKeeping(p) ==
    /\ At(p, "put") /\ ~Unchanged(job[p]) /\ ~PublishedMoved(job[p])
    /\ Return(p) /\ UNCHANGED untouched

\* It came between once too often, or the store failed.  A checkpoint then
\* discards its draft; a commit stays published, its workspace not moved.
PutFails(p) ==
    LET j == job[p]
    IN /\ At(p, "put") /\ ~Unchanged(j) /\ ~PublishedMoved(j)
       /\ Discarding(p, IF j.op = "checkpoint" THEN {j.draft} ELSE {})
       /\ UNCHANGED untouched

-----------------------------------------------------------------------------
(* Saving: the draft, its publication, and the drafts discarded.           *)

\* The draft of what was read; a commit is refused before it is stored when
\* something else was published since.
Build(p) ==
    /\ At(p, "build") /\ (job[p].op = "commit" => Published = job[p].view.base)
    /\ Create(job[p].view.base, job[p].view.items, job[p].user)
    /\ job' = [job EXCEPT ![p].draft = nextID, ![p].pc = IF job[p].op = "commit" THEN "publish" ELSE "load"]
    /\ UNCHANGED <<ws, ops, seen, dropped>>

\* It was, or the items do not make a configuration (Codec.Build).
BuildFails(p) ==
    /\ At(p, "build")
    /\ Return(p) /\ UNCHANGED untouched

\* A draft is published only over the revision it builds on.
Publishable(id) == Published # 0 => BasedOn(id) = Published

\* Service.Publish reads what is published; CheckPublishable may refuse.  A
\* draft that is not published is discarded.
PublishCheck(p) ==
    /\ At(p, "publish") /\ Published = job[p].view.base /\ Publishable(job[p].draft)
    /\ job' = [job EXCEPT ![p].at = Published, ![p].pc = "store"]
    /\ UNCHANGED untouched

PublishFails(p) ==
    /\ At(p, "publish")
    /\ Discarding(p, {job[p].draft}) /\ UNCHANGED untouched

PublishStore(p) ==
    /\ At(p, "store")
    /\ Publish(job[p].draft, job[p].at)
    /\ Goto(p, "load")
    /\ UNCHANGED <<ws, ops, seen, dropped>>

\* ErrConflict, ErrInvalidState.
PublishRefused(p) ==
    /\ At(p, "store")
    /\ job[p].draft \notin InState("draft") \/ Published # job[p].at
    /\ Discarding(p, {job[p].draft}) /\ UNCHANGED untouched

\* Service.Rollback chooses what it restores, and then restores it.
BeginRollback(p, to) ==
    /\ Published # 0
    /\ \E target \in RollbackTarget(Published, to) :
         Begin(p, [Start("rollback", "rollback", Cli) EXCEPT !.arg = target, !.at = Published])

RollbackStore(p) ==
    /\ At(p, "rollback")
    /\ Rollback(job[p].at, job[p].arg, Cli)
    /\ Return(p) /\ UNCHANGED <<ws, ops, seen, dropped>>

RollbackRefused(p) ==
    /\ At(p, "rollback") /\ Published # job[p].at
    /\ Return(p) /\ UNCHANGED untouched

\* The drafts an operation is done with, one after the other, those that
\* are drafts still.
DiscardNext(p) ==
    /\ At(p, "discard")
    /\ \E id \in job[p].todo :
         /\ Discarding(p, job[p].todo \ {id})
         /\ IF id \in InState("draft") THEN Discard(id) ELSE UNCHANGED store
    /\ UNCHANGED <<ws, ops, seen, dropped>>

\* The store fails, or the context of the operation ended: discard gives up
\* on that draft without an error, and goes on with the next.
DiscardFails(p) ==
    /\ At(p, "discard")
    /\ \E id \in job[p].todo :
         /\ Discarding(p, job[p].todo \ {id}) /\ LetGo({id})
    /\ UNCHANGED <<store, ws, ops, seen>>

\* The process ends while the operation runs, or the answer of the store to
\* what it last wrote, a draft or a publication, is lost: nothing follows.
Cut(p) ==
    /\ ~At(p, "idle")
    /\ Return(p) /\ LetGo({job[p].draft} \cup job[p].todo)
    /\ UNCHANGED <<store, ws, ops, seen>>

\* store import and migrate: a draft on what is published, unless it is that.
CliDraft(payload) ==
    /\ Published # 0 => Content(Published) # payload
    /\ Create(Published, payload, Cli)
    /\ ops < MaxOps /\ ops' = ops + 1
    /\ UNCHANGED <<ws, job, seen, dropped>>

\* The command line publishes a draft: Service.Publish again, its check and
\* its write in one step here, as a commit takes them apart.
CliPublish(id) ==
    /\ Publishable(id) /\ Publish(id, Published)
    /\ UNCHANGED <<ws, job, ops, seen, dropped>>

\* An administrator discards a draft.
CliDiscard(id) ==
    /\ Discard(id)
    /\ UNCHANGED <<ws, job, ops, seen, dropped>>

Import(h) ==
    /\ ImportHistory(h)
    /\ dropped' = dropped \cup {i \in DOMAIN h : h[i].state = "draft"}
    /\ UNCHANGED <<ws, job, ops, seen>>

-----------------------------------------------------------------------------
WInit ==
    /\ Init
    /\ ws = [u \in User |-> Absent]
    /\ job = [p \in Proc |-> Idle] /\ ops = 0
    /\ seen = [u \in User |-> [r \in Ref |-> None]]
    /\ dropped = {}

Steps(p) ==
    \/ ReadPublished(p) \/ Load(p) \/ NothingToWrite(p) \/ ReadAgain(p) \/ Put(p) \/ PutRetries(p) \/ PutFails(p)
    \/ Build(p) \/ BuildFails(p)
    \/ PublishCheck(p) \/ PublishFails(p) \/ PublishStore(p) \/ PublishRefused(p)
    \/ RollbackStore(p) \/ RollbackRefused(p)
    \/ DiscardNext(p) \/ DiscardFails(p) \/ Cut(p)

WNext ==
    \/ \E p \in Proc, u \in User :
         \/ \E r \in Ref, v \in Value : BeginWrite(p, u, r, v)
         \/ \E op \in {"update", "reset"}, to \in OncePublished : BeginMove(p, u, op, to)
         \/ \E op \in {"merge", "load", "keep"}, rev \in Ids : BeginTake(p, u, op, rev)
         \/ \E op \in {"checkpoint", "commit"} : BeginSave(p, u, op)
         \/ Kept(u) /\ \E c \in ws[u].conflicts, theirs \in BOOLEAN : BeginResolve(p, u, c, theirs)
    \/ \E p \in Proc : Steps(p)
    \/ \E p \in Proc : \E to \in OncePublished \cup {0} : BeginRollback(p, to)
    \/ \E payload \in Payload : CliDraft(payload)
    \/ \E id \in Ids : CliPublish(id) \/ CliDiscard(id)
    \/ \E h \in History : Import(h)

WSpec == WInit /\ [][WNext]_vars

-----------------------------------------------------------------------------
\* Rows and workspaces keep their types, revisions are numbered below
\* nextID, and a workspace builds on a revision that was published and
\* names drafts that exist.
TypeOK ==
    /\ StoreTypeOK
    /\ \A u \in User : Kept(u) =>
         /\ ws[u] \in Workspace /\ ws[u].base \in OncePublished
         /\ ws[u].taken \cup {ws[u].checkpoint} \subseteq Ids \cup {0}
    /\ seen \in [User -> [Ref -> Value \cup {None, Displaced}]]

\* A revision is published only over the one it builds on, whatever was
\* published while Service.Publish checked it, so no publication undoes
\* another; and revisions are published in the order of their numbers, which
\* is what moveOnto takes for granted.
PublishesBuildOn ==
    [][Published' # Published =>
         /\ Published' > Published
         /\ Published' \in Ids => BasedOn(Published') = Published]_vars

\* Of what was changed in a workspace nothing is overwritten silently: a
\* write that comes between the read and the write of another operation is
\* kept by it, or replaced knowingly, or held as the other side of a
\* conflict.
NothingOverwritten ==
    [][\A u \in User : Kept(u) /\ ws'[u] # ws[u] =>
         \E p \in Proc :
           LET j == job[p] IN
           /\ j.pc = "put" /\ j.user = u /\ job'[p] # j
           /\ \A r \in Ref :
                LET mine == ws[u].items[r] IN
                mine # Content(ws[u].base)[r] /\ ws'[u].items[r] # mine =>
                  \/ j.op \in {"reset", "load"}
                  \/ mine = Content(ws'[u].base)[r]
                  \/ j.op = "resolve" /\ j.item.ref = r /\ j.item.theirs
                  \/ /\ j.op = "write" /\ j.item.ref = r
                     /\ \/ mine = j.view.items[r]
                        \/ \E c \in ws'[u].conflicts : c.ref = r /\ c.pinned /\ c.theirs = mine]_vars

\* Nothing published by others is undone silently either: an item that
\* differs from the base was changed by somebody who knew what the base
\* holds there, or a conflict on it stands and blocks the commit; but for a
\* conflict with the base whose place one with another writer took (Carry).
PublishedChangesSurface ==
    \A u \in User : Kept(u) =>
        \A r \in Ref :
            ws[u].items[r] # Content(ws[u].base)[r] =>
                \/ seen[u][r] \in {Content(ws[u].base)[r], Displaced}
                \/ \E c \in OpenConflicts(ws[u]) : c.ref = r

\* A workspace that says its checkpoint holds it (CheckpointAt) is right,
\* although it may have been written, or what is published may have changed,
\* while the checkpoint was saved.
CheckpointHolds ==
    \A u \in User : Kept(u) /\ ws[u].checkpointAt = ws[u].version =>
        Content(ws[u].checkpoint) = ws[u].items

\* A workspace never moves onto a revision older than its base, but by a
\* reset: no slow update, load, merge or commit takes it back.
BasesMoveForward ==
    [][\A u \in User : Kept(u) /\ ws'[u].base < ws[u].base =>
         \E p \in Proc : job[p].pc = "put" /\ job[p].user = u /\ job[p].op = "reset" /\ job'[p] # job[p]]_vars

\* A draft saved from a workspace is its checkpoint, or some operation has it
\* in hand: whichever way a checkpoint or a commit fails or is overtaken, it
\* tries to discard the drafts it leaves, before they are offered to all.
\* Those a reset let go, whose discard failed in its turn, or whose
\* operation was cut, stay (dropped).
NoStrayDrafts ==
    \A i \in InState("draft") \ dropped :
        LET u == revs[i].by IN
        u \in User =>
            \/ Kept(u) /\ ws[u].checkpoint = i
            \/ \E p \in Proc : job[p].op \in {"checkpoint", "commit"} /\ (job[p].draft = i \/ i \in job[p].todo)
=============================================================================
