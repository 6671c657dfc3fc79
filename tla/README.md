# TLA+ models of sql-mcp-server

This directory holds the formal models of the parts of sql-mcp-server in which
several goroutines, processes or administrators meet. Each model is written
from the Go code named in `PROJECT.json` (`map`), is model-checked by TLC on
small instances and, where that adds something, proved with TLAPS for every
value of its constants.

## The system

sql-mcp-server serves SQL databases to agents over MCP. Its parts with state,
and what they keep:

| Part | Code | State | Operations |
| --- | --- | --- | --- |
| Explicit transactions | `core/tool/transaction*.go` | handles, ending handles, tombstones, counters per caller and connection, one mutex and one `*sql.Tx` per handle | begin, use by a statement, commit, rollback, expiry, idle check, end of a session, reload of the limits, close |
| Serving snapshots | `x/bootstrap/runtime.go`, `shared.go`, `hold.go`, `bootstrap_store.go` | the current App, its leases, Apps being retired, connections counted by reference, settings of shared services, held users | acquire, reload, publish, retire, revoke, watch the store, close |
| MCP sessions | `x/mcpserver` | session to identity, transports | bind, look up, revoke, close |
| Scan batches | `x/leasing`, `x/catalog`, `x/configstore/batches.go` | batch and item rows, heartbeats, runs in memory | start, claim, take over, move an item, beat, finish, cancel, close |
| Revisions | `core/revision`, `x/configstore/sqlstore.go`, `x/revisionops` | numbered revisions with a state and a parent | create, publish, discard, roll back, import |
| Workspaces | `core/workspace`, `x/workspaceops`, `x/configstore/workspaces.go` | one workspace per administrator: base, items, conflicts, drafts taken, checkpoint, version | write, update, reset, load, merge a draft, resolve, checkpoint, commit |
| Execution bus | `core/bus` | semaphores of lanes, auxiliary and IO slots; counters of a lane | acquire, release, give up, queue with a ticket, resize, close |
| Scan jobs | `x/admin/scanjobs` | jobs, the pending queue, the dispatcher | start, cancel, dispatch, run, end, close |
| Reads and writes | `core/cache`, `core/engine`, `core/tool/routing.go`, `invalidation.go` | cached rows with generations, shared executions, recent writes of a session | look up, stamp, store, invalidate, join, leave, land, route |
| Circuit breaker | `core/ratelimit`, `x/bootstrap/guard.go` | failures, openUntil, the probe, the epoch | allow, record, release |

The other parts are listed under "Not modelled".

They interact: a tool call leases a snapshot (`Runtime`), takes the slots of its
lane and of the database (`Bus`), passes the breaker of the connection
(`Breaker`), and reads through the cache (`Reads`) or runs its statement in a
transaction (`Transactions`), whose caller is a session that a reload may
revoke. A commit of a workspace (`Workspaces`) publishes a revision
(`Revisions`), which the watcher of every process applies (`Runtime`). Scan
jobs share the bus with the calls; scan batches run next to them on the store.

What makes the code hard: state read under one lock and used after its
release; two callers ending the same transaction; commits cut off by a
deadline; a reload that replaces what a request is using, or resizes the pools
it waits for; processes that die or lose the store between two writes; an
answer that is lost after the write was made; operations that read a row,
compute, and write it at the version read while others do the same; a slot
granted at the moment its waiter gives up; counters and atomic variables read
one after the other while they change; a read that a write overtakes between
its query and its place in the cache. `PROJECT.json` (`hazards`) lists each at
the line where it bites.

## Plan

The order follows what would hurt most if it went wrong: transactions (data of
users), then what every request depends on (snapshots, connections, slots,
cached rows), then the configuration and its history, then batches and jobs,
then the breaker. Each component got its actions, the properties of its
hazards, a mutant for each property, and then the proof of what matters most.
Next, if the project grows: the queue of the auditor, the caller budgets and the
adaptive limiter; a composition of `Runtime` with `Transactions`, which now meet
only in the flag `tx` of a session.

## Modules

| Module | Models |
| --- | --- |
| `Transactions` | `TransactionManager` and every goroutine that calls it |
| `TransactionLife` | what a transaction promises: its life as its caller sees it; `Transactions` implements it |
| `TransactionsProofs` | the inductive invariant of `Transactions`, its preservation by every action, and the theorems |
| `Leasing`, `LeasingProofs`, `LeasingCounts` | `Runner`, its runs and the store of batches; theorems; the theorem on attempts |
| `Runtime`, `RuntimeProofs` | `Runtime`, the Apps, the shared connections, the watcher, sessions; theorems |
| `Revisions` | the store of revisions |
| `Workspaces` | operations on workspaces and revisions, step by step (extends `Revisions`) |
| `WorkspacesSteps`, `WorkspacesProofs` | what the steps of `Workspaces` do to the store, the workspaces and the operations; theorems |
| `Semaphore` | the semaphore of `core/bus`, as functions of its value |
| `Bus`, `BusProofs` | tool calls, administrators' reads and scan jobs on the bus (extends `Semaphore`); theorems |
| `Invalidation` | which cached reads a write may change, and which the code drops |
| `Reads`, `ReadsProofs` | the read cache, shared reads, routing after writes (extends `Invalidation`); theorems |
| `Breaker` | the circuit breaker, atomic operation by atomic operation |
| `MC*` | small instances for TLC, one `.cfg` per question |

### Transactions

One process per tool call, one per timer and sweep (`Proc`); `pc` says where it
is, `tok` which transaction it works on. A step is what happens under `m.mu`
or `h.mu`, or one call of `database/sql`. The maps of the manager are
`handles`, `ending`, `tomb`/`buried` (with the bound on tombstones), `open` and
`byConn`; a handle is `owner`, `conn`, `hclosed`, `hmu`, `dirty`, `clock`; the
database's view of the transaction is `db` and `written`. A commit cut by its
deadline may be decided either way by the database (`DbDecides`), and
`database/sql` rolls a transaction back on its own when the context of
`BeginTx` ends (`LifetimeRollback`).

### Leasing

Runs own batches by heartbeat. Each call of the store is one step whose answer
may be lost, made or not; processes crash, stop and restart, and heartbeats go
stale (`Age`). `faults` bounds how many of these happen.

### Runtime

Every request, the watcher, the retiring goroutines and `CloseContext` take
steps of their own. `app[r].refs` are the leases, `pools` the reference counts
of shared connections, `applied` whose settings the shared services have.

### Revisions and Workspaces

`revs` and `nextID` are the store, each write of which is one step (the mutex
of `MemoryStore`, the lock row of `SQLStore`). A workspace is a row with a
version; an absent row has version 0. An operation (`job`) begins, reads what
is published, loads the workspace, and puts it at the version it read; a
conflict of versions makes it load again, `errPublishedMoved` makes it read
what is published again, and giving up it tries to discard the draft it stored.
That is best effort in the code: a discard may fail, without an error, and the
operation goes on (`DiscardFails`). An operation may also be cut at any place by
the end of its process or by a lost answer (`Cut`), and a checkpoint whose write
was made may take it for failed (`Finish`). Items hold opaque values merged
whole. `seen` and `dropped` are history variables of the properties; `dropped`
holds the drafts nobody is to discard any more: those a workspace forgot, those
imported, and those a failed or cut discard left.

### Semaphore and Bus

A semaphore is a record of its size, the slots used and its waiters in line;
`Free`, `Taken`, `Joined`, `Release`, `GiveUp`, `Grant` and `Resize` are its
operations. In `Bus` a work (`pc`) takes the slot of its lane, an auxiliary
slot unless it is a tool call, and an IO slot; it gives them back one by one
(`owes`). A step is one call of a semaphore, one change of a counter that
`Queue` reads, or one section under the mutex of the pool of scan jobs
(`start` is the `Start` that holds it). `Update` resizes IO, auxiliary slots and
lanes one after the other. The breaker and the adaptive limit may refuse a tool
call between its two slots (`Refused`). Left out: a tool call takes its IO slot
itself, where in the code the goroutine of a shared execution takes one slot
for all its callers, each of which keeps its own slot of the lane, and may
outlive the first of them.

### Invalidation and Reads

The registry is the set of relations served, with their foreign keys, views
and procedures. `Changes` is what a write may change in the database,
`Compute` what the code drops from the cache. In `Reads` the rows of an entity
are a version number; a flight is a shared execution with its waiters, led by
the call that began it. A read takes a stamp of the cache, queries the
primary or a replica that lags behind, and stores its rows if no write dropped
the entity since the stamp; expiry and the caps of the cache are one eviction
that may happen at any time. A write is carried out or not, and drops its
targets either way; one that was carried out counts as a write also when its
call lost the connection and does not know. `fresh` and `owed` are history fields: the writes
that had returned when the flight began, all of them and those of each session.

### Breaker

Every load, store, addition and compare-and-swap of `Allow`, `Record` and
`Release` is a step. A ticket is the current epoch, an earlier one or a
probe's. The place of the probe holds the call whose probe it is, or `Past`
once that call is over: probe numbers are never used twice, so nobody can free
it with its own ticket any more. The adaptive limiter admits or refuses at
will, and no reload replaces the breaker.

## What the runs check

The list with the properties and a mutant of the code for each is in
`PROJECT.json`; each property is preceded by a comment that states it.

| Run | Shows | Distinct states |
| --- | --- | --- |
| `transactions_race` | tombstones and answers tell the truth, no transaction is orphaned, a commit returns every target written, and the manager implements `TransactionLife` | 394,269 |
| `transactions_capacity` | counters exact, limits respected at the step a handle is added, nothing open after `Close` | 714,552 |
| `transactions_live` | transactions end and calls return | 136,639 |
| `transactions_failed` | violated: see Findings | |
| `leasing_faults` | items move forward, a run that keeps its batch agrees with the store, nothing is left behind | 221,262 |
| `leasing_live` | attempts count runs, and batches end | 292,875 |
| `runtime` | no App closes under a request, connections are counted exactly, everything is released by `Close`, settings follow the current App, transactions of sessions that stay survive a reload, the published revision is served in the end | 133,194 |
| `workspaces` | publications build on each other, nothing written or published is lost silently, checkpoints hold what they say, every failing operation tries to discard its draft, workspaces never move back | 309,823 |
| `bus` | no slot is lost or idle while somebody waits, while a reload resizes the pools | 372,504 |
| `bus_jobs` | the same slots for scan jobs; the queue keeps its limit, canceled jobs do not run, jobs end, closing returns | 53,156 |
| `reads` | the cache holds nothing older than a write that returned, shared reads and reads of the own session are fresh, nobody waits for a canceled read | 455,987 |
| `breaker_stuck` | violated: see Findings | |

### Bounds

Every bound is a constant named in the module that uses it (`MaxFaults`,
`MaxRev`, `MaxFail`, `MaxOps`, `MaxId`, `MaxVersion`, `MaxJobs`, `MaxUpdates`,
`MaxCalls`, ...). They are chosen so that every race needs no more than they
allow:

- transactions: two calls and the timers for one transaction; two tokens and
  two limits for the counters and the second capacity check;
- leasing: two processes and two runs with two items and one fault; three runs
  and two faults, with one item, for a takeover of a takeover;
- runtime: three revisions, for an App retired while another is published;
- workspaces: three operations, two at a time, and three values, for a conflict
  with both sides changed and its resolution;
- bus: two administrators, so that one queues for the lane, and a tool call
  that competes for IO, with one reload between two sizes; scan jobs run in
  `bus_jobs`, where three fill a lane of one slot and a queue of one;
- reads: two readers and a writer of two sessions, with and without a replica;
  three calls over one table, two over registries with a chain of foreign keys,
  a view and a procedure, and a cascade to a table that is not served;
- breaker: three calls and a threshold of one.

Scan jobs under a reload are covered by the theorems of `BusProofs` only. Calls,
tokens, sessions, nodes, items, processes and values are interchangeable, hence
the symmetry sets; liveness is checked without symmetry. Runs that may stop
(no more operations, all closed) say `CHECK_DEADLOCK FALSE`; in the others
deadlock is checked.

### Fairness

Weak fairness of a goroutine's next step (the Go scheduler runs every runnable
goroutine), of the clock and the timers, of the watcher's poll, and of the
restart and takeover loops, which run on tickers. That the idle check rearms its
timer (`watchIdleLocked`) is part of the fairness of the timers and not modelled
itself. A statement, a read and a scan
end: each has a time limit. Nothing is assumed of callers: a session may never
call again, and a client may never commit. `leasing_live` bounds the faults, so
that they stop; `runtime` likewise bounds the builds that fail. `JobsEnd` makes
an exception for a pool that is closed: a job added as it closes stays pending.

## What is proved

Every safety property the passing runs check is also proved, for every value of
the constants. The assumptions are the named `ASSUME`s of the modules: sets are
finite or do not overlap, bounds are numbers, configurations and imported
histories have their shape, registries are finite and keep what a procedure
affects and where rows cascade to within one database (`RegistriesAssumption`;
`validateProcedureAffects` refuses others, and foreign keys do not leave their
database), and the values that stand for "none" are no members of the sets they
stand next to. TLC evaluates them in the
runs of their modules. One theorem has a hypothesis of its own
(`PublishesInOrder`, below).

- `TransactionsProofs`: type correctness, the seven other safety properties of
  `Transactions` and the refinement of `TransactionLife` (`LivesAsPromised`),
  for any calls, tokens, callers, connections and limits. The properties are
  not inductive: an answer is true only if the process that recorded it was the
  only one ending the transaction, held `h.mu` and knew the database's verdict.
  `IInv` says so: who begins, who ends (exactly one process per ending
  transaction), who holds `h.mu`, what each place in the code implies for the
  database, and what the counters count. There is one lemma per action. The
  refinement follows step by step: the invariant tells which step of its life
  a token takes, or that it takes none.
- `LeasingProofs`: items only move forward (`Forward`), a run that keeps its
  batch agrees with the store on every item (`Agreement`), and no crash, lost
  answer or takeover leaves an item behind (`NoneLeftBehind`), for any number of
  processes, batches, items, runs and faults. That an item is let go only when
  it is settled needs `RunsAgree`: after a write whose answer was lost the item
  is where it was or where it was to be, so reading it back decides. That in
  turn needs that only the owner writes, that a run which is not the owner was
  replaced (so that claiming the batch again is recorded in `resumed`), and that
  a run stops only when it was lost or its batch canceled. A step is shown to be
  seen by every other run as nothing, or as having been replaced (`Seen`).
- `LeasingCounts`: no item is worked more often than its attempts say, and
  these exceed the limit at most once for each run the batch was taken from
  (`AttemptsCounted`). Its invariant `CInv`, on top of `IInv`: a
  run that keeps its batch knows the attempts of its items, up to a write whose
  answer was lost (`Tracks`); runs that read an item back ask for different
  attempts, and the one that asks for the last asks for one that was not worked
  (`Awaits`); no item has more attempts than the limit and the runs that were
  replaced allow, and one that is pending has one left (`Counted`, `Entitled`).
- `RuntimeProofs`: a request runs on an open App with open connections
  (`RequestsServed`), and the reference counts of connections are exact
  (`PoolsExact`). Needed besides: the leases of an App count the requests that
  run on it, an App is closed only when retired and without leases, and what
  the watcher and `CloseContext` hold is not what the other closes
  (`WatcherOK`, `CloserOK`, `AppsOK`). With three more conjuncts, whose settings
  the shared services have at each place of a reload (`Follow`), what
  `CloseContext` has left behind at each of its places (`Ends`) and who was
  dropped with which App (`Dropped`), follow the other three: settings follow the
  App that serves, nothing is held once closing is done, and no reload ends a
  transaction of a session that stays.
- `WorkspacesProofs`: the eight properties of `Workspaces` and the life of a
  revision. At most one revision is published, and it lives its life in order;
  that needs only that rows are numbered below `nextID`. A workspace moves back
  by a reset only: that is the argument of optimistic locking, a row read at
  the version that is still kept is the row kept (`JobInv`), so what the operation
  compared before it writes still holds. For the rest `WInv` adds what an
  operation has in hand at each of its places (`JobOK`: the revisions it read
  were published, its draft holds the view it saves and has the base of that
  view as its parent), what a workspace says of its checkpoint and of what is
  published (`Contained`), and where every draft is (`NoStray`): the checkpoint of
its workspace, in the hands of an operation, or in `dropped`.
  `WorkspacesSteps` shows what each operation makes of the workspace it read.
- `PublishesInOrder`, that a revision is published over the one it builds on
  and in the order of numbers, holds where imported histories are those of a
  store (`Chained`): the parent of a revision is an earlier one, and once a
  revision was published one is. `ValidateHistory` does not ask for this, and
  without it the property fails: with no revision published, `CheckPublishable`
  has nothing to compare. `migrate --history` copies the rows of another store,
  where both hold; it reads them one by one (`migrate_cmd.go:147`), so a rollback
  in the source between two of these reads can leave a history in which no
  revision is published. That every operation of the store keeps both
  (`ChainedStep`) is part of the proof. What `BasedOn` finds is shown by
  induction over its rounds.
- `BusProofs`: nobody waits for a slot that is free, and none is taken above
  the size (`SlotsFollow`), reloads included. The lemmas show it of one
  semaphore, operation by operation; the theorem, that each step of `Bus` is
  such an operation on each semaphore. `BusInv` says where each work stands,
  which slots it holds or owes there, which jobs are pending and what the
  counters count; from it every slot in use has one holder (`SlotsAreExact`), a
  job runs at most once (`JobsRunOnce`), and `Start` gives out no place the lane
  does not have although it adds up counters that change meanwhile
  (`QueueHasRoom`).
- `ReadsProofs`: nobody waits for a shared read that was canceled
  (`NoCanceledRead`): the waiters of a flight are at least those who wait for
  it, and a canceled flight is out of the table (`IInv`). `Covered` is about the
  registry alone: what `compute` drops covers what a write may change, however
  many foreign keys it cascades along and whatever views, procedures and
  relations that are not served are on the way. With it `FInv` is inductive: no
  entry of the cache is older than a write that returned, or than one that has
  dropped its targets so far, and neither is what a flight is about to store
  while its stamp still holds; a flight of a session that is owed a recent
  write is keyed by the session and goes past the cache to the primary. `NoStaleEntry`, `FlightsShowWrites` and
  `SessionsSeeTheirWrites` follow.

Inductions over data (`Covered`, `BasedOn`) are done without the induction
theorems of the library, which take a predicate and cannot be instantiated: the
rounds at which a claim fails form a set of numbers, which has a least one
(`Least`, `UpTo`), and the recursive function is met by the one that counts the
rounds (`Rounds`).

Only model-checked: the liveness properties (`TransactionsEnd`, `CallsReturn`,
`BatchesEnd`, `RevisionsApply`, `JobsEnd`, `CloseReturns`), since fairness and
`ENABLED` are out of the reach of the proof system.

## Findings

`PROJECT.json` quotes the lines of the first two; in short:

- `transactions_failed`: a failed statement releases `h.mu` before it ends the
  transaction: a commit in between commits it, and the answer still says rolled
  back.
- `breaker_stuck`: a failing probe that is held up between giving up its place
  and reopening the breaker reopens it after another probe closed it, when a
  third was let through and found it closed. The place of the probe is then
  taken for good, and the breaker stays open until a reload replaces it.
- The heartbeat of a replaced run claims its batch back under its old name when
  the run that replaced it stops beating, though `x/catalog/batches.go:26` says
  "Owner is one run of the batch, never reused". Reproduce with
  `tlc -config MCLeasingReplaced.cfg MCLeasing`, which violates
  `ReplacedRunsStayOut`; it is not among the runs of `PROJECT.json`.
  `AttemptsCountRuns`, `RunsAgree` and `NothingLeftBehind` except such batches.

Not contradictions, but worth knowing of the code:

- A lookup that finds expired a handle another call has taken answers
  "expired", and that call may still commit. `AnswersAreFinal` keeps this answer
  apart (`saidExpired`).
- A read may join an identical read of its own session that began before the
  session's last write, and shows the rows without it. `FlightsFresh` and
  `OwnWritesSeen` speak of the writes that returned before the shared read
  began.
- A conflict just found takes the place of another one on the same item
  (`Carry`, `core/workspace/conflicts.go:114`): when it is with a draft or
  another writer, a published change that showed as a conflict no longer does.
  `PublishedChangesSurface` makes this exception (`Displaced`).
- Discarding a draft is best effort (`discard`,
  `x/workspaceops/commit.go:152`): when the store fails, the context of the
  request has ended or the process dies, the draft of a checkpoint or a commit
  stays and is offered to all until an administrator discards it. When only the
  answer to a checkpoint's write is lost, the draft the workspace now names as
  its checkpoint is discarded, and the one before stays. `NoStrayDrafts` says
  that every operation that is not cut tries, and excepts what these leave.
- A history copied by `migrate --history` from a store in use may be one in
  which nothing is published any more (see `PublishesInOrder`).
- A write whose call ran out of time may still be carried out by the database
  after its cached reads were dropped; a read in between may be cached until it
  expires.

## Not modelled

`PROJECT.json` (`components`) gives the reason for each part. In groups:

- Sequential code over data: building and rendering queries, relational
  algebra, authorization, the cost gate, masking, configuration documents, plans
  and edits, the merge inside a value, the assembly of an App. It has no
  interleavings, and what it computes is strings and trees that TLC cannot
  enumerate usefully; the repository tests it against a reference interpreter
  and real databases.
- State under a single mutex whose operations do not meet outside it: caller
  budgets, token buckets, the memory of results, cost feedback, the event store.
- The adaptive limiter: it follows measured latencies.
- The auditor: a queue nothing reads back.
- HTTP, GraphQL, the console, the command line, drivers, telemetry, development
  tools. More than a third of the lines of the repository are generated
  (`x/admin/graph/generated.go` alone has 30,523).

So the models cover about five percent of the lines: those of the concurrent
and the persistent core. A larger share would mean transcribing sequential
code.
