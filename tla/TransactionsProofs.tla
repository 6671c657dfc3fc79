------------------------- MODULE TransactionsProofs -------------------------
(***************************************************************************)
(* The safety properties of Transactions, for any sets of calls, tokens,   *)
(* callers and connections and any limits.  They follow from an inductive  *)
(* invariant, IInv.  The first part shows that every step preserves its    *)
(* Core: what the steps that look alike have in common, the goroutine that *)
(* only moves on (Move), the one that takes a handle to end it (TakeOne),  *)
(* the one that takes several (TakeAll) and the database that decides on   *)
(* its own (DbMoves), and then one lemma per action.  The second part      *)
(* treats the counters and draws the theorems; the last section shows that *)
(* each token lives as TransactionLife promises.                           *)
(***************************************************************************)
EXTENDS Transactions, TLAPS

\* Most leaves are first-order; what needs more goes to SMT.
USE ZenonT(20), SMTT(10), Z3T(10)

Begins(p) == pc[p] \in {"begin", "register", "abandon"}
Ends(p) == pc[p] \in {"lock", "commit", "sent", "rollback", "bury"}
Holds(p) == pc[p] \in {"stmt", "commit", "sent", "rollback"}

\* The tables of the manager, and what they say of the handles in them.
HandleInv ==
    /\ handles \cap ending = {}
    /\ handles \cup ending \subseteq known /\ known \subseteq Token
    /\ mclosed => handles = {}
    /\ \A t \in Token : hclosed[t] => t \in known \ handles
    /\ \A t \in known : owner[t] \in Caller /\ conn[t] \in Conn
    /\ \A t \in known \ (handles \cup ending) : Settled(t)
    /\ \A t \in handles \cup ending : hclosed[t] \/ db[t] \in {"active", "rolledBack"}
    /\ \A t \in known : db[t] \notin {"none", "opening"}

\* A process begins a transaction of its own, which no table knows.
BeginOf(p) ==
    Begins(p) =>
        /\ p \in Call
        /\ tok[p] \in Token \ known
        /\ owner[tok[p]] \in Caller /\ conn[tok[p]] \in Conn
        /\ pc[p] = "begin" => db[tok[p]] = "opening"
        /\ pc[p] # "begin" => db[tok[p]] \in {"active", "rolledBack"}
BeginInv ==
    /\ \A p \in Proc : BeginOf(p)
    /\ \A p, q \in Proc : Begins(p) /\ Begins(q) /\ tok[p] = tok[q] => p = q

\* Every ending transaction has one process that ends it.
EndInv ==
    /\ \A p \in Proc : Ends(p) => tok[p] \in ending
    /\ \A p \in Proc : todo[p] \subseteq ending
    /\ \A p \in Proc : todo[p] # {} => op[p] = "sweep" /\ (Ends(p) \/ pc[p] = "sweep")
    /\ \A p, q \in Proc : Ends(p) /\ Ends(q) /\ tok[p] = tok[q] => p = q
    /\ \A p, q \in Proc : Ends(p) => tok[p] \notin todo[q]
    /\ \A p, q \in Proc : p # q => todo[p] \cap todo[q] = {}
    /\ \A t \in ending : \E p \in Proc : t \in todo[p] \/ (Ends(p) /\ tok[p] = t)

\* h.mu excludes, and a closed handle that no process holds is settled.
LockOf(p) ==
    /\ Holds(p) => tok[p] \in known /\ hmu[tok[p]] = p
    /\ pc[p] \in {"lock", "stmt"} => ~hclosed[tok[p]]
    /\ pc[p] \in {"commit", "sent", "rollback"} => hclosed[tok[p]]
    /\ pc[p] \in {"commit", "rollback"} => db[tok[p]] \in {"active", "rolledBack"}
    /\ pc[p] = "sent" => Settled(tok[p])
LockInv ==
    /\ \A p \in Proc : LockOf(p)
    /\ \A p \in Proc : \A t \in todo[p] : ~hclosed[t]
    /\ \A t \in Token : hclosed[t] /\ hmu[t] = None => Settled(t)

\* Which operation stands where.
ControlOf(p) ==
    /\ pc[p] \in {"lookup", "wait", "ended", "found"} =>
           op[p] \in {"commit", "rollback", "read", "write", "mark"}
    /\ pc[p] = "take" => op[p] \in {"commit", "rollback"}
    /\ pc[p] = "mark" => op[p] = "mark"
    /\ pc[p] \in {"exec", "stmt", "fail"} => op[p] \in {"read", "mark"}
    /\ pc[p] \in {"commit", "sent"} => op[p] = "commit"
    /\ pc[p] = "sweep" => op[p] = "sweep"
    /\ op[p] = "sweep" => Ends(p) \/ pc[p] \in {"sweep", "done"}
    /\ op[p] = "read" => tgt[p] = None
    /\ op[p] \in {"write", "mark"} => tgt[p] \in Target
    /\ pc[p] \in {"lookup", "wait", "ended", "found", "take", "mark", "exec", "stmt", "fail"} =>
           tok[p] \in known
    /\ pc[p] = "wait" => tok[p] \notin handles
    /\ pc[p] = "ended" => Settled(tok[p])
ControlInv == \A p \in Proc : ControlOf(p)

\* The outcome a process is about to record, and the one it answers.
ResultOf(p) ==
    /\ op[p] = "sweep" => res[p] = "rolledBack"
    /\ pc[p] = "lock" => op[p] \in {"commit", "rollback"} \/ res[p] \in {"expired", "rolledBack"}
    /\ pc[p] = "rollback" => res[p] \in {"expired", "rolledBack", "unknown"}
    /\ pc[p] = "bury" => res[p] \in Outcome
    /\ pc[p] \in {"bury", "sweep", "done"} /\ tok[p] # None => Truthful(tok[p], res[p])
ResultInv == \A p \in Proc : ResultOf(p)

\* What a statement writes was recorded before it runs.
DirtyOf(p) == pc[p] \in {"exec", "stmt"} /\ tgt[p] # None => tgt[p] \in dirty[tok[p]]
DirtyInv == CommitReturnsWrites /\ \A p \in Proc : DirtyOf(p)

Types == HandleTypes /\ DatabaseTypes /\ ProcessTypes

\* The invariant but for the manager's counters.
Core ==
    /\ Types
    /\ HandleInv /\ BeginInv /\ EndInv /\ LockInv /\ ControlInv /\ ResultInv /\ DirtyInv
    /\ TombstonesTellTheTruth
    /\ NoOrphans

IInv == ManagerTypes /\ CountersCountHandles /\ Core

-----------------------------------------------------------------------------
(* What a step may do to the others.                                       *)

\* A step of p changes no other process.
OnlySelf(p) ==
    \A q \in Proc \ {p} :
        /\ pc'[q] = pc[q] /\ op'[q] = op[q] /\ tok'[q] = tok[q]
        /\ tgt'[q] = tgt[q] /\ res'[q] = res[q] /\ todo'[q] = todo[q]

\* The database changes its mind about no transaction.
DbStable ==
    \A t \in Token :
        /\ db[t] \in {"committed", "rolledBack"} => db'[t] = db[t]
        /\ db[t] = "committing" => db'[t] \in {"committing", "committed", "rolledBack"}

\* What a process that only moves on leaves alone.
Unmoved ==
    UNCHANGED <<handles, ending, tomb, known, mclosed, owner, conn, hclosed, hmu, dirty, database>>

\* None holds no lock.
LEMMA NoneIsNoProc == None \notin Proc
BY NoneAssumption DEF Proc

\* A process whose handle is left alone keeps what it knows of its lock.
LEMMA LockStays ==
    ASSUME NEW q \in Proc, LockOf(q), pc'[q] = pc[q], tok'[q] = tok[q], known \subseteq known',
           Holds(q) \/ pc[q] = "lock" => hclosed'[tok[q]] = hclosed[tok[q]],
           Holds(q) => hmu'[tok[q]] = hmu[tok[q]] /\ db'[tok[q]] = db[tok[q]]
    PROVE  LockOf(q)'
BY DEF LockOf, Holds, Settled

\* What the other processes and the tombstones were told stays true.
LEMMA Others ==
    ASSUME Core, DbStable, NEW p \in Proc, OnlySelf(p), known \subseteq known',
           handles' \cap known \subseteq handles, ControlOf(p)', ResultOf(p)'
    PROVE  ControlInv' /\ ResultInv'
<1>1. ASSUME NEW q \in Proc \ {p} PROVE ControlOf(q)'
  <2>1. ControlOf(q) /\ tok[q] \in Token \cup {None} /\ known \subseteq Token
    BY DEF Core, Types, ProcessTypes, ControlInv, HandleInv
  <2>2. pc'[q] = pc[q] /\ op'[q] = op[q] /\ tok'[q] = tok[q] /\ tgt'[q] = tgt[q]
    BY DEF OnlySelf
  <2>3. tok[q] \in known /\ Settled(tok[q]) => db'[tok[q]] \in {"committing", "committed", "rolledBack"}
    BY <2>1 DEF DbStable, Settled
  <2> QED BY <2>1, <2>2, <2>3 DEF ControlOf, Ends, Settled
<1>2. ASSUME NEW q \in Proc \ {p} PROVE ResultOf(q)'
  <2>1. ResultOf(q) /\ tok[q] \in Token \cup {None}
    BY DEF Core, Types, ProcessTypes, ResultInv
  <2>2. pc'[q] = pc[q] /\ op'[q] = op[q] /\ tok'[q] = tok[q] /\ res'[q] = res[q]
    BY DEF OnlySelf
  <2> QED BY <2>1, <2>2 DEF ResultOf, Truthful, Settled, DbStable
<1> QED BY <1>1, <1>2 DEF ControlInv, ResultInv

\* A process that neither begins nor takes a transaction, and keeps the one it
\* ends, disturbs only what it holds and knows itself.
LEMMA Frame ==
    ASSUME Core, Types', NEW p \in Proc, OnlySelf(p), todo'[p] = todo[p],
           UNCHANGED <<handles, ending, tomb, known, mclosed, owner, conn>>,
           DbStable, \A u \in Token \ known : db'[u] = db[u], \A u \in Token : HeldOpen(u)' => HeldOpen(u),
           ~Begins(p), ~Begins(p)', pc[p] = "sweep" => todo[p] = {}, Ends(p)' <=> Ends(p),
           Ends(p) => tok'[p] = tok[p] /\ op'[p] = op[p],
           HandleInv', LockInv', DirtyInv', ControlOf(p)', ResultOf(p)'
    PROVE  Core'
<1>2. \A q \in Proc : /\ Begins(q)' => Begins(q) /\ q # p
                      /\ Begins(q) => Begins(q)' /\ q # p
                      /\ Ends(q)' <=> Ends(q)
                      /\ Begins(q) \/ Ends(q) => tok'[q] = tok[q]
                      /\ todo'[q] = todo[q]
  BY DEF OnlySelf, Begins, Ends
<1>3. BeginInv'
  <2>1. \A q \in Proc : Begins(q)' => pc'[q] = pc[q]
    BY <1>2 DEF OnlySelf
  <2> QED BY SMTT(20), Z3T(20), <1>2, <2>1 DEF Core, BeginInv, BeginOf
<1>4. EndInv'
  <2>1. \A q \in Proc : todo[q] # {} => op'[q] = op[q] /\ (Ends(q) \/ pc'[q] = "sweep")
    BY DEF Core, EndInv, OnlySelf
  <2> QED BY SMTT(20), Z3T(20), <1>2, <2>1 DEF Core, EndInv
<1>5. ControlInv' /\ ResultInv'
  BY Others
<1>6. TombstonesTellTheTruth'
  BY DEF Core, TombstonesTellTheTruth, Truthful, Settled, DbStable
<1>7. NoOrphans'
  <2>1. \A q \in Call : Begins(q) => Begins(q)' /\ tok'[q] = tok[q]
    BY <1>2 DEF Proc
  <2> QED BY <2>1 DEF Core, NoOrphans, Begins
<1> QED BY <1>3, <1>4, <1>5, <1>6, <1>7 DEF Core

\* Labels of a process that holds no lock and no transaction.
Neutral == {"idle", "lookup", "wait", "ended", "found", "take", "mark", "exec", "fail", "done"}

\* A process moves on between them.
LEMMA Move ==
    ASSUME Core, Types', NEW p \in Proc, OnlySelf(p), todo' = todo,
           Unmoved, pc[p] \in Neutral, pc'[p] \in Neutral,
           ControlOf(p)', ResultOf(p)', DirtyOf(p)'
    PROVE  Core'
<1>1. /\ ~Begins(p) /\ ~Begins(p)' /\ ~Ends(p) /\ ~Ends(p)' /\ ~Holds(p)' /\ pc[p] # "sweep"
      /\ pc'[p] \notin {"lock", "stmt", "commit", "sent", "rollback"}
  BY DEF Neutral, Begins, Ends, Holds
<1>2. LockInv'
  <2>1. \A q \in Proc : pc'[q] \in {"lock", "stmt", "commit", "sent", "rollback"} =>
                            pc'[q] = pc[q] /\ tok'[q] = tok[q]
    BY <1>1 DEF OnlySelf
  <2> QED BY SMTT(20), Z3T(20), <2>1 DEF Core, LockInv, LockOf, Holds, Settled, Unmoved, database
<1>3. DirtyInv'
  <2>1. \A q \in Proc \ {p} : DirtyOf(q)'
    BY DEF Core, DirtyInv, DirtyOf, OnlySelf, Unmoved
  <2> QED BY <2>1 DEF Core, DirtyInv, CommitReturnsWrites, Unmoved, database
<1>4. HandleInv'
  BY DEF Core, HandleInv, Settled, Unmoved, database
<1>5. DbStable /\ (\A u \in Token : HeldOpen(u)' => HeldOpen(u)) /\ db' = db
  BY DEF Unmoved, DbStable, HeldOpen, database
<1> QED BY <1>1, <1>2, <1>3, <1>4, <1>5, Frame DEF Unmoved

\* Nothing but clocks and limits changes.
LEMMA Quiet ==
    ASSUME Core, Types',
           Unmoved, UNCHANGED process
    PROVE  Core'
<1> USE DEF Unmoved
<1>1. HandleInv' /\ BeginInv' /\ EndInv'
  BY SMTT(20), Z3T(20) DEF Core, HandleInv, BeginInv, BeginOf, EndInv, Begins, Ends, Settled, database, process
<1>2. LockInv' /\ ControlInv' /\ ResultInv'
  BY SMTT(20), Z3T(20) DEF Core, LockInv, LockOf, ControlInv, ControlOf, ResultInv, ResultOf, Holds, Ends, Settled, Truthful,
         database, process
<1>3. DirtyInv' /\ TombstonesTellTheTruth' /\ NoOrphans'
  BY DEF Core, DirtyInv, DirtyOf, CommitReturnsWrites, TombstonesTellTheTruth, Truthful, Settled,
         NoOrphans, HeldOpen, database, process
<1> QED BY <1>1, <1>2, <1>3 DEF Core

\* A process takes a handle to end it at once.
LEMMA TakeOne ==
    ASSUME Core, Types', NEW p \in Proc, NEW t \in handles, OnlySelf(p), todo' = todo,
           handles' = handles \ {t}, ending' = ending \cup {t},
           UNCHANGED <<tomb, known, mclosed, owner, conn, hclosed, hmu, dirty, database>>,
           pc[p] \in Neutral, pc'[p] = "lock", tok'[p] = t, ControlOf(p)', ResultOf(p)'
    PROVE  Core'
<1>1. /\ ~Begins(p) /\ ~Begins(p)' /\ ~Ends(p) /\ Ends(p)' /\ ~Holds(p)' /\ pc[p] # "sweep"
      /\ \A q \in Proc \ {p} : /\ Begins(q)' <=> Begins(q)
                               /\ Ends(q)' <=> Ends(q)
                               /\ Holds(q)' <=> Holds(q)
  BY DEF Neutral, Begins, Ends, Holds, OnlySelf
<1>2. HandleInv'
  BY DEF Core, HandleInv, Settled, database
<1>3. BeginInv'
  BY SMTT(20), Z3T(20), <1>1 DEF Core, BeginInv, BeginOf, OnlySelf, database
<1>4. EndInv'
  <2>1. \A q \in Proc : todo[q] \subseteq ending /\ t \notin todo[q]
    BY DEF Core, EndInv, HandleInv
  <2>2. todo[p] = {}
    BY <1>1 DEF Core, EndInv
  <2>3. \A q \in Proc \ {p} : Ends(q) => tok[q] # t
    BY DEF Core, EndInv, HandleInv
  <2>4. \A u \in ending' : \E q \in Proc : u \in todo'[q] \/ (Ends(q)' /\ tok'[q] = u)
    BY SMTT(20), Z3T(20), <1>1, <2>2 DEF Core, EndInv, OnlySelf
  <2> QED BY SMTT(20), Z3T(20), <1>1, <2>1, <2>2, <2>3, <2>4 DEF Core, EndInv, OnlySelf
<1>5. LockInv'
  <2>1. ~hclosed[t]
    BY DEF Core, HandleInv
  <2> QED BY SMTT(20), Z3T(20), <1>1, <2>1 DEF Core, LockInv, LockOf, OnlySelf, Settled, database
<1>6. ControlInv' /\ ResultInv'
  BY Others DEF DbStable, database
<1>7. DirtyInv' /\ TombstonesTellTheTruth'
  BY DEF Core, DirtyInv, DirtyOf, CommitReturnsWrites, TombstonesTellTheTruth, Truthful, Settled,
         OnlySelf, database
<1>8. NoOrphans'
  <2>1. \A q \in Call : Begins(q) => Begins(q)' /\ tok'[q] = tok[q]
    BY <1>1 DEF OnlySelf, Proc
  <2> QED BY <2>1 DEF Core, NoOrphans, HeldOpen, Begins, database
<1> QED BY <1>2, <1>3, <1>4, <1>5, <1>6, <1>7, <1>8 DEF Core

\* A process takes handles to end them one after the other.
LEMMA TakeAll ==
    ASSUME Core, Types', NEW p \in Proc, NEW S \in SUBSET handles, OnlySelf(p), todo'[p] = S,
           handles' = handles \ S, ending' = ending \cup S, mclosed' => mclosed \/ S = handles,
           UNCHANGED <<tomb, known, owner, conn, hclosed, hmu, dirty, database>>,
           pc[p] = "idle", pc'[p] = "sweep", tok'[p] = None, ControlOf(p)', ResultOf(p)'
    PROVE  Core'
<1>1. /\ ~Begins(p) /\ ~Begins(p)' /\ ~Ends(p) /\ ~Ends(p)' /\ ~Holds(p)'
      /\ \A q \in Proc \ {p} : /\ Begins(q)' <=> Begins(q)
                               /\ Ends(q)' <=> Ends(q)
                               /\ Holds(q)' <=> Holds(q)
  BY DEF Begins, Ends, Holds, OnlySelf
<1>2. HandleInv'
  BY DEF Core, HandleInv, Settled, database
<1>3. BeginInv'
  BY SMTT(20), Z3T(20), <1>1 DEF Core, BeginInv, BeginOf, OnlySelf, database
<1>4. EndInv'
  <2>1. \A q \in Proc \ {p} : todo'[q] = todo[q] /\ todo[q] \cap S = {}
    BY DEF Core, EndInv, HandleInv, OnlySelf
  <2>2. todo[p] = {} /\ op'[p] = "sweep"
    BY <1>1 DEF Core, EndInv, ControlOf
  <2>3. \A q \in Proc \ {p} : Ends(q) => tok[q] \notin S
    BY DEF Core, EndInv, HandleInv
  <2>4. \A u \in ending' : \E q \in Proc : u \in todo'[q] \/ (Ends(q)' /\ tok'[q] = u)
    BY SMTT(20), Z3T(20), <1>1, <2>1, <2>2 DEF Core, EndInv, OnlySelf
  <2> QED BY SMTT(20), Z3T(20), <1>1, <2>1, <2>2, <2>3, <2>4 DEF Core, EndInv, OnlySelf
<1>5. LockInv'
  <2>1. \A t \in S : ~hclosed[t]
    BY DEF Core, HandleInv
  <2> QED BY SMTT(20), Z3T(20), <1>1, <2>1 DEF Core, LockInv, LockOf, OnlySelf, Settled, database
<1>6. ControlInv' /\ ResultInv'
  BY Others DEF DbStable, database
<1>7. DirtyInv' /\ TombstonesTellTheTruth'
  BY DEF Core, DirtyInv, DirtyOf, CommitReturnsWrites, TombstonesTellTheTruth, Truthful, Settled,
         OnlySelf, database
<1>8. NoOrphans'
  <2>1. \A q \in Call : Begins(q) => Begins(q)' /\ tok'[q] = tok[q]
    BY <1>1 DEF OnlySelf, Proc
  <2> QED BY <2>1 DEF Core, NoOrphans, HeldOpen, Begins, database
<1> QED BY <1>2, <1>3, <1>4, <1>5, <1>6, <1>7, <1>8 DEF Core

\* The database rolls a transaction back on its own, or decides its COMMIT.
LEMMA DbMoves ==
    ASSUME Core, Types', NEW t \in Token, \A u \in Token \ {t} : db'[u] = db[u],
           \/ db[t] = "active" /\ db'[t] = "rolledBack"
           \/ db[t] = "committing" /\ db'[t] \in {"committed", "rolledBack"},
           UNCHANGED <<handles, ending, tomb, known, mclosed, handle, written, process>>
    PROVE  Core'
<1>1. DbStable /\ \A u \in Token : /\ Settled(u) => Settled(u)'
                                   /\ HeldOpen(u)' => HeldOpen(u)
                                   /\ db[u] \in {"active", "rolledBack"} => db'[u] \in {"active", "rolledBack"}
                                   /\ db[u] \in {"none", "opening"} <=> db'[u] \in {"none", "opening"}
                                   /\ db[u] = "opening" => db'[u] = "opening"
  BY DEF DbStable, Settled, HeldOpen
<1>2. known \subseteq Token /\ \A p \in Proc : tok[p] \in Token \cup {None}
  BY DEF Core, HandleInv, Types, ProcessTypes
<1>3. HandleInv' /\ BeginInv' /\ EndInv'
  <2>1. HandleInv'
    BY <1>1, <1>2 DEF Core, HandleInv, handle, process
  <2>2. BeginInv'
    BY SMTT(20), Z3T(20), <1>1 DEF Core, BeginInv, BeginOf, Begins, handle, process
  <2> QED BY SMTT(20), Z3T(20), <2>1, <2>2 DEF Core, EndInv, Ends, process
<1>4. LockInv'
  BY <1>1, <1>2 DEF Core, LockInv, LockOf, HandleInv, Holds, handle, process
<1>5. ControlInv'
  BY <1>1, <1>2 DEF Core, ControlInv, ControlOf, Ends, process
<1>6. ResultInv' /\ TombstonesTellTheTruth'
  BY SMTT(20), Z3T(20), <1>1, <1>2 DEF Core, ResultInv, ResultOf, TombstonesTellTheTruth, Truthful, Settled, DbStable,
                    process
<1>7. DirtyInv' /\ NoOrphans'
  BY <1>1 DEF Core, DirtyInv, DirtyOf, CommitReturnsWrites, NoOrphans, handle, process
<1> QED BY <1>3, <1>4, <1>5, <1>6, <1>7 DEF Core

-----------------------------------------------------------------------------
(* Begin.                                                                  *)

\* A process begins transaction t, or gives it up: no table knows it yet.
LEMMA Unregistered ==
    ASSUME Core, Types', NEW p \in Proc, NEW t \in Token \ known, OnlySelf(p), todo' = todo,
           UNCHANGED <<handles, ending, tomb, known, mclosed, hclosed, hmu, dirty, written>>,
           \A u \in Token \ {t} : db'[u] = db[u] /\ owner'[u] = owner[u] /\ conn'[u] = conn[u],
           DbStable, HeldOpen(t)' => Begins(p)', p \in Call,
           \A q \in Proc \ {p} : Begins(q) => tok[q] # t,
           Begins(p) => tok[p] = t, tok'[p] = t, BeginOf(p)',
           pc[p] = "idle" \/ Begins(p), pc'[p] = "done" \/ Begins(p)',
           ControlOf(p)', ResultOf(p)'
    PROVE  Core'
<1>1. /\ ~Ends(p) /\ ~Ends(p)' /\ ~Holds(p)' /\ pc[p] # "sweep" /\ pc'[p] \notin {"exec", "stmt", "lock"}
      /\ \A q \in Proc \ {p} : /\ pc'[q] = pc[q] /\ tok'[q] = tok[q]
                               /\ Begins(q)' <=> Begins(q)
                               /\ Ends(q)' <=> Ends(q)
  BY DEF Begins, Ends, Holds, OnlySelf
<1>2. HandleInv'
  BY DEF Core, HandleInv, Settled
<1>3. BeginInv'
  <2>1. ASSUME NEW q \in Proc \ {p} PROVE BeginOf(q)'
    <3>1. BeginOf(q) /\ (Begins(q) => tok[q] # t)
      BY DEF Core, BeginInv
    <3> QED BY SMTT(20), Z3T(20), <1>1, <3>1 DEF BeginOf
  <2> QED BY SMTT(20), Z3T(20), <1>1, <2>1 DEF Core, BeginInv
<1>4. EndInv'
  <2>1. todo[p] = {}
    BY <1>1 DEF Core, EndInv
  <2> QED BY SMTT(20), Z3T(20), <1>1, <2>1 DEF Core, EndInv, OnlySelf
<1>5. LockInv'
  <2>1. \A q \in Proc : Holds(q) => tok[q] \in Token /\ tok[q] # t
    BY DEF Core, LockInv, LockOf, HandleInv
  <2>2. ASSUME NEW q \in Proc \ {p} PROVE LockOf(q)'
    <3>1. LockOf(q) /\ pc'[q] = pc[q] /\ tok'[q] = tok[q]
      BY <1>1 DEF Core, LockInv
    <3> QED BY <2>1, <3>1, LockStays
  <2>3. LockOf(p)'
    BY <1>1 DEF LockOf, Holds
  <2>4. \A u \in Token : hclosed[u] => u # t
    BY DEF Core, HandleInv
  <2> QED BY <2>2, <2>3, <2>4 DEF Core, LockInv, Settled
<1>6. ControlInv' /\ ResultInv'
  BY Others
<1>7. DirtyInv' /\ TombstonesTellTheTruth'
  BY SMTT(20), Z3T(20), <1>1 DEF Core, DirtyInv, DirtyOf, CommitReturnsWrites, TombstonesTellTheTruth, Truthful, Settled,
              OnlySelf, DbStable
<1>8. NoOrphans'
  <2>1. ASSUME NEW u \in Token, u # t, HeldOpen(u)' PROVE u \in handles \cup ending \/ \E q \in Call : tok'[q] = u /\ Begins(q)'
    <3>1. u \in handles \cup ending \/ \E q \in Call : tok[q] = u /\ Begins(q)
      BY <2>1 DEF Core, NoOrphans, HeldOpen, Begins
    <3>2. \A q \in Call : tok[q] = u /\ Begins(q) => tok'[q] = u /\ Begins(q)'
      <4>1. \A q \in Call : tok[q] = u /\ Begins(q) => q \in Proc \ {p}
        BY <2>1 DEF Proc
      <4> QED BY <1>1, <4>1
    <3> QED BY <3>1, <3>2
  <2> QED BY <2>1 DEF NoOrphans, Begins
<1> QED BY <1>2, <1>3, <1>4, <1>5, <1>6, <1>7, <1>8 DEF Core

\* A begin that has capacity takes a token nobody knows.
LEMMA BeginCheckKeeps ==
    ASSUME Core, NEW p \in Call, NEW c \in Caller, NEW k \in Conn, NEW t \in Token, BeginCheck(p, c, k, t)
    PROVE  Core'
<1>1. p \in Proc /\ db[t] = "none" /\ t \notin known
  BY DEF Core, HandleInv, BeginCheck, Proc
<1>2. /\ OnlySelf(p) /\ todo' = todo /\ pc[p] = "idle" /\ pc'[p] = "begin" /\ op'[p] = "begin"
      /\ tok'[p] = t /\ tgt'[p] = None
      /\ UNCHANGED <<handles, ending, tomb, known, mclosed, hclosed, hmu, dirty, written>>
  BY <1>1 DEF Core, Types, ProcessTypes, OnlySelf, BeginCheck, Enter, Goto, manager
<1>3. /\ \A u \in Token \ {t} : db'[u] = db[u] /\ owner'[u] = owner[u] /\ conn'[u] = conn[u]
      /\ db'[t] = "opening" /\ owner'[t] = c /\ conn'[t] = k
  BY DEF Core, Types, HandleTypes, DatabaseTypes, BeginCheck
<1>4. Types'
  <2>1. HandleTypes' /\ DatabaseTypes'
    BY DEF Core, Types, HandleTypes, DatabaseTypes, DbState, BeginCheck
  <2>2. ProcessTypes'
    BY <1>1 DEF Core, Types, ProcessTypes, Label, Operation, BeginCheck, Enter, Goto
  <2> QED BY <2>1, <2>2 DEF Types
<1>5. \A q \in Proc : Begins(q) => tok[q] # t
  BY <1>1 DEF Core, BeginInv, BeginOf
<1>6. BeginOf(p)' /\ ControlOf(p)' /\ ResultOf(p)' /\ Begins(p)' /\ ~Begins(p)
  BY <1>1, <1>2, <1>3 DEF BeginOf, ControlOf, ResultOf, Begins, Ends
<1>7. DbStable
  BY <1>1, <1>3 DEF DbStable
<1> QED BY <1>1, <1>2, <1>3, <1>4, <1>5, <1>6, <1>7, Unregistered

\* What a beginning process knows of its transaction.
LEMMA BeginKnows == ASSUME Core, NEW p \in Proc, Begins(p)
                    PROVE  /\ p \in Call /\ tok[p] \in Token /\ tok[p] \notin known
                           /\ owner[tok[p]] \in Caller /\ conn[tok[p]] \in Conn
                           /\ pc[p] = "begin" => db[tok[p]] = "opening"
                           /\ pc[p] # "begin" => db[tok[p]] \in {"active", "rolledBack"}
                           /\ \A q \in Proc \ {p} : Begins(q) => tok[q] # tok[p]
                           /\ op[p] # "sweep" /\ (op[p] = "read" => tgt[p] = None)
                           /\ op[p] \in {"write", "mark"} => tgt[p] \in Target
BY DEF Core, BeginInv, BeginOf, ControlInv, ControlOf, Begins, Ends

\* BeginTx fails: the token was never a transaction.
LEMMA BeginTxFailsKeeps == ASSUME Core, NEW p \in Proc, BeginTxFails(p) PROVE Core'
<1>0. Begins(p)
  BY DEF BeginTxFails, Begins
<1>1. /\ OnlySelf(p) /\ todo' = todo /\ UNCHANGED <<op, tok, tgt>>
      /\ pc[p] = "begin" /\ pc'[p] = "done" /\ res'[p] = "refused"
  BY DEF Core, Types, ProcessTypes, OnlySelf, BeginTxFails, Return, Goto
<1>6. UNCHANGED <<handles, ending, tomb, known, mclosed, hclosed, hmu, dirty, written>>
  BY DEF BeginTxFails, manager
<1>2. /\ \A u \in Token \ {tok[p]} : db'[u] = db[u] /\ owner'[u] = owner[u] /\ conn'[u] = conn[u]
      /\ db[tok[p]] = "opening" /\ db'[tok[p]] = "none"
  BY <1>0, <1>1, BeginKnows DEF Core, Types, HandleTypes, DatabaseTypes, BeginTxFails
<1>3. Types'
  <2>1. HandleTypes'
    BY <1>0, BeginKnows DEF Core, Types, HandleTypes, BeginTxFails
  <2>3. DatabaseTypes'
    BY <1>0, BeginKnows DEF Core, Types, DatabaseTypes, DbState, BeginTxFails
  <2>2. ProcessTypes'
    BY DEF Core, Types, ProcessTypes, Label, Answer, BeginTxFails, Return, Goto
  <2> QED BY <2>1, <2>2, <2>3 DEF Types
<1>4. BeginOf(p)' /\ ControlOf(p)' /\ ResultOf(p)'
  BY <1>0, <1>1, BeginKnows DEF BeginOf, ControlOf, ResultOf, Truthful, Begins, Ends
<1>5. DbStable /\ ~HeldOpen(tok[p])'
  BY <1>1, <1>2 DEF DbStable, HeldOpen
<1> QED BY <1>0, <1>1, <1>2, <1>3, <1>4, <1>5, <1>6, BeginKnows, Unregistered

\* BeginTx returns an open transaction only its begin knows.
LEMMA BeginTxReturnsKeeps == ASSUME Core, NEW p \in Proc, BeginTxReturns(p) PROVE Core'
<1>0. Begins(p)
  BY DEF BeginTxReturns, Begins
<1>1. /\ OnlySelf(p) /\ todo' = todo /\ UNCHANGED <<op, tok, tgt, res>>
      /\ pc[p] = "begin" /\ pc'[p] \in {"register", "abandon"}
  BY DEF Core, Types, ProcessTypes, OnlySelf, BeginTxReturns, Goto
<1>6. UNCHANGED <<handles, ending, tomb, known, mclosed, owner, conn, hclosed, hmu, dirty, written>>
  BY DEF BeginTxReturns, manager, handle
<1>2. /\ \A u \in Token \ {tok[p]} : db'[u] = db[u]
      /\ db[tok[p]] = "opening" /\ db'[tok[p]] = "active"
  BY <1>0, <1>1, BeginKnows DEF Core, Types, DatabaseTypes, BeginTxReturns
<1>3. Types'
  <2>1. HandleTypes'
    BY DEF Core, Types, HandleTypes, BeginTxReturns, handle
  <2>3. DatabaseTypes'
    BY <1>0, BeginKnows DEF Core, Types, DatabaseTypes, DbState, BeginTxReturns
  <2>2. ProcessTypes'
    BY DEF Core, Types, ProcessTypes, Label, BeginTxReturns, Goto
  <2> QED BY <2>1, <2>2, <2>3 DEF Types
<1>4. BeginOf(p)' /\ ControlOf(p)' /\ ResultOf(p)' /\ Begins(p)'
  <2>1. BeginOf(p)' /\ Begins(p)'
    BY <1>0, <1>1, <1>2, <1>6, BeginKnows DEF BeginOf, Begins
  <2>2. ControlOf(p)' /\ ResultOf(p)'
    BY <1>0, <1>1, BeginKnows DEF ControlOf, ResultOf, Ends
  <2> QED BY <2>1, <2>2
<1>5. DbStable
  BY <1>1, <1>2 DEF DbStable
<1> QED BY <1>0, <1>1, <1>2, <1>3, <1>4, <1>5, <1>6, BeginKnows, Unregistered

\* A begin refused by addHandle rolls back the transaction it opened.
LEMMA AbandonKeeps == ASSUME Core, NEW p \in Proc, Abandon(p) PROVE Core'
<1>0. Begins(p)
  BY DEF Abandon, Begins
<1>1. /\ OnlySelf(p) /\ todo' = todo /\ UNCHANGED <<op, tok, tgt>>
      /\ pc[p] = "abandon" /\ pc'[p] = "done" /\ res'[p] = "refused"
  BY DEF Core, Types, ProcessTypes, OnlySelf, Abandon, Return, Goto
<1>6. UNCHANGED <<handles, ending, tomb, known, mclosed, owner, conn, hclosed, hmu, dirty, written>>
  BY DEF Abandon, manager, handle
<1>2. /\ \A u \in Token \ {tok[p]} : db'[u] = db[u]
      /\ db[tok[p]] \in {"active", "rolledBack"} /\ db'[tok[p]] = "rolledBack"
  BY <1>0, <1>1, BeginKnows DEF Core, Types, DatabaseTypes, Abandon
<1>3. Types'
  <2>1. HandleTypes'
    BY DEF Core, Types, HandleTypes, Abandon, handle
  <2>3. DatabaseTypes'
    BY <1>0, BeginKnows DEF Core, Types, DatabaseTypes, DbState, Abandon
  <2>2. ProcessTypes'
    BY DEF Core, Types, ProcessTypes, Label, Answer, Abandon, Return, Goto
  <2> QED BY <2>1, <2>2, <2>3 DEF Types
<1>4. BeginOf(p)' /\ ControlOf(p)' /\ ResultOf(p)'
  BY <1>0, <1>1, BeginKnows DEF BeginOf, ControlOf, ResultOf, Truthful, Begins, Ends
<1>5. DbStable /\ ~HeldOpen(tok[p])'
  BY <1>1, <1>2 DEF DbStable, HeldOpen
<1> QED BY <1>0, <1>1, <1>2, <1>3, <1>4, <1>5, <1>6, BeginKnows, Unregistered

\* The manager learns of the transaction, or its process rolls it back.
LEMMA RegisterKeeps == ASSUME Core, NEW p \in Proc, Register(p) PROVE Core'
<1> DEFINE t == tok[p]
<1>1. Begins(p) /\ pc[p] = "register"
  BY DEF Register, Begins
<1>2. /\ p \in Call /\ t \in Token /\ t \notin known /\ owner[t] \in Caller /\ conn[t] \in Conn
      /\ db[t] \in {"active", "rolledBack"} /\ op[p] # "sweep" /\ (op[p] = "read" => tgt[p] = None)
      /\ (op[p] \in {"write", "mark"} => tgt[p] \in Target)
      /\ \A q \in Proc \ {p} : Begins(q) => tok[q] # t
  BY <1>1, BeginKnows
<1>3. UNCHANGED <<ending, tomb, mclosed, owner, conn, hclosed, hmu, dirty, database, op, tok, tgt, todo>>
  BY DEF Register, handle
<1>4. CASE ~mclosed /\ HasCapacity(owner[t][2], conn[t])
  <2>1. /\ OnlySelf(p) /\ pc'[p] = "done" /\ res'[p] = "begun"
        /\ handles' = handles \cup {t} /\ known' = known \cup {t}
    BY <1>3, <1>4 DEF Core, Types, ProcessTypes, OnlySelf, Register, Return, Goto
  <2>2. Types'
    BY <1>4 DEF Core, Types, HandleTypes, DatabaseTypes, ProcessTypes, Label, Answer,
                Register, Return, Goto, handle, database
  <2>3. /\ ~Ends(p) /\ ~Ends(p)' /\ ~Holds(p)' /\ ~Begins(p)'
        /\ \A q \in Proc \ {p} : /\ pc'[q] = pc[q]
                                 /\ Begins(q)' <=> Begins(q)
                                 /\ Ends(q)' <=> Ends(q)
    BY <1>1, <2>1 DEF Begins, Ends, Holds, OnlySelf
  <2>4. ~hclosed[t] /\ t \notin handles \cup ending
    BY <1>2 DEF Core, HandleInv
  <2>5. HandleInv'
    BY <1>2, <1>3, <1>4, <2>1, <2>4 DEF Core, HandleInv, Settled, database
  <2>6. BeginInv'
    <3>1. ASSUME NEW q \in Proc \ {p} PROVE BeginOf(q)'
      <4>1. BeginOf(q) /\ (Begins(q) => tok[q] # t)
        BY <1>2 DEF Core, BeginInv
      <4> QED BY <1>3, <2>1, <2>3, <4>1 DEF BeginOf, database
    <3> QED BY SMTT(20), Z3T(20), <1>3, <2>3, <3>1 DEF Core, BeginInv, BeginOf
  <2>7. EndInv'
    <3>1. todo[p] = {}
      BY <1>1, <2>3 DEF Core, EndInv
    <3> QED BY SMTT(20), Z3T(20), <1>3, <2>3, <3>1 DEF Core, EndInv
  <2>8. LockInv'
    <3>1. ASSUME NEW q \in Proc \ {p} PROVE LockOf(q)'
      <4>1. LockOf(q) /\ pc'[q] = pc[q] /\ tok'[q] = tok[q]
        BY <1>3, <2>3 DEF Core, LockInv
      <4> QED BY <1>3, <2>1, <4>1, LockStays DEF database
    <3>2. LockOf(p)'
      BY <2>1 DEF LockOf, Holds
    <3> QED BY <1>3, <3>1, <3>2 DEF Core, LockInv, Settled, database
  <2>9. ControlOf(p)' /\ ResultOf(p)'
    BY <1>2, <1>3, <2>1 DEF ControlOf, ResultOf, Truthful, Ends
  <2>10. ControlInv' /\ ResultInv'
    BY <1>2, <1>3, <2>1, <2>9, Others DEF DbStable, database
  <2>11. DirtyInv'
    BY <1>3, <2>1, <2>3 DEF Core, DirtyInv, DirtyOf, CommitReturnsWrites, database
  <2>12. TombstonesTellTheTruth'
    BY <1>3 DEF Core, TombstonesTellTheTruth, Truthful, Settled, database
  <2>13. NoOrphans'
    <3>1. \A q \in Call : Begins(q) /\ tok[q] # t => Begins(q)'
      BY <2>3 DEF Proc
    <3> QED BY <1>3, <2>1, <3>1 DEF Core, NoOrphans, HeldOpen, Begins, database
  <2> QED BY <2>2, <2>5, <2>6, <2>7, <2>8, <2>10, <2>11, <2>12, <2>13 DEF Core
<1>5. CASE ~(~mclosed /\ HasCapacity(owner[t][2], conn[t]))
  <2>1. OnlySelf(p) /\ pc'[p] = "abandon" /\ UNCHANGED <<handles, known, res>>
    BY <1>3, <1>5 DEF Core, Types, ProcessTypes, OnlySelf, Register, Goto
  <2>2. Types'
    <3>1. HandleTypes' /\ DatabaseTypes'
      BY DEF Core, Types, HandleTypes, DatabaseTypes, Register, handle, database
    <3>2. ProcessTypes'
      BY <1>5 DEF Core, Types, ProcessTypes, Label, Register, Goto
    <3> QED BY <3>1, <3>2 DEF Types
  <2>3. BeginOf(p)' /\ Begins(p)'
    <3>1. tok'[p] = t /\ owner' = owner /\ conn' = conn /\ db' = db /\ known' = known
      BY <1>3, <2>1 DEF database
    <3> QED BY <1>2, <2>1, <3>1 DEF BeginOf, Begins
  <2>4. ControlOf(p)' /\ ResultOf(p)'
    <3>1. op'[p] = op[p] /\ tgt'[p] = tgt[p]
      BY <1>3
    <3> QED BY <1>2, <2>1, <3>1 DEF ControlOf, ResultOf, Ends
  <2>5. DbStable /\ db' = db /\ written' = written
    BY <1>3 DEF DbStable, database
  <2> QED BY <1>1, <1>2, <1>3, <2>1, <2>2, <2>3, <2>4, <2>5, Unregistered
<1> QED BY <1>4, <1>5

-----------------------------------------------------------------------------
(* lookup and its answers.                                                 *)

\* A lookup changes nothing but where its call is.
LEMMA LookupKeeps == ASSUME Core, NEW p \in Proc, Lookup(p) PROVE Core'
<1>1. /\ OnlySelf(p) /\ todo' = todo /\ Unmoved /\ UNCHANGED <<op, tok, tgt>>
      /\ pc[p] = "lookup" /\ pc'[p] \in {"found", "done", "wait", "ended"}
      /\ pc'[p] = "done" => res'[p] = "scope"
      /\ pc'[p] = "wait" => tok[p] \in ending
      /\ pc'[p] = "ended" => tok[p] \notin handles \cup ending
  BY DEF Core, Types, ProcessTypes, OnlySelf, Unmoved, Lookup, Return, Goto, manager, handle
<1>2. Types'
  BY DEF Core, Types, HandleTypes, DatabaseTypes, ProcessTypes, Label, Answer,
         Lookup, Return, Goto, handle, database
<1>3. ControlOf(p)' /\ ResultOf(p)' /\ DirtyOf(p)'
  BY <1>1 DEF Core, HandleInv, ControlInv, ControlOf, ResultOf, DirtyOf, Truthful, Ends, Settled,
              Unmoved, database
<1> QED BY <1>1, <1>2, <1>3, Move DEF Neutral

\* A lookup that waited for the end of a transaction goes on.
LEMMA WaitKeeps == ASSUME Core, NEW p \in Proc, Wait(p) PROVE Core'
<1>1. /\ OnlySelf(p) /\ todo' = todo /\ Unmoved /\ UNCHANGED <<op, tok, tgt>>
      /\ pc[p] = "wait" /\ pc'[p] = "ended" /\ tok[p] \notin ending
  BY DEF Core, Types, ProcessTypes, OnlySelf, Unmoved, Wait, Goto, manager, handle
<1>2. Types'
  BY DEF Core, Types, HandleTypes, DatabaseTypes, ProcessTypes, Label, Wait, Goto, handle, database
<1>3. ControlOf(p)' /\ ResultOf(p)' /\ DirtyOf(p)'
  BY <1>1 DEF Core, HandleInv, ControlInv, ControlOf, ResultOf, DirtyOf, Ends, Settled,
              Unmoved, database
<1> QED BY <1>1, <1>2, <1>3, Move DEF Neutral

\* What a call answers of a transaction that ended is what its tombstone tells.
LEMMA EndedErrorKeeps == ASSUME ManagerTypes, Core, NEW p \in Proc, EndedError(p) PROVE Core'
<1>1. /\ OnlySelf(p) /\ todo' = todo /\ Unmoved /\ UNCHANGED <<op, tok, tgt>>
      /\ pc[p] = "ended" /\ pc'[p] = "done" /\ res'[p] \in {tomb[tok[p]], "notFound"}
  BY DEF Core, Types, ProcessTypes, OnlySelf, Unmoved, EndedError, Return, Goto, manager, handle
<1>2. /\ tok[p] \in Token /\ Settled(tok[p]) /\ Truthful(tok[p], tomb[tok[p]]) /\ op[p] # "sweep"
      /\ tomb[tok[p]] \in Answer
  BY <1>1 DEF ManagerTypes, Core, HandleInv, ControlInv, ControlOf, TombstonesTellTheTruth, Ends, Answer
<1>3. Types'
  BY <1>2 DEF Core, Types, HandleTypes, DatabaseTypes, ProcessTypes, Label, Answer,
              EndedError, Return, Goto, handle, database
<1>4. ControlOf(p)' /\ ResultOf(p)' /\ DirtyOf(p)'
  BY <1>1, <1>2 DEF Core, ControlInv, ControlOf, ResultOf, DirtyOf, Truthful, Ends, Settled,
                    Unmoved, database
<1> QED BY <1>1, <1>3, <1>4, Move DEF Neutral

\* A call that gives up waiting answers nothing of the transaction.
LEMMA WaitCanceledKeeps == ASSUME Core, NEW p \in Proc, WaitCanceled(p) PROVE Core'
<1>1. /\ OnlySelf(p) /\ todo' = todo /\ Unmoved
      /\ UNCHANGED <<op, tok, tgt>>
      /\ pc[p] = "wait" /\ pc'[p] = "done" /\ res'[p] = "canceled"
  BY DEF Core, Types, ProcessTypes, OnlySelf, Unmoved, WaitCanceled, Return, Goto, manager, handle
<1>2. Types'
  BY DEF Core, Types, HandleTypes, DatabaseTypes, ProcessTypes, Label, Answer, Operation,
         WaitCanceled, Return, Goto, handle, database
<1>3. ControlOf(p)' /\ ResultOf(p)' /\ DirtyOf(p)'
  BY <1>1 DEF Core, ControlInv, ControlOf, ResultOf, DirtyOf, Truthful, Ends, Settled,
              Unmoved, database
<1> QED BY <1>1, <1>2, <1>3, Move DEF Neutral

\* A call for another connection or configuration is refused.
LEMMA MisroutedKeeps == ASSUME Core, NEW p \in Proc, Misrouted(p) PROVE Core'
<1>1. /\ OnlySelf(p) /\ todo' = todo /\ Unmoved
      /\ UNCHANGED <<op, tok, tgt>>
      /\ pc[p] = "found" /\ pc'[p] = "done" /\ res'[p] = "stale"
  BY DEF Core, Types, ProcessTypes, OnlySelf, Unmoved, Misrouted, Return, Goto, manager, handle
<1>2. Types'
  BY DEF Core, Types, HandleTypes, DatabaseTypes, ProcessTypes, Label, Answer, Operation,
         Misrouted, Return, Goto, handle, database
<1>3. ControlOf(p)' /\ ResultOf(p)' /\ DirtyOf(p)'
  BY <1>1 DEF Core, ControlInv, ControlOf, ResultOf, DirtyOf, Truthful, Ends, Settled,
              Unmoved, database
<1> QED BY <1>1, <1>2, <1>3, Move DEF Neutral

\* A write records its targets as dirty before it runs.
LEMMA LookupReturnsKeeps == ASSUME Core, NEW p \in Proc, LookupReturns(p) PROVE Core'
<1>1. /\ OnlySelf(p) /\ todo' = todo /\ Unmoved
      /\ UNCHANGED <<tok, tgt, res>> /\ pc[p] = "found"
      /\ \/ op[p] = "write" /\ op'[p] = "mark" /\ pc'[p] = "lookup"
         \/ op[p] \in {"commit", "rollback"} /\ op'[p] = op[p] /\ pc'[p] = "take"
         \/ op[p] = "mark" /\ op'[p] = op[p] /\ pc'[p] = "mark"
         \/ op[p] \notin {"write", "commit", "rollback", "mark"} /\ op'[p] = op[p] /\ pc'[p] = "exec"
  BY DEF Core, Types, ProcessTypes, OnlySelf, Unmoved, LookupReturns, Goto, manager, handle
<1>2. Types'
  <2>1. \E l \in Label, o \in Operation : pc' = [pc EXCEPT ![p] = l] /\ op' = [op EXCEPT ![p] = o]
    BY SMTT(20), Z3T(20) DEF Core, Types, ProcessTypes, Label, Operation, LookupReturns, Goto
  <2> QED BY SMTT(20), Z3T(20), <2>1 DEF Core, Types, HandleTypes, DatabaseTypes, ProcessTypes,
                      LookupReturns, handle, database
<1>3. ControlOf(p)' /\ ResultOf(p)' /\ DirtyOf(p)'
  BY <1>1 DEF Core, ControlInv, ControlOf, ResultOf, DirtyOf, Truthful, Ends, Settled,
              Unmoved, database
<1> QED BY <1>1, <1>2, <1>3, Move DEF Neutral

\* A call that returned is idle again, and ends nothing.
LEMMA LeaveKeeps == ASSUME Core, NEW p \in Proc, Leave(p) PROVE Core'
<1>1. /\ OnlySelf(p) /\ todo' = todo /\ Unmoved
      /\ pc[p] = "done" /\ pc'[p] = "idle"
      /\ op'[p] = "none" /\ tok'[p] = None /\ tgt'[p] = None
  BY DEF Core, Types, ProcessTypes, OnlySelf, Unmoved, Leave, Goto, manager, handle
<1>2. Types'
  BY DEF Core, Types, HandleTypes, DatabaseTypes, ProcessTypes, Label, Answer, Operation,
         Leave, Goto, handle, database
<1>3. ControlOf(p)' /\ ResultOf(p)' /\ DirtyOf(p)'
  BY <1>1 DEF Core, ControlInv, ControlOf, ResultOf, DirtyOf, Truthful, Ends, Settled,
              Unmoved, database
<1> QED BY <1>1, <1>2, <1>3, Move DEF Neutral

\* A call begins: it has taken nothing and holds no lock.
LEMMA StartKeeps == ASSUME Core, NEW p \in Proc, NEW o \in Ops, NEW t \in Token,
           NEW c \in Caller, NEW x \in Target \cup {None}, Start(p, o, t, c, x) PROVE Core'
<1>1. /\ OnlySelf(p) /\ todo' = todo /\ Unmoved
      /\ pc[p] = "idle" /\ pc'[p] = "lookup"
      /\ op'[p] = o /\ tok'[p] = t /\ tgt'[p] = x
      /\ t \in known /\ (o = "write" <=> x # None)
  BY DEF Core, Types, ProcessTypes, OnlySelf, Unmoved, Start, Enter, Goto, manager, handle
<1>2. Types'
  BY OpsAssumption DEF Core, Types, HandleTypes, DatabaseTypes, ProcessTypes, Label, Answer, Operation,
         Start, Enter, Goto, handle, database
<1>3. ControlOf(p)' /\ ResultOf(p)' /\ DirtyOf(p)'
  BY OpsAssumption, <1>1 DEF Core, ControlInv, ControlOf, ResultOf, DirtyOf, Truthful, Ends, Settled,
              Unmoved, database
<1> QED BY <1>1, <1>2, <1>3, Move DEF Neutral

-----------------------------------------------------------------------------
(* The processes that take handles.                                        *)

\* A lookup takes a handle it finds expired, if nobody took it.
LEMMA LookupExpiresKeeps == ASSUME Core, NEW p \in Proc, LookupExpires(p) PROVE Core'
<1>1. /\ OnlySelf(p) /\ todo' = todo /\ UNCHANGED <<tok, tgt>>
      /\ UNCHANGED <<tomb, known, mclosed, owner, conn, hclosed, hmu, dirty, database>>
      /\ pc[p] = "found" /\ op'[p] = "timer"
      /\ tok[p] \in handles => pc'[p] = "lock" /\ res'[p] = "expired"
      /\ tok[p] \notin handles => pc'[p] = "done" /\ res'[p] = "saidExpired"
  BY DEF Core, Types, ProcessTypes, OnlySelf, LookupExpires, EndHandle, Take, Return, Goto, handle
<1>2. Types'
  <2>1. \E l \in Label, a \in Answer : pc' = [pc EXCEPT ![p] = l] /\ res' = [res EXCEPT ![p] = a]
    BY DEF Label, Answer, Outcome, LookupExpires, EndHandle, Return, Goto
  <2> QED BY SMTT(20), Z3T(20), <2>1 DEF Core, Types, HandleTypes, DatabaseTypes, ProcessTypes, Operation,
                      LookupExpires, handle, database
<1>3. ControlOf(p)' /\ ResultOf(p)' /\ DirtyOf(p)'
  BY <1>1 DEF Core, ControlInv, ControlOf, ResultOf, DirtyOf, Truthful, Ends, Settled, database
<1>4. CASE tok[p] \in handles
  <2>1. handles' = handles \ {tok[p]} /\ ending' = ending \cup {tok[p]}
    BY <1>4 DEF LookupExpires, EndHandle, Take, Return, Goto
  <2> QED BY <1>1, <1>2, <1>3, <1>4, <2>1, TakeOne DEF Neutral
<1>5. CASE tok[p] \notin handles
  <2>1. Unmoved
    BY <1>1, <1>5 DEF Unmoved, LookupExpires, EndHandle, Take, Return, Goto
  <2> QED BY <1>1, <1>2, <1>3, <1>5, <2>1, Move DEF Neutral
<1> QED BY <1>4, <1>5

\* A failed statement takes the handle to end it, if nobody took it.
LEMMA FailEndsKeeps == ASSUME Core, NEW p \in Proc, FailEnds(p) PROVE Core'
<1>1. /\ OnlySelf(p) /\ todo' = todo /\ UNCHANGED <<tok, tgt>>
      /\ UNCHANGED <<tomb, known, mclosed, owner, conn, hclosed, hmu, dirty, database>>
      /\ pc[p] = "fail" /\ op' = op
      /\ tok[p] \in handles => pc'[p] = "lock" /\ res'[p] = "rolledBack"
      /\ tok[p] \notin handles => pc'[p] = "done" /\ res'[p] = "saidRolledBack"
  BY DEF Core, Types, ProcessTypes, OnlySelf, FailEnds, EndHandle, Take, Return, Goto, handle
<1>2. Types'
  <2>1. \E l \in Label, a \in Answer : pc' = [pc EXCEPT ![p] = l] /\ res' = [res EXCEPT ![p] = a]
    BY DEF Label, Answer, Outcome, FailEnds, EndHandle, Return, Goto
  <2> QED BY SMTT(20), Z3T(20), <2>1 DEF Core, Types, HandleTypes, DatabaseTypes, ProcessTypes,
                      FailEnds, handle, database
<1>3. ControlOf(p)' /\ ResultOf(p)' /\ DirtyOf(p)'
  BY <1>1 DEF Core, ControlInv, ControlOf, ResultOf, DirtyOf, Truthful, Ends, Settled, database
<1>4. CASE tok[p] \in handles
  <2>1. handles' = handles \ {tok[p]} /\ ending' = ending \cup {tok[p]}
    BY <1>4 DEF FailEnds, EndHandle, Take, Return, Goto
  <2> QED BY <1>1, <1>2, <1>3, <1>4, <2>1, TakeOne DEF Neutral
<1>5. CASE tok[p] \notin handles
  <2>1. Unmoved
    BY <1>1, <1>5 DEF Unmoved, FailEnds, EndHandle, Take, Return, Goto
  <2> QED BY <1>1, <1>2, <1>3, <1>5, <2>1, Move DEF Neutral
<1> QED BY <1>4, <1>5

\* A commit or rollback takes the handle, and is the only one to end it.
LEMMA TakeFinishKeeps == ASSUME Core, NEW p \in Proc, TakeFinish(p) PROVE Core'
<1>1. /\ OnlySelf(p) /\ todo' = todo /\ UNCHANGED <<tok, tgt>>
      /\ UNCHANGED <<tomb, known, mclosed, owner, conn, hclosed, hmu, dirty, database>>
      /\ pc[p] = "take" /\ op' = op /\ res' = res
      /\ tok[p] \in handles => pc'[p] = "lock"
      /\ tok[p] \notin handles => pc'[p] = "lookup"
  BY DEF Core, Types, ProcessTypes, OnlySelf, TakeFinish, Take, Goto, handle
<1>2. Types'
  BY DEF Core, Types, HandleTypes, DatabaseTypes, ProcessTypes, Label, Answer, Outcome, Operation,
         TakeFinish, Take, Goto, handle, database
<1>3. ControlOf(p)' /\ ResultOf(p)' /\ DirtyOf(p)'
  BY <1>1 DEF Core, ControlInv, ControlOf, ResultOf, DirtyOf, Truthful, Ends, Settled, database
<1>4. CASE tok[p] \in handles
  <2>1. handles' = handles \ {tok[p]} /\ ending' = ending \cup {tok[p]}
    BY <1>4 DEF TakeFinish, Take, Goto
  <2> QED BY <1>1, <1>2, <1>3, <1>4, <2>1, TakeOne DEF Neutral
<1>5. CASE tok[p] \notin handles
  <2>1. Unmoved
    BY <1>1, <1>5 DEF Unmoved, TakeFinish, Take, Goto
  <2> QED BY <1>1, <1>2, <1>3, <1>5, <2>1, Move DEF Neutral
<1> QED BY <1>4, <1>5

\* A timer takes a handle that is still listed.
LEMMA TimerFiresKeeps == ASSUME Core, NEW t \in Token, TimerFires(t) PROVE Core'
<1>1. t \in Proc
  BY DEF Proc
<1>2. /\ OnlySelf(t) /\ todo' = todo
      /\ UNCHANGED <<tomb, known, mclosed, owner, conn, hclosed, hmu, dirty, database>>
      /\ pc[t] = "idle" /\ pc'[t] = "lock" /\ op'[t] = "timer" /\ tok'[t] = t /\ res'[t] = "expired"
      /\ tgt'[t] = None
  BY <1>1 DEF Core, Types, ProcessTypes, OnlySelf, TimerFires, Enter, Goto, handle
<1>3. t \in handles /\ handles' = handles \ {t} /\ ending' = ending \cup {t}
  BY DEF TimerFires, Take
<1>4. Types'
  BY <1>1 DEF Core, Types, HandleTypes, DatabaseTypes, ProcessTypes, Label, Answer, Outcome, Operation,
         TimerFires, Enter, Goto, handle, database
<1>5. ControlOf(t)' /\ ResultOf(t)'
  BY <1>2 DEF ControlOf, ResultOf, Ends
<1> QED BY <1>1, <1>2, <1>3, <1>4, <1>5, TakeOne DEF Neutral

\* RollbackSession and Close.
LEMMA SweepKeeps ==
    ASSUME Core, NEW p \in Proc, NEW S \in SUBSET handles, Sweep(p, S),
           mclosed' => mclosed \/ S = handles
    PROVE  Core'
<1>1. /\ OnlySelf(p) /\ todo'[p] = S
      /\ UNCHANGED <<tomb, known, owner, conn, hclosed, hmu, dirty, database>>
      /\ pc[p] = "idle" /\ pc'[p] = "sweep" /\ op'[p] = "sweep" /\ tok'[p] = None
      /\ tgt'[p] = None /\ res'[p] = "rolledBack"
      /\ handles' = handles \ S /\ ending' = ending \cup S
  BY DEF Core, Types, ProcessTypes, OnlySelf, Sweep, Take, Enter, Goto, handle
<1>2. Types'
  <2>1. S \in SUBSET Token
    BY DEF Core, HandleInv
  <2> QED BY <2>1 DEF Core, Types, HandleTypes, DatabaseTypes, ProcessTypes, Label, Answer, Outcome, Operation,
                      Sweep, Enter, Goto, handle, database
<1>3. ControlOf(p)' /\ ResultOf(p)'
  BY <1>1 DEF ControlOf, ResultOf, Ends
<1> QED BY <1>1, <1>2, <1>3, TakeAll

-----------------------------------------------------------------------------
(* Time, limits and the database.                                          *)

\* A reload of the limits changes no handle and no counter.
LEMMA UpdateLimitsKeeps == ASSUME Core, NEW n, NEW k, UpdateLimits(n, k) PROVE Core'
<1>1. Types'
  BY DEF Core, Types, HandleTypes, DatabaseTypes, ProcessTypes, UpdateLimits, handle, database, process
<1> QED BY <1>1, Quiet DEF UpdateLimits, Unmoved, handle

\* Time passes for a transaction.
LEMMA ClockTickKeeps == ASSUME Core, NEW t \in Token, ClockTick(t) PROVE Core'
<1>1. Types'
  BY DEF Core, Types, HandleTypes, DatabaseTypes, ProcessTypes, Phase, ClockTick, database, process
<1> QED BY <1>1, Quiet DEF ClockTick, Unmoved, manager

\* A stuttering step keeps everything.
LEMMA StutterKeeps == ASSUME Core, UNCHANGED vars PROVE Core'
<1>1. Types'
  BY DEF Core, Types, HandleTypes, DatabaseTypes, ProcessTypes, vars, handle, database, process
<1> QED BY <1>1, Quiet DEF vars, Unmoved, manager, handle

\* database/sql rolls back a transaction whose context ended.
LEMMA LifetimeRollbackKeeps == ASSUME Core, NEW t \in Token, LifetimeRollback(t) PROVE Core'
<1>1. Types' /\ db'[t] = "rolledBack" /\ \A u \in Token \ {t} : db'[u] = db[u]
  BY DEF Core, Types, HandleTypes, DatabaseTypes, ProcessTypes, DbState, LifetimeRollback, handle, process
<1> QED BY <1>1, DbMoves DEF LifetimeRollback, manager

\* The database decides a COMMIT that was cut: either outcome is uncertain to all.
LEMMA DbDecidesKeeps == ASSUME Core, NEW t \in Token, DbDecides(t) PROVE Core'
<1>1. /\ Types' /\ db'[t] \in {"committed", "rolledBack"}
      /\ \A u \in Token \ {t} : db'[u] = db[u]
  BY DEF Core, Types, HandleTypes, DatabaseTypes, ProcessTypes, DbState, DbDecides, handle, process
<1> QED BY <1>1, DbMoves DEF DbDecides, manager

-----------------------------------------------------------------------------
(* The end of an ending, and the next one of a sweep.                      *)

\* The process that took a handle buries it with what it knows.
LEMMA EndKeeps == ASSUME Core, NEW p \in Proc, End(p) PROVE Core'
<1> DEFINE t == tok[p]
<1>1. /\ pc[p] = "bury" /\ t \in known /\ t \in ending /\ t \notin handles /\ t \in Token
      /\ res[p] \in Outcome /\ Truthful(t, res[p]) /\ Settled(t)
  BY NoneAssumption DEF Core, EndInv, Ends, HandleInv, ResultInv, ResultOf, Truthful, Outcome, Settled, End
<1>2. /\ OnlySelf(p) /\ UNCHANGED <<op, tok, tgt, res, todo>>
      /\ UNCHANGED <<handles, known, mclosed, owner, conn, hclosed, hmu, dirty, database>>
      /\ ending' = ending \ {t}
      /\ pc'[p] = IF op[p] = "sweep" THEN "sweep" ELSE "done"
  BY DEF Core, Types, ProcessTypes, OnlySelf, End, Goto, handle
<1>3. \A u \in Token : tomb'[u] \in {tomb[u], "none"} \/ (u = t /\ tomb'[u] = res[p])
  BY DEF End, Bury
<1>4. Types'
  BY DEF Core, Types, HandleTypes, DatabaseTypes, ProcessTypes, Label, End, Goto, handle, database
<1>5. HandleInv'
  BY <1>1, <1>2 DEF Core, HandleInv, Settled, database
<1>6. /\ \A q \in Proc \ {p} : /\ pc'[q] = pc[q]
                               /\ Begins(q)' <=> Begins(q)
                               /\ Ends(q)' <=> Ends(q)
      /\ ~Begins(p) /\ ~Begins(p)' /\ Ends(p) /\ ~Ends(p)' /\ ~Holds(p)'
  BY <1>1, <1>2 DEF OnlySelf, Begins, Ends, Holds
<1>7. BeginInv'
  BY <1>2, <1>6 DEF Core, BeginInv, BeginOf, database
<1>8. EndInv'
  <2>1. \A q \in Proc : t \notin todo[q] /\ (Ends(q) /\ tok[q] = t => q = p)
    BY <1>6 DEF Core, EndInv
  <2>2. todo[p] # {} => op[p] = "sweep"
    BY DEF Core, EndInv
  <2>3. EndInv BY DEF Core
  <2>4. \A q \in Proc : /\ todo'[q] = todo[q] /\ todo[q] \subseteq ending' /\ (Ends(q)' => tok[q] \in ending')
                        /\ todo'[q] # {} => op'[q] = "sweep" /\ (Ends(q)' \/ pc'[q] = "sweep")
    BY SMTT(20), Z3T(20), <1>2, <1>6, <2>1, <2>2, <2>3 DEF EndInv
  <2>5. \A u \in ending' : \E q \in Proc : u \in todo'[q] \/ (Ends(q)' /\ tok'[q] = u)
    BY SMTT(20), Z3T(20), <1>2, <1>6, <2>3 DEF EndInv
  <2>6. \A q, r \in Proc : /\ Ends(q)' /\ Ends(r)' /\ tok'[q] = tok'[r] => q = r
                           /\ Ends(q)' => tok'[q] \notin todo'[r]
                           /\ q # r => todo'[q] \cap todo'[r] = {}
    BY SMTT(20), Z3T(20), <1>2, <1>6, <2>3 DEF EndInv
  <2> QED BY <1>2, <2>4, <2>5, <2>6 DEF EndInv
<1>9. LockInv'
  <2>1. ASSUME NEW q \in Proc \ {p} PROVE LockOf(q)'
    <3>1. LockOf(q) /\ pc'[q] = pc[q]
      BY <1>6 DEF Core, LockInv
    <3> QED BY <1>2, <3>1, LockStays DEF database
  <2>2. LockOf(p)'
    BY <1>2, <1>6 DEF LockOf
  <2> QED BY <1>2, <2>1, <2>2 DEF Core, LockInv, Settled, database
<1>10. ControlOf(p)' /\ ResultOf(p)'
  BY <1>1, <1>2 DEF Core, ControlInv, ControlOf, ResultInv, ResultOf, Ends, Truthful, Settled, database
<1>11. ControlInv' /\ ResultInv'
  BY <1>2, <1>10, Others DEF DbStable, database
<1>12. DirtyInv'
  BY <1>2 DEF Core, DirtyInv, DirtyOf, CommitReturnsWrites, OnlySelf, database
<1>13. TombstonesTellTheTruth'
  BY <1>1, <1>2, <1>3 DEF Core, TombstonesTellTheTruth, Truthful, Settled, database
<1>14. NoOrphans'
  <2>1. \A q \in Call : Begins(q) => Begins(q)' /\ tok'[q] = tok[q]
    BY <1>2, <1>6 DEF Proc
  <2> QED BY <1>1, <1>2, <2>1 DEF Core, NoOrphans, HeldOpen, Settled, Begins, database
<1> QED BY <1>4, <1>5, <1>7, <1>8, <1>9, <1>11, <1>12, <1>13, <1>14 DEF Core

\* A sweep goes on with its next handle, which it took.
LEMMA SweepNextKeeps == ASSUME Core, NEW p \in Proc, SweepNext(p) PROVE Core'
<1>1. /\ OnlySelf(p) /\ UNCHANGED <<op, tgt, res>> /\ pc[p] = "sweep"
      /\ UNCHANGED <<handles, ending, tomb, known, mclosed, owner, conn, hclosed, hmu, dirty, database>>
      /\ todo[p] = {} => pc'[p] = "done" /\ todo' = todo /\ tok' = tok
      /\ todo[p] # {} => pc'[p] = "lock" /\ \E t \in todo[p] : tok'[p] = t /\ todo'[p] = todo[p] \ {t}
  BY SMTT(20), Z3T(20) DEF Core, Types, ProcessTypes, OnlySelf, SweepNext, Goto, manager, handle
<1>2. Types'
  <2>1. HandleTypes' /\ DatabaseTypes'
    BY DEF Core, Types, HandleTypes, DatabaseTypes, SweepNext, handle, database
  <2>2. ProcessTypes'
    BY SMTT(20), Z3T(20) DEF Core, Types, ProcessTypes, Label, SweepNext, Goto
  <2> QED BY <2>1, <2>2 DEF Types
<1>3. op[p] = "sweep" /\ res[p] = "rolledBack"
  BY <1>1 DEF Core, ControlInv, ControlOf, ResultInv, ResultOf
<1>4. ControlOf(p)'
  BY <1>1, <1>3 DEF ControlOf, Ends
<1>5. ResultOf(p)'
  <2>1. pc'[p] \in {"done", "lock"} /\ op'[p] = "sweep" /\ res'[p] = res[p] /\ db' = db
        /\ (pc'[p] = "done" => tok'[p] = tok[p])
    BY <1>1, <1>3 DEF database
  <2>2. ResultOf(p)
    BY DEF Core, ResultInv
  <2> QED BY <1>1, <1>3, <2>1, <2>2 DEF ResultOf, Truthful, Settled
<1>6. HandleInv' /\ DirtyInv'
  <2>1. pc'[p] \notin {"exec", "stmt"}
    BY <1>1
  <2> QED BY <1>1, <2>1 DEF Core, HandleInv, Settled, DirtyInv, DirtyOf, CommitReturnsWrites, OnlySelf,
                            database
<1>7. LockInv'
  <2>1. ASSUME NEW q \in Proc \ {p} PROVE LockOf(q)'
    <3>1. LockOf(q) /\ pc'[q] = pc[q] /\ tok'[q] = tok[q]
      BY <1>1 DEF Core, LockInv, OnlySelf
    <3> QED BY <1>1, <3>1, LockStays DEF database
  <2>2. LockOf(p)'
    BY <1>1 DEF Core, LockInv, LockOf, Holds
  <2>3. \A q \in Proc : todo'[q] \subseteq todo[q]
    BY <1>1 DEF OnlySelf
  <2> QED BY <1>1, <2>1, <2>2, <2>3 DEF Core, LockInv, Settled, database
<1>8. CASE todo[p] = {}
  BY <1>1, <1>2, <1>4, <1>5, <1>6, <1>7, <1>8, Frame DEF Begins, Ends, DbStable, HeldOpen, database
<1>9. CASE todo[p] # {}
  <2>1. PICK t \in todo[p] : tok'[p] = t /\ todo'[p] = todo[p] \ {t}
    BY <1>1, <1>9
  <2>2. /\ \A q \in Proc \ {p} : /\ pc'[q] = pc[q] /\ tok'[q] = tok[q] /\ todo'[q] = todo[q]
                                 /\ op'[q] = op[q]
                                 /\ Begins(q)' <=> Begins(q)
                                 /\ Ends(q)' <=> Ends(q)
        /\ ~Begins(p) /\ ~Begins(p)' /\ ~Ends(p) /\ Ends(p)'
    BY <1>1, <1>9 DEF OnlySelf, Begins, Ends
  <2>3. BeginInv'
    BY <1>1, <2>2 DEF Core, BeginInv, BeginOf, database
  <2>4. EndInv'
    <3>1. \A q \in Proc \ {p} : t \notin todo[q] /\ (Ends(q) => tok[q] # t /\ tok[q] \notin todo[p])
      BY <2>1 DEF Core, EndInv
    <3>2. \A u \in ending' : \E q \in Proc : u \in todo'[q] \/ (Ends(q)' /\ tok'[q] = u)
      <4>1. SUFFICES ASSUME NEW u \in ending
                     PROVE  \E q \in Proc : u \in todo'[q] \/ (Ends(q)' /\ tok'[q] = u)
        BY <1>1
      <4>2. PICK q \in Proc : u \in todo[q] \/ (Ends(q) /\ tok[q] = u)
        BY DEF Core, EndInv
      <4> QED BY <2>1, <2>2, <4>2
    <3> QED BY <1>1, <1>3, <2>1, <2>2, <3>1, <3>2 DEF Core, EndInv
  <2>5. ControlInv' /\ ResultInv'
    <3>1. DbStable /\ OnlySelf(p) /\ known' = known /\ handles' = handles
      BY <1>1 DEF DbStable, database
    <3> QED BY <1>4, <1>5, <3>1, Others
  <2>6. TombstonesTellTheTruth'
    BY <1>1 DEF Core, TombstonesTellTheTruth, Truthful, Settled, database
  <2>7. NoOrphans'
    <3>1. \A q \in Call : Begins(q) => Begins(q)' /\ tok'[q] = tok[q]
      BY <2>2 DEF Proc
    <3> QED BY <1>1, <3>1 DEF Core, NoOrphans, HeldOpen, Begins, database
  <2> QED BY <1>2, <1>6, <1>7, <2>3, <2>4, <2>5, <2>6, <2>7 DEF Core
<1> QED BY <1>8, <1>9

-----------------------------------------------------------------------------
(* Statements and endings: the processes that take and release h.mu.       *)

\* A process takes h.mu, to run a statement or to close the handle it took.
LEMMA Acquire ==
    ASSUME Core, NEW p \in Proc, OnlySelf(p), todo' = todo, tok[p] \in known, UNCHANGED <<known, db>>,
           hmu[tok[p]] = None, \A t \in Token : hmu'[t] = IF t = tok[p] THEN p ELSE hmu[t],
           \A t \in Token \ {tok[p]} : hclosed'[t] = hclosed[t],
           hclosed' = hclosed \/ pc[p] = "lock", LockOf(p)'
    PROVE  LockInv'
<1>1. tok[p] \in Token /\ \A q \in Proc : todo[q] \subseteq Token
  BY DEF Core, HandleInv, EndInv
<1>2. \A q \in Proc \ {p} : Holds(q) => tok[q] # tok[p] /\ tok[q] \in Token
  BY NoneIsNoProc DEF Core, LockInv, LockOf, HandleInv
<1>3. \A q \in Proc \ {p} : pc[q] = "lock" => tok[q] \in Token /\ (hclosed' = hclosed \/ tok[q] # tok[p])
  BY SMTT(20), Z3T(20) DEF Core, EndInv, HandleInv, Ends
<1>4. \A q \in Proc : hclosed' = hclosed \/ tok[p] \notin todo[q]
  BY DEF Core, EndInv, Ends
<1>5. ASSUME NEW q \in Proc \ {p} PROVE LockOf(q)'
  <2>1. LockOf(q) /\ pc'[q] = pc[q] /\ tok'[q] = tok[q]
    BY DEF Core, LockInv, OnlySelf
  <2> QED BY <1>1, <1>2, <1>3, <2>1, LockStays
<1>6. \A q \in Proc : \A t \in todo'[q] : ~hclosed'[t]
  BY <1>1, <1>4 DEF Core, LockInv
<1>7. \A t \in Token : hclosed'[t] /\ hmu'[t] = None => Settled(t)'
  BY <1>1, NoneIsNoProc DEF Core, LockInv, Settled
<1> QED BY <1>5, <1>6, <1>7 DEF LockInv

\* A process lets go of h.mu; if it closed the handle, the database is done.
LEMMA Release ==
    ASSUME Core, Types', NEW p \in Proc, Holds(p), OnlySelf(p), todo' = todo,
           pc'[p] \in {"fail", "done", "bury"}, hmu' = [hmu EXCEPT ![tok[p]] = None],
           UNCHANGED <<known, hclosed>>, \A u \in Token \ {tok[p]} : db'[u] = db[u],
           hclosed[tok[p]] => db'[tok[p]] \in {"committing", "committed", "rolledBack"}
    PROVE  LockInv'
<1>1. tok[p] \in Token /\ hmu[tok[p]] = p /\ \A t \in Token : hmu'[t] = IF t = tok[p] THEN None ELSE hmu[t]
  BY SMTT(20), Z3T(20) DEF Core, Types, HandleTypes, HandleInv, LockInv, LockOf
<1>2. \A q \in Proc \ {p} : Holds(q) => tok[q] \in Token /\ tok[q] # tok[p]
  BY SMTT(20), Z3T(20), <1>1 DEF Core, LockInv, LockOf, HandleInv
<1>3. ASSUME NEW q \in Proc \ {p} PROVE LockOf(q)'
  <2>1. LockOf(q) /\ pc'[q] = pc[q] /\ tok'[q] = tok[q]
    BY DEF Core, LockInv, OnlySelf
  <2> QED BY <1>1, <1>2, <2>1, LockStays
<1>4. LockOf(p)'
  BY DEF LockOf, Holds
<1>5. \A t \in Token : hclosed[t] /\ hmu'[t] = None => db'[t] \in {"committing", "committed", "rolledBack"}
  BY SMTT(20), Z3T(20), <1>1 DEF Core, LockInv, Settled
<1> QED BY <1>3, <1>4, <1>5 DEF Core, LockInv, Settled

\* A statement that ends releases h.mu; its writes are dirty.
LEMMA StatementSucceedsKeeps == ASSUME Core, NEW p \in Proc, StatementSucceeds(p) PROVE Core'
<1>1. /\ OnlySelf(p) /\ todo' = todo /\ UNCHANGED <<op, tok, tgt>>
      /\ pc[p] = "stmt" /\ pc'[p] = "done" /\ res'[p] = "ok"
      /\ UNCHANGED <<handles, ending, tomb, known, mclosed, owner, conn, hclosed, dirty, db>>
      /\ hmu' = [hmu EXCEPT ![tok[p]] = None]
      /\ written' = [written EXCEPT ![tok[p]] = @ \cup Writes(p)]
  BY DEF Core, Types, ProcessTypes, OnlySelf, StatementSucceeds, Return, Goto, manager
<1>2. tok[p] \in Token /\ ~hclosed[tok[p]] /\ Writes(p) \subseteq dirty[tok[p]]
      /\ Writes(p) \in SUBSET Target
  BY SMTT(20), Z3T(20), <1>1 DEF Core, HandleInv, LockInv, LockOf, Holds, DirtyInv, DirtyOf, Writes, Types, ProcessTypes
<1>3. Types'
  <2>1. HandleTypes' /\ DatabaseTypes'
    BY <1>2 DEF Core, Types, HandleTypes, DatabaseTypes, StatementSucceeds
  <2>2. ProcessTypes'
    BY DEF Core, Types, ProcessTypes, Label, Answer, StatementSucceeds, Return, Goto
  <2> QED BY <2>1, <2>2 DEF Types
<1>4. ControlOf(p)' /\ ResultOf(p)'
  BY <1>1 DEF Core, ControlInv, ControlOf, ResultOf, Truthful, Ends
<1>5. LockInv'
  BY <1>1, <1>2, <1>3, Release DEF Holds
<1>6. DirtyInv'
  BY <1>1, <1>2 DEF Core, DirtyInv, DirtyOf, CommitReturnsWrites, OnlySelf, Types, DatabaseTypes
<1>7. HandleInv'
  BY <1>1 DEF Core, HandleInv, Settled
<1> QED BY <1>1, <1>3, <1>4, <1>5, <1>6, <1>7, Frame DEF Begins, Ends, DbStable, HeldOpen

\* A statement that fails releases h.mu; what it wrote is dirty.
LEMMA StatementFailsKeeps == ASSUME Core, NEW p \in Proc, StatementFails(p) PROVE Core'
<1>1. /\ OnlySelf(p) /\ todo' = todo /\ UNCHANGED <<op, tok, tgt, res>>
      /\ pc[p] = "stmt" /\ pc'[p] = "fail"
      /\ UNCHANGED <<handles, ending, tomb, known, mclosed, owner, conn, hclosed, dirty, db>>
      /\ hmu' = [hmu EXCEPT ![tok[p]] = None]
      /\ \/ written' = [written EXCEPT ![tok[p]] = @ \cup Writes(p)]
         \/ written' = written
  BY DEF Core, Types, ProcessTypes, OnlySelf, StatementFails, Goto, manager
<1>2. tok[p] \in Token /\ ~hclosed[tok[p]] /\ Writes(p) \subseteq dirty[tok[p]]
      /\ Writes(p) \in SUBSET Target
  BY SMTT(20), Z3T(20), <1>1 DEF Core, HandleInv, LockInv, LockOf, Holds, DirtyInv, DirtyOf, Writes, Types, ProcessTypes
<1>3. Types'
  <2>1. HandleTypes' /\ DatabaseTypes'
    BY <1>2 DEF Core, Types, HandleTypes, DatabaseTypes, StatementFails
  <2>2. ProcessTypes'
    BY DEF Core, Types, ProcessTypes, Label, StatementFails, Goto
  <2> QED BY <2>1, <2>2 DEF Types
<1>4. ControlOf(p)' /\ ResultOf(p)'
  BY <1>1 DEF Core, ControlInv, ControlOf, ResultOf, Ends
<1>5. LockInv'
  BY <1>1, <1>2, <1>3, Release DEF Holds
<1>6. DirtyInv'
  BY <1>1, <1>2 DEF Core, DirtyInv, DirtyOf, CommitReturnsWrites, OnlySelf, Types, DatabaseTypes
<1>7. HandleInv'
  BY <1>1 DEF Core, HandleInv, Settled
<1> QED BY <1>1, <1>3, <1>4, <1>5, <1>6, <1>7, Frame DEF Begins, Ends, DbStable, HeldOpen

\* h.mu is free: whoever finds the handle closed finds it ended.
LEMMA MarkDirtyKeeps == ASSUME Core, NEW p \in Proc, MarkDirty(p) PROVE Core'
<1>1. /\ OnlySelf(p) /\ todo' = todo /\ UNCHANGED <<op, tok, tgt>> /\ pc[p] = "mark"
      /\ UNCHANGED <<handles, ending, tomb, known, mclosed, owner, conn, hclosed, hmu, database>>
      /\ hclosed[tok[p]] => pc'[p] = "done" /\ res'[p] = "notFound" /\ dirty' = dirty
      /\ ~hclosed[tok[p]] => pc'[p] = "exec" /\ dirty' = [dirty EXCEPT ![tok[p]] = @ \cup {tgt[p]}]
  BY DEF Core, Types, ProcessTypes, OnlySelf, MarkDirty, Return, Goto, manager
<1>2. tok[p] \in Token /\ tgt[p] \in Target /\ hmu[tok[p]] = None
  BY <1>1 DEF Core, HandleInv, ControlInv, ControlOf, MarkDirty
<1>3. Types'
  <2>1. HandleTypes' /\ DatabaseTypes'
    BY SMTT(20), Z3T(20), <1>2 DEF Core, Types, HandleTypes, DatabaseTypes, MarkDirty, database
  <2>2. \E l \in Label, a \in Answer : pc' = [pc EXCEPT ![p] = l] /\ res' = [res EXCEPT ![p] = a]
    BY SMTT(20), Z3T(20) DEF Core, Types, ProcessTypes, Label, Answer, MarkDirty, Return, Goto
  <2>3. ProcessTypes'
    BY SMTT(20), Z3T(20), <2>2 DEF Core, Types, ProcessTypes, MarkDirty
  <2> QED BY <2>1, <2>3 DEF Types
<1>4. CASE hclosed[tok[p]]
  <2>1. ControlOf(p)' /\ ResultOf(p)' /\ DirtyOf(p)'
    BY <1>1, <1>2, <1>4 DEF Core, LockInv, LockOf, ControlInv, ControlOf, ResultOf, DirtyOf, Truthful, Ends,
                            Settled, database
  <2> QED BY <1>1, <1>3, <1>4, <2>1, Move DEF Neutral, Unmoved
<1>5. CASE ~hclosed[tok[p]]
  <2>1. ControlOf(p)' /\ ResultOf(p)'
    BY <1>1, <1>5 DEF Core, ControlInv, ControlOf, ResultOf, Ends
  <2>2. LockInv'
    <3>1. \A q \in Proc : Holds(q)' \/ pc'[q] = "lock" => pc'[q] = pc[q] /\ tok'[q] = tok[q]
      BY <1>1, <1>5 DEF OnlySelf, Holds
    <3> QED BY <1>1, <3>1 DEF Core, LockInv, LockOf, Holds, Settled, database
  <2>3. DirtyInv'
    <3>1. tgt[p] \in dirty'[tok[p]] /\ \A t \in Token : dirty[t] \subseteq dirty'[t]
      BY SMTT(20), Z3T(20), <1>1, <1>2, <1>5 DEF Core, Types, HandleTypes
    <3>2. \A q \in Proc \ {p} : DirtyOf(q)'
      <4>1. \A q \in Proc : pc[q] \in {"exec", "stmt"} => tok[q] \in Token /\ DirtyOf(q)
        BY DEF Core, DirtyInv, ControlInv, ControlOf, HandleInv
      <4> QED BY <1>1, <3>1, <4>1 DEF DirtyOf, OnlySelf
    <3> QED BY <1>1, <3>1, <3>2 DEF Core, DirtyInv, DirtyOf, CommitReturnsWrites, database
  <2>4. HandleInv'
    BY <1>1 DEF Core, HandleInv, Settled, database
  <2> QED BY <1>1, <1>3, <1>5, <2>1, <2>2, <2>3, <2>4, Frame
          DEF Begins, Ends, DbStable, HeldOpen, database
<1> QED BY <1>4, <1>5

\* A statement takes h.mu, and finds a handle that is closed or open.
LEMMA StatementStartKeeps == ASSUME Core, NEW p \in Proc, StatementStart(p) PROVE Core'
<1>1. /\ OnlySelf(p) /\ todo' = todo /\ UNCHANGED <<op, tok, tgt>> /\ pc[p] = "exec"
      /\ UNCHANGED <<handles, ending, tomb, known, mclosed, owner, conn, hclosed, dirty, database>>
      /\ hclosed[tok[p]] => pc'[p] = "done" /\ res'[p] = "notFound" /\ hmu' = hmu
      /\ ~hclosed[tok[p]] => pc'[p] = "stmt" /\ hmu' = [hmu EXCEPT ![tok[p]] = p]
  BY DEF Core, Types, ProcessTypes, OnlySelf, StatementStart, Return, Goto, manager
<1>2. tok[p] \in Token /\ tok[p] \in known /\ hmu[tok[p]] = None
  BY <1>1 DEF Core, HandleInv, ControlInv, ControlOf, StatementStart
<1>3. Types'
  <2>1. HandleTypes' /\ DatabaseTypes'
    BY <1>2 DEF Core, Types, HandleTypes, DatabaseTypes, StatementStart, database
  <2>2. \E l \in Label, a \in Answer : pc' = [pc EXCEPT ![p] = l] /\ res' = [res EXCEPT ![p] = a]
    BY SMTT(20), Z3T(20) DEF Core, Types, ProcessTypes, Label, Answer, StatementStart, Return, Goto
  <2>3. ProcessTypes'
    BY SMTT(20), Z3T(20), <2>2 DEF Core, Types, ProcessTypes, StatementStart
  <2> QED BY <2>1, <2>3 DEF Types
<1>4. CASE hclosed[tok[p]]
  <2>1. ControlOf(p)' /\ ResultOf(p)' /\ DirtyOf(p)'
    BY <1>1, <1>2, <1>4 DEF Core, LockInv, LockOf, ControlInv, ControlOf, ResultOf, DirtyOf, Truthful, Ends,
                            Settled, database
  <2> QED BY <1>1, <1>3, <1>4, <2>1, Move DEF Neutral, Unmoved
<1>5. CASE ~hclosed[tok[p]]
  <2>1. ControlOf(p)' /\ ResultOf(p)'
    BY <1>1, <1>5 DEF Core, ControlInv, ControlOf, ResultOf, Ends
  <2>2. LockInv'
    <3>1. \A t \in Token : hmu'[t] = IF t = tok[p] THEN p ELSE hmu[t]
      BY <1>1, <1>2, <1>5 DEF Core, Types, HandleTypes
    <3>2. LockOf(p)'
      BY <1>1, <1>2, <1>5, <3>1 DEF LockOf, Holds
    <3> QED BY <1>1, <1>2, <3>1, <3>2, Acquire DEF database
  <2>3. DirtyInv'
    BY <1>1, <1>5 DEF Core, DirtyInv, DirtyOf, CommitReturnsWrites, OnlySelf, database
  <2>4. HandleInv'
    BY <1>1 DEF Core, HandleInv, Settled, database
  <2> QED BY <1>1, <1>3, <1>5, <2>1, <2>2, <2>3, <2>4, Frame
          DEF Begins, Ends, DbStable, HeldOpen, database
<1> QED BY <1>4, <1>5

\* What an ending process knows of its transaction.
LEMMA EndKnows == ASSUME Core, NEW p \in Proc, Ends(p)
                  PROVE tok[p] \in Token /\ tok[p] \in known /\ tok[p] \in ending /\ tok[p] \notin handles
BY DEF Core, EndInv, HandleInv

\* The process that ends a handle closes it under h.mu.
LEMMA CloseHandleKeeps == ASSUME Core, NEW p \in Proc, CloseHandle(p) PROVE Core'
<1>1. pc[p] = "lock" /\ tok[p] \in Token /\ tok[p] \in known /\ tok[p] \in ending /\ tok[p] \notin handles
  BY EndKnows DEF CloseHandle, Ends
<1>2. ~hclosed[tok[p]] /\ hmu[tok[p]] = None
  BY <1>1 DEF Core, LockInv, LockOf, CloseHandle
<1>3. /\ OnlySelf(p) /\ todo' = todo /\ UNCHANGED <<op, tok, tgt>>
      /\ UNCHANGED <<handles, ending, tomb, known, mclosed, owner, conn, dirty, database>>
      /\ pc'[p] \in {"commit", "rollback"} /\ (pc'[p] = "commit" => op[p] = "commit")
      /\ res'[p] = IF op[p] \in {"commit", "rollback"} THEN "rolledBack" ELSE res[p]
  BY <1>2 DEF Core, Types, ProcessTypes, OnlySelf, CloseHandle, Goto, manager
<1>4. \A t \in Token : /\ hclosed'[t] = IF t = tok[p] THEN TRUE ELSE hclosed[t]
                       /\ hmu'[t] = IF t = tok[p] THEN p ELSE hmu[t]
  BY <1>2 DEF Core, Types, HandleTypes, CloseHandle
<1>5. Types'
  <2>1. HandleTypes' /\ DatabaseTypes'
    BY <1>1, <1>2 DEF Core, Types, HandleTypes, DatabaseTypes, CloseHandle, database
  <2>2. \E l \in Label : pc' = [pc EXCEPT ![p] = l]
    BY <1>2 DEF Label, CloseHandle, Goto
  <2>3. res' \in [Proc -> Answer]
    BY DEF Core, Types, ProcessTypes, Answer, Outcome, CloseHandle
  <2>4. ProcessTypes'
    BY <2>2, <2>3 DEF Core, Types, ProcessTypes, CloseHandle
  <2> QED BY <2>1, <2>4 DEF Types
<1>6. ControlOf(p)' /\ ResultOf(p)'
  BY <1>1, <1>3 DEF Core, ControlInv, ControlOf, ResultInv, ResultOf, Ends
<1>7. HandleInv'
  BY <1>1, <1>3, <1>4 DEF Core, HandleInv, Settled, database
<1>8. LockInv'
  <2>1. db[tok[p]] \in {"active", "rolledBack"} /\ db' = db /\ known' = known
    BY <1>1, <1>2, <1>3 DEF Core, HandleInv, database
  <2>2. LockOf(p)'
    BY <1>1, <1>3, <1>4, <2>1 DEF LockOf, Holds
  <2> QED BY <1>1, <1>2, <1>3, <1>4, <2>1, <2>2, Acquire
<1>9. DirtyInv'
  BY <1>3 DEF Core, DirtyInv, DirtyOf, CommitReturnsWrites, OnlySelf, database
<1> QED BY <1>1, <1>3, <1>5, <1>6, <1>7, <1>8, <1>9, Frame
        DEF Begins, Ends, DbStable, HeldOpen, database

\* A process keeps h.mu and its database transaction may move.
LEMMA Keep ==
    ASSUME Core, NEW p \in Proc, Holds(p), OnlySelf(p), todo' = todo,
           UNCHANGED <<known, hclosed, hmu>>, \A u \in Token \ {tok[p]} : db'[u] = db[u], LockOf(p)'
    PROVE  LockInv'
<1>1. tok[p] \in Token /\ hmu[tok[p]] = p
  BY DEF Core, HandleInv, LockInv, LockOf
<1>2. \A q \in Proc \ {p} : Holds(q) => tok[q] \in Token /\ tok[q] # tok[p]
  BY SMTT(20), Z3T(20), <1>1 DEF Core, LockInv, LockOf, HandleInv
<1>3. ASSUME NEW q \in Proc \ {p} PROVE LockOf(q)'
  <2>1. LockOf(q) /\ pc'[q] = pc[q] /\ tok'[q] = tok[q]
    BY DEF Core, LockInv, OnlySelf
  <2> QED BY <1>2, <2>1, LockStays
<1> QED BY <1>1, <1>3, NoneIsNoProc DEF Core, LockInv, Settled

\* COMMIT is sent by the one process that ends the transaction.
LEMMA CommitSendKeeps == ASSUME Core, NEW p \in Proc, CommitSend(p) PROVE Core'
<1>1. pc[p] = "commit" /\ tok[p] \in Token /\ tok[p] \in known /\ tok[p] \in ending /\ tok[p] \notin handles
  BY EndKnows DEF CommitSend, Ends
<1>2. /\ OnlySelf(p) /\ todo' = todo /\ UNCHANGED <<op, tok, tgt, res>> /\ pc'[p] = "sent"
      /\ UNCHANGED <<handles, ending, tomb, known, mclosed, owner, conn, hclosed, hmu, dirty, written>>
      /\ db[tok[p]] = "active" /\ \A u \in Token : db'[u] = IF u = tok[p] THEN "committing" ELSE db[u]
  BY <1>1 DEF Core, Types, DatabaseTypes, ProcessTypes, OnlySelf, CommitSend, Goto, manager, handle
<1>3. Types'
  BY DEF Core, Types, HandleTypes, DatabaseTypes, ProcessTypes, DbState, Label, CommitSend, Goto, handle
<1>4. hclosed[tok[p]] /\ hmu[tok[p]] = p /\ op[p] = "commit"
  BY <1>1 DEF Core, LockInv, LockOf, Holds, ControlInv, ControlOf
<1>5. ControlOf(p)' /\ ResultOf(p)'
  BY <1>1, <1>2, <1>4 DEF ControlOf, ResultOf, Ends
<1>6. LockInv'
  <2>1. LockOf(p)'
    BY <1>1, <1>2, <1>4 DEF LockOf, Settled
  <2> QED BY <1>1, <1>2, <2>1, Keep DEF Holds
<1>7. HandleInv'
  BY <1>1, <1>2, <1>4 DEF Core, HandleInv, Settled
<1>8. DirtyInv'
  BY <1>2 DEF Core, DirtyInv, DirtyOf, CommitReturnsWrites, OnlySelf
<1>9. DbStable /\ \A u \in Token : HeldOpen(u)' => HeldOpen(u)
  BY <1>2 DEF DbStable, HeldOpen
<1> QED BY <1>1, <1>2, <1>3, <1>5, <1>6, <1>7, <1>8, <1>9, Frame DEF Begins, Ends

\* The deadline of a commit passes before its answer: it knows nothing.
LEMMA CommitCutKeeps == ASSUME Core, NEW p \in Proc, CommitCut(p) PROVE Core'
<1>1. pc[p] = "commit" /\ tok[p] \in Token /\ tok[p] \in known
  BY EndKnows DEF CommitCut, Ends
<1>2. /\ OnlySelf(p) /\ todo' = todo /\ UNCHANGED <<op, tok, tgt>> /\ pc'[p] = "rollback"
      /\ UNCHANGED <<handles, ending, tomb, known, mclosed, owner, conn, hclosed, hmu, dirty, database>>
      /\ res'[p] \in {"unknown", "rolledBack"}
  BY DEF Core, Types, ProcessTypes, OnlySelf, CommitCut, Goto, manager, handle
<1>3. Types'
  BY DEF Core, Types, HandleTypes, DatabaseTypes, ProcessTypes, Answer, Outcome, Label, CommitCut, Goto,
         handle, database
<1>4. ControlOf(p)' /\ ResultOf(p)'
  BY <1>1, <1>2 DEF Core, ControlInv, ControlOf, ResultOf, Ends
<1>5. LockInv'
  <2>1. LockOf(p)'
    BY <1>1, <1>2 DEF Core, LockInv, LockOf, Holds, database
  <2> QED BY <1>1, <1>2, <2>1, Keep DEF Holds, database
<1>6. HandleInv' /\ DirtyInv'
  BY <1>2 DEF Core, HandleInv, Settled, DirtyInv, DirtyOf, CommitReturnsWrites, OnlySelf, database
<1> QED BY <1>1, <1>2, <1>3, <1>4, <1>5, <1>6, Frame DEF Begins, Ends, DbStable, HeldOpen, database

\* The answer of a commit is what the database did.
LEMMA CommitReturnsKeeps == ASSUME Core, NEW p \in Proc, CommitReturns(p) PROVE Core'
<1>1. /\ OnlySelf(p) /\ todo' = todo /\ UNCHANGED <<op, tok, tgt>> /\ pc[p] = "sent" /\ pc'[p] = "bury"
      /\ UNCHANGED <<handles, ending, tomb, known, mclosed, owner, conn, hclosed, dirty, database>>
      /\ hmu' = [hmu EXCEPT ![tok[p]] = None]
      /\ \/ db[tok[p]] = "committed" /\ res'[p] = "committed"
         \/ db[tok[p]] = "rolledBack" /\ res'[p] = "rolledBack"
         \/ res'[p] = "unknown"
  BY DEF Core, Types, ProcessTypes, OnlySelf, CommitReturns, Goto, manager
<1>2. Types'
  <2>1. HandleTypes' /\ DatabaseTypes'
    BY DEF Core, Types, HandleTypes, DatabaseTypes, CommitReturns, database
  <2>2. ProcessTypes'
    BY DEF Core, Types, ProcessTypes, Answer, Outcome, Label, CommitReturns, Goto
  <2> QED BY <2>1, <2>2 DEF Types
<1>3. Settled(tok[p]) /\ op[p] = "commit"
  BY <1>1 DEF Core, LockInv, LockOf, ControlInv, ControlOf
<1>4. ControlOf(p)' /\ ResultOf(p)'
  BY <1>1, <1>3 DEF Core, ControlInv, ControlOf, ResultOf, Ends, Outcome, Truthful, Settled, database
<1>5. LockInv'
  BY <1>1, <1>2, <1>3, Release DEF Holds, Settled, database
<1>6. HandleInv' /\ DirtyInv'
  BY <1>1 DEF Core, HandleInv, Settled, DirtyInv, DirtyOf, CommitReturnsWrites, OnlySelf, database
<1> QED BY <1>1, <1>2, <1>4, <1>5, <1>6, Frame DEF Begins, Ends, DbStable, HeldOpen, database

\* A rollback that returned left no open transaction.
LEMMA RollbackReturnsKeeps == ASSUME Core, NEW p \in Proc, RollbackReturns(p) PROVE Core'
<1>1. pc[p] = "rollback" /\ tok[p] \in Token /\ tok[p] \in known /\ tok[p] \in ending /\ tok[p] \notin handles
  BY EndKnows DEF RollbackReturns, Ends
<1>2. /\ OnlySelf(p) /\ todo' = todo /\ UNCHANGED <<op, tok, tgt, res>> /\ pc'[p] = "bury"
      /\ UNCHANGED <<handles, ending, tomb, known, mclosed, owner, conn, hclosed, dirty, written>>
      /\ hmu' = [hmu EXCEPT ![tok[p]] = None]
      /\ \A u \in Token : db'[u] = IF u = tok[p] THEN "rolledBack" ELSE db[u]
  BY <1>1 DEF Core, Types, DatabaseTypes, ProcessTypes, OnlySelf, RollbackReturns, Goto, manager
<1>3. Types'
  <2>1. HandleTypes' /\ DatabaseTypes'
    BY DEF Core, Types, HandleTypes, DatabaseTypes, DbState, RollbackReturns
  <2>2. ProcessTypes'
    BY DEF Core, Types, ProcessTypes, Label, RollbackReturns, Goto
  <2> QED BY <2>1, <2>2 DEF Types
<1>4. db[tok[p]] \in {"active", "rolledBack"} /\ res[p] \in {"expired", "rolledBack", "unknown"}
  BY <1>1 DEF Core, LockInv, LockOf, ResultInv, ResultOf
<1>5. ControlOf(p)'
  BY <1>1, <1>2 DEF Core, ControlInv, ControlOf, Ends
<1>6. ResultOf(p)'
  BY <1>1, <1>2, <1>4 DEF Core, ResultInv, ResultOf, Outcome, Truthful, Settled
<1>7. LockInv'
  BY <1>1, <1>2, <1>3, Release DEF Holds
<1>8. HandleInv' /\ DirtyInv'
  BY <1>1, <1>2 DEF Core, HandleInv, Settled, DirtyInv, DirtyOf, CommitReturnsWrites, OnlySelf
<1>9. DbStable /\ \A u \in Token : HeldOpen(u)' => HeldOpen(u)
  BY <1>2, <1>4 DEF DbStable, HeldOpen
<1> QED BY <1>1, <1>2, <1>3, <1>5, <1>6, <1>7, <1>8, <1>9, Frame DEF Begins, Ends

-----------------------------------------------------------------------------
(* What a step does to the counters: it leaves them alone, takes handles or *)
(* registers one.                                                           *)

CountersIdle ==
    /\ UNCHANGED <<handles, open, byConn>>
    /\ \A t \in handles : owner'[t] = owner[t] /\ conn'[t] = conn[t]
Takes == UNCHANGED <<owner, conn>> /\ \E S \in SUBSET handles : Take(S)
Registers == \E p \in Proc : Register(p)

\* The rest of the manager changes only at End, UpdateLimits and Close.
RestIdle == UNCHANGED <<tomb, buried, maxOpen, perConn>> /\ mclosed' \in {mclosed, TRUE}

Shape ==
    \/ CountersIdle /\ RestIdle
    \/ Takes /\ RestIdle
    \/ Registers /\ RestIdle
    \/ CountersIdle /\ \E p \in Proc : End(p)
    \/ CountersIdle /\ \E n \in Limit, k \in Limit : UpdateLimits(n, k)

\* A goroutine's step has one of these shapes.
LEMMA StepShape == ASSUME Core, NEW p \in Proc, Step(p) PROVE Shape
<1>1. CASE BeginTxFails(p)
  <2>1. tok[p] \in Token \ handles
    BY <1>1 DEF Core, HandleInv, BeginInv, BeginOf, Begins, BeginTxFails
  <2>2. UNCHANGED manager /\ \A t \in handles : owner'[t] = owner[t] /\ conn'[t] = conn[t]
    BY SMTT(20), Z3T(20), <1>1, <2>1 DEF BeginTxFails, Core, Types, HandleTypes
  <2> QED BY <2>2 DEF Shape, CountersIdle, RestIdle, manager
<1>2. CASE Register(p)
  BY <1>2 DEF Shape, Registers, Register, RestIdle
<1>3. CASE LookupExpires(p) \/ FailEnds(p) \/ TakeFinish(p)
  <2>1. RestIdle /\ UNCHANGED <<owner, conn>>
    BY <1>3 DEF LookupExpires, FailEnds, TakeFinish, RestIdle, handle
  <2>2. CASE tok[p] \in handles
    <3>1. {tok[p]} \in SUBSET handles /\ Take({tok[p]})
      BY <1>3, <2>2 DEF LookupExpires, FailEnds, TakeFinish, EndHandle
    <3> QED BY <2>1, <3>1 DEF Shape, Takes
  <2>3. CASE tok[p] \notin handles
    <3>1. UNCHANGED <<handles, open, byConn>>
      BY <1>3, <2>3 DEF LookupExpires, FailEnds, TakeFinish, EndHandle
    <3> QED BY <2>1, <3>1 DEF Shape, CountersIdle
  <2> QED BY <2>2, <2>3
<1>4. CASE End(p)
  BY <1>4 DEF Shape, CountersIdle, End, handle
<1>5. CASE \/ BeginTxReturns(p) \/ Abandon(p) \/ Lookup(p) \/ Wait(p) \/ EndedError(p)
           \/ Misrouted(p) \/ LookupReturns(p) \/ MarkDirty(p) \/ StatementStart(p)
           \/ StatementSucceeds(p) \/ StatementFails(p)
  <2>1. UNCHANGED manager /\ UNCHANGED <<owner, conn>>
    BY <1>5 DEF BeginTxReturns, Abandon, Lookup, Wait, EndedError, Misrouted, LookupReturns,
                MarkDirty, StatementStart, StatementSucceeds, StatementFails, handle
  <2> QED BY <2>1 DEF Shape, CountersIdle, RestIdle, manager
<1>6. CASE \/ CloseHandle(p) \/ CommitSend(p) \/ CommitCut(p) \/ CommitReturns(p)
           \/ RollbackReturns(p) \/ SweepNext(p) \/ Leave(p)
  <2>1. UNCHANGED manager /\ UNCHANGED <<owner, conn>>
    BY <1>6 DEF CloseHandle, CommitSend, CommitCut, CommitReturns, RollbackReturns, SweepNext,
                Leave, handle
  <2> QED BY <2>1 DEF Shape, CountersIdle, RestIdle, manager
<1> QED BY <1>1, <1>2, <1>3, <1>4, <1>5, <1>6 DEF Step

\* So has what a caller or the transport asks for.
LEMMA RequestShape == ASSUME Core, NEW p \in Call, Request(p) PROVE Shape
<1>1. ASSUME NEW c \in Caller, NEW k \in Conn, NEW t \in Token, BeginCheck(p, c, k, t)
      PROVE  Shape
  <2>1. t \notin handles
    BY <1>1 DEF Core, HandleInv, BeginCheck
  <2>2. UNCHANGED manager /\ \A u \in handles : owner'[u] = owner[u] /\ conn'[u] = conn[u]
    BY <1>1, <2>1 DEF BeginCheck, Core, Types, HandleTypes, HandleInv
  <2> QED BY <2>2 DEF Shape, CountersIdle, RestIdle, manager
<1>2. ASSUME NEW o \in Ops, NEW t \in Token, NEW c \in Caller, NEW x \in Target \cup {None},
             Start(p, o, t, c, x)
      PROVE  Shape
  BY <1>2 DEF Start, Shape, CountersIdle, RestIdle, manager, handle
<1>3. CASE WaitCanceled(p)
  BY <1>3 DEF WaitCanceled, Shape, CountersIdle, RestIdle, manager, handle
<1>4. ASSUME NEW S \in SUBSET handles, Sweep(p, S), mclosed' \in {mclosed, TRUE} PROVE Shape
  BY <1>4 DEF Sweep, Shape, Takes, RestIdle, handle
<1>5. ASSUME NEW s \in Session, RollbackSession(p, s) PROVE Shape
  BY <1>4, <1>5 DEF RollbackSession
<1>6. CASE Close(p)
  BY <1>4, <1>6 DEF Close
<1> QED BY <1>1, <1>2, <1>3, <1>5, <1>6 DEF Request

\* And every other step.
LEMMA NextShape == ASSUME Core, [Next]_vars PROVE Shape
<1>1. CASE UNCHANGED vars
  BY <1>1 DEF vars, Shape, CountersIdle, RestIdle, manager, handle
<1>2. ASSUME NEW t \in Token, TimerFires(t) PROVE Shape
  <2>1. {t} \in SUBSET handles /\ Take({t}) /\ UNCHANGED <<owner, conn>> /\ RestIdle
    BY <1>2 DEF TimerFires, RestIdle, handle
  <2> QED BY <2>1 DEF Shape, Takes
<1>3. CASE Environment
  <2>1. ASSUME NEW n \in Limit, NEW k \in Limit, UpdateLimits(n, k) PROVE Shape
    BY <2>1 DEF UpdateLimits, Shape, CountersIdle, handle
  <2>2. ASSUME NEW t \in Token, ClockTick(t) \/ LifetimeRollback(t) \/ DbDecides(t) PROVE Shape
    BY <2>2 DEF ClockTick, LifetimeRollback, DbDecides, Shape, CountersIdle, RestIdle, manager, handle
  <2> QED BY <1>3, <2>1, <2>2 DEF Environment
<1> QED BY <1>1, <1>2, <1>3, StepShape, RequestShape DEF Next

-----------------------------------------------------------------------------
(* The counters count the handles.                                         *)

\* Facts on finite sets of the library, about these sets and their sizes.
Finite == INSTANCE FiniteSetTheorems
LEMMA Sizes ==
    ASSUME NEW S
    PROVE (Finite!IsFiniteSet(S) <=> IsFiniteSet(S)) /\ Finite!Cardinality(S) = Cardinality(S)
BY DEF Finite!IsFiniteSet, IsFiniteSet, Finite!Cardinality, Cardinality

LEMMA FS_CardinalityType == ASSUME NEW S, IsFiniteSet(S) PROVE Cardinality(S) \in Nat
BY Sizes, Finite!FS_CardinalityType

LEMMA FS_EmptySet == IsFiniteSet({}) /\ Cardinality({}) = 0 /\ \A S : IsFiniteSet(S) => (Cardinality(S) = 0 <=> S = {})
<1>1. Finite!IsFiniteSet({}) /\ Finite!Cardinality({}) = 0 BY Finite!FS_EmptySet
<1>2. \A S : Finite!IsFiniteSet(S) => (Finite!Cardinality(S) = 0 <=> S = {}) BY Finite!FS_EmptySet
<1> QED BY <1>1, <1>2, Sizes

LEMMA FS_AddElement ==
    ASSUME NEW S, NEW x, IsFiniteSet(S)
    PROVE IsFiniteSet(S \cup {x}) /\ Cardinality(S \cup {x}) = IF x \in S THEN Cardinality(S) ELSE Cardinality(S) + 1
BY Sizes, Finite!FS_AddElement

LEMMA FS_Subset ==
    ASSUME NEW S, IsFiniteSet(S), NEW T \in SUBSET S
    PROVE IsFiniteSet(T) /\ Cardinality(T) <= Cardinality(S) /\ (Cardinality(S) = Cardinality(T) => S = T)
BY Sizes, Finite!FS_Subset

LEMMA FS_Difference ==
    ASSUME NEW S, NEW T, IsFiniteSet(S)
    PROVE IsFiniteSet(S \ T) /\ Cardinality(S \ T) = Cardinality(S) - Cardinality(S \cap T)
<1>1. Finite!IsFiniteSet(S) BY Sizes
<1>2. Finite!IsFiniteSet(S \ T) /\ Finite!Cardinality(S \ T) = Finite!Cardinality(S) - Finite!Cardinality(S \cap T)
  BY <1>1, Finite!FS_Difference
<1> QED BY <1>2, Sizes

\* Handles leave the counters as they leave the table.
LEMMA CountersTake ==
    ASSUME handles \subseteq Token, CountersCountHandles, UNCHANGED <<owner, conn>>,
           NEW S \in SUBSET handles, Take(S)
    PROVE  CountersCountHandles'
<1>1. IsFiniteSet(handles) /\ IsFiniteSet(S)
  BY TokenAssumption, FS_Subset
<1>2. ASSUME NEW s \in Scope PROVE open'[s] = Cardinality(OfScope(handles, s)')
  <2>1. OfScope(handles, s)' = OfScope(handles, s) \ OfScope(S, s)
    BY DEF OfScope, Take
  <2>2. IsFiniteSet(OfScope(handles, s)) /\ OfScope(S, s) \subseteq OfScope(handles, s)
    BY <1>1, FS_Subset DEF OfScope
  <2>3. OfScope(handles, s) \cap OfScope(S, s) = OfScope(S, s)
    BY <2>2
  <2>4. Cardinality(OfScope(handles, s)')
           = Cardinality(OfScope(handles, s)) - Cardinality(OfScope(S, s))
    BY <2>1, <2>2, <2>3, FS_Difference
  <2> QED BY <2>4 DEF Take, CountersCountHandles
<1>3. ASSUME NEW k \in Conn PROVE byConn'[k] = Cardinality(OfConn(handles, k)')
  <2>1. OfConn(handles, k)' = OfConn(handles, k) \ OfConn(S, k)
    BY DEF OfConn, Take
  <2>2. IsFiniteSet(OfConn(handles, k)) /\ OfConn(S, k) \subseteq OfConn(handles, k)
    BY <1>1, FS_Subset DEF OfConn
  <2>3. OfConn(handles, k) \cap OfConn(S, k) = OfConn(S, k)
    BY <2>2
  <2>4. Cardinality(OfConn(handles, k)')
           = Cardinality(OfConn(handles, k)) - Cardinality(OfConn(S, k))
    BY <2>1, <2>2, <2>3, FS_Difference
  <2> QED BY <2>4 DEF Take, CountersCountHandles
<1> QED BY <1>2, <1>3 DEF CountersCountHandles

\* What addHandle does when it admits the transaction, and when it does not.
LEMMA RegisterKnows ==
    ASSUME IInv, NEW p \in Proc, Register(p),
           NEW s, s = owner[tok[p]][2], NEW k, k = conn[tok[p]]
    PROVE  /\ tok[p] \in Token \ handles /\ s \in Scope /\ k \in Conn
           /\ UNCHANGED <<owner, conn>>
           /\ \/ /\ HasCapacity(s, k)
                 /\ handles' = handles \cup {tok[p]}
                 /\ open' = [open EXCEPT ![s] = @ + 1]
                 /\ byConn' = [byConn EXCEPT ![k] = @ + 1]
              \/ UNCHANGED <<handles, open, byConn>>
<1>1. /\ tok[p] \in Token \ handles
      /\ owner[tok[p]] \in Session \X Scope /\ conn[tok[p]] \in Conn
  BY DEF IInv, Core, HandleInv, BeginInv, BeginOf, Begins, Register, Caller
<1> QED BY <1>1 DEF Register, handle

\* A registered handle is counted once for its scope and once for its connection.
LEMMA CountersRegister ==
    ASSUME IInv, NEW p \in Proc, Register(p) PROVE CountersCountHandles'
<1> DEFINE t == tok[p]
<1>1. PICK s, k : s = owner[t][2] /\ k = conn[t]
  OBVIOUS
<1>2. /\ t \in Token \ handles /\ s \in Scope /\ k \in Conn
      /\ UNCHANGED <<owner, conn>>
      /\ \/ /\ handles' = handles \cup {t}
            /\ open' = [open EXCEPT ![s] = @ + 1]
            /\ byConn' = [byConn EXCEPT ![k] = @ + 1]
         \/ UNCHANGED <<handles, open, byConn>>
  BY <1>1, RegisterKnows
<1>3. /\ IsFiniteSet(handles) /\ CountersCountHandles
      /\ open \in [Scope -> Nat] /\ byConn \in [Conn -> Nat]
  BY TokenAssumption, FS_Subset DEF IInv, ManagerTypes
<1> HIDE DEF t
<1>4. CASE UNCHANGED <<handles, open, byConn>>
  <2>1. \A z \in Scope : OfScope(handles, z)' = OfScope(handles, z)
    BY <1>2, <1>4 DEF OfScope
  <2>2. \A z \in Conn : OfConn(handles, z)' = OfConn(handles, z)
    BY <1>2, <1>4 DEF OfConn
  <2> QED BY <1>3, <1>4, <2>1, <2>2 DEF CountersCountHandles
<1>5. CASE /\ handles' = handles \cup {t}
           /\ open' = [open EXCEPT ![s] = @ + 1]
           /\ byConn' = [byConn EXCEPT ![k] = @ + 1]
  <2>1. ASSUME NEW z \in Scope PROVE open'[z] = Cardinality(OfScope(handles, z)')
    <3>1. IsFiniteSet(OfScope(handles, z)) /\ t \notin OfScope(handles, z)
      BY <1>2, <1>3, FS_Subset DEF OfScope
    <3>2. CASE z = s
      <4>1. OfScope(handles, z)' = OfScope(handles, z) \cup {t}
        BY <1>1, <1>2, <1>5, <3>2 DEF OfScope, t
      <4>2. Cardinality(OfScope(handles, z)') = Cardinality(OfScope(handles, z)) + 1
        BY <3>1, <4>1, FS_AddElement
      <4> QED BY <1>3, <1>5, <3>2, <4>2 DEF CountersCountHandles
    <3>3. CASE z # s
      <4>1. OfScope(handles, z)' = OfScope(handles, z)
        BY <1>1, <1>2, <1>5, <3>3 DEF OfScope, t
      <4> QED BY <1>3, <1>5, <3>3, <4>1 DEF CountersCountHandles
    <3> QED BY <3>2, <3>3
  <2>2. ASSUME NEW z \in Conn PROVE byConn'[z] = Cardinality(OfConn(handles, z)')
    <3>1. IsFiniteSet(OfConn(handles, z)) /\ t \notin OfConn(handles, z)
      BY <1>2, <1>3, FS_Subset DEF OfConn
    <3>2. CASE z = k
      <4>1. OfConn(handles, z)' = OfConn(handles, z) \cup {t}
        BY <1>1, <1>2, <1>5, <3>2 DEF OfConn, t
      <4>2. Cardinality(OfConn(handles, z)') = Cardinality(OfConn(handles, z)) + 1
        BY <3>1, <4>1, FS_AddElement
      <4> QED BY <1>3, <1>5, <3>2, <4>2 DEF CountersCountHandles
    <3>3. CASE z # k
      <4>1. OfConn(handles, z)' = OfConn(handles, z)
        BY <1>1, <1>2, <1>5, <3>3 DEF OfConn, t
      <4> QED BY <1>3, <1>5, <3>3, <4>1 DEF CountersCountHandles
    <3> QED BY <3>2, <3>3
  <2> QED BY <2>1, <2>2 DEF CountersCountHandles
<1> QED BY <1>2, <1>4, <1>5

\* The counters of capacityLocked are preserved.
LEMMA CountersStep == ASSUME IInv, [Next]_vars PROVE CountersCountHandles'
<1>1. Shape /\ CountersCountHandles /\ handles \subseteq Token
  BY NextShape DEF IInv, ManagerTypes
<1>2. CASE CountersIdle
  <2>1. \A s \in Scope : OfScope(handles, s)' = OfScope(handles, s)
    BY <1>2 DEF OfScope, CountersIdle
  <2>2. \A k \in Conn : OfConn(handles, k)' = OfConn(handles, k)
    BY <1>2 DEF OfConn, CountersIdle
  <2> QED BY <1>1, <1>2, <2>1, <2>2 DEF CountersCountHandles, CountersIdle
<1>3. CASE Takes
  BY <1>1, <1>3, CountersTake DEF Takes
<1>4. CASE Registers
  BY <1>4, CountersRegister DEF Registers
<1> QED BY <1>1, <1>2, <1>3, <1>4 DEF Shape

-----------------------------------------------------------------------------
(* Core is preserved, by the lemmas of the actions.                        *)

\* Every step of a goroutine preserves Core.
LEMMA StepCore == ASSUME ManagerTypes, Core, NEW p \in Proc, Step(p) PROVE Core'
<1>1. CASE BeginTxFails(p) \/ BeginTxReturns(p) \/ Register(p) \/ Abandon(p)
  BY <1>1, BeginTxFailsKeeps, BeginTxReturnsKeeps, RegisterKeeps, AbandonKeeps
<1>2. CASE \/ Lookup(p) \/ Wait(p) \/ EndedError(p) \/ Misrouted(p)
           \/ LookupExpires(p) \/ LookupReturns(p) \/ Leave(p)
  BY <1>2, LookupKeeps, WaitKeeps, EndedErrorKeeps, MisroutedKeeps, LookupExpiresKeeps,
     LookupReturnsKeeps, LeaveKeeps
<1>3. CASE MarkDirty(p) \/ StatementStart(p) \/ StatementSucceeds(p) \/ StatementFails(p) \/ FailEnds(p)
  BY <1>3, MarkDirtyKeeps, StatementStartKeeps, StatementSucceedsKeeps, StatementFailsKeeps,
     FailEndsKeeps
<1>4. CASE \/ TakeFinish(p) \/ CloseHandle(p) \/ CommitSend(p) \/ CommitCut(p) \/ CommitReturns(p)
           \/ RollbackReturns(p) \/ End(p) \/ SweepNext(p)
  BY <1>4, TakeFinishKeeps, CloseHandleKeeps, CommitSendKeeps, CommitCutKeeps, CommitReturnsKeeps,
     RollbackReturnsKeeps, EndKeeps, SweepNextKeeps
<1> QED BY <1>1, <1>2, <1>3, <1>4 DEF Step

\* So does what a caller or the transport asks for.
LEMMA RequestCore == ASSUME Core, NEW p \in Call, Request(p) PROVE Core'
<1>1. p \in Proc
  BY DEF Proc
<1>2. ASSUME NEW c \in Caller, NEW k \in Conn, NEW t \in Token, BeginCheck(p, c, k, t)
      PROVE  Core'
  BY <1>2, BeginCheckKeeps
<1>3. ASSUME NEW o \in Ops, NEW t \in Token, NEW c \in Caller, NEW x \in Target \cup {None},
             Start(p, o, t, c, x)
      PROVE  Core'
  BY <1>1, <1>3, StartKeeps
<1>4. CASE WaitCanceled(p)
  BY <1>1, <1>4, WaitCanceledKeeps
<1>5. ASSUME NEW s \in Session, RollbackSession(p, s) PROVE Core'
  <2>1. Sweep(p, {t \in handles : owner[t][1] = s}) /\ mclosed' = mclosed
    BY <1>5 DEF RollbackSession
  <2> QED BY <1>1, <2>1, SweepKeeps
<1>6. CASE Close(p)
  <2>1. Sweep(p, handles)
    BY <1>6 DEF Close
  <2> QED BY <1>1, <2>1, SweepKeeps
<1> QED BY <1>2, <1>3, <1>4, <1>5, <1>6 DEF Request

\* And every other step.
LEMMA CoreStep == ASSUME ManagerTypes, Core, [Next]_vars PROVE Core'
<1>1. ASSUME NEW t \in Token, TimerFires(t) PROVE Core'
  BY <1>1, TimerFiresKeeps
<1>2. CASE Environment
  BY <1>2, UpdateLimitsKeeps, ClockTickKeeps, LifetimeRollbackKeeps, DbDecidesKeeps DEF Environment
<1>3. CASE UNCHANGED vars
  BY <1>3, StutterKeeps
<1> QED BY <1>1, <1>2, <1>3, StepCore, RequestCore DEF Next

-----------------------------------------------------------------------------
(* The types of the manager.                                               *)

\* buryLocked keeps the tombstones' types.
LEMMA BuryTypes ==
    ASSUME ManagerTypes, NEW t \in Token, NEW o \in Outcome, Bury(t, o)
    PROVE  tomb' \in [Token -> Outcome \cup {"none"}] /\ buried' \in Seq(Token)
<1>1. PICK n \in 0..Len(buried) :
        /\ buried' = SubSeq(Append(buried, t), n + 1, Len(Append(buried, t)))
        /\ tomb' = [u \in Token |-> IF u = t THEN o
                        ELSE IF u \in {Append(buried, t)[i] : i \in 1..n} THEN "none" ELSE tomb[u]]
  BY DEF Bury
<1>2. tomb' \in [Token -> Outcome \cup {"none"}]
  BY <1>1 DEF ManagerTypes
<1>3. Append(buried, t) \in Seq(Token) /\ Len(Append(buried, t)) = Len(buried) + 1 /\ Len(buried) \in Nat
  BY SMTT(20), Z3T(20) DEF ManagerTypes
<1>4. SubSeq(Append(buried, t), n + 1, Len(Append(buried, t))) \in Seq(Token)
  BY <1>3
<1> QED BY <1>1, <1>2, <1>4

\* The manager's types are preserved; the counters are natural numbers as
\* they count sets.
LEMMA ManagerStep == ASSUME IInv, [Next]_vars PROVE ManagerTypes'
<1>1. Shape /\ Core' /\ CountersCountHandles' /\ ManagerTypes
  BY NextShape, CoreStep, CountersStep DEF IInv
<1>2. handles' \subseteq Token /\ ending' \subseteq Token /\ known' \subseteq Token
  BY <1>1 DEF Core, HandleInv
<1>3. ASSUME NEW H, H \subseteq Token PROVE Cardinality(H) \in Nat
  BY <1>3, TokenAssumption, FS_Subset, FS_CardinalityType
<1>4. open' \in [Scope -> Nat]
  <2>1. \A s \in Scope : open'[s] \in Nat
    BY <1>1, <1>2, <1>3 DEF CountersCountHandles, OfScope
  <2>2. CASE Takes
    BY <2>1, <2>2 DEF Takes, Take
  <2>3. CASE CountersIdle \/ Registers
    BY <1>1, <2>1, <2>3 DEF CountersIdle, Registers, Register, ManagerTypes
  <2> QED BY <1>1, <2>2, <2>3 DEF Shape
<1>5. byConn' \in [Conn -> Nat]
  <2>1. \A k \in Conn : byConn'[k] \in Nat
    BY <1>1, <1>2, <1>3 DEF CountersCountHandles, OfConn
  <2>2. CASE Takes
    BY <2>1, <2>2 DEF Takes, Take
  <2>3. CASE CountersIdle \/ Registers
    BY <1>1, <2>1, <2>3 DEF CountersIdle, Registers, Register, ManagerTypes
  <2> QED BY <1>1, <2>2, <2>3 DEF Shape
<1>6. /\ tomb' \in [Token -> Outcome \cup {"none"}] /\ buried' \in Seq(Token)
      /\ maxOpen' \in Limit /\ perConn' \in Limit /\ mclosed' \in BOOLEAN
  <2>1. CASE RestIdle
    BY <1>1, <2>1 DEF RestIdle, ManagerTypes
  <2>2. ASSUME NEW p \in Proc, End(p)
        PROVE  /\ tomb' \in [Token -> Outcome \cup {"none"}] /\ buried' \in Seq(Token)
               /\ UNCHANGED <<maxOpen, perConn, mclosed>>
    <3>1. tok[p] \in Token /\ res[p] \in Outcome /\ Bury(tok[p], res[p])
      BY <1>1, <2>2 DEF IInv, Core, EndInv, Ends, ResultInv, ResultOf, End, ManagerTypes
    <3> QED BY <1>1, <2>2, <3>1, BuryTypes DEF End
  <2>3. ASSUME NEW n \in Limit, NEW k \in Limit, UpdateLimits(n, k)
        PROVE  UNCHANGED <<tomb, buried, mclosed>> /\ maxOpen' \in Limit /\ perConn' \in Limit
    BY <2>3 DEF UpdateLimits
  <2> QED BY <1>1, <2>1, <2>2, <2>3 DEF Shape, ManagerTypes
<1> QED BY <1>2, <1>4, <1>5, <1>6 DEF ManagerTypes

-----------------------------------------------------------------------------
(* The theorems.                                                           *)

\* IInv holds initially: there is no handle and every goroutine is idle.
LEMMA InitInv == Init => IInv
<1> SUFFICES ASSUME Init PROVE IInv
  OBVIOUS
<1>1. ManagerTypes
  <2>1. buried \in Seq(Token)
    <3>1. buried = <<>>
      BY DEF Init
    <3> QED BY <3>1, SMT
  <2>2. open \in [Scope -> Nat] /\ byConn \in [Conn -> Nat]
    <3>1. open = [s \in Scope |-> 0] /\ byConn = [k \in Conn |-> 0]
      BY DEF Init
    <3> QED BY <3>1, SMT
  <2> QED BY <2>1, <2>2 DEF Init, ManagerTypes
<1>2. Types
  BY DEF Init, Types, HandleTypes, DatabaseTypes, ProcessTypes, Answer, Phase, DbState, Label, Operation
<1>3. CountersCountHandles
  BY FS_EmptySet DEF Init, CountersCountHandles, OfScope, OfConn
<1>4. HandleInv /\ TombstonesTellTheTruth /\ NoOrphans
  BY DEF Init, HandleInv, TombstonesTellTheTruth, Truthful, NoOrphans, HeldOpen
<1>5. BeginInv /\ EndInv
  BY DEF Init, BeginInv, BeginOf, Begins, EndInv, Ends
<1>6. LockInv /\ ControlInv
  BY DEF Init, LockInv, LockOf, Holds, ControlInv, ControlOf, Ends
<1>7. ResultInv /\ DirtyInv
  BY DEF Init, ResultInv, ResultOf, DirtyInv, DirtyOf, CommitReturnsWrites
<1> QED BY <1>1, <1>2, <1>3, <1>4, <1>5, <1>6, <1>7 DEF IInv, Core

\* IInv holds throughout, whatever the goroutines, the clock and the database do.
THEOREM Invariance == Spec => []IInv
<1>1. IInv /\ [Next]_vars => IInv'
  BY CoreStep, CountersStep, ManagerStep DEF IInv
<1> QED BY InitInv, <1>1, PTL DEF Spec

\* Every variable has its type: in particular the counters of capacityLocked
\* are never negative.
THEOREM TypeCorrect == Spec => []TypeOK
<1>1. IInv => TypeOK
  BY DEF IInv, Core, Types, TypeOK
<1> QED BY Invariance, <1>1, PTL

\* A tombstone tells how the database ended its transaction.
THEOREM TombstonesTrue == Spec => []TombstonesTellTheTruth
<1>1. IInv => TombstonesTellTheTruth
  BY DEF IInv, Core
<1> QED BY Invariance, <1>1, PTL

\* What a call answers about the end of a transaction is so, and stays so.
THEOREM AnswersFinal == Spec => []AnswersAreFinal
<1>1. IInv => AnswersAreFinal
  BY DEF IInv, Core, ResultInv, ResultOf, AnswersAreFinal, Proc
<1> QED BY Invariance, <1>1, PTL

\* No open database transaction is without a handle or a process ending it.
THEOREM Orphanless == Spec => []NoOrphans
<1>1. IInv => NoOrphans
  BY DEF IInv, Core
<1> QED BY Invariance, <1>1, PTL

\* After Close, once every goroutine returned, nothing is open.
THEOREM CloseIsFinal == Spec => []NothingOpenAfterClose
<1>1. ASSUME IInv, mclosed, \A p \in Proc : pc[p] = "idle", NEW t \in Token
      PROVE  ~HeldOpen(t)
  <2>1. handles = {}
    BY <1>1 DEF IInv, Core, HandleInv
  <2>2. t \notin ending
    BY <1>1 DEF IInv, Core, EndInv, Ends
  <2>3. \A p \in Call : pc[p] \notin {"begin", "register", "abandon"}
    BY <1>1 DEF Proc
  <2> QED BY <1>1, <2>1, <2>2, <2>3 DEF IInv, Core, NoOrphans
<1>2. IInv => NothingOpenAfterClose
  BY <1>1 DEF NothingOpenAfterClose
<1> QED BY Invariance, <1>2, PTL

\* The counters capacityLocked reads count the handles.
THEOREM CountersExact == Spec => []CountersCountHandles
<1>1. IInv => CountersCountHandles
  BY DEF IInv
<1> QED BY Invariance, <1>1, PTL

\* A commit returns every target its transaction wrote.
THEOREM CommitInvalidates == Spec => []CommitReturnsWrites
<1>1. IInv => CommitReturnsWrites
  BY DEF IInv, Core, DirtyInv
<1> QED BY Invariance, <1>1, PTL

-----------------------------------------------------------------------------
(* Capacity.                                                               *)

\* A handle that is taken raises no counter.
LEMMA TakeLowers ==
    ASSUME ManagerTypes, NEW S \in SUBSET handles, Take(S) PROVE CapacityStep
<1>1. IsFiniteSet(S)
  BY TokenAssumption, FS_Subset DEF ManagerTypes
<1>2. \A s \in Scope : Cardinality(OfScope(S, s)) \in Nat
  BY <1>1, FS_Subset, FS_CardinalityType DEF OfScope
<1>3. \A k \in Conn : Cardinality(OfConn(S, k)) \in Nat
  BY <1>1, FS_Subset, FS_CardinalityType DEF OfConn
<1>4. \A s \in Scope : open'[s] = open[s] - Cardinality(OfScope(S, s)) /\ open[s] \in Nat
  BY DEF ManagerTypes, Take
<1>5. \A k \in Conn : byConn'[k] = byConn[k] - Cardinality(OfConn(S, k)) /\ byConn[k] \in Nat
  BY DEF ManagerTypes, Take
<1>6. \A s \in Scope : ~(open'[s] > open[s])
  BY <1>2, <1>4
<1>7. \A k \in Conn : ~(byConn'[k] > byConn[k])
  BY <1>3, <1>5
<1> QED BY <1>6, <1>7 DEF CapacityStep

\* addHandle raises them within the limits in force.
LEMMA RegisterWithin ==
    ASSUME IInv, NEW p \in Proc, Register(p) PROVE CapacityStep
<1>1. PICK s, k : s = owner[tok[p]][2] /\ k = conn[tok[p]]
  OBVIOUS
<1>2. /\ s \in Scope /\ k \in Conn
      /\ \/ /\ HasCapacity(s, k)
            /\ open' = [open EXCEPT ![s] = @ + 1]
            /\ byConn' = [byConn EXCEPT ![k] = @ + 1]
         \/ UNCHANGED <<open, byConn>>
  BY <1>1, RegisterKnows
<1>3. /\ open \in [Scope -> Nat] /\ byConn \in [Conn -> Nat]
      /\ maxOpen \in Nat /\ perConn \in Nat
  BY LimitAssumption DEF IInv, ManagerTypes
<1>4. \A z \in Scope : open'[z] > open[z] => maxOpen = 0 \/ open'[z] <= maxOpen
  BY <1>2, <1>3 DEF HasCapacity
<1>5. \A z \in Conn : byConn'[z] > byConn[z] => perConn = 0 \/ byConn'[z] <= perConn
  BY <1>2, <1>3 DEF HasCapacity
<1> QED BY <1>4, <1>5 DEF CapacityStep

\* A handle is added only within the limits in force at that step.
THEOREM Capacity == Spec => CapacityRespected
<1>1. ASSUME IInv, [Next]_vars PROVE CapacityStep
  <2>1. Shape /\ ManagerTypes
    BY <1>1, NextShape DEF IInv
  <2>2. CASE CountersIdle
    BY <2>1, <2>2 DEF CountersIdle, CapacityStep, ManagerTypes
  <2>3. CASE Takes
    BY <2>1, <2>3, TakeLowers DEF Takes
  <2>4. CASE Registers
    BY <1>1, <2>4, RegisterWithin DEF Registers
  <2> QED BY <2>1, <2>2, <2>3, <2>4 DEF Shape
<1>2. IInv /\ [Next]_vars => [CapacityStep]_vars
  BY <1>1
<1> QED BY Invariance, <1>2, PTL DEF Spec, CapacityRespected

-----------------------------------------------------------------------------
(* The manager implements TransactionLife: what a step of the manager does *)
(* to the stage and the fate of the transactions.                          *)

Stages == [t \in Token |-> StageOf(t)]
Fates == [t \in Token |-> FateOf(t)]

\* Which stage is which.
LEMMA StageIs ==
    ASSUME Core, NEW t \in Token
    PROVE  /\ t \in handles => StageOf(t) = "open"
           /\ t \in ending => StageOf(t) = "ending"
           /\ BeingBegun(t) => StageOf(t) = "begun"
           /\ db[t] \in {"none", "opening"} => StageOf(t) = "none"
<1>1. handles \cap ending = {} /\ handles \cup ending \subseteq known BY DEF Core, HandleInv
<1>2. t \in known => db[t] \notin {"none", "opening"} BY DEF Core, HandleInv
<1>3. BeingBegun(t) => t \notin known /\ db[t] \notin {"none", "opening"}
  BY DEF BeingBegun, Core, BeginInv, BeginOf, Begins, Proc
<1> QED BY <1>1, <1>2, <1>3 DEF StageOf

\* A transaction whose place in the tables stays the same keeps its stage.
LEMMA StageKept ==
    ASSUME NEW u, u \in handles' <=> u \in handles, u \in ending' <=> u \in ending,
           BeingBegun(u)' <=> BeingBegun(u),
           db'[u] \in {"none", "opening"} <=> db[u] \in {"none", "opening"}
    PROVE  StageOf(u)' = StageOf(u)
BY DEF StageOf

\* The stage, or the fate, of one transaction changes.
LEMMA StageMoves ==
    ASSUME NEW x \in Token, NEW b, StageOf(x)' = b, \A u \in Token \ {x} : StageOf(u)' = StageOf(u)
    PROVE  Stages' = [Stages EXCEPT ![x] = b]
BY DEF Stages

\* Likewise its fate.
LEMMA FateMoves ==
    ASSUME NEW x \in Token, NEW f, FateOf(x)' = f, \A u \in Token \ {x} : db'[u] = db[u]
    PROVE  Fates' = [Fates EXCEPT ![x] = f]
BY DEF Fates, FateOf

\* The step changes no other goroutine than p.
OthersStand(p) == \A q \in Proc \ {p} : pc'[q] = pc[q] /\ tok'[q] = tok[q]
Opening(p) == pc[p] \in {"register", "abandon"}

\* It begins only what p does.
LEMMA BegunKept ==
    ASSUME NEW p \in Proc, OthersStand(p), NEW u,
           Opening(p) => tok[p] # u, Opening(p)' => tok'[p] # u
    PROVE  BeingBegun(u)' <=> BeingBegun(u)
<1>1. \A q \in Call \ {p} : pc'[q] = pc[q] /\ tok'[q] = tok[q] BY DEF OthersStand, Proc
<1> QED BY <1>1 DEF BeingBegun, Opening

\* Nothing of the transactions' lives happens.
LEMMA LifeStands ==
    ASSUME NEW p \in Proc, OthersStand(p), ~Opening(p), ~Opening(p)', UNCHANGED <<handles, ending, db>>
    PROVE  UNCHANGED Life!life
<1>1. \A u \in Token : StageOf(u)' = StageOf(u) BY BegunKept, StageKept
<1>2. \A u \in Token : FateOf(u)' = FateOf(u) BY DEF FateOf
<1> QED BY <1>1, <1>2 DEF Life!life

\* p takes the handles of S.
LEMMA LifeClaims ==
    ASSUME Core, Core', NEW p \in Proc, OthersStand(p), ~Opening(p), ~Opening(p)', NEW S \in SUBSET handles,
           Take(S), UNCHANGED db
    PROVE  Life!LifeNext
<1>1. S \subseteq Token /\ handles \cap ending = {} BY DEF Core, HandleInv
<1>2. \A u \in Token : BeingBegun(u)' <=> BeingBegun(u) BY BegunKept
<1>3. \A u \in S : StageOf(u) = "open" BY <1>1, StageIs
<1>4. \A u \in Token \cap S : StageOf(u)' = "ending" BY <1>1 DEF StageOf, Take
<1>5. \A u \in Token \ S : StageOf(u)' = StageOf(u) BY <1>2, StageKept DEF Take
<1>6. Stages' = [t \in Token |-> IF t \in S THEN "ending" ELSE Stages[t]] BY <1>4, <1>5 DEF Stages
<1>7. Fates' = Fates BY DEF Fates, FateOf
<1>8. Life!Claimed(S) BY <1>1, <1>3, <1>6, <1>7 DEF Life!Claimed, Stages, Fates
<1> QED BY <1>1, <1>8 DEF Life!LifeNext

\* The database moves with a transaction whose stage stays.
LEMMA LifeDecides ==
    ASSUME Core, NEW x \in Token, \A u \in Token \ {x} : db'[u] = db[u],
           UNCHANGED <<handles, ending>>, \A u \in Token : BeingBegun(u)' <=> BeingBegun(u),
           \/ db[x] = "active" /\ db'[x] = "rolledBack"
           \/ db[x] = "active" /\ db'[x] = "committing" /\ x \in ending
           \/ db[x] = "committing" /\ db'[x] \in {"committed", "rolledBack"}
    PROVE  Life!LifeNext
<1>1. Stages' = Stages
  <2>1. \A u \in Token : StageOf(u)' = StageOf(u) BY StageKept
  <2> QED BY <2>1 DEF Stages
<1>2. CASE db[x] = "active" /\ db'[x] = "rolledBack"
  <2>1. FateOf(x) = "pending" /\ FateOf(x)' = "rolledBack" BY <1>2 DEF FateOf
  <2>2. StageOf(x) \in {"begun", "open", "ending"}
    <3>1. x \in handles \cup ending \/ \E p \in Call : tok[p] = x /\ pc[p] \in {"begin", "register", "abandon"}
      BY <1>2 DEF Core, NoOrphans, HeldOpen
    <3>2. ASSUME NEW p \in Call, tok[p] = x, pc[p] \in {"begin", "register", "abandon"} PROVE BeingBegun(x)
      <4>1. pc[p] # "begin" BY <1>2, <3>2 DEF Core, BeginInv, BeginOf, Begins, Proc
      <4> QED BY <3>2, <4>1 DEF BeingBegun
    <3> QED BY <3>1, <3>2, StageIs
  <2>3. Fates' = [Fates EXCEPT ![x] = "rolledBack"] BY <2>1, FateMoves
  <2>4. Life!RolledBack(x) BY <1>1, <2>1, <2>2, <2>3 DEF Life!RolledBack, Stages, Fates
  <2> QED BY <2>4 DEF Life!LifeNext
<1>3. CASE db[x] = "active" /\ db'[x] = "committing" /\ x \in ending
  <2>1. FateOf(x) = "pending" /\ FateOf(x)' = "sent" /\ StageOf(x) = "ending" BY <1>3, StageIs DEF FateOf
  <2>2. Fates' = [Fates EXCEPT ![x] = "sent"] BY <2>1, FateMoves
  <2>3. Life!CommitSent(x) BY <1>1, <2>1, <2>2 DEF Life!CommitSent, Stages, Fates
  <2> QED BY <2>3 DEF Life!LifeNext
<1>4. CASE db[x] = "committing" /\ db'[x] \in {"committed", "rolledBack"}
  <2>1. FateOf(x) = "sent" /\ FateOf(x)' = db'[x] BY <1>4 DEF FateOf
  <2>2. Fates' = [Fates EXCEPT ![x] = db'[x]] BY <2>1, FateMoves
  <2>3. Life!Decided(x) BY <1>1, <1>4, <2>1, <2>2 DEF Life!Decided, Stages, Fates
  <2> QED BY <2>3 DEF Life!LifeNext
<1> QED BY <1>2, <1>3, <1>4

\* Begin: its transaction is begun, and given to the caller or undone.
LEMMA LifeBegins ==
    ASSUME Core, Core', NEW p \in Proc,
           BeginTxFails(p) \/ BeginTxReturns(p) \/ Register(p) \/ Abandon(p)
    PROVE  Life!LifeNext \/ UNCHANGED Life!life
<1>0. Begins(p) /\ pc[p] \in {"begin", "register", "abandon"} BY DEF BeginTxFails, BeginTxReturns, Register, Abandon, Begins
<1>x. PICK x \in Token : x = tok[p] BY <1>0 DEF Core, BeginInv, BeginOf
<1>1. /\ p \in Call /\ x \in Token /\ x \notin known /\ x \notin handles /\ x \notin ending
      /\ pc[p] = "begin" => db[x] = "opening"
      /\ pc[p] # "begin" => db[x] \in {"active", "rolledBack"}
  BY <1>0, <1>x DEF Core, BeginInv, BeginOf, HandleInv
<1>2. OthersStand(p) /\ tok' = tok /\ DOMAIN pc = Proc /\ db \in [Token -> DbState]
  BY DEF BeginTxFails, BeginTxReturns, Register, Abandon, Goto, Return, OthersStand, Core, Types, ProcessTypes, DatabaseTypes
<1>3. \A u \in Token \ {x} : BeingBegun(u)' <=> BeingBegun(u) BY <1>x, <1>2, BegunKept
<1>4. \A q \in Call : pc[q] \in {"register", "abandon"} /\ tok[q] = x => q = p
  BY <1>0, <1>x, <1>1 DEF Core, BeginInv, Begins, Proc
<1>u. ASSUME pc'[p] = "done" PROVE ~BeingBegun(x)'
  <2>1. ASSUME NEW q \in Call, tok'[q] = x, pc'[q] \in {"register", "abandon"} PROVE FALSE
    <3>1. q # p BY <1>u, <2>1
    <3>2. pc[q] = pc'[q] /\ tok[q] = x BY <1>2, <2>1, <3>1 DEF OthersStand, Proc
    <3> QED BY <1>4, <2>1, <3>1, <3>2
  <2> QED BY <2>1 DEF BeingBegun
<1>5. CASE BeginTxFails(p)
  <2>1. /\ pc[p] = "begin" /\ db' = [db EXCEPT ![x] = "none"] /\ UNCHANGED <<handles, ending>> /\ pc'[p] = "done"
    BY <1>x, <1>2, <1>5 DEF BeginTxFails, manager, Return, Goto
  <2>2. db'[x] = "none" /\ \A u \in Token \ {x} : db'[u] = db[u] BY <1>1, <1>2, <2>1
  <2>3. StageOf(x) = "none" /\ StageOf(x)' = "none" BY <1>1, <1>u, <2>1, <2>2, StageIs DEF StageOf
  <2>4. \A u \in Token : StageOf(u)' = StageOf(u) BY <1>3, <2>1, <2>2, <2>3, StageKept
  <2>5. \A u \in Token : FateOf(u)' = FateOf(u) BY <1>1, <2>1, <2>2 DEF FateOf
  <2> QED BY <2>4, <2>5 DEF Life!life
<1>6. CASE BeginTxReturns(p)
  <2>1. /\ pc[p] = "begin" /\ db' = [db EXCEPT ![x] = "active"] /\ UNCHANGED <<handles, ending>>
        /\ pc'[p] \in {"register", "abandon"}
    BY <1>x, <1>2, <1>6 DEF BeginTxReturns, manager, Goto
  <2>2. db'[x] = "active" /\ \A u \in Token \ {x} : db'[u] = db[u] BY <1>1, <1>2, <2>1
  <2>3. BeingBegun(x)' BY <1>x, <1>1, <1>2, <2>1 DEF BeingBegun
  <2>4. StageOf(x) = "none" /\ StageOf(x)' = "begun" BY <1>1, <2>1, <2>3, StageIs DEF StageOf
  <2>5. \A u \in Token \ {x} : StageOf(u)' = StageOf(u) BY <1>3, <2>1, <2>2, StageKept
  <2>6. Stages' = [Stages EXCEPT ![x] = "begun"] BY <1>1, <2>4, <2>5, StageMoves
  <2>7. Fates' = Fates BY <1>1, <2>1, <2>2 DEF Fates, FateOf
  <2>8. Life!Begun(x) BY <1>1, <2>4, <2>6, <2>7 DEF Life!Begun, Life!Advance, Stages, Fates
  <2> QED BY <1>1, <2>8 DEF Life!LifeNext
<1>7. CASE Register(p)
  <2>1. pc[p] = "register" /\ UNCHANGED <<ending, db>> BY <1>7 DEF Register, database
  <2>2. BeingBegun(x) BY <1>x, <1>1, <2>1 DEF BeingBegun
  <2>3. Fates' = Fates BY <2>1 DEF Fates, FateOf
  <2>4. CASE handles' = handles \cup {x}
    <3>1. StageOf(x) = "begun" /\ StageOf(x)' = "open" BY <1>1, <2>2, <2>4, StageIs DEF StageOf
    <3>2. \A u \in Token \ {x} : StageOf(u)' = StageOf(u) BY <1>3, <2>1, <2>4, StageKept
    <3>3. Stages' = [Stages EXCEPT ![x] = "open"] BY <1>1, <3>1, <3>2, StageMoves
    <3>4. Life!Given(x) BY <1>1, <2>3, <3>1, <3>3 DEF Life!Given, Life!Advance, Stages, Fates
    <3> QED BY <1>1, <3>4 DEF Life!LifeNext
  <2>5. CASE handles' = handles /\ pc'[p] = "abandon"
    <3>1. BeingBegun(x)' BY <1>x, <1>1, <1>2, <2>5 DEF BeingBegun
    <3>2. \A u \in Token : StageOf(u)' = StageOf(u) BY <1>3, <2>1, <2>2, <2>5, <3>1, StageKept
    <3> QED BY <2>3, <3>2 DEF Life!life, Fates
  <2> QED BY <1>x, <1>2, <1>7, <2>4, <2>5 DEF Register, Goto
<1>8. CASE Abandon(p)
  <2>1. /\ pc[p] = "abandon" /\ db' = [db EXCEPT ![x] = "rolledBack"] /\ UNCHANGED <<handles, ending>> /\ pc'[p] = "done"
    BY <1>x, <1>2, <1>8 DEF Abandon, manager, Return, Goto
  <2>2. db'[x] = "rolledBack" /\ \A u \in Token \ {x} : db'[u] = db[u] BY <1>1, <1>2, <2>1
  <2>3. BeingBegun(x) BY <1>x, <1>1, <2>1 DEF BeingBegun
  <2>4. ~BeingBegun(x)' BY <1>u, <2>1
  <2>5. StageOf(x) = "begun" BY <1>1, <2>3, StageIs
  <2>6. StageOf(x)' = "over" BY <1>1, <2>1, <2>2, <2>4 DEF StageOf
  <2>7. \A u \in Token \ {x} : StageOf(u)' = StageOf(u) BY <1>3, <2>1, <2>2, StageKept
  <2>8. Stages' = [Stages EXCEPT ![x] = "over"] BY <1>1, <2>6, <2>7, StageMoves
  <2>9. FateOf(x) \in {"pending", "rolledBack"} /\ FateOf(x)' = "rolledBack" BY <1>1, <2>1, <2>2 DEF FateOf
  <2>10. Fates' = [Fates EXCEPT ![x] = "rolledBack"] BY <1>1, <2>2, <2>9, FateMoves
  <2>11. Life!Dropped(x) BY <1>1, <2>5, <2>8, <2>9, <2>10 DEF Life!Dropped, Life!Advance, Stages, Fates
  <2> QED BY <1>1, <2>11 DEF Life!LifeNext
<1> QED BY <1>5, <1>6, <1>7, <1>8

\* A goroutine that ends a transaction sends its COMMIT or rolls it back, and
\* is done with it when the database is.
LEMMA LifeEnds ==
    ASSUME Core, Core', NEW p \in Proc, CommitSend(p) \/ RollbackReturns(p) \/ End(p)
    PROVE  Life!LifeNext \/ UNCHANGED Life!life
<1>0. Ends(p) /\ pc[p] \in {"commit", "rollback", "bury"} BY DEF CommitSend, RollbackReturns, End, Ends
<1>x. PICK x \in Token : x = tok[p] BY <1>0 DEF Core, EndInv, HandleInv
<1>1. x \in Token /\ x \in ending /\ x \in known /\ x \notin handles
  BY <1>0, <1>x DEF Core, EndInv, HandleInv
<1>2. OthersStand(p) /\ tok' = tok /\ DOMAIN pc = Proc /\ db \in [Token -> DbState]
  BY DEF CommitSend, RollbackReturns, End, Goto, OthersStand, Core, Types, ProcessTypes, DatabaseTypes
<1>3. ~Opening(p) /\ ~Opening(p)'
  <2>1. ~Opening(p) BY <1>0 DEF Opening
  <2>2. pc'[p] \in {"sent", "bury", "sweep", "done"} BY <1>2 DEF CommitSend, RollbackReturns, End, Goto
  <2> QED BY <2>1, <2>2 DEF Opening
<1>4. \A u \in Token : BeingBegun(u)' <=> BeingBegun(u) BY <1>2, <1>3, BegunKept
<1>5. CASE CommitSend(p)
  <2>1. db[x] = "active" /\ db' = [db EXCEPT ![x] = "committing"] /\ UNCHANGED <<handles, ending>> BY <1>x, <1>5 DEF CommitSend, manager
  <2>2. db'[x] = "committing" /\ \A u \in Token \ {x} : db'[u] = db[u] BY <1>1, <1>2, <2>1
  <2> QED BY <1>1, <1>4, <2>1, <2>2, LifeDecides
<1>6. CASE RollbackReturns(p)
  <2>1. /\ db[x] \in {"active", "rolledBack"} /\ db' = [db EXCEPT ![x] = "rolledBack"] /\ UNCHANGED <<handles, ending>>
    BY <1>x, <1>6 DEF RollbackReturns, manager, Core, LockInv, LockOf
  <2>2. db'[x] = "rolledBack" /\ \A u \in Token \ {x} : db'[u] = db[u] BY <1>1, <1>2, <2>1
  <2>3. CASE db[x] = "active" BY <1>1, <1>4, <2>1, <2>2, <2>3, LifeDecides
  <2>4. CASE db[x] = "rolledBack"
    <3>1. db' = db BY <1>2, <2>1, <2>4
    <3> QED BY <1>2, <1>3, <2>1, <3>1, LifeStands
  <2> QED BY <2>1, <2>3, <2>4
<1>7. CASE End(p)
  <2>1. ending' = ending \ {x} /\ handles' = handles /\ db' = db BY <1>x, <1>7 DEF End, database
  <2>2. Settled(x)
    <3>1. x \in known' /\ x \notin handles' \cup ending' BY <1>1, <1>7, <2>1 DEF End
    <3>2. Settled(x)' BY <3>1 DEF Core, HandleInv
    <3> QED BY <1>2, <2>1, <3>2 DEF Settled
  <2>3. StageOf(x) = "ending" BY <1>1, StageIs
  <2>4. ~BeingBegun(x)
    <3>1. \A q \in Call : pc[q] \in {"register", "abandon"} => tok[q] \notin known BY DEF Core, BeginInv, BeginOf, Begins, Proc
    <3> QED BY <1>1, <3>1 DEF BeingBegun
  <2>5. StageOf(x)' = "over" BY <1>1, <1>4, <2>1, <2>2, <2>4 DEF StageOf, Settled
  <2>6. \A u \in Token \ {x} : StageOf(u)' = StageOf(u) BY <1>4, <2>1, StageKept
  <2>7. Stages' = [Stages EXCEPT ![x] = "over"] BY <1>1, <2>5, <2>6, StageMoves
  <2>8. Fates' = Fates BY <2>1 DEF Fates, FateOf
  <2>9. FateOf(x) # "pending" BY <2>2 DEF FateOf, Settled
  <2>10. Life!Over(x) BY <1>1, <2>3, <2>7, <2>8, <2>9 DEF Life!Over, Life!Advance, Stages, Fates
  <2> QED BY <1>1, <2>10 DEF Life!LifeNext
<1> QED BY <1>5, <1>6, <1>7

\* What a goroutine does on its own.
LEMMA LifeSteps ==
    ASSUME Core, Core', NEW p \in Proc, Step(p) PROVE Life!LifeNext \/ UNCHANGED Life!life
<1>0. pc \in [Proc -> Label] /\ tok \in [Proc -> Token \cup {None}] BY DEF Core, Types, ProcessTypes
<1>1. CASE LookupExpires(p) \/ FailEnds(p) \/ TakeFinish(p)
  <2>1. /\ OthersStand(p) /\ UNCHANGED db /\ pc[p] \in {"found", "fail", "take"}
        /\ pc'[p] \in {"lock", "done", "lookup"}
    BY <1>0, <1>1 DEF LookupExpires, FailEnds, TakeFinish, EndHandle, Goto, Return, OthersStand, database
  <2>2. ~Opening(p) /\ ~Opening(p)' BY <2>1 DEF Opening
  <2>3. CASE tok[p] \in handles
    <3>1. {tok[p]} \in SUBSET handles /\ Take({tok[p]}) BY <1>1, <2>3 DEF LookupExpires, FailEnds, TakeFinish, EndHandle
    <3> QED BY <2>1, <2>2, <3>1, LifeClaims
  <2>4. CASE tok[p] \notin handles
    <3>1. UNCHANGED <<handles, ending>> BY <1>1, <2>4 DEF LookupExpires, FailEnds, TakeFinish, EndHandle
    <3> QED BY <2>1, <2>2, <3>1, LifeStands
  <2> QED BY <2>3, <2>4
<1>2. CASE \/ Lookup(p) \/ Wait(p) \/ EndedError(p) \/ Misrouted(p) \/ LookupReturns(p) \/ MarkDirty(p)
           \/ StatementStart(p) \/ StatementSucceeds(p) \/ StatementFails(p)
  <2>1. UNCHANGED <<handles, ending, db, tok>>
    BY <1>2 DEF Lookup, Wait, EndedError, Misrouted, LookupReturns, MarkDirty, StatementStart, StatementSucceeds,
                StatementFails, manager, database
  <2>2. PICK l \in {"found", "done", "wait", "ended", "lookup", "take", "mark", "exec", "stmt", "fail"} : Goto(p, l)
    BY <1>2 DEF Lookup, Wait, EndedError, Misrouted, LookupReturns, MarkDirty, StatementStart, StatementSucceeds,
                StatementFails, Return
  <2>3. pc'[p] = l /\ OthersStand(p) BY <1>0, <2>1, <2>2 DEF Goto, OthersStand
  <2>4. ~Opening(p) /\ ~Opening(p)'
    BY <1>2, <2>3 DEF Opening, Lookup, Wait, EndedError, Misrouted, LookupReturns, MarkDirty, StatementStart,
                      StatementSucceeds, StatementFails
  <2> QED BY <2>1, <2>3, <2>4, LifeStands
<1>3. CASE CloseHandle(p) \/ CommitCut(p) \/ CommitReturns(p)
  <2>1. UNCHANGED <<handles, ending, db, tok>> BY <1>3 DEF CloseHandle, CommitCut, CommitReturns, manager, database
  <2>2. PICK l \in {"bury", "commit", "rollback"} : Goto(p, l) BY <1>3 DEF CloseHandle, CommitCut, CommitReturns
  <2>3. pc'[p] = l /\ OthersStand(p) BY <1>0, <2>1, <2>2 DEF Goto, OthersStand
  <2>4. ~Opening(p) /\ ~Opening(p)' BY <1>3, <2>3 DEF Opening, CloseHandle, CommitCut, CommitReturns
  <2> QED BY <2>1, <2>3, <2>4, LifeStands
<1>4. CASE SweepNext(p) \/ Leave(p)
  <2>1. UNCHANGED <<handles, ending, db>> BY <1>4 DEF SweepNext, Leave, manager, database
  <2>2. PICK l \in {"done", "lock", "idle"} : Goto(p, l) BY <1>4 DEF SweepNext, Leave
  <2>3. \A q \in Proc \ {p} : tok'[q] = tok[q] BY <1>0, <1>4 DEF SweepNext, Leave
  <2>4. pc'[p] = l /\ OthersStand(p) BY <1>0, <2>2, <2>3 DEF Goto, OthersStand
  <2>5. ~Opening(p) /\ ~Opening(p)' BY <1>4, <2>4 DEF Opening, SweepNext, Leave
  <2> QED BY <2>1, <2>4, <2>5, LifeStands
<1> QED BY <1>1, <1>2, <1>3, <1>4, LifeBegins, LifeEnds DEF Step

\* What a caller or the transport asks for.
LEMMA LifeRequests ==
    ASSUME Core, Core', NEW p \in Call, Request(p) PROVE Life!LifeNext \/ UNCHANGED Life!life
<1>0. p \in Proc /\ pc \in [Proc -> Label] /\ tok \in [Proc -> Token \cup {None}] /\ db \in [Token -> DbState]
  BY DEF Proc, Core, Types, ProcessTypes, DatabaseTypes
<1>1. ASSUME NEW o, NEW t, NEW c, NEW x, NEW l, Enter(p, o, t, c, x, l)
      PROVE  OthersStand(p) /\ pc[p] = "idle" /\ pc'[p] = l
  BY <1>0, <1>1 DEF Enter, Goto, OthersStand
<1>2. ASSUME NEW c \in Caller, NEW k \in Conn, NEW t \in Token, BeginCheck(p, c, k, t) PROVE UNCHANGED Life!life
  <2>1. OthersStand(p) /\ pc[p] = "idle" /\ pc'[p] = "begin" BY <1>1, <1>2 DEF BeginCheck
  <2>2. db[t] = "none" /\ db' = [db EXCEPT ![t] = "opening"] /\ UNCHANGED <<handles, ending>> BY <1>2 DEF BeginCheck, manager
  <2>3. db'[t] = "opening" /\ \A u \in Token \ {t} : db'[u] = db[u] BY <1>0, <2>2
  <2>4. \A u \in Token : BeingBegun(u)' <=> BeingBegun(u) BY <1>0, <2>1, BegunKept DEF Opening
  <2>5. \A u \in Token : StageOf(u)' = StageOf(u) BY <2>2, <2>3, <2>4, StageKept
  <2>6. \A u \in Token : FateOf(u)' = FateOf(u) BY <2>2, <2>3 DEF FateOf
  <2> QED BY <2>5, <2>6 DEF Life!life
<1>3. ASSUME NEW o \in Ops, NEW t \in Token, NEW c \in Caller, NEW x \in Target \cup {None}, Start(p, o, t, c, x)
      PROVE  UNCHANGED Life!life
  <2>1. OthersStand(p) /\ pc[p] = "idle" /\ pc'[p] = "lookup" BY <1>1, <1>3 DEF Start
  <2>2. UNCHANGED <<handles, ending, db>> BY <1>3 DEF Start, manager, database
  <2> QED BY <1>0, <2>1, <2>2, LifeStands DEF Opening
<1>4. CASE WaitCanceled(p)
  <2>1. UNCHANGED <<handles, ending, db, tok>> /\ pc[p] = "wait" /\ Goto(p, "done") BY <1>4 DEF WaitCanceled, manager, database, Return
  <2>2. pc'[p] = "done" /\ OthersStand(p) BY <1>0, <2>1 DEF Goto, OthersStand
  <2> QED BY <1>0, <2>1, <2>2, LifeStands DEF Opening
<1>5. ASSUME NEW S \in SUBSET handles, Sweep(p, S) PROVE Life!LifeNext
  <2>1. OthersStand(p) /\ pc[p] = "idle" /\ pc'[p] = "sweep" BY <1>1, <1>5 DEF Sweep
  <2>2. Take(S) /\ UNCHANGED db BY <1>5 DEF Sweep, database
  <2> QED BY <1>0, <2>1, <2>2, LifeClaims DEF Opening
<1>6. ASSUME NEW s \in Session, RollbackSession(p, s) PROVE Life!LifeNext BY <1>5, <1>6 DEF RollbackSession
<1>7. CASE Close(p) BY <1>5, <1>7 DEF Close
<1> QED BY <1>2, <1>3, <1>4, <1>6, <1>7 DEF Request

\* Every step of the manager is one of TransactionLife's, or none.
LEMMA LifeStep == ASSUME Core, Core', [Next]_vars PROVE Life!LifeNext \/ UNCHANGED Life!life
<1>0. pc \in [Proc -> Label] /\ tok \in [Proc -> Token \cup {None}] /\ db \in [Token -> DbState]
  BY DEF Core, Types, ProcessTypes, DatabaseTypes
<1>1. ASSUME UNCHANGED <<handles, ending, db, pc, tok>> PROVE UNCHANGED Life!life
  <2>1. \A u \in Token : StageOf(u)' = StageOf(u) /\ FateOf(u)' = FateOf(u) BY <1>1 DEF StageOf, FateOf, BeingBegun
  <2> QED BY <2>1 DEF Life!life
<1>2. ASSUME NEW t \in Token, TimerFires(t) PROVE Life!LifeNext
  <2>1. t \in Proc BY DEF Proc
  <2>2. OthersStand(t) /\ pc[t] = "idle" /\ pc'[t] = "lock" BY <1>0, <1>2, <2>1 DEF TimerFires, Enter, Goto, OthersStand
  <2>3. {t} \in SUBSET handles /\ Take({t}) /\ UNCHANGED db BY <1>2 DEF TimerFires, database
  <2> QED BY <2>1, <2>2, <2>3, LifeClaims DEF Opening
<1>3. CASE Environment
  <2>1. ASSUME NEW n \in Limit, NEW k \in Limit, UpdateLimits(n, k) PROVE UNCHANGED Life!life
    BY <1>1, <2>1 DEF UpdateLimits, database, process
  <2>2. ASSUME NEW t \in Token, ClockTick(t) PROVE UNCHANGED Life!life
    BY <1>1, <2>2 DEF ClockTick, manager, database, process
  <2>3. ASSUME NEW t \in Token, LifetimeRollback(t) \/ DbDecides(t) PROVE Life!LifeNext
    <3>1. UNCHANGED <<handles, ending, pc, tok>> BY <2>3 DEF LifetimeRollback, DbDecides, manager, process
    <3>2. PICK d \in {"committed", "rolledBack"} : db' = [db EXCEPT ![t] = d] BY <2>3 DEF LifetimeRollback, DbDecides
    <3>3. db'[t] = d /\ \A u \in Token \ {t} : db'[u] = db[u] BY <1>0, <3>2
    <3>4. \/ db[t] = "active" /\ db'[t] = "rolledBack"
          \/ db[t] = "committing" /\ db'[t] \in {"committed", "rolledBack"}
      BY <1>0, <2>3, <3>3 DEF LifetimeRollback, DbDecides
    <3>5. \A u \in Token : BeingBegun(u)' <=> BeingBegun(u) BY <3>1 DEF BeingBegun
    <3> QED BY <3>1, <3>3, <3>4, <3>5, LifeDecides
  <2> QED BY <1>3, <2>1, <2>2, <2>3 DEF Environment
<1>4. CASE UNCHANGED vars BY <1>1, <1>4 DEF vars, manager, database, process
<1> QED BY <1>2, <1>3, <1>4, LifeSteps, LifeRequests DEF Next

\* The manager implements TransactionLife, whichever goroutines race.
THEOREM LivesAsPromised == Spec => ImplementsLife
<1>1. Init => Life!LifeInit
  BY SMTT(20), Z3T(20) DEF Init, Life!LifeInit, StageOf, FateOf, BeingBegun, Proc
<1>2. IInv /\ IInv' /\ [Next]_vars => [Life!LifeNext]_(Life!life)
  BY LifeStep DEF IInv
<1> QED BY Invariance, <1>1, <1>2, PTL DEF Spec, ImplementsLife, Life!LifeSpec

=============================================================================
