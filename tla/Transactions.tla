---------------------------- MODULE Transactions ----------------------------
(***************************************************************************)
(* The explicit transactions of core/tool: TransactionManager              *)
(* (transaction.go, transaction_end.go, transaction_ended.go) and the      *)
(* calls of the data plane on it (transaction_tools.go, pipeline.go).      *)
(*                                                                         *)
(* Every goroutine that enters the manager is a process: the tool calls    *)
(* (Call), and for every token the goroutine of its timers, which is named *)
(* by the token itself.  A critical section of m.mu is one step.  h.mu is  *)
(* held across calls of the database, so it is a variable (hmu).           *)
(* The database is external: a transaction is a member of DbState, and a   *)
(* COMMIT is sent, decided and answered in separate steps.                 *)
(***************************************************************************)
EXTENDS Integers, Sequences, FiniteSets

CONSTANTS
    Call,           \* goroutines serving tool calls, session ends and Close
    Token,          \* tokens newTransactionToken can return
    Session, Scope, \* transport sessions, authorization identities
    Conn,           \* connections (store.TxBeginner) transactions begin on
    Target,         \* cache targets a write may change
    Ops,            \* the operations calls make on a token
    Limit,          \* values maxOpen and perConnection are set to (0: none)
    MaxTombstones,  \* maxTombstones
    None            \* no token, no caller, no process, no target

ASSUME CallAssumption == Call \cap Token = {}
ASSUME NoneAssumption ==
    /\ None \notin Call \cup Token
    /\ None \notin Session \X Scope
    /\ None \notin Conn \cup Target
ASSUME OpsAssumption == Ops \subseteq {"commit", "rollback", "read", "write"}
ASSUME LimitAssumption == Limit \subseteq Nat /\ Limit # {}
ASSUME TombstonesAssumption == MaxTombstones \in Nat \ {0}
ASSUME TokenAssumption == IsFiniteSet(Token)

VARIABLES
    handles, ending,   \* tokens of m.handles and of m.ending
    tomb, buried,      \* m.tombstones (outcome by token) and m.buried
    open, byConn,      \* m.open, m.byConnection
    maxOpen, perConn,  \* m.maxOpen, m.perConnection
    mclosed,           \* m.closed
    known,             \* tokens Begin returned to their callers
    owner, conn,       \* h.session and h.scope, h.connection
    hclosed, hmu,      \* h.closed, the process holding h.mu
    dirty,             \* h.dirty
    clock,             \* where the clock stands for the token (see Phase)
    db, written,       \* the database's transaction, what it has written
    pc, op, tok, who, tgt, res, todo  \* the processes

manager == <<handles, ending, tomb, buried, open, byConn, maxOpen, perConn, mclosed, known>>
handle == <<owner, conn, hclosed, hmu, dirty, clock>>
database == <<db, written>>
process == <<pc, op, tok, who, tgt, res, todo>>
vars == <<manager, handle, database, process>>

-----------------------------------------------------------------------------
Proc == Call \cup Token
Caller == Session \X Scope

\* What a tombstone records (transaction_ended.go).
Outcome == {"committed", "rolledBack", "expired", "unknown"}

\* What a call answers: an outcome, or one of these.  "saidExpired" and
\* "saidRolledBack" are the answers expired and rolledBack of a call that
\* found the transaction already taken by another process (see LookupExpires
\* and FailEnds).
Answer == Outcome \cup {"begun", "refused", "ok", "scope", "stale", "notFound", "canceled",
                        "saidExpired", "saidRolledBack", "none"}

\* "lapsed": the lifetime context of the transaction (ttl from before BeginTx)
\* is over; "expired": so is handle.expires, which is computed after it.
Phase == {"fresh", "lapsed", "expired"}

DbState == {"none", "opening", "active", "committing", "committed", "rolledBack"}

Label == {"idle", "begin", "register", "abandon", "lookup", "wait", "ended", "found", "take",
          "mark", "exec", "stmt", "fail", "lock", "commit", "sent", "rollback", "bury", "sweep", "done"}
Operation == {"none", "begin", "commit", "rollback", "read", "write", "mark", "sweep", "timer"}

\* The handles of a scope and those holding a connection.
OfScope(H, s) == {t \in H : owner[t][2] = s}
OfConn(H, k) == {t \in H : conn[t] = k}

\* A statement of t is running (h.running > 0).
Running(t) == \E p \in Proc : pc[p] = "stmt" /\ tok[p] = t

-----------------------------------------------------------------------------
Init ==
    /\ handles = {} /\ ending = {} /\ known = {}
    /\ tomb = [t \in Token |-> "none"] /\ buried = <<>>
    /\ open = [s \in Scope |-> 0] /\ byConn = [k \in Conn |-> 0]
    /\ maxOpen \in Limit /\ perConn \in Limit
    /\ mclosed = FALSE
    /\ owner = [t \in Token |-> None] /\ conn = [t \in Token |-> None]
    /\ hclosed = [t \in Token |-> FALSE] /\ hmu = [t \in Token |-> None]
    /\ dirty = [t \in Token |-> {}]
    /\ clock = [t \in Token |-> "fresh"]
    /\ db = [t \in Token |-> "none"] /\ written = [t \in Token |-> {}]
    /\ pc = [p \in Proc |-> "idle"] /\ op = [p \in Proc |-> "none"]
    /\ tok = [p \in Proc |-> None] /\ who = [p \in Proc |-> None]
    /\ tgt = [p \in Proc |-> None] /\ res = [p \in Proc |-> "none"]
    /\ todo = [p \in Proc |-> {}]

-----------------------------------------------------------------------------
(* Control.                                                                *)

Goto(p, label) == pc' = [pc EXCEPT ![p] = label]

\* The call returns a to its caller.
Return(p, a) == Goto(p, "done") /\ res' = [res EXCEPT ![p] = a]

\* A call of caller c on token t starts as operation o.
Enter(p, o, t, c, x, label) ==
    /\ pc[p] = "idle"
    /\ Goto(p, label)
    /\ op' = [op EXCEPT ![p] = o]
    /\ tok' = [tok EXCEPT ![p] = t]
    /\ who' = [who EXCEPT ![p] = c]
    /\ tgt' = [tgt EXCEPT ![p] = x]

\* The call is over.
Leave(p) ==
    /\ pc[p] = "done"
    /\ Goto(p, "idle")
    /\ op' = [op EXCEPT ![p] = "none"]
    /\ tok' = [tok EXCEPT ![p] = None]
    /\ who' = [who EXCEPT ![p] = None]
    /\ tgt' = [tgt EXCEPT ![p] = None]
    /\ res' = [res EXCEPT ![p] = "none"]
    /\ UNCHANGED <<manager, handle, database, todo>>

-----------------------------------------------------------------------------
(* Dropping a handle and recording how it ended (m.mu held).               *)

\* Mutant of Take: byConnection is not decremented.
TakeKeepsConn(S) ==
    /\ handles' = handles \ S
    /\ ending' = ending \cup S
    /\ open' = [s \in Scope |-> open[s] - Cardinality(OfScope(S, s))]
    /\ byConn' = byConn

\* removeLocked for each handle of S, which become ending (endingLocked).
Take(S) ==
    /\ handles' = handles \ S
    /\ ending' = ending \cup S
    /\ open' = [s \in Scope |-> open[s] - Cardinality(OfScope(S, s))]
    /\ byConn' = [k \in Conn |-> byConn[k] - Cardinality(OfConn(S, k))]

\* end: p takes its token to roll it back, recording outcome; when another
\* process took it already there is nothing to do, and p answers said.
EndHandle(p, outcome, said) ==
    IF tok[p] \in handles
    THEN /\ Take({tok[p]})
         /\ Goto(p, "lock")
         /\ res' = [res EXCEPT ![p] = outcome]
    ELSE /\ UNCHANGED <<handles, ending, open, byConn>>
         /\ Return(p, said)

\* buryLocked: n tombstones are dropped from the front, those past
\* maxTombstones and those older than tombstoneRetention, which any but the
\* new one may be.
Bury(t, outcome) ==
    LET b == Append(buried, t) IN
    \E n \in 0..Len(buried) :
        /\ Len(b) - n <= MaxTombstones
        /\ buried' = SubSeq(b, n + 1, Len(b))
        /\ tomb' = [u \in Token |-> IF u = t THEN outcome
                                    ELSE IF u \in {b[i] : i \in 1..n} THEN "none" ELSE tomb[u]]

-----------------------------------------------------------------------------
(* Begin.                                                                  *)

\* capacityLocked.
HasCapacity(s, k) ==
    /\ maxOpen > 0 => open[s] < maxOpen
    /\ perConn > 0 => byConn[k] < perConn

\* checkBeginCapacity; BeginTx then runs outside m.mu.  A refused begin
\* changes nothing.
BeginCheck(p, c, k, t) ==
    /\ db[t] = "none"
    /\ ~mclosed
    /\ HasCapacity(c[2], k)
    /\ Enter(p, "begin", t, c, None, "begin")
    /\ owner' = [owner EXCEPT ![t] = c]
    /\ conn' = [conn EXCEPT ![t] = k]
    /\ db' = [db EXCEPT ![t] = "opening"]
    /\ UNCHANGED <<manager, hclosed, hmu, dirty, clock, written, res, todo>>

\* BeginTx fails: there is no transaction.
BeginTxFails(p) ==
    /\ pc[p] = "begin"
    /\ Return(p, "refused")
    /\ owner' = [owner EXCEPT ![tok[p]] = None]
    /\ conn' = [conn EXCEPT ![tok[p]] = None]
    /\ db' = [db EXCEPT ![tok[p]] = "none"]
    /\ UNCHANGED <<manager, hclosed, hmu, dirty, clock, written, op, tok, who, tgt, todo>>

\* BeginTx succeeds; the request's context may have ended meanwhile, or the
\* token may not be made, and the transaction is rolled back.
BeginTxReturns(p) ==
    /\ pc[p] = "begin"
    /\ db' = [db EXCEPT ![tok[p]] = "active"]
    /\ Goto(p, "register") \/ Goto(p, "abandon")
    /\ UNCHANGED <<manager, handle, written, op, tok, who, tgt, res, todo>>

\* Mutants of Register: the checks of addHandle are left to the first ones,
\* or a transaction that is not registered is not aborted.
RegisterIf(p, admitted, refusal) ==
    LET t == tok[p] IN
    /\ pc[p] = "register"
    /\ IF admitted
       THEN /\ handles' = handles \cup {t}
            /\ known' = known \cup {t}
            /\ open' = [open EXCEPT ![owner[t][2]] = @ + 1]
            /\ byConn' = [byConn EXCEPT ![conn[t]] = @ + 1]
            /\ Return(p, "begun")
       ELSE /\ Goto(p, refusal)
            /\ UNCHANGED <<handles, known, open, byConn, res>>
    /\ UNCHANGED <<ending, tomb, buried, maxOpen, perConn, mclosed,
                   handle, database, op, tok, who, tgt, todo>>
RegisterUnbounded(p) == RegisterIf(p, ~mclosed, "abandon")
RegisterAfterClose(p) == RegisterIf(p, HasCapacity(owner[tok[p]][2], conn[tok[p]]), "abandon")
RegisterForgets(p) == RegisterIf(p, ~mclosed /\ HasCapacity(owner[tok[p]][2], conn[tok[p]]), "done")

\* addHandle: the capacity is checked again, as BeginTx ran outside m.mu.
Register(p) ==
    LET t == tok[p]
        s == owner[t][2]
        k == conn[t]
    IN  /\ pc[p] = "register"
        /\ IF ~mclosed /\ HasCapacity(s, k)
           THEN /\ handles' = handles \cup {t}
                /\ known' = known \cup {t}
                /\ open' = [open EXCEPT ![s] = @ + 1]
                /\ byConn' = [byConn EXCEPT ![k] = @ + 1]
                /\ Return(p, "begun")
           ELSE /\ Goto(p, "abandon")
                /\ UNCHANGED <<handles, known, open, byConn, res>>
        /\ UNCHANGED <<ending, tomb, buried, maxOpen, perConn, mclosed,
                       handle, database, op, tok, who, tgt, todo>>

\* The rollback of a transaction begun but not registered.
Abandon(p) ==
    /\ pc[p] = "abandon"
    /\ db' = [db EXCEPT ![tok[p]] = "rolledBack"]
    /\ Return(p, "refused")
    /\ UNCHANGED <<manager, handle, written, op, tok, who, tgt, todo>>

-----------------------------------------------------------------------------
(* lookup.                                                                 *)

\* A call on a token: commit, rollback, or a statement (routeEntity).
Start(p, o, t, c, x) ==
    /\ t \in known
    /\ o = "write" <=> x # None
    /\ Enter(p, o, t, c, x, "lookup")
    /\ UNCHANGED <<manager, handle, database, res, todo>>

\* Mutant of Lookup: a token still ending is not waited for.
LookupWithoutWait(p) ==
    LET t == tok[p] IN
    /\ pc[p] = "lookup"
    /\ \/ t \in handles /\ who[p] = owner[t] /\ Goto(p, "found") /\ res' = res
       \/ t \in handles /\ who[p] # owner[t] /\ Return(p, "scope")
       \/ t \notin handles /\ Goto(p, "ended") /\ res' = res
    /\ UNCHANGED <<manager, handle, database, op, tok, who, tgt, todo>>

\* The handle, or the token's ending, is read under m.mu.
Lookup(p) ==
    LET t == tok[p] IN
    /\ pc[p] = "lookup"
    /\ \/ t \in handles /\ who[p] = owner[t] /\ Goto(p, "found") /\ res' = res
       \/ t \in handles /\ who[p] # owner[t] /\ Return(p, "scope")
       \/ t \in ending /\ Goto(p, "wait") /\ res' = res
       \/ t \notin handles \cup ending /\ Goto(p, "ended") /\ res' = res
    /\ UNCHANGED <<manager, handle, database, op, tok, who, tgt, todo>>

\* The transaction ended, or the caller's context did first.
Wait(p) ==
    /\ pc[p] = "wait"
    /\ tok[p] \notin ending
    /\ Goto(p, "ended")
    /\ UNCHANGED <<manager, handle, database, op, tok, who, tgt, res, todo>>

WaitCanceled(p) ==
    /\ pc[p] = "wait"
    /\ Return(p, "canceled")
    /\ UNCHANGED <<manager, handle, database, op, tok, who, tgt, todo>>

\* endedError: only the transaction's caller learns how it ended, while its
\* tombstone is not older than tombstoneRetention.
EndedError(p) ==
    LET t == tok[p] IN
    /\ pc[p] = "ended"
    /\ \/ tomb[t] # "none" /\ who[p] = owner[t] /\ Return(p, tomb[t])
       \/ Return(p, "notFound")
    /\ UNCHANGED <<manager, handle, database, op, tok, who, tgt, todo>>

\* The configuration the call runs under reaches another datasource or
\* connection (ErrTransactionScope, ErrTransactionStale).
Misrouted(p) ==
    /\ pc[p] = "found"
    /\ op[p] \in {"read", "write", "mark"}
    /\ Return(p, "stale")
    /\ UNCHANGED <<manager, handle, database, op, tok, who, tgt, todo>>

\* Past handle.expires the lookup ends the transaction itself, as its timer
\* would (expire), unless another process did already.
LookupExpires(p) ==
    /\ pc[p] = "found"
    /\ clock[tok[p]] = "expired"
    /\ EndHandle(p, "expired", "saidExpired")
    /\ op' = [op EXCEPT ![p] = "timer"]
    /\ UNCHANGED <<tomb, buried, maxOpen, perConn, mclosed, known, handle, database,
                   tok, who, tgt, todo>>

\* Mutant of LookupReturns: a write runs before its targets are recorded.
LookupReturnsUnmarked(p) ==
    /\ pc[p] = "found"
    /\ clock[tok[p]] # "expired"
    /\ Goto(p, IF op[p] \in {"commit", "rollback"} THEN "take" ELSE "exec")
    /\ UNCHANGED <<manager, handle, database, op, tok, who, tgt, res, todo>>

\* The handle is the caller's.  A write looks it up again to record what it
\* may change (statement.admitted) before it runs.
LookupReturns(p) ==
    LET t == tok[p] IN
    /\ pc[p] = "found"
    /\ clock[t] # "expired"
    /\ IF op[p] = "write"
       THEN Goto(p, "lookup") /\ op' = [op EXCEPT ![p] = "mark"]
       ELSE /\ Goto(p, IF op[p] \in {"commit", "rollback"} THEN "take"
                       ELSE IF op[p] = "mark" THEN "mark" ELSE "exec")
            /\ op' = op
    /\ UNCHANGED <<manager, handle, database, tok, who, tgt, res, todo>>

-----------------------------------------------------------------------------
(* Statements.                                                             *)

\* MarkDirty.
MarkDirty(p) ==
    LET t == tok[p] IN
    /\ pc[p] = "mark"
    /\ hmu[t] = None
    /\ IF hclosed[t]
       THEN Return(p, "notFound") /\ dirty' = dirty
       ELSE Goto(p, "exec") /\ res' = res /\ dirty' = [dirty EXCEPT ![t] = @ \cup {tgt[p]}]
    /\ UNCHANGED <<manager, owner, conn, hclosed, hmu, clock, database, op, tok, who, tgt, todo>>

\* transactionDB.QueryContext, ExecContext: h.mu is held until the statement
\* or its rows end.
StatementStart(p) ==
    LET t == tok[p] IN
    /\ pc[p] = "exec"
    /\ hmu[t] = None
    /\ IF hclosed[t]
       THEN Return(p, "notFound") /\ hmu' = hmu
       ELSE /\ Goto(p, "stmt") /\ res' = res
            /\ hmu' = [hmu EXCEPT ![t] = p]
    /\ UNCHANGED <<manager, owner, conn, hclosed, dirty, clock, database, op, tok, who, tgt, todo>>

\* What the statement of p writes, in a transaction the database has open.
Writes(p) == IF tgt[p] # None /\ db[tok[p]] = "active" THEN {tgt[p]} ELSE {}

StatementSucceeds(p) ==
    LET t == tok[p] IN
    /\ pc[p] = "stmt"
    /\ db[t] = "active"
    /\ written' = [written EXCEPT ![t] = @ \cup Writes(p)]
    /\ hmu' = [hmu EXCEPT ![t] = None]
    /\ Return(p, "ok")
    /\ UNCHANGED <<manager, owner, conn, hclosed, dirty, clock, db, op, tok, who, tgt, todo>>

\* Mutant of StatementFails: the error path keeps h.mu.
StatementFailsKeepsLock(p) ==
    /\ pc[p] = "stmt"
    /\ Goto(p, "fail")
    /\ UNCHANGED <<manager, handle, database, op, tok, who, tgt, res, todo>>

\* A failed statement may have written part of its rows; h.mu is released
\* before fail takes m.mu.
StatementFails(p) ==
    LET t == tok[p] IN
    /\ pc[p] = "stmt"
    /\ \/ written' = [written EXCEPT ![t] = @ \cup Writes(p)]
       \/ written' = written
    /\ hmu' = [hmu EXCEPT ![t] = None]
    /\ Goto(p, "fail")
    /\ UNCHANGED <<manager, owner, conn, hclosed, dirty, clock, db, op, tok, who, tgt, res, todo>>

\* transactionDB.fail: the failed statement ends its transaction, unless
\* another process does already.
FailEnds(p) ==
    /\ pc[p] = "fail"
    /\ EndHandle(p, "rolledBack", "saidRolledBack")
    /\ UNCHANGED <<tomb, buried, maxOpen, perConn, mclosed, known, handle, database,
                   op, tok, who, tgt, todo>>

-----------------------------------------------------------------------------
(* Ending: every process that took a handle ends it exactly once.          *)

\* Mutant of TakeFinish: the handle is not looked for again under m.mu.
TakeFinishUnchecked(p) ==
    /\ pc[p] = "take"
    /\ Take({tok[p]}) /\ Goto(p, "lock")
    /\ UNCHANGED <<tomb, buried, maxOpen, perConn, mclosed, known, handle, database,
                   op, tok, who, tgt, res, todo>>

\* finish takes the handle, or looks the token up again when another process
\* took it meanwhile.
TakeFinish(p) ==
    LET t == tok[p] IN
    /\ pc[p] = "take"
    /\ IF t \in handles
       THEN Take({t}) /\ Goto(p, "lock")
       ELSE UNCHANGED <<handles, ending, open, byConn>> /\ Goto(p, "lookup")
    /\ UNCHANGED <<tomb, buried, maxOpen, perConn, mclosed, known, handle, database,
                   op, tok, who, tgt, res, todo>>

\* h.mu is taken and the handle closed (transactionHandle.finish and abort).
\* A commit whose context ended while it waited is rolled back instead; the
\* branches for a handle closed already end it without the database.
CloseHandle(p) ==
    LET t == tok[p] IN
    /\ pc[p] = "lock"
    /\ hmu[t] = None
    /\ hclosed' = [hclosed EXCEPT ![t] = TRUE]
    /\ IF hclosed[t]
       THEN hmu' = hmu /\ Goto(p, "bury")
       ELSE /\ hmu' = [hmu EXCEPT ![t] = p]
            /\ \/ op[p] = "commit" /\ Goto(p, "commit")
               \/ Goto(p, "rollback")
    /\ res' = [res EXCEPT ![p] = IF op[p] \in {"commit", "rollback"} THEN "rolledBack" ELSE @]
    /\ UNCHANGED <<manager, owner, conn, dirty, clock, database, op, tok, who, tgt, todo>>

\* tx.Commit sends the COMMIT.
CommitSend(p) ==
    LET t == tok[p] IN
    /\ pc[p] = "commit"
    /\ db[t] = "active" /\ clock[t] = "fresh"
    /\ db' = [db EXCEPT ![t] = "committing"]
    /\ Goto(p, "sent")
    /\ UNCHANGED <<manager, handle, written, op, tok, who, tgt, res, todo>>

\* The transaction's lifetime, or the request's context, is over: the driver
\* sends no COMMIT, and the rollback that follows ends the transaction.  The
\* error may be a deadline's (uncertain) or not.
CommitCut(p) ==
    /\ pc[p] = "commit"
    /\ Goto(p, "rollback")
    /\ \E o \in {"unknown", "rolledBack"} : res' = [res EXCEPT ![p] = o]
    /\ UNCHANGED <<manager, handle, database, op, tok, who, tgt, todo>>

\* Mutant of CommitReturns: an uncertain error counts as a rollback.
CommitReturnsCertain(p) ==
    /\ pc[p] = "sent"
    /\ \/ db[tok[p]] = "committed" /\ res' = [res EXCEPT ![p] = "committed"]
       \/ res' = [res EXCEPT ![p] = "rolledBack"]
    /\ hmu' = [hmu EXCEPT ![tok[p]] = None]
    /\ Goto(p, "bury")
    /\ UNCHANGED <<manager, owner, conn, hclosed, dirty, clock, database, op, tok, who, tgt, todo>>

\* The COMMIT is answered, or its connection broke or its deadline passed
\* first.  An error that is not uncertain says it did not commit; after an
\* uncertain one it may have, or may yet.
CommitReturns(p) ==
    LET t == tok[p] IN
    /\ pc[p] = "sent"
    /\ \/ db[t] = "committed" /\ res' = [res EXCEPT ![p] = "committed"]
       \/ db[t] = "rolledBack" /\ res' = [res EXCEPT ![p] = "rolledBack"]
       \/ res' = [res EXCEPT ![p] = "unknown"]
    /\ hmu' = [hmu EXCEPT ![t] = None]
    /\ Goto(p, "bury")
    /\ UNCHANGED <<manager, owner, conn, hclosed, dirty, clock, database, op, tok, who, tgt, todo>>

\* tx.Rollback returns.
RollbackReturns(p) ==
    LET t == tok[p] IN
    /\ pc[p] = "rollback"
    /\ db' = [db EXCEPT ![t] = "rolledBack"]
    /\ hmu' = [hmu EXCEPT ![t] = None]
    /\ Goto(p, "bury")
    /\ UNCHANGED <<manager, owner, conn, hclosed, dirty, clock, written,
                   op, tok, who, tgt, res, todo>>

\* The function endingLocked returns: the outcome is recorded and the
\* lookups waiting on the token go on.
End(p) ==
    LET t == tok[p] IN
    /\ pc[p] = "bury"
    /\ ending' = ending \ {t}
    /\ Bury(t, res[p])
    /\ Goto(p, IF op[p] = "sweep" THEN "sweep" ELSE "done")
    /\ UNCHANGED <<handles, open, byConn, maxOpen, perConn, mclosed, known, handle, database,
                   op, tok, who, tgt, res, todo>>

-----------------------------------------------------------------------------
(* Ending without a caller.                                                *)

\* The expiry timer, or the idle check (checkIdle): no statement runs, and
\* none may have used the transaction for its idle timeout.
TimerFires(t) ==
    /\ t \in handles
    /\ clock[t] = "expired" \/ ~Running(t)
    /\ Enter(t, "timer", t, None, None, "lock")
    /\ res' = [res EXCEPT ![t] = "expired"]
    /\ Take({t})
    /\ UNCHANGED <<tomb, buried, maxOpen, perConn, mclosed, known, handle, database, todo>>

\* p takes all of S and rolls them back one after the other.
Sweep(p, S) ==
    /\ Enter(p, "sweep", None, None, None, "sweep")
    /\ res' = [res EXCEPT ![p] = "rolledBack"]
    /\ Take(S)
    /\ todo' = [todo EXCEPT ![p] = S]
    /\ UNCHANGED <<tomb, buried, maxOpen, perConn, known, handle, database>>

RollbackSession(p, s) ==
    /\ Sweep(p, {t \in handles : owner[t][1] = s})
    /\ mclosed' = mclosed

Close(p) ==
    /\ ~mclosed
    /\ mclosed' = TRUE
    /\ Sweep(p, handles)

SweepNext(p) ==
    /\ pc[p] = "sweep"
    /\ IF todo[p] = {}
       THEN /\ Goto(p, "done")
            /\ UNCHANGED <<tok, todo>>
       ELSE /\ Goto(p, "lock")
            /\ \E t \in todo[p] :
                 /\ tok' = [tok EXCEPT ![p] = t]
                 /\ todo' = [todo EXCEPT ![p] = @ \ {t}]
    /\ UNCHANGED <<manager, handle, database, op, who, tgt, res>>

-----------------------------------------------------------------------------
(* Configuration, time and the database.                                   *)

\* UpdateLimits and SetConnectionLimit.
UpdateLimits(n, k) ==
    /\ maxOpen' = n /\ perConn' = k
    /\ <<n, k>> # <<maxOpen, perConn>>
    /\ UNCHANGED <<handles, ending, tomb, buried, open, byConn, mclosed, known,
                   handle, database, process>>

ClockTick(t) ==
    /\ db[t] \notin {"none", "opening"}
    /\ \/ clock[t] = "fresh" /\ clock' = [clock EXCEPT ![t] = "lapsed"]
       \/ clock[t] = "lapsed" /\ clock' = [clock EXCEPT ![t] = "expired"]
    /\ UNCHANGED <<manager, owner, conn, hclosed, hmu, dirty, database, process>>

\* database/sql rolls a transaction back once its lifetime context is over.
LifetimeRollback(t) ==
    /\ db[t] = "active"
    /\ clock[t] # "fresh"
    /\ db' = [db EXCEPT ![t] = "rolledBack"]
    /\ UNCHANGED <<manager, handle, written, process>>

\* The database carries out a COMMIT it was sent, or does not.
DbDecides(t) ==
    /\ db[t] = "committing"
    /\ \E d \in {"committed", "rolledBack"} : db' = [db EXCEPT ![t] = d]
    /\ UNCHANGED <<manager, handle, written, process>>

-----------------------------------------------------------------------------
\* The steps a goroutine inside the manager takes on its own.
Step(p) ==
    \/ BeginTxFails(p) \/ BeginTxReturns(p) \/ Register(p) \/ Abandon(p)
    \/ Lookup(p) \/ Wait(p) \/ EndedError(p) \/ Misrouted(p)
    \/ LookupExpires(p) \/ LookupReturns(p)
    \/ MarkDirty(p) \/ StatementStart(p) \/ StatementSucceeds(p) \/ StatementFails(p) \/ FailEnds(p)
    \/ TakeFinish(p) \/ CloseHandle(p) \/ CommitSend(p) \/ CommitCut(p) \/ CommitReturns(p)
    \/ RollbackReturns(p) \/ End(p) \/ SweepNext(p) \/ Leave(p)

\* What a caller or the transport asks for.
Request(p) ==
    \/ \E c \in Caller, k \in Conn, t \in Token : BeginCheck(p, c, k, t)
    \/ \E o \in Ops, t \in Token, c \in Caller, x \in Target \cup {None} : Start(p, o, t, c, x)
    \/ WaitCanceled(p)
    \/ \E s \in Session : RollbackSession(p, s)
    \/ Close(p)

Environment ==
    \/ \E n \in Limit, k \in Limit : UpdateLimits(n, k)
    \/ \E t \in Token : ClockTick(t) \/ LifetimeRollback(t) \/ DbDecides(t)

Next ==
    \/ \E p \in Proc : Step(p)
    \/ \E p \in Call : Request(p)
    \/ \E t \in Token : TimerFires(t)
    \/ Environment

Spec == Init /\ [][Next]_vars

\* Goroutines run on and statements end (their context bounds them), time
\* passes, and the timers fire while the process lives.
Fairness ==
    /\ \A p \in Proc : WF_vars(Step(p))
    /\ \A t \in Token : WF_vars(ClockTick(t)) /\ WF_vars(TimerFires(t))

FairSpec == Spec /\ Fairness

-----------------------------------------------------------------------------
(* Properties.                                                             *)

ManagerTypes ==
    /\ handles \subseteq Token /\ ending \subseteq Token /\ known \subseteq Token
    /\ tomb \in [Token -> Outcome \cup {"none"}] /\ buried \in Seq(Token)
    /\ open \in [Scope -> Nat] /\ byConn \in [Conn -> Nat]
    /\ maxOpen \in Limit /\ perConn \in Limit /\ mclosed \in BOOLEAN
HandleTypes ==
    /\ owner \in [Token -> Caller \cup {None}] /\ conn \in [Token -> Conn \cup {None}]
    /\ hclosed \in [Token -> BOOLEAN] /\ hmu \in [Token -> Proc \cup {None}]
    /\ dirty \in [Token -> SUBSET Target] /\ clock \in [Token -> Phase]
DatabaseTypes == db \in [Token -> DbState] /\ written \in [Token -> SUBSET Target]
ProcessTypes ==
    /\ pc \in [Proc -> Label] /\ op \in [Proc -> Operation]
    /\ tok \in [Proc -> Token \cup {None}] /\ who \in [Proc -> Caller \cup {None}]
    /\ tgt \in [Proc -> Target \cup {None}] /\ res \in [Proc -> Answer]
    /\ todo \in [Proc -> SUBSET Token]

\* Every variable has its type; no counter of capacityLocked is negative.
TypeOK == ManagerTypes /\ HandleTypes /\ DatabaseTypes /\ ProcessTypes

\* The database holds the transaction's connection and locks, until its
\* client ends it.
HeldOpen(t) == db[t] \in {"opening", "active"}

\* Its client has no say any more: it ended, or its COMMIT is in flight.
Settled(t) == db[t] \in {"committing", "committed", "rolledBack"}

\* outcome o is what the database did with t: a recorded commit committed, a
\* recorded rollback or expiry rolled back, and an unknown commit was sent.
Truthful(t, o) ==
    /\ o = "committed" => db[t] = "committed"
    /\ o \in {"rolledBack", "expired"} => db[t] = "rolledBack"
    /\ o \in {"unknown", "notFound"} => Settled(t)

\* A tombstone tells how the database ended the transaction, whichever of the
\* commit, the rollback, the timers, the failed statement, the session's end
\* and Close ended it (transaction_ended.go).
TombstonesTellTheTruth == \A t \in Token : Truthful(t, tomb[t])

\* What a call that ended the transaction, waited for its end or found its
\* handle closed answers is so and stays so: "not found" means the
\* transaction ended (endLocked).
AnswersAreFinal == \A p \in Call : pc[p] = "done" /\ tok[p] # None => Truthful(tok[p], res[p])

\* No database transaction is left behind: one held open has a handle,
\* or a process that will end it (I10).
NoOrphans ==
    \A t \in Token : HeldOpen(t) =>
        \/ t \in handles \cup ending
        \/ \E p \in Call : tok[p] = t /\ pc[p] \in {"begin", "register", "abandon"}

\* Once Close was called and every goroutine returned, the database has no
\* transaction of the manager open, those begun while it closed included.
NothingOpenAfterClose ==
    mclosed /\ (\A p \in Proc : pc[p] = "idle") => \A t \in Token : ~HeldOpen(t)

\* The counters capacityLocked reads count the handles of their scope and of
\* their connection, however the handles were dropped.
CountersCountHandles ==
    /\ \A s \in Scope : open[s] = Cardinality(OfScope(handles, s))
    /\ \A k \in Conn : byConn[k] = Cardinality(OfConn(handles, k))

\* A handle is added only within the limits in force, which a begin that ran
\* meanwhile may have used up and a reload may have lowered (addHandle).
CapacityStep ==
    /\ \A s \in Scope : open'[s] > open[s] => maxOpen = 0 \/ open'[s] <= maxOpen
    /\ \A k \in Conn : byConn'[k] > byConn[k] => perConn = 0 \/ byConn'[k] <= perConn
CapacityRespected == [][CapacityStep]_vars

\* What a transaction wrote is among the targets its commit returns to be
\* invalidated, as a write is recorded before it runs (statement.admitted).
CommitReturnsWrites == \A t \in Token : written[t] \subseteq dirty[t]

\* Every transaction a caller was given ends, whatever its caller does: its
\* timers see to it (addHandle, watchIdleLocked).
TransactionsEnd == \A t \in Token : t \in handles ~> t \notin handles \cup ending

\* Every call returns: none waits forever for h.mu, for an ending transaction
\* or in the loop of finish.
CallsReturn == \A p \in Proc : pc[p] # "idle" ~> pc[p] = "idle"

\* A statement that fails in a transaction ends it: the transaction is rolled
\* back (transaction_end.go), so no commit makes its writes last.
FailedDidNotCommit ==
    \A p \in Call : res[p] = "saidRolledBack" => db[tok[p]] # "committed"

-----------------------------------------------------------------------------
(* The manager implements TransactionLife.                                 *)

BeingBegun(t) == \E p \in Call : tok[p] = t /\ pc[p] \in {"register", "abandon"}

StageOf(t) ==
    IF t \in handles THEN "open"
    ELSE IF t \in ending THEN "ending"
    ELSE IF BeingBegun(t) THEN "begun"
    ELSE IF db[t] \in {"none", "opening"} THEN "none"
    ELSE "over"

FateOf(t) ==
    IF db[t] \in {"committed", "rolledBack"} THEN db[t]
    ELSE IF db[t] = "committing" THEN "sent"
    ELSE "pending"

Life == INSTANCE TransactionLife WITH
            stage <- [t \in Token |-> StageOf(t)],
            fate <- [t \in Token |-> FateOf(t)]

\* Whichever goroutines race for it, a transaction lives as TransactionLife
\* says: one claim, a COMMIT only after it, and over only when the database
\* is done with it.
ImplementsLife == Life!LifeSpec

=============================================================================
