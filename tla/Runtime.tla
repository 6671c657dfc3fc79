------------------------------ MODULE Runtime -------------------------------
(***************************************************************************)
(* The serving configuration of a process (x/bootstrap): Runtime publishes *)
(* one App after another while requests run on them, retires the replaced  *)
(* ones once their requests finished, and closes.  The Apps share          *)
(* connections, counted by reference, and the process's sessions and       *)
(* transactions (Shared).  WatchStore polls the published revision.        *)
(*                                                                         *)
(* Every request, the watcher, the goroutine that retires an App and the   *)
(* one that closes the runtime take steps of their own; a step is what     *)
(* happens under one lock or at one atomic pointer.                        *)
(***************************************************************************)
EXTENDS Integers, FiniteSets

CONSTANTS
    Session,      \* MCP sessions, each served by one request at a time
    UserOf,       \* [Session -> User]: who opened a session
    Configs,      \* configurations: [conns |-> set of Conn, users |-> set of User]
    Conn, User,
    MaxRetiring,  \* bound of the model: the largest maxRetiring tried
    MaxRev,       \* bound of the model: revisions published
    MaxFail       \* bound of the model: builds that fail

ASSUME ConfigAssumption ==
    /\ Configs \subseteq [conns : SUBSET Conn, users : SUBSET User]
    /\ UserOf \in [Session -> User] /\ IsFiniteSet(Session)
ASSUME BoundAssumption == MaxRetiring \in Nat \ {0} /\ MaxRev \in Nat \ {0} /\ MaxFail \in Nat

Rev == 1..MaxRev

VARIABLES
    config,    \* the configuration of each revision, as published
    maxRetiring, \* the constant of the code: small values meet the backlog
    head,      \* the published revision
    app,       \* the App of each revision: its state, leases and retirement
    current,   \* Runtime.current: the revision whose App serves, 0 when closed
    pools,     \* Shared.pools: how many Apps hold each connection
    applied,   \* whose settings the shared services have (Shared.apply)
    listed,    \* whose App the OnPublish callbacks saw last
    held,      \* Runtime.held
    failures,  \* how many builds failed
    wpc, wrev, \* the watcher: where it is, and the revision it reloads
    wold,      \* ... and the App it replaces
    cpc, cold, \* CloseContext: where it is, and the App it closes
    rpc, rapp, \* the request of each session: where it is, and its snapshot
    sess, tx   \* the sessions, and which have a transaction open

watcher == <<wpc, wrev, wold>>
closer == <<cpc, cold>>
requests == <<rpc, rapp>>
environment == <<config, maxRetiring>>
sessions == <<sess, tx>>
shared == <<pools, applied>>
vars == <<environment, head, app, current, shared, listed, held, failures, watcher, closer, requests, sessions>>

-----------------------------------------------------------------------------
None == 0

\* An App: "built", then "serving"; "draining" once a goroutine retires it
\* (or CloseContext closes it), "settled" when its requests are over and the
\* sessions it revoked are rolled back, "closed".
AppRow == [state : {"none", "built", "serving", "draining", "settled", "closed"},
           refs : Nat, retired : BOOLEAN, revoked : SUBSET Session]
NoApp == [state |-> "none", refs |-> 0, retired |-> FALSE, revoked |-> {}]

WatcherLabel == {"idle", "build", "publish", "swap", "apply", "retire", "notify", "revoke", "hold"}
CloserLabel == {"open", "swapped", "barrier", "drain", "wait", "shared", "closed"}
SessionState == {"new", "opening", "bound", "dropped", "gone"}

Conns(a) == config[a].conns
Users(a) == config[a].users
Of(U) == {s \in Session : UserOf[s] \in U}

\* The Apps holding connections.
Holding == {a \in Rev : app[a].state \notin {"none", "closed"}}

\* draining: replaced snapshots not closed yet.
Draining == {a \in Rev : app[a].state \in {"draining", "settled"} /\ a # cold}

\* NewRuntimeWithBuilder: revision 1 serves.
Init ==
    /\ config \in [Rev -> Configs] /\ maxRetiring \in 1..MaxRetiring /\ head = 1
    /\ app = [a \in Rev |-> IF a = 1 THEN [NoApp EXCEPT !.state = "serving"] ELSE NoApp]
    /\ current = 1
    /\ pools = [k \in Conn |-> IF k \in Conns(1) THEN 1 ELSE 0]
    /\ applied = 1 /\ listed = 1
    /\ held = {} /\ failures = 0
    /\ wpc = "idle" /\ wrev = 1 /\ wold = None
    /\ cpc = "open" /\ cold = None
    /\ rpc = [s \in Session |-> "idle"] /\ rapp = [s \in Session |-> None]
    /\ sess = [s \in Session |-> "new"] /\ tx = [s \in Session |-> FALSE]

-----------------------------------------------------------------------------
(* Shared connections.                                                     *)

\* acquire: an App takes a reference on each of its connections.
Acquired(a) == [k \in Conn |-> pools[k] + (IF k \in Conns(a) THEN 1 ELSE 0)]

\* release: a connection no App holds is closed.
ReleasedAll(a) == [k \in Conn |-> pools[k] - 1]
Released(a) == [k \in Conn |-> pools[k] - (IF k \in Conns(a) THEN 1 ELSE 0)]

\* App.Close.
CloseApp(a) ==
    /\ app' = [app EXCEPT ![a].state = "closed"]
    /\ pools' = Released(a)
    /\ UNCHANGED applied

-----------------------------------------------------------------------------
(* The watcher.                                                            *)

\* A revision is published in the store (external to the runtime).
Publish ==
    /\ head < MaxRev
    /\ head' = head + 1
    /\ UNCHANGED <<environment, app, current, shared, listed, held, failures, watcher, closer, requests, sessions>>

\* A tick of WatchStore finds a revision it does not serve, and reloadWith
\* begins: a runtime that is closed is left alone, and one with too many
\* snapshots draining waits, the users that change held.
Poll ==
    /\ wpc = "idle" /\ head # wrev
    /\ current # None
    /\ wrev' = head
    /\ wpc' = IF Cardinality(Draining) >= maxRetiring THEN "hold" ELSE "build"
    /\ UNCHANGED <<environment, head, app, current, shared, listed, held, failures, wold, closer, requests, sessions>>

\* The App is assembled on the shared services, or not.
BuildApplies ==
    /\ wpc = "build"
    /\ \/ /\ app' = [app EXCEPT ![wrev].state = "built"]
          /\ pools' = Acquired(wrev)
          /\ wpc' = "publish" /\ UNCHANGED failures
       \/ /\ failures < MaxFail /\ failures' = failures + 1
          /\ wpc' = "hold" /\ UNCHANGED <<app, pools>>
    /\ applied' = wrev
    /\ UNCHANGED <<environment, head, current, listed, held, wrev, wold, closer, requests, sessions>>
Build ==
    /\ wpc = "build"
    /\ \/ /\ app' = [app EXCEPT ![wrev].state = "built"]
          /\ pools' = Acquired(wrev)
          /\ wpc' = "publish" /\ UNCHANGED failures
       \/ /\ failures < MaxFail /\ failures' = failures + 1
          /\ wpc' = "hold" /\ UNCHANGED <<app, pools>>
    /\ UNCHANGED <<environment, head, current, applied, listed, held, wrev, wold, closer, requests, sessions>>

\* reloadWith takes publish and reads the App to replace; none when closed.
ReadOld ==
    /\ wpc = "publish"
    /\ wold' = current
    /\ IF current = None
       THEN CloseApp(wrev) /\ wpc' = "idle"
       ELSE wpc' = "swap" /\ UNCHANGED <<app, shared>>
    /\ UNCHANGED <<environment, head, current, listed, held, failures, wrev, closer, requests, sessions>>

\* publishReload: the new App serves at once, unless the runtime was closed.
Swap ==
    /\ wpc = "swap"
    /\ IF current = wold
       THEN /\ current' = wrev /\ wpc' = "apply"
            /\ app' = [app EXCEPT ![wrev].state = "serving"]
            /\ UNCHANGED shared
       ELSE CloseApp(wrev) /\ wpc' = "idle" /\ UNCHANGED current
    /\ UNCHANGED <<environment, head, listed, held, failures, wrev, wold, closer, requests, sessions>>

\* publishShared.
Apply ==
    /\ wpc = "apply" /\ wpc' = "retire"
    /\ applied' = wrev
    /\ UNCHANGED <<environment, head, app, current, pools, listed, held, failures, wrev, wold, closer, requests, sessions>>

\* The replaced snapshot is leased no more.
MarkRetired ==
    /\ wpc = "retire" /\ wpc' = "notify"
    /\ app' = [app EXCEPT ![wold].retired = TRUE]
    /\ UNCHANGED <<environment, head, current, shared, listed, held, failures, wrev, wold, closer, requests, sessions>>

\* published: the callbacks of OnPublish.
Notify ==
    /\ wpc = "notify" /\ wpc' = "revoke"
    /\ listed' = wrev
    /\ UNCHANGED <<environment, head, app, current, shared, held, failures, wrev, wold, closer, requests, sessions>>

\* The sessions of U that revokeSessions drops: their binding goes at once,
\* and a goroutine closes them in the transport.
Bound(U) == {s \in Of(U) : sess[s] = "bound"}
Drop(S) == sess' = [s \in Session |-> IF s \in S THEN "dropped" ELSE sess[s]]

\* The users the new App no longer serves lose their sessions, the old App is
\* retired in the background, and the users held are released.
RevokeByUser ==
    LET U == Users(wold) \ Users(wrev) IN
    /\ wpc = "revoke" /\ wpc' = "idle"
    /\ Drop(Bound(U))
    /\ app' = [app EXCEPT ![wold].state = "draining", ![wold].revoked = Of(U)]
    /\ held' = {}
    /\ UNCHANGED <<environment, head, current, shared, listed, failures, wrev, wold, closer, requests, tx>>
Revoke ==
    LET U == Users(wold) \ Users(wrev) IN
    /\ wpc = "revoke" /\ wpc' = "idle"
    /\ Drop(Bound(U))
    /\ app' = [app EXCEPT ![wold].state = "draining", ![wold].revoked = Bound(U)]
    /\ held' = {}
    /\ UNCHANGED <<environment, head, current, shared, listed, failures, wrev, wold, closer, requests, tx>>

\* RollbackSession: without an App to lease, the transaction is left to
\* Shared.Close.
RolledBack(S) == [s \in Session |-> tx[s] /\ (s \notin S \/ current = None)]

\* A revision that did not apply holds the users it changes; the watcher goes
\* back to the revision it serves, to try again at a later tick.
HoldForgets ==
    LET U == Users(current) \ Users(wrev) IN
    /\ wpc = "hold" /\ wpc' = "idle"
    /\ wrev' = wrev
    /\ IF current = None THEN UNCHANGED <<held, sessions>>
       ELSE /\ held' = U
            /\ Drop(Bound(U \ held))
            /\ tx' = RolledBack(Bound(U \ held))
    /\ UNCHANGED <<environment, head, app, current, shared, listed, failures, wold, closer, requests>>
Hold ==
    LET U == Users(current) \ Users(wrev) IN
    /\ wpc = "hold" /\ wpc' = "idle"
    /\ wrev' = IF current = None THEN wrev ELSE current
    /\ IF current = None THEN UNCHANGED <<held, sessions>>
       ELSE /\ held' = U
            /\ Drop(Bound(U \ held))
            /\ tx' = RolledBack(Bound(U \ held))
    /\ UNCHANGED <<environment, head, app, current, shared, listed, failures, wold, closer, requests>>

-----------------------------------------------------------------------------
(* retire: the goroutine that closes a replaced App.                       *)

\* The requests that leased it finished; what they opened in the sessions it
\* revoked is rolled back.
SettleAtOnce(a) ==
    /\ app[a].state = "draining" /\ a # cold
    /\ app' = [app EXCEPT ![a].state = "settled"]
    /\ tx' = RolledBack(app[a].revoked)
    /\ UNCHANGED <<environment, head, current, shared, listed, held, failures, watcher, closer, requests, sess>>
Settle(a) ==
    /\ app[a].state = "draining" /\ a # cold
    /\ app[a].refs = 0
    /\ app' = [app EXCEPT ![a].state = "settled"]
    /\ tx' = RolledBack(app[a].revoked)
    /\ UNCHANGED <<environment, head, current, shared, listed, held, failures, watcher, closer, requests, sess>>

CloseRetired(a) ==
    /\ app[a].state = "settled" /\ a # cold
    /\ CloseApp(a)
    /\ UNCHANGED <<environment, head, current, listed, held, failures, watcher, closer, requests, sessions>>

-----------------------------------------------------------------------------
(* CloseContext.                                                           *)

CloseSwap ==
    /\ cpc = "open" /\ cpc' = "swapped"
    /\ cold' = current /\ current' = None
    /\ UNCHANGED <<environment, head, app, shared, listed, held, failures, watcher, requests, sessions>>

CloseRetire ==
    /\ cpc = "swapped" /\ cpc' = "barrier"
    /\ app' = [app EXCEPT ![cold].retired = TRUE]
    /\ UNCHANGED <<environment, head, current, shared, listed, held, failures, watcher, cold, requests, sessions>>

\* A reload past its build is let finish.
Publishing == wpc \in {"swap", "apply", "retire", "notify", "revoke"}
NoBarrier ==
    /\ cpc = "barrier" /\ cpc' = "drain"
    /\ UNCHANGED <<environment, head, app, current, shared, listed, held, failures, watcher, cold, requests, sessions>>
Barrier ==
    /\ cpc = "barrier" /\ ~Publishing /\ cpc' = "drain"
    /\ UNCHANGED <<environment, head, app, current, shared, listed, held, failures, watcher, cold, requests, sessions>>

CloseCurrent ==
    /\ cpc = "drain" /\ app[cold].refs = 0
    /\ cpc' = "wait"
    /\ CloseApp(cold)
    /\ UNCHANGED <<environment, head, current, listed, held, failures, watcher, cold, requests, sessions>>

\* The replaced Apps are closed; then the process's transactions end.
AwaitRetired ==
    /\ cpc = "wait" /\ Draining = {} /\ cpc' = "shared"
    /\ UNCHANGED <<environment, head, app, current, shared, listed, held, failures, watcher, cold, requests, sessions>>
CloseShared ==
    /\ cpc = "shared" /\ cpc' = "closed"
    /\ tx' = [s \in Session |-> FALSE]
    /\ UNCHANGED <<environment, head, app, current, shared, listed, held, failures, watcher, cold, requests, sess>>

-----------------------------------------------------------------------------
(* Requests and sessions (x/mcpserver).                                    *)

\* UserByTokenHash: a user of the current App that is not held.
Servable(s) == current # None /\ UserOf[s] \in Users(current) \ held

\* An initialize request, and the binding of the session it opens.
OpenSession(s) ==
    /\ sess[s] = "new" /\ Servable(s)
    /\ sess' = [sess EXCEPT ![s] = "opening"]
    /\ UNCHANGED <<environment, head, app, current, shared, listed, held, failures, watcher, closer, requests, tx>>
Bind(s) ==
    /\ sess[s] = "opening"
    /\ sess' = [sess EXCEPT ![s] = "bound"]
    /\ UNCHANGED <<environment, head, app, current, shared, listed, held, failures, watcher, closer, requests, tx>>

\* A request on the session passes authentication and finds its binding.
Authenticate(s) ==
    /\ rpc[s] = "idle" /\ sess[s] = "bound" /\ Servable(s)
    /\ rpc' = [rpc EXCEPT ![s] = "acquire"]
    /\ UNCHANGED <<environment, head, app, current, shared, listed, held, failures, watcher, closer, rapp, sessions>>

\* Acquire reads the current snapshot ...
LoadSnapshot(s) ==
    /\ rpc[s] = "acquire"
    /\ rapp' = [rapp EXCEPT ![s] = current]
    /\ rpc' = [rpc EXCEPT ![s] = IF current = None THEN "idle" ELSE "lease"]
    /\ UNCHANGED <<environment, head, app, current, shared, listed, held, failures, watcher, closer, sessions>>

\* ... and leases it, or reads again when it was retired meanwhile.
LeaseRetired(s) ==
    /\ rpc[s] = "lease"
    /\ rpc' = [rpc EXCEPT ![s] = "run"]
    /\ app' = [app EXCEPT ![rapp[s]].refs = @ + 1]
    /\ UNCHANGED <<environment, head, current, shared, listed, held, failures, watcher, closer, rapp, sessions>>
Lease(s) ==
    /\ rpc[s] = "lease"
    /\ IF app[rapp[s]].retired
       THEN rpc' = [rpc EXCEPT ![s] = "acquire"] /\ UNCHANGED app
       ELSE /\ rpc' = [rpc EXCEPT ![s] = "run"]
            /\ app' = [app EXCEPT ![rapp[s]].refs = @ + 1]
    /\ UNCHANGED <<environment, head, current, shared, listed, held, failures, watcher, closer, rapp, sessions>>

\* A call begins a transaction, or ends one; a user the App does not know has
\* no role in it.
Begin(s) ==
    /\ rpc[s] = "run" /\ ~tx[s] /\ UserOf[s] \in Users(rapp[s])
    /\ tx' = [tx EXCEPT ![s] = TRUE]
    /\ UNCHANGED <<environment, head, app, current, shared, listed, held, failures, watcher, closer, requests, sess>>
Commit(s) ==
    /\ rpc[s] = "run" /\ tx[s] /\ UserOf[s] \in Users(rapp[s])
    /\ tx' = [tx EXCEPT ![s] = FALSE]
    /\ UNCHANGED <<environment, head, app, current, shared, listed, held, failures, watcher, closer, requests, sess>>

Release(s) ==
    /\ rpc[s] = "run"
    /\ rpc' = [rpc EXCEPT ![s] = "idle"] /\ rapp' = [rapp EXCEPT ![s] = None]
    /\ app' = [app EXCEPT ![rapp[s]].refs = @ - 1]
    /\ UNCHANGED <<environment, head, current, shared, listed, held, failures, watcher, closer, sessions>>

\* The transport closes a session, its client's or one that was dropped, when
\* its requests are over, and the session reports itself closed.
CloseSession(s) ==
    /\ sess[s] \in {"bound", "dropped"} /\ rpc[s] = "idle"
    /\ sess' = [sess EXCEPT ![s] = "gone"]
    /\ tx' = RolledBack({s})
    /\ UNCHANGED <<environment, head, app, current, shared, listed, held, failures, watcher, closer, requests>>

-----------------------------------------------------------------------------
Watch == Poll \/ Build \/ ReadOld \/ Swap \/ Apply \/ MarkRetired \/ Notify \/ Revoke \/ Hold
Retire(a) == Settle(a) \/ CloseRetired(a)
Closing == CloseRetire \/ Barrier \/ CloseCurrent \/ AwaitRetired \/ CloseShared
Request(s) == LoadSnapshot(s) \/ Lease(s) \/ Release(s)
Calls(s) == OpenSession(s) \/ Bind(s) \/ Authenticate(s) \/ Begin(s) \/ Commit(s) \/ CloseSession(s)

Next ==
    \/ Publish \/ Watch \/ CloseSwap \/ Closing
    \/ \E a \in Rev : Retire(a)
    \/ \E s \in Session : Request(s) \/ Calls(s)

Spec == Init /\ [][Next]_vars

\* The watcher ticks, goroutines go on, requests end, and a session that was
\* dropped is closed.
Fairness ==
    /\ WF_vars(Watch) /\ WF_vars(Closing)
    /\ \A a \in Rev : WF_vars(Retire(a))
    /\ \A s \in Session : WF_vars(LoadSnapshot(s) \/ Lease(s)) /\ WF_vars(Release(s))
    /\ \A s \in Session : WF_vars(sess[s] = "dropped" /\ CloseSession(s))
FairSpec == Spec /\ Fairness

-----------------------------------------------------------------------------
(* Properties.                                                             *)

\* A request runs on an App that is not closed, and the App's connections are
\* open, whatever is reloaded, retired or closed meanwhile (Runtime.Acquire:
\* "so the App cannot close during the call").
LeasedAppsServe ==
    \A s \in Session : rpc[s] = "run" =>
        /\ app[rapp[s]].state # "closed"
        /\ \A k \in Conns(rapp[s]) : pools[k] > 0

\* A shared connection counts the Apps that hold it (Shared.acquire, release):
\* it is not closed under one of them, nor left open after the last.
ConnectionsCounted ==
    \A k \in Conn : pools[k] = Cardinality({a \in Holding : k \in Conns(a)})

\* Once CloseContext is done no App holds a connection and no transaction is
\* open; a reload that was being built then closes what it built.
ClosedMeansReleased ==
    cpc = "closed" =>
        /\ \A a \in Holding : a = wrev /\ wpc = "publish"
        /\ \A k \in Conn : pools[k] > 0 => \E a \in Holding : k \in Conns(a)
        /\ \A s \in Session : ~tx[s]

\* Between reloads the shared services and the transports follow the App that
\* serves, and nobody is held under the revision they are served.
SettingsFollowCurrent ==
    wpc = "idle" /\ current # None =>
        /\ applied = current /\ listed = current
        /\ current = head => held = {}

\* A reload never ends a transaction of a session that stays bound: of a user
\* enabled again, for example, who opened it meanwhile.
TransactionStep(s) ==
    tx[s] /\ ~tx'[s] => \/ rpc[s] = "run" /\ UNCHANGED sess
                        \/ sess'[s] \in {"dropped", "gone"}
                        \/ cpc = "shared"
SessionsOutliveReloads == [][\A s \in Session : TransactionStep(s)]_vars

\* The published revision is served in the end, nobody held, or the runtime is
\* closed; and a session that was dropped does not keep its transaction.
RevisionsApply ==
    /\ <>[](current = None \/ (current = head /\ held = {}))
    /\ \A s \in Session : sess[s] = "dropped" /\ tx[s] ~> ~tx[s]
=============================================================================
