--------------------------- MODULE RuntimeProofs ----------------------------
(***************************************************************************)
(* Theorems about the serving configuration, for any sessions, users,      *)
(* connections, configurations and number of reloads: a request runs on an *)
(* App that is open, with its connections; settings follow the serving     *)
(* configuration; a reload leaves the transactions of sessions alone; and  *)
(* closing releases everything.                                            *)
(***************************************************************************)
EXTENDS Runtime, FiniteSetTheorems, TLAPS

USE ZenonT(20), SMTT(10), Z3T(10)

\* The requests that run on the App of a.
Leases(a) == {s \in Session : rpc[s] = "run" /\ rapp[s] = a}

Types ==
    /\ config \in [Rev -> Configs] /\ head \in Rev /\ app \in [Rev -> AppRow]
    /\ current \in Rev \cup {None} /\ pools \in [Conn -> Int]
    /\ wpc \in WatcherLabel /\ wrev \in Rev /\ wold \in Rev \cup {None}
    /\ cpc \in CloserLabel /\ cold \in Rev \cup {None}
    /\ rpc \in [Session -> {"idle", "acquire", "lease", "run"}] /\ rapp \in [Session -> Rev \cup {None}]

\* The watcher's revision is the one that serves, or one past it whose App is
\* not there yet; the App it replaces serves until the watcher is done with it.
Replacing == {"apply", "retire", "notify", "revoke"}
WatcherOK ==
    /\ wrev <= head /\ (current # None => current <= wrev)
    /\ wpc = "idle" /\ current # None => wrev = current
    /\ wpc \in {"build", "hold", "publish", "swap"} /\ current # None => wrev > current
    /\ wpc = "build" => app[wrev].state = "none"
    /\ wpc \in {"publish", "swap"} => app[wrev].state = "built"
    /\ wpc = "swap" => wold \in Rev /\ current \in {wold, None}
    /\ wpc \in Replacing => /\ wold \in Rev /\ app[wold].state = "serving" /\ wold \notin {wrev, current, cold}
                            /\ current \in {wrev, None}
    /\ wpc \in {"notify", "revoke"} => app[wold].retired
    /\ current # None => \A a \in Rev : a > current =>
          app[a].state = "none" \/ (a = wrev /\ wpc \in {"publish", "swap"})

\* What serves is open, and so is what CloseContext took over.
CloserOK ==
    /\ current # None => app[current].state = "serving"
    /\ cpc = "open" => current # None /\ cold = None
    /\ cpc # "open" => current = None /\ cold \in Rev
    /\ cpc \in {"swapped", "barrier", "drain"} => app[cold].state = "serving"
    /\ cpc \notin {"open", "swapped"} => app[cold].retired

\* An App is leased only once it served, and not after it was retired; it is
\* closed when nobody leases it any more.
AppsOK ==
    /\ \A a \in Rev :
         /\ app[a].state \in {"draining", "settled"} => app[a].retired
         /\ app[a].refs = Cardinality(Leases(a))
         /\ app[a].state \in {"none", "built", "settled", "closed"} => app[a].refs = 0
    /\ \A s \in Session : rpc[s] \in {"lease", "run"} =>
         /\ rapp[s] \in Rev
         /\ app[rapp[s]].state \in {"none", "built"} => FALSE
         /\ app[rapp[s]].state = "closed" => app[rapp[s]].retired

IInv == Types /\ WatcherOK /\ CloserOK /\ AppsOK /\ ConnectionsCounted

-----------------------------------------------------------------------------
(* Counting.                                                               *)

\* Sessions and revisions are finitely many.
LEMMA Finite ==
    /\ \A a : IsFiniteSet(Leases(a)) /\ Cardinality(Leases(a)) \in Nat
    /\ \A k : IsFiniteSet({a \in Holding : k \in Conns(a)}) /\ Cardinality({a \in Holding : k \in Conns(a)}) \in Nat
<1>1. \A a : Leases(a) \subseteq Session BY DEF Leases
<1>2. IsFiniteSet(Session) BY ConfigAssumption
<1>3. IsFiniteSet(Rev) BY BoundAssumption, FS_Interval DEF Rev
<1>4. \A k : {a \in Holding : k \in Conns(a)} \subseteq Rev BY DEF Holding
<1>5. \A a : IsFiniteSet(Leases(a)) /\ Cardinality(Leases(a)) \in Nat
  BY <1>1, <1>2, FS_Subset, FS_CardinalityType
<1>6. \A k : IsFiniteSet({a \in Holding : k \in Conns(a)}) /\ Cardinality({a \in Holding : k \in Conns(a)}) \in Nat
  BY <1>3, <1>4, FS_Subset, FS_CardinalityType
<1> QED BY <1>5, <1>6

\* An App that is built takes its connections: the counts stay exact.
LEMMA CountsAcquire ==
    ASSUME Types, ConnectionsCounted, NEW x \in Rev, x \notin Holding,
           Holding' = Holding \cup {x}, config' = config, pools' = Acquired(x)
    PROVE ConnectionsCounted' /\ pools' \in [Conn -> Int]
<1> SUFFICES ASSUME NEW k \in Conn
             PROVE pools'[k] = Cardinality({a \in Holding' : k \in Conns(a)'}) /\ pools'[k] \in Int
  BY DEF ConnectionsCounted, Acquired
<1> DEFINE old == {a \in Holding : k \in Conns(a)}
           new == {a \in Holding' : k \in Conns(a)'}
<1>1. IsFiniteSet(old) /\ Cardinality(old) \in Nat /\ pools[k] = Cardinality(old)
  BY Finite DEF ConnectionsCounted
<1>2. CASE k \in Conns(x)
  <2>1. new = old \cup {x} /\ x \notin old BY <1>2 DEF Conns
  <2>2. Cardinality(new) = Cardinality(old) + 1 BY <1>1, <2>1, FS_AddElement
  <2>3. pools'[k] = pools[k] + 1 BY <1>2 DEF Acquired
  <2> QED BY <1>1, <2>2, <2>3
<1>3. CASE k \notin Conns(x)
  <2>1. new = old BY <1>3 DEF Conns
  <2>2. pools[k] \in Int BY DEF Types
  <2>3. pools'[k] = pools[k] + 0 BY <1>3 DEF Acquired
  <2>4. pools'[k] = pools[k] BY <2>2, <2>3, SMT
  <2>5. Cardinality(new) = Cardinality(old) BY <2>1
  <2> QED BY <1>1, <2>4, <2>5
<1> QED BY <1>2, <1>3

\* An App that is closed gives them back: the counts stay exact.
LEMMA CountsRelease ==
    ASSUME Types, ConnectionsCounted, NEW x \in Rev, x \in Holding,
           Holding' = Holding \ {x}, config' = config, pools' = Released(x)
    PROVE ConnectionsCounted' /\ pools' \in [Conn -> Int]
<1> SUFFICES ASSUME NEW k \in Conn
             PROVE pools'[k] = Cardinality({a \in Holding' : k \in Conns(a)'}) /\ pools'[k] \in Int
  BY DEF ConnectionsCounted, Released
<1> DEFINE old == {a \in Holding : k \in Conns(a)}
           new == {a \in Holding' : k \in Conns(a)'}
<1>1. IsFiniteSet(old) /\ Cardinality(old) \in Nat /\ pools[k] = Cardinality(old)
  BY Finite DEF ConnectionsCounted
<1>2. CASE k \in Conns(x)
  <2>1. new = old \ {x} /\ x \in old BY <1>2 DEF Conns
  <2>2. Cardinality(new) = Cardinality(old) - 1 BY <1>1, <2>1, FS_RemoveElement
  <2>3. pools'[k] = pools[k] - 1 BY <1>2 DEF Released
  <2> QED BY <1>1, <2>2, <2>3
<1>3. CASE k \notin Conns(x)
  <2>1. new = old BY <1>3 DEF Conns
  <2>2. pools[k] \in Int BY DEF Types
  <2>3. pools'[k] = pools[k] - 0 BY <1>3 DEF Released
  <2>4. pools'[k] = pools[k] BY <2>2, <2>3, SMT
  <2>5. Cardinality(new) = Cardinality(old) BY <2>1
  <2> QED BY <1>1, <2>4, <2>5
<1> QED BY <1>2, <1>3

\* Without either, they stay as they are.
LEMMA CountsKept ==
    ASSUME ConnectionsCounted, Holding' = Holding, config' = config, pools' = pools
    PROVE ConnectionsCounted'
BY DEF ConnectionsCounted, Conns

\* What may happen to the App of a without a change of its leases.
RowMoves(a) ==
    /\ app'[a].refs = app[a].refs
    /\ app[a].retired => app'[a].retired
    /\ app'[a].state \in {"draining", "settled"} => app'[a].retired
    /\ app'[a].state \in {"none", "built", "settled", "closed"} => app[a].refs = 0
    /\ app'[a].state \in {"none", "built"} => app[a].state \in {"none", "built"}
    /\ app'[a].state = "closed" => app[a].state \in {"none", "built", "closed"} \/ app'[a].retired

\* Leases stay counted then.
LEMMA AppsKept ==
    ASSUME Types, AppsOK, rpc' = rpc, rapp' = rapp, \A a \in Rev : RowMoves(a)
    PROVE AppsOK'
<1> USE DEF RowMoves
<1>1. \A a \in Rev : Leases(a)' = Leases(a) BY DEF Leases
<1>2. \A a \in Rev : app'[a].refs = Cardinality(Leases(a))' BY <1>1 DEF AppsOK
<1>3. \A a \in Rev : /\ app'[a].state \in {"draining", "settled"} => app'[a].retired
                     /\ app'[a].state \in {"none", "built", "settled", "closed"} => app'[a].refs = 0
  OBVIOUS
<1>4. ASSUME NEW s \in Session, rpc'[s] \in {"lease", "run"}
      PROVE /\ rapp'[s] \in Rev
            /\ app'[rapp'[s]].state \in {"none", "built"} => FALSE
            /\ app'[rapp'[s]].state = "closed" => app'[rapp'[s]].retired
  BY <1>4 DEF AppsOK
<1> QED BY <1>2, <1>3, <1>4 DEF AppsOK

\* Nothing of an App changes.
LEMMA RowsKept ==
    ASSUME AppsOK, ConnectionsCounted, UNCHANGED <<config, app, pools, rpc, rapp>>
    PROVE AppsOK' /\ ConnectionsCounted'
<1>1. \A a : Leases(a)' = Leases(a) BY DEF Leases
<1>2. AppsOK' BY <1>1 DEF AppsOK
<1>3. ConnectionsCounted' BY CountsKept DEF Holding
<1> QED BY <1>2, <1>3

-----------------------------------------------------------------------------
(* The steps of the watcher.                                               *)

\* The other variables are no part of the invariant.
core == <<config, head, app, current, pools, wpc, wrev, wold, cpc, cold, rpc, rapp>>
\* A step that leaves the variables of the invariant alone keeps it.
LEMMA CoreKept == ASSUME IInv, UNCHANGED core PROVE IInv'
<1> USE DEF core
<1>1. Types' BY DEF IInv, Types
<1>2. WatcherOK' BY DEF IInv, WatcherOK
<1>3. CloserOK' BY DEF IInv, CloserOK
<1>4. AppsOK' /\ ConnectionsCounted' BY RowsKept DEF IInv
<1> QED BY <1>1, <1>2, <1>3, <1>4 DEF IInv

\* Publish, Poll, Hold and Notify, and a build that fails.
LEMMA PublishKeeps == ASSUME IInv, Publish PROVE IInv'
<1> USE DEF Publish, environment, shared, watcher, closer, requests
<1>1. Types' BY SMTT(20), Z3T(20), BoundAssumption DEF IInv, Types, Rev
<1>2. WatcherOK' BY SMTT(20), Z3T(20) DEF IInv, WatcherOK, Types, Rev
<1>3. CloserOK' BY DEF IInv, CloserOK
<1>4. AppsOK' /\ ConnectionsCounted' BY RowsKept DEF IInv
<1> QED BY <1>1, <1>2, <1>3, <1>4 DEF IInv

\* A poll of the watcher, which takes up a revision or finds nothing new.
LEMMA PollKeeps == ASSUME IInv, Poll PROVE IInv'
<1> USE DEF Poll, environment, shared, watcher, closer, requests
<1>1. Types' BY DEF IInv, Types, WatcherLabel
<1>2. WatcherOK'
  <2>1. wrev = current /\ wrev' = head /\ current' = current /\ app' = app /\ wpc' \in {"hold", "build"}
    BY DEF IInv, WatcherOK
  <2>2. current \in Rev /\ head \in Rev /\ wrev <= head /\ head # current
    BY <2>1 DEF IInv, WatcherOK, Types
  <2>3. current < head BY <2>1, <2>2 DEF Rev
  <2>4. \A a \in Rev : a > current => app[a].state = "none" BY <2>1 DEF IInv, WatcherOK
  <2>5. wrev' <= head' BY <2>2 DEF Rev
  <2>6. current' <= wrev' BY <2>1, <2>3, <2>2 DEF Rev
  <2> QED BY <2>1, <2>2, <2>3, <2>4, <2>5, <2>6 DEF WatcherOK, Replacing
<1>3. CloserOK' BY DEF IInv, CloserOK
<1>4. AppsOK' /\ ConnectionsCounted' BY RowsKept DEF IInv
<1> QED BY <1>1, <1>2, <1>3, <1>4 DEF IInv

\* The watcher holds the users the revision that failed would have changed.
LEMMA HoldKeeps == ASSUME IInv, Hold PROVE IInv'
<1> USE DEF Hold, environment, shared, watcher, closer, requests
<1>1. Types' BY DEF IInv, Types, WatcherLabel
<1>2. WatcherOK'
  <2>1. wpc = "hold" /\ wpc' = "idle" /\ current' = current /\ app' = app /\ head' = head
        /\ wrev' = IF current = None THEN wrev ELSE current
    OBVIOUS
  <2>2. wrev' <= head' /\ (current # None => current <= wrev')
    BY SMTT(20), Z3T(20), <2>1 DEF IInv, WatcherOK, Types, Rev
  <2> QED BY <2>1, <2>2 DEF IInv, WatcherOK, Replacing
<1>3. CloserOK' BY DEF IInv, CloserOK
<1>4. AppsOK' /\ ConnectionsCounted' BY RowsKept DEF IInv
<1> QED BY <1>1, <1>2, <1>3, <1>4 DEF IInv

\* The settings are applied and the transports notified: no App changes.
LEMMA PlainKeeps == ASSUME IInv, Apply \/ Notify PROVE IInv'
<1> USE DEF Apply, Notify, environment, shared, watcher, closer, requests
<1>1. Types' BY DEF IInv, Types, WatcherLabel
<1>2. WatcherOK' BY DEF IInv, WatcherOK, Replacing
<1>3. CloserOK' BY DEF IInv, CloserOK
<1>4. AppsOK' /\ ConnectionsCounted' BY RowsKept DEF IInv
<1> QED BY <1>1, <1>2, <1>3, <1>4 DEF IInv

\* What a change of one App's state, or its retirement, leaves alone.
LEMMA StateRow ==
    ASSUME Types, NEW x \in Rev, NEW st \in {"none", "built", "serving", "draining", "settled", "closed"},
           app' = [app EXCEPT ![x].state = st]
    PROVE /\ app' \in [Rev -> AppRow]
          /\ app'[x].state = st /\ app'[x].refs = app[x].refs /\ app'[x].retired = app[x].retired
          /\ \A a \in Rev \ {x} : app'[a] = app[a]
          /\ \A a \in Rev : app'[a].refs = app[a].refs /\ app'[a].retired = app[a].retired
<1>1. app[x] \in AppRow /\ DOMAIN app = Rev BY DEF Types
<1>2. app'[x] = [app[x] EXCEPT !.state = st] /\ \A a \in Rev \ {x} : app'[a] = app[a] BY <1>1
<1>3. app'[x] \in AppRow /\ app'[x].state = st /\ app'[x].refs = app[x].refs /\ app'[x].retired = app[x].retired
  BY <1>1, <1>2 DEF AppRow
<1> QED BY <1>1, <1>2, <1>3 DEF Types
\* Marking an App as retired changes no state and no lease.
LEMMA RetiredRow ==
    ASSUME Types, NEW x \in Rev, app' = [app EXCEPT ![x].retired = TRUE]
    PROVE /\ app' \in [Rev -> AppRow] /\ app'[x].retired
          /\ \A a \in Rev : /\ app'[a].state = app[a].state /\ app'[a].refs = app[a].refs
                            /\ app[a].retired => app'[a].retired
<1>1. app[x] \in AppRow /\ DOMAIN app = Rev BY DEF Types
<1>2. app'[x] = [app[x] EXCEPT !.retired = TRUE] /\ \A a \in Rev \ {x} : app'[a] = app[a] BY <1>1
<1>3. app'[x] \in AppRow /\ app'[x].state = app[x].state /\ app'[x].refs = app[x].refs /\ app'[x].retired = TRUE
  BY <1>1, <1>2 DEF AppRow
<1> QED BY <1>1, <1>2, <1>3 DEF Types

\* A build, done or failed.
LEMMA BuildKeeps == ASSUME IInv, Build PROVE IInv'
<1> USE DEF environment, shared, watcher, closer, requests
<1>1. CASE UNCHANGED <<app, pools>> /\ wpc' = "hold"
  <2> USE <1>1 DEF Build
  <2>1. Types' BY DEF IInv, Types, WatcherLabel
  <2>2. WatcherOK' BY DEF IInv, WatcherOK, Replacing
  <2>3. CloserOK' BY DEF IInv, CloserOK
  <2>4. AppsOK' /\ ConnectionsCounted' BY RowsKept DEF IInv
  <2> QED BY <2>1, <2>2, <2>3, <2>4 DEF IInv
<1>2. CASE app' = [app EXCEPT ![wrev].state = "built"] /\ pools' = Acquired(wrev) /\ wpc' = "publish"
  <2>1. /\ wpc = "build" /\ wrev \in Rev /\ app[wrev].state = "none"
        /\ UNCHANGED <<config, head, current, wrev, wold, cpc, cold, rpc, rapp>>
    BY DEF IInv, WatcherOK, Types, Build
  <2>2. /\ app' \in [Rev -> AppRow] /\ app'[wrev].state = "built"
        /\ \A a \in Rev \ {wrev} : app'[a] = app[a]
        /\ \A a \in Rev : app'[a].refs = app[a].refs /\ app'[a].retired = app[a].retired
    BY <1>2, <2>1, StateRow DEF IInv
  <2>3. Holding' = Holding \cup {wrev} /\ wrev \notin Holding BY <2>1, <2>2 DEF Holding
  <2>4. ConnectionsCounted' /\ pools' \in [Conn -> Int] BY <1>2, <2>1, <2>3, CountsAcquire DEF IInv
  <2>5. Types' BY <1>2, <2>1, <2>2, <2>4 DEF IInv, Types, WatcherLabel
  <2>6. WatcherOK' BY <1>2, <2>1, <2>2 DEF IInv, WatcherOK, Replacing
  <2>7. CloserOK'
    <3>1. current # None => current # wrev BY <2>1 DEF IInv, CloserOK
    <3>2. cpc \in {"swapped", "barrier", "drain"} => cold # wrev BY <2>1 DEF IInv, CloserOK
    <3> QED BY <2>1, <2>2, <3>1, <3>2 DEF IInv, CloserOK, Types
  <2>8. AppsOK'
    <3>1. \A a \in Rev : RowMoves(a) BY <2>1, <2>2 DEF IInv, AppsOK, RowMoves
    <3> QED BY <2>1, <2>2, <3>1, AppsKept DEF IInv
  <2> QED BY <2>4, <2>5, <2>6, <2>7, <2>8 DEF IInv
<1> QED BY <1>1, <1>2 DEF Build

\* An App that was built and is not published is closed.
LEMMA GiveUpKeeps ==
    ASSUME IInv, wpc \in {"publish", "swap"}, wpc' = "idle", CloseApp(wrev), current = None,
           wold' \in Rev \cup {None}, UNCHANGED <<config, head, current, wrev, cpc, cold, rpc, rapp>>
    PROVE IInv'
<1>1. wrev \in Rev /\ app[wrev].state = "built" BY DEF IInv, WatcherOK, Types
<1>2. /\ app' \in [Rev -> AppRow] /\ app'[wrev].state = "closed"
      /\ \A a \in Rev \ {wrev} : app'[a] = app[a]
      /\ \A a \in Rev : app'[a].refs = app[a].refs /\ app'[a].retired = app[a].retired
  BY <1>1, StateRow DEF IInv, CloseApp
<1>3. Holding' = Holding \ {wrev} /\ wrev \in Holding BY <1>1, <1>2 DEF Holding
<1>4. ConnectionsCounted' /\ pools' \in [Conn -> Int] BY <1>1, <1>3, CountsRelease DEF IInv, CloseApp
<1>5. Types' BY <1>2, <1>4 DEF IInv, Types, WatcherLabel
<1>6. WatcherOK' BY DEF IInv, WatcherOK, Replacing
<1>7. CloserOK'
  <2>1. cpc \in {"swapped", "barrier", "drain"} => cold # wrev BY <1>1 DEF IInv, CloserOK
  <2> QED BY <1>2, <2>1 DEF IInv, CloserOK, Types
<1>8. AppsOK'
  <2>1. \A a \in Rev : RowMoves(a) BY <1>1, <1>2 DEF IInv, AppsOK, RowMoves
  <2> QED BY <1>1, <1>2, <2>1, AppsKept DEF IInv
<1> QED BY <1>4, <1>5, <1>6, <1>7, <1>8 DEF IInv

\* A reload reads the App it is to replace, or gives up what it built.
LEMMA ReadOldKeeps == ASSUME IInv, ReadOld PROVE IInv'
<1> USE DEF environment, shared, watcher, closer, requests
<1>1. CASE current = None
  BY <1>1, GiveUpKeeps DEF ReadOld
<1>2. CASE current # None
  <2> USE <1>2 DEF ReadOld
  <2>1. Types' BY DEF IInv, Types, WatcherLabel
  <2>2. WatcherOK' BY DEF IInv, WatcherOK, Replacing, Types
  <2>3. CloserOK' BY DEF IInv, CloserOK
  <2>4. AppsOK' /\ ConnectionsCounted' BY RowsKept DEF IInv
  <2> QED BY <2>1, <2>2, <2>3, <2>4 DEF IInv
<1> QED BY <1>1, <1>2

\* The built App becomes the one that serves, unless CloseContext came first.
LEMMA SwapKeeps == ASSUME IInv, Swap PROVE IInv'
<1> USE DEF environment, shared, watcher, closer, requests
<1>1. wpc = "swap" /\ wold \in Rev /\ current \in {wold, None} /\ wrev \in Rev /\ app[wrev].state = "built"
  BY DEF Swap, IInv, WatcherOK, Types
<1>2. CASE current # wold
  <2>1. current = None BY <1>1, <1>2
  <2> QED BY <1>1, <1>2, <2>1, GiveUpKeeps DEF Swap
<1>3. CASE current = wold
  <2>1. /\ current' = wrev /\ wpc' = "apply" /\ app' = [app EXCEPT ![wrev].state = "serving"]
        /\ UNCHANGED <<config, head, pools, wrev, wold, cpc, cold, rpc, rapp>>
    BY <1>3 DEF Swap
  <2>2. /\ app' \in [Rev -> AppRow] /\ app'[wrev].state = "serving"
        /\ \A a \in Rev \ {wrev} : app'[a] = app[a]
        /\ \A a \in Rev : app'[a].refs = app[a].refs /\ app'[a].retired = app[a].retired
    BY <1>1, <2>1, StateRow DEF IInv
  <2>3. current \in Rev /\ current # None /\ current # wrev /\ app[current].state = "serving" /\ cpc = "open" /\ cold = None
    BY <1>1, <1>3 DEF IInv, CloserOK, Rev, None
  <2>4. Holding' = Holding BY <1>1, <2>2 DEF Holding
  <2>5. ConnectionsCounted' BY <2>1, <2>4, CountsKept DEF IInv
  <2>6. Types' BY <1>1, <2>1, <2>2 DEF IInv, Types, WatcherLabel
  <2>7. WatcherOK'
    <3>1. current < wrev BY <1>1, <2>3 DEF IInv, WatcherOK
    <3>2. ASSUME NEW a \in Rev, a > wrev PROVE app'[a].state = "none"
      <4>1. a > current /\ a # wrev BY <1>1, <2>3, <3>1, <3>2 DEF Rev
      <4> QED BY <2>2, <2>3, <4>1 DEF IInv, WatcherOK
    <3>3. wold \notin {wrev, current', cold} /\ app'[wold].state = "serving" BY <1>1, <1>3, <2>1, <2>2, <2>3 DEF Rev, None
    <3>4. wrev' <= head' /\ current' <= wrev' BY <1>1, <2>1 DEF IInv, WatcherOK, Rev
    <3> QED BY <1>1, <2>1, <3>2, <3>3, <3>4 DEF WatcherOK, Replacing
  <2>8. CloserOK' BY SMTT(20), Z3T(20), <1>1, <2>1, <2>2, <2>3 DEF IInv, CloserOK, Rev, None
  <2>9. AppsOK'
    <3>1. \A a \in Rev : RowMoves(a) BY SMTT(20), Z3T(20), <1>1, <2>1, <2>2 DEF IInv, AppsOK, RowMoves
    <3> QED BY <1>1, <2>1, <2>2, <3>1, AppsKept DEF IInv
  <2> QED BY <2>5, <2>6, <2>7, <2>8, <2>9 DEF IInv
<1> QED BY <1>2, <1>3

\* The App that is replaced is retired, then handed to its goroutine.
LEMMA MarkRetiredKeeps == ASSUME IInv, MarkRetired PROVE IInv'
<1> USE DEF environment, shared, watcher, closer, requests
<1>1. /\ wpc = "retire" /\ wpc' = "notify" /\ wold \in Rev
      /\ UNCHANGED <<config, head, current, pools, wrev, wold, cpc, cold, rpc, rapp>>
  BY DEF MarkRetired, IInv, WatcherOK, Replacing
<1>2. /\ app' \in [Rev -> AppRow] /\ app'[wold].retired
      /\ \A a \in Rev : /\ app'[a].state = app[a].state /\ app'[a].refs = app[a].refs
                        /\ app[a].retired => app'[a].retired
  BY <1>1, RetiredRow DEF IInv, MarkRetired
<1>3. Types' BY <1>1, <1>2 DEF IInv, Types, WatcherLabel
<1>4. WatcherOK' BY <1>1, <1>2 DEF IInv, WatcherOK, Replacing, Types
<1>5. CloserOK' BY <1>1, <1>2 DEF IInv, CloserOK, Types
<1>6. AppsOK'
  <2>1. \A a \in Rev : RowMoves(a) BY <1>2 DEF IInv, AppsOK, RowMoves
  <2> QED BY <1>1, <2>1, AppsKept DEF IInv
<1>7. Holding' = Holding BY <1>2 DEF Holding
<1>8. ConnectionsCounted' BY <1>1, <1>7, CountsKept DEF IInv
<1> QED BY <1>3, <1>4, <1>5, <1>6, <1>8 DEF IInv

\* The replaced App begins to drain, with the sessions to roll back.
LEMMA RevokeKeeps == ASSUME IInv, Revoke PROVE IInv'
<1> USE DEF environment, shared, watcher, closer, requests
<1>1. /\ wpc = "revoke" /\ wpc' = "idle" /\ wold \in Rev /\ app[wold].state = "serving" /\ app[wold].retired
      /\ wold \notin {wrev, current, cold} /\ current \in {wrev, None}
      /\ UNCHANGED <<config, head, current, pools, wrev, wold, cpc, cold, rpc, rapp>>
  BY DEF Revoke, IInv, WatcherOK, Replacing
<1>2. PICK R \in SUBSET Session : app' = [app EXCEPT ![wold].state = "draining", ![wold].revoked = R]
  <2>1. \A U : Bound(U) \in SUBSET Session BY DEF Bound, Of
  <2> QED BY <2>1 DEF Revoke
<1>3. /\ app' \in [Rev -> AppRow] /\ app'[wold].state = "draining" /\ app'[wold].retired
      /\ \A a \in Rev \ {wold} : app'[a] = app[a]
      /\ \A a \in Rev : app'[a].refs = app[a].refs /\ app'[a].retired = app[a].retired
  <2>1. app[wold] \in AppRow /\ DOMAIN app = Rev BY <1>1 DEF IInv, Types
  <2>2. app'[wold] = [app[wold] EXCEPT !.state = "draining", !.revoked = R] /\ \A a \in Rev \ {wold} : app'[a] = app[a]
    BY <1>1, <1>2, <2>1
  <2>3. /\ app'[wold] \in AppRow /\ app'[wold].state = "draining" /\ app'[wold].refs = app[wold].refs
        /\ app'[wold].retired = app[wold].retired
    BY <2>1, <2>2 DEF AppRow
  <2> QED BY <1>1, <1>2, <2>2, <2>3 DEF IInv, Types
<1>4. Types' BY <1>1, <1>3 DEF IInv, Types, WatcherLabel
<1>5. WatcherOK'
  <2>1. wrev <= head /\ (current # None => current <= wrev /\ app[wold].state # "none") BY <1>1 DEF IInv, WatcherOK
  <2>2. current # None => \A a \in Rev : a > current => app'[a].state = "none"
    <3> SUFFICES ASSUME current # None, NEW a \in Rev, a > current PROVE app'[a].state = "none" OBVIOUS
    <3>1. app[a].state = "none" BY <1>1 DEF IInv, WatcherOK
    <3>2. a # wold BY <1>1, <3>1
    <3> QED BY <1>3, <3>1, <3>2
  <2> QED BY <1>1, <2>1, <2>2 DEF WatcherOK, Replacing
<1>6. CloserOK' BY <1>1, <1>3 DEF IInv, CloserOK, Types
<1>7. AppsOK'
  <2>1. \A a \in Rev : RowMoves(a) BY <1>1, <1>3 DEF IInv, AppsOK, RowMoves
  <2> QED BY <1>1, <2>1, AppsKept DEF IInv
<1>8. Holding' = Holding BY <1>1, <1>3 DEF Holding
<1>9. ConnectionsCounted' BY <1>1, <1>8, CountsKept DEF IInv
<1> QED BY <1>4, <1>5, <1>6, <1>7, <1>9 DEF IInv

-----------------------------------------------------------------------------
(* The goroutine that retires an App, and CloseContext.                    *)

\* Nobody leases an App that settles or is closed.
LEMMA SettleKeeps == ASSUME IInv, NEW a \in Rev, Settle(a) PROVE IInv'
<1> USE DEF environment, shared, watcher, closer, requests
<1>1. /\ app[a].state = "draining" /\ app[a].refs = 0
      /\ UNCHANGED <<config, head, current, pools, wpc, wrev, wold, cpc, cold, rpc, rapp>>
  BY DEF Settle
<1>2. /\ app' \in [Rev -> AppRow] /\ app'[a].state = "settled"
      /\ \A b \in Rev \ {a} : app'[b] = app[b]
      /\ \A b \in Rev : app'[b].refs = app[b].refs /\ app'[b].retired = app[b].retired
  BY StateRow DEF IInv, Settle
<1>3. Types' BY <1>1, <1>2 DEF IInv, Types
<1>4. WatcherOK' BY <1>1, <1>2 DEF IInv, WatcherOK, Types, Replacing
<1>5. CloserOK' BY <1>1, <1>2 DEF IInv, CloserOK, Types
<1>6. AppsOK'
  <2>1. \A b \in Rev : RowMoves(b) BY <1>1, <1>2 DEF IInv, AppsOK, RowMoves
  <2> QED BY <1>1, <2>1, AppsKept DEF IInv
<1>7. Holding' = Holding BY <1>1, <1>2 DEF Holding
<1>8. ConnectionsCounted' BY <1>1, <1>7, CountsKept DEF IInv
<1> QED BY <1>3, <1>4, <1>5, <1>6, <1>8 DEF IInv

\* A drained App closes and gives its connections back: nobody leases it.
LEMMA CloseRetiredKeeps == ASSUME IInv, NEW a \in Rev, CloseRetired(a) PROVE IInv'
<1> USE DEF environment, shared, watcher, closer, requests
<1>1. /\ app[a].state = "settled" /\ app[a].refs = 0 /\ app[a].retired
      /\ UNCHANGED <<config, head, current, wpc, wrev, wold, cpc, cold, rpc, rapp>>
  BY DEF CloseRetired, IInv, AppsOK
<1>2. /\ app' \in [Rev -> AppRow] /\ app'[a].state = "closed"
      /\ \A b \in Rev \ {a} : app'[b] = app[b]
      /\ \A b \in Rev : app'[b].refs = app[b].refs /\ app'[b].retired = app[b].retired
  BY StateRow DEF IInv, CloseRetired, CloseApp
<1>3. Holding' = Holding \ {a} /\ a \in Holding BY <1>1, <1>2 DEF Holding
<1>4. ConnectionsCounted' /\ pools' \in [Conn -> Int] BY <1>1, <1>3, CountsRelease DEF IInv, CloseApp, CloseRetired
<1>5. Types' BY <1>1, <1>2, <1>4 DEF IInv, Types
<1>6. WatcherOK' BY <1>1, <1>2 DEF IInv, WatcherOK, Types, Replacing
<1>7. CloserOK' BY <1>1, <1>2 DEF IInv, CloserOK, Types
<1>8. AppsOK'
  <2>1. \A b \in Rev : RowMoves(b) BY <1>1, <1>2 DEF IInv, AppsOK, RowMoves
  <2> QED BY <1>1, <2>1, AppsKept DEF IInv
<1> QED BY <1>4, <1>5, <1>6, <1>7, <1>8 DEF IInv

\* CloseContext takes the App that serves away.
LEMMA CloseSwapKeeps == ASSUME IInv, CloseSwap PROVE IInv'
<1> USE DEF CloseSwap, environment, shared, watcher, closer, requests
<1>1. Types' BY DEF IInv, Types, CloserLabel
<1>2. WatcherOK' BY DEF IInv, WatcherOK, CloserOK, Types, Replacing
<1>3. CloserOK' BY DEF IInv, CloserOK, Types
<1>4. AppsOK' /\ ConnectionsCounted' BY RowsKept DEF IInv
<1> QED BY <1>1, <1>2, <1>3, <1>4 DEF IInv

\* CloseContext retires what it took, so that no request leases it.
LEMMA CloseRetireKeeps == ASSUME IInv, CloseRetire PROVE IInv'
<1> USE DEF environment, shared, watcher, closer, requests
<1>1. /\ cpc = "swapped" /\ cpc' = "barrier" /\ cold \in Rev
      /\ UNCHANGED <<config, head, current, pools, wpc, wrev, wold, cold, rpc, rapp>>
  BY DEF CloseRetire, IInv, CloserOK
<1>2. /\ app' \in [Rev -> AppRow] /\ app'[cold].retired
      /\ \A a \in Rev : /\ app'[a].state = app[a].state /\ app'[a].refs = app[a].refs
                        /\ app[a].retired => app'[a].retired
  BY <1>1, RetiredRow DEF IInv, CloseRetire
<1>3. Types' BY <1>1, <1>2 DEF IInv, Types, CloserLabel
<1>4. WatcherOK' BY <1>1, <1>2 DEF IInv, WatcherOK, Replacing, Types
<1>5. CloserOK' BY <1>1, <1>2 DEF IInv, CloserOK, Types
<1>6. AppsOK'
  <2>1. \A a \in Rev : RowMoves(a) BY <1>2 DEF IInv, AppsOK, RowMoves
  <2> QED BY <1>1, <2>1, AppsKept DEF IInv
<1>7. Holding' = Holding BY <1>2 DEF Holding
<1>8. ConnectionsCounted' BY <1>1, <1>7, CountsKept DEF IInv
<1> QED BY <1>3, <1>4, <1>5, <1>6, <1>8 DEF IInv

\* CloseContext waits for reloads and retirements: no App changes.
LEMMA ClosePlainKeeps == ASSUME IInv, Barrier \/ AwaitRetired \/ CloseShared PROVE IInv'
<1> USE DEF Barrier, AwaitRetired, CloseShared, environment, shared, watcher, closer, requests
<1>1. Types' BY DEF IInv, Types, CloserLabel
<1>2. WatcherOK' BY DEF IInv, WatcherOK
<1>3. CloserOK' BY DEF IInv, CloserOK
<1>4. AppsOK' /\ ConnectionsCounted' BY RowsKept DEF IInv
<1> QED BY <1>1, <1>2, <1>3, <1>4 DEF IInv

\* CloseContext closes the App it took once its last lease is given back.
LEMMA CloseCurrentKeeps == ASSUME IInv, CloseCurrent PROVE IInv'
<1> USE DEF environment, shared, watcher, closer, requests
<1>1. /\ cpc = "drain" /\ cpc' = "wait" /\ cold \in Rev /\ current = None
      /\ app[cold].state = "serving" /\ app[cold].refs = 0 /\ app[cold].retired
      /\ UNCHANGED <<config, head, current, wpc, wrev, wold, cold, rpc, rapp>>
  BY DEF CloseCurrent, IInv, CloserOK
<1>2. /\ app' \in [Rev -> AppRow] /\ app'[cold].state = "closed"
      /\ \A b \in Rev \ {cold} : app'[b] = app[b]
      /\ \A b \in Rev : app'[b].refs = app[b].refs /\ app'[b].retired = app[b].retired
  BY <1>1, StateRow DEF IInv, CloseCurrent, CloseApp
<1>3. Holding' = Holding \ {cold} /\ cold \in Holding BY <1>1, <1>2 DEF Holding
<1>4. ConnectionsCounted' /\ pools' \in [Conn -> Int] BY <1>1, <1>3, CountsRelease DEF IInv, CloseApp, CloseCurrent
<1>5. Types' BY <1>1, <1>2, <1>4 DEF IInv, Types, CloserLabel
<1>6. WatcherOK' BY <1>1, <1>2 DEF IInv, WatcherOK, Types, Replacing
<1>7. CloserOK' BY <1>1, <1>2 DEF IInv, CloserOK, Types
<1>8. AppsOK'
  <2>1. \A b \in Rev : RowMoves(b) BY <1>1, <1>2 DEF IInv, AppsOK, RowMoves
  <2> QED BY <1>1, <2>1, AppsKept DEF IInv
<1> QED BY <1>4, <1>5, <1>6, <1>7, <1>8 DEF IInv

-----------------------------------------------------------------------------
(* Requests.                                                               *)

\* A request that does not run yet changes no App.
LEMMA RequestMoves ==
    ASSUME IInv, NEW s \in Session, NEW v \in {"idle", "acquire", "lease"}, rpc[s] # "run",
           rpc' = [rpc EXCEPT ![s] = v], rapp' \in [Session -> Rev \cup {None}],
           \A t \in Session \ {s} : rapp'[t] = rapp[t],
           v = "lease" => rapp'[s] = current /\ current # None,
           UNCHANGED <<config, head, app, current, pools, wpc, wrev, wold, cpc, cold>>
    PROVE IInv'
<1>1. rpc'[s] = v /\ \A t \in Session \ {s} : rpc'[t] = rpc[t] BY DEF IInv, Types
<1>2. Types' BY DEF IInv, Types
<1>3. WatcherOK' BY DEF IInv, WatcherOK
<1>4. CloserOK' BY DEF IInv, CloserOK
<1>5. \A a : Leases(a)' = Leases(a) BY <1>1 DEF Leases
<1>6. AppsOK'
  <2>1. ASSUME NEW t \in Session, rpc'[t] \in {"lease", "run"}
        PROVE /\ rapp'[t] \in Rev
              /\ app[rapp'[t]].state \in {"none", "built"} => FALSE
              /\ app[rapp'[t]].state = "closed" => app[rapp'[t]].retired
    <3>1. CASE t = s BY <1>1, <2>1, <3>1 DEF IInv, Types, CloserOK
    <3>2. CASE t # s BY <1>1, <2>1, <3>2 DEF IInv, AppsOK
    <3> QED BY <3>1, <3>2
  <2> QED BY <1>5, <2>1 DEF IInv, AppsOK
<1>7. ConnectionsCounted' BY CountsKept DEF IInv, Holding
<1> QED BY <1>2, <1>3, <1>4, <1>6, <1>7 DEF IInv

\* A request reads the snapshot: what it read served, and may be retired since.
LEMMA LoadKeeps == ASSUME IInv, NEW s \in Session, Authenticate(s) \/ LoadSnapshot(s) PROVE IInv'
<1> USE DEF environment, shared, watcher, closer, requests
<1>1. CASE Authenticate(s) BY <1>1, RequestMoves DEF Authenticate, IInv, Types
<1>2. CASE LoadSnapshot(s)
  <2>1. PICK v \in {"idle", "lease"} : rpc' = [rpc EXCEPT ![s] = v] /\ (v = "lease" => current # None)
    BY <1>2 DEF LoadSnapshot
  <2>2. rapp'[s] = current /\ rapp' \in [Session -> Rev \cup {None}] /\ \A t \in Session \ {s} : rapp'[t] = rapp[t]
    BY <1>2 DEF LoadSnapshot, IInv, Types
  <2> QED BY <1>2, <2>1, <2>2, RequestMoves DEF LoadSnapshot
<1> QED BY <1>1, <1>2

\* The count of an App changes by one with its leases.
LEMMA RefsRow ==
    ASSUME Types, NEW x \in Rev, NEW n \in Nat, app' = [app EXCEPT ![x].refs = n]
    PROVE /\ app' \in [Rev -> AppRow] /\ app'[x].refs = n
          /\ \A a \in Rev \ {x} : app'[a] = app[a]
          /\ \A a \in Rev : app'[a].state = app[a].state /\ app'[a].retired = app[a].retired
<1>1. app[x] \in AppRow /\ DOMAIN app = Rev BY DEF Types
<1>2. app'[x] = [app[x] EXCEPT !.refs = n] /\ \A a \in Rev \ {x} : app'[a] = app[a] BY <1>1
<1>3. app'[x] \in AppRow /\ app'[x].refs = n /\ app'[x].state = app[x].state /\ app'[x].retired = app[x].retired
  BY <1>1, <1>2 DEF AppRow
<1> QED BY <1>1, <1>2, <1>3 DEF Types

\* A request leases what it read unless it is retired, and reads again then.
LEMMA LeaseKeeps == ASSUME IInv, NEW s \in Session, Lease(s) PROVE IInv'
<1> USE DEF environment, shared, watcher, closer, requests
<1>0. PICK x \in Rev : x = rapp[s] BY DEF Lease, IInv, AppsOK
<1>1. rpc[s] = "lease" /\ x \in Rev /\ app[x].refs = Cardinality(Leases(x)) /\ app[x].refs \in Nat
  BY <1>0, Finite DEF Lease, IInv, AppsOK
<1>2. CASE app[x].retired BY <1>0, <1>1, <1>2, RequestMoves DEF Lease, IInv, Types
<1>3. CASE ~app[x].retired
  <2>1. /\ rpc' = [rpc EXCEPT ![s] = "run"] /\ app' = [app EXCEPT ![x].refs = app[x].refs + 1]
        /\ UNCHANGED <<config, head, current, pools, wpc, wrev, wold, cpc, cold, rapp>>
    BY <1>0, <1>3 DEF Lease
  <2>2. app[x].state = "serving"
    BY <1>0, <1>1, <1>3 DEF IInv, AppsOK, Types, AppRow
  <2>3. app[x].refs + 1 \in Nat BY <1>1
  <2>4. /\ app' \in [Rev -> AppRow] /\ app'[x].refs = app[x].refs + 1
        /\ \A a \in Rev \ {x} : app'[a] = app[a]
        /\ \A a \in Rev : app'[a].state = app[a].state /\ app'[a].retired = app[a].retired
    BY <1>1, <2>1, <2>3, RefsRow DEF IInv
  <2>5. rpc'[s] = "run" /\ \A t \in Session \ {s} : rpc'[t] = rpc[t] BY <2>1 DEF IInv, Types
  <2>6. Leases(x)' = Leases(x) \cup {s} /\ s \notin Leases(x) BY <1>0, <1>1, <2>1, <2>5 DEF Leases
  <2>7. \A a \in Rev \ {x} : Leases(a)' = Leases(a) BY <1>0, <1>1, <2>1, <2>5 DEF Leases
  <2>8. Cardinality(Leases(x)') = app[x].refs + 1
    <3>1. IsFiniteSet(Leases(x)) BY Finite
    <3>2. Cardinality(Leases(x) \cup {s}) = Cardinality(Leases(x)) + 1 BY <2>6, <3>1, FS_AddElement
    <3> QED BY <1>1, <2>6, <3>2
  <2>9. \A a \in Rev : app'[a].refs = Cardinality(Leases(a)')
    BY <2>4, <2>7, <2>8 DEF IInv, AppsOK
  <2>10. Types' BY <2>1, <2>4 DEF IInv, Types
  <2>11. WatcherOK' BY <2>1, <2>4 DEF IInv, WatcherOK, Types, Replacing
  <2>12. CloserOK' BY <2>1, <2>4 DEF IInv, CloserOK, Types
  <2>13. AppsOK'
    <3>1. \A a \in Rev : /\ app'[a].state \in {"draining", "settled"} => app'[a].retired
                         /\ app'[a].state \in {"none", "built", "settled", "closed"} => app'[a].refs = 0
      BY SMTT(20), Z3T(20), <2>2, <2>4 DEF IInv, AppsOK
    <3>2. \A t \in Session : rpc'[t] \in {"lease", "run"} =>
            /\ rapp'[t] \in Rev
            /\ app'[rapp'[t]].state \in {"none", "built"} => FALSE
            /\ app'[rapp'[t]].state = "closed" => app'[rapp'[t]].retired
      BY SMTT(20), Z3T(20), <1>0, <1>1, <2>1, <2>4, <2>5 DEF IInv, AppsOK
    <3> QED BY <2>9, <3>1, <3>2 DEF AppsOK
  <2>14. ConnectionsCounted' BY <2>1, <2>4, CountsKept DEF IInv, Holding
  <2> QED BY <2>10, <2>11, <2>12, <2>13, <2>14 DEF IInv
<1> QED BY <1>2, <1>3

\* A request that ends gives back its one lease.
LEMMA ReleaseKeeps == ASSUME IInv, NEW s \in Session, Release(s) PROVE IInv'
<1> USE DEF environment, shared, watcher, closer, requests
<1>0. PICK x \in Rev : x = rapp[s] BY DEF Release, IInv, AppsOK
<1>1. rpc[s] = "run" /\ x \in Rev /\ app[x].refs = Cardinality(Leases(x)) /\ app[x].refs \in Nat
  BY <1>0, Finite DEF Release, IInv, AppsOK
<1>2. /\ rpc' = [rpc EXCEPT ![s] = "idle"] /\ rapp' = [rapp EXCEPT ![s] = None]
      /\ app' = [app EXCEPT ![x].refs = app[x].refs - 1]
      /\ UNCHANGED <<config, head, current, pools, wpc, wrev, wold, cpc, cold>>
  BY <1>0 DEF Release
<1>3. /\ rpc'[s] = "idle" /\ rpc' \in [Session -> {"idle", "acquire", "lease", "run"}]
      /\ rapp' \in [Session -> Rev \cup {None}]
      /\ \A t \in Session \ {s} : rpc'[t] = rpc[t] /\ rapp'[t] = rapp[t]
  BY <1>2 DEF IInv, Types
<1>4. Leases(x)' = Leases(x) \ {s} /\ s \in Leases(x) BY <1>0, <1>1, <1>3 DEF Leases
<1>5. \A a \in Rev \ {x} : Leases(a)' = Leases(a) BY <1>0, <1>1, <1>3 DEF Leases
<1>6. Cardinality(Leases(x)') = app[x].refs - 1 BY <1>1, <1>4, Finite, FS_RemoveElement
<1>7. IsFiniteSet(Leases(x)') BY SMTT(20), Z3T(20), <1>4, Finite, FS_RemoveElement
<1>8. app[x].refs - 1 \in Nat BY <1>6, <1>7, FS_CardinalityType
<1>9. /\ app' \in [Rev -> AppRow] /\ app'[x].refs = app[x].refs - 1
      /\ \A a \in Rev \ {x} : app'[a] = app[a]
      /\ \A a \in Rev : app'[a].state = app[a].state /\ app'[a].retired = app[a].retired
  BY <1>1, <1>2, <1>8, RefsRow DEF IInv
<1>10. \A a \in Rev : app'[a].refs = Cardinality(Leases(a)')
  BY <1>5, <1>6, <1>9 DEF IInv, AppsOK
<1>11. app[x].state \notin {"none", "built", "settled", "closed"}
  <2>1. app[x].refs # 0 BY <1>1, <1>8
  <2> QED BY <1>1, <2>1 DEF IInv, AppsOK
<1>12. Types' BY <1>2, <1>3, <1>9 DEF IInv, Types
<1>13. WatcherOK' BY <1>2, <1>9 DEF IInv, WatcherOK, Types, Replacing
<1>14. CloserOK' BY <1>2, <1>9 DEF IInv, CloserOK, Types
<1>15. AppsOK'
  <2>1. \A a \in Rev : /\ app'[a].state \in {"draining", "settled"} => app'[a].retired
                       /\ app'[a].state \in {"none", "built", "settled", "closed"} => app'[a].refs = 0
    BY <1>9, <1>11 DEF IInv, AppsOK
  <2>2. \A t \in Session : rpc'[t] \in {"lease", "run"} =>
          /\ rapp'[t] \in Rev
          /\ app'[rapp'[t]].state \in {"none", "built"} => FALSE
          /\ app'[rapp'[t]].state = "closed" => app'[rapp'[t]].retired
    BY SMTT(20), Z3T(20), <1>3, <1>9 DEF IInv, AppsOK
  <2> QED BY <1>10, <2>1, <2>2 DEF AppsOK
<1>16. ConnectionsCounted' BY <1>2, <1>9, CountsKept DEF IInv, Holding
<1> QED BY <1>12, <1>13, <1>14, <1>15, <1>16 DEF IInv

-----------------------------------------------------------------------------
(* The theorem.                                                            *)

\* Revision 1 serves, nobody leases it, and it holds its connections.
LEMMA InitHolds == Init => IInv
<1> SUFFICES ASSUME Init PROVE IInv OBVIOUS
<1>1. 1 \in Rev /\ None \notin Rev BY BoundAssumption DEF Rev, None
<1>2. /\ app \in [Rev -> AppRow] /\ app[1].state = "serving"
      /\ \A a \in Rev : app[a].refs = 0 /\ (a # 1 => app[a].state = "none")
  BY <1>1 DEF Init, AppRow, NoApp
<1>3. Types BY SMTT(20), Z3T(20), <1>1, <1>2 DEF Init, Types, WatcherLabel, CloserLabel
<1>4. WatcherOK
  <2>1. 1 <= 1 OBVIOUS
  <2> QED BY SMTT(20), Z3T(20), <1>1, <1>2, <2>1 DEF Init, WatcherOK, Replacing, Rev
<1>5. CloserOK BY <1>1, <1>2 DEF Init, CloserOK
<1>6. AppsOK
  <2>1. \A a : Leases(a) = {} BY DEF Init, Leases
  <2>2. Cardinality({}) = 0 BY FS_EmptySet
  <2> QED BY <1>1, <1>2, <2>1, <2>2 DEF Init, AppsOK
<1>7. ConnectionsCounted
  <2> SUFFICES ASSUME NEW k \in Conn PROVE pools[k] = Cardinality({a \in Holding : k \in Conns(a)})
    BY DEF ConnectionsCounted
  <2>1. Holding = {1} BY <1>1, <1>2 DEF Holding
  <2>2. CASE k \in Conns(1)
    <3>1. {a \in Holding : k \in Conns(a)} = {1} BY <2>1, <2>2
    <3>2. Cardinality({1}) = 1 BY FS_Singleton
    <3>3. pools[k] = 1 BY <2>2 DEF Init
    <3> QED BY <3>1, <3>2, <3>3
  <2>3. CASE k \notin Conns(1)
    <3>1. {a \in Holding : k \in Conns(a)} = {} BY <2>1, <2>3
    <3>2. Cardinality({}) = 0 BY FS_EmptySet
    <3>3. pools[k] = 0 BY <2>3 DEF Init
    <3> QED BY <3>1, <3>2, <3>3
  <2> QED BY <2>2, <2>3
<1> QED BY <1>3, <1>4, <1>5, <1>6, <1>7 DEF IInv

\* Every step keeps the invariant.
LEMMA NextKeeps == IInv /\ [Next]_vars => IInv'
<1> SUFFICES ASSUME IInv, [Next]_vars PROVE IInv' OBVIOUS
<1>1. CASE UNCHANGED vars
  BY <1>1, CoreKept DEF vars, core, environment, shared, watcher, closer, requests
<1>2. CASE Publish BY <1>2, PublishKeeps
<1>3. CASE Watch
  BY <1>3, PollKeeps, BuildKeeps, ReadOldKeeps, SwapKeeps, PlainKeeps, MarkRetiredKeeps, RevokeKeeps, HoldKeeps DEF Watch
<1>4. CASE CloseSwap \/ Closing
  BY <1>4, CloseSwapKeeps, CloseRetireKeeps, ClosePlainKeeps, CloseCurrentKeeps DEF Closing
<1>5. ASSUME NEW a \in Rev, Retire(a) PROVE IInv'
  BY <1>5, SettleKeeps, CloseRetiredKeeps DEF Retire
<1>6. ASSUME NEW s \in Session, Request(s) PROVE IInv'
  BY <1>6, LoadKeeps, LeaseKeeps, ReleaseKeeps DEF Request
<1>7. ASSUME NEW s \in Session, Calls(s) PROVE IInv'
  <2>1. CASE Authenticate(s) BY <2>1, LoadKeeps
  <2>2. CASE OpenSession(s) \/ Bind(s) \/ Begin(s) \/ Commit(s) \/ CloseSession(s)
    BY <2>2, CoreKept
    DEF core, environment, shared, watcher, closer, requests, OpenSession, Bind, Begin, Commit, CloseSession
  <2> QED BY <1>7, <2>1, <2>2 DEF Calls
<1> QED BY <1>1, <1>2, <1>3, <1>4, <1>5, <1>6, <1>7 DEF Next

\* A request that runs is one of its App's leases: the App is open, and so are
\* the connections it counts for.
LEMMA InvariantServes == IInv => LeasedAppsServe
<1> SUFFICES ASSUME IInv, NEW s \in Session, rpc[s] = "run"
             PROVE app[rapp[s]].state # "closed" /\ \A k \in Conns(rapp[s]) : pools[k] > 0
  BY DEF LeasedAppsServe
<1> DEFINE x == rapp[s]
<1>1. x \in Rev /\ app[x].refs = Cardinality(Leases(x)) /\ app[x].state # "none" BY DEF IInv, AppsOK
<1>2. s \in Leases(x) BY DEF Leases
<1>3. Cardinality(Leases(x)) # 0 BY <1>2, Finite, FS_EmptySet
<1>4. app[x].state # "closed" BY <1>1, <1>3 DEF IInv, AppsOK
<1>5. ASSUME NEW k \in Conns(x) PROVE pools[k] > 0
  <2>1. k \in Conn BY SMTT(20), Z3T(20), <1>1, ConfigAssumption DEF IInv, Types, Conns
  <2> DEFINE H == {a \in Holding : k \in Conns(a)}
  <2>2. x \in H BY <1>1, <1>4 DEF Holding
  <2>3. Cardinality(H) # 0 /\ Cardinality(H) \in Nat BY <2>2, Finite, FS_EmptySet
  <2>4. pools[k] = Cardinality(H) BY <2>1 DEF IInv, ConnectionsCounted
  <2> HIDE DEF H
  <2> QED BY <2>3, <2>4
<1> QED BY <1>4, <1>5

\* No App closes under a request, and none of its connections does, however
\* requests, reloads, retirements and CloseContext interleave.
THEOREM RequestsServed == Spec => []LeasedAppsServe
<1>1. Init => IInv BY InitHolds
<1>2. IInv /\ [Next]_vars => IInv' BY NextKeeps
<1>3. IInv => LeasedAppsServe BY InvariantServes
<1> QED BY <1>1, <1>2, <1>3, PTL DEF Spec

\* A connection is open exactly while an App holds it: none is closed early,
\* and none is left open by the Apps that gave it back.
THEOREM PoolsExact == Spec => []ConnectionsCounted
<1>1. Init => IInv BY InitHolds
<1>2. IInv /\ [Next]_vars => IInv' BY NextKeeps
<1>3. IInv => ConnectionsCounted BY DEF IInv
<1> QED BY <1>1, <1>2, <1>3, PTL DEF Spec

-----------------------------------------------------------------------------
(* Settings, the end of the runtime, and the sessions reloads drop.  These *)
(* facts rest on IInv, which holds before every step and after it.         *)

\* The shared services and the transports have the settings of the App that
\* serves until the next one does, and of that one when the reload is over.
\* A user is held under an older revision than the published one, or until
\* the reload that serves it ends.
Follow ==
    /\ wpc \notin Replacing /\ current # None => applied = current /\ listed = current
    /\ wpc \in {"retire", "notify", "revoke"} => applied = wrev
    /\ wpc = "revoke" => listed = wrev
    /\ wpc \notin Replacing /\ current # None /\ current = head => held = {}

\* An App that is open is the one that serves, the one a reload or
\* CloseContext took its place from, or draining; past its barrier
\* CloseContext meets no reload that publishes, and once it waited for the
\* Apps that drain no request runs.
Ends ==
    /\ \A a \in Rev :
         /\ app[a].state = "serving" => \/ a = current
                                        \/ a = wold /\ wpc \in Replacing
                                        \/ a = cold /\ cpc \in {"swapped", "barrier", "drain"}
         /\ app[a].state = "built" => a = wrev /\ wpc \in {"publish", "swap"}
    /\ cpc \in {"drain", "wait", "shared", "closed"} => ~Publishing
    /\ cpc \in {"wait", "shared", "closed"} => app[cold].state = "closed"
    /\ cpc \in {"shared", "closed"} => Draining = {}
    /\ cpc = "closed" => \A s \in Session : ~tx[s]

\* The sessions an App rolls back when it settles were dropped before.
Dropped ==
    /\ tx \in [Session -> BOOLEAN] /\ sess \in [Session -> SessionState]
    /\ \A a \in Rev : \A s \in app[a].revoked : sess[s] \in {"dropped", "gone"}

\* Which variables settings are about, and how a step may change them.
LEMMA FollowKeeps == ASSUME IInv, Follow, [Next]_vars PROVE Follow'
<1> USE DEF environment, shared, watcher, closer, requests, sessions
<1> USE DEF Follow
<1>0. /\ wrev <= head /\ head \in Rev /\ wrev \in Rev /\ current \in Rev \cup {None}
      /\ current # None => current <= wrev
      /\ wpc \in {"build", "hold", "publish", "swap"} /\ current # None => wrev > current
      /\ wpc = "idle" /\ current # None => wrev = current
      /\ wpc \in Replacing => current \in {wrev, None}
  BY DEF IInv, WatcherOK, Types
<1>1. CASE UNCHANGED <<head, current, applied, listed, held, wpc, wrev>> BY <1>1
<1>2. CASE Publish
  <2>1. /\ UNCHANGED <<current, applied, listed, held, wpc, wrev>> /\ head' = head + 1 BY <1>2 DEF Publish
  <2>2. current # head' BY <1>0, <2>1 DEF Rev, None
  <2> QED BY <2>1, <2>2
<1>3. CASE Poll
  <2>1. /\ wpc = "idle" /\ wpc' \in {"hold", "build"} /\ UNCHANGED <<head, current, applied, listed, held>> BY <1>3 DEF Poll
  <2> QED BY <2>1 DEF Replacing
<1>4. CASE Build \/ ReadOld
  <2>1. /\ wpc \in {"build", "publish"} /\ wpc' \in {"publish", "hold", "idle", "swap"}
        /\ UNCHANGED <<head, current, applied, listed, held>>
    BY <1>4 DEF Build, ReadOld, CloseApp
  <2> QED BY <2>1 DEF Replacing
<1>5. CASE Swap
  <2>1. wpc = "swap" /\ UNCHANGED <<head, applied, listed, held>> BY <1>5 DEF Swap, CloseApp
  <2>2. CASE current = wold BY <1>5, <2>2 DEF Swap, Replacing
  <2>3. CASE current # wold BY <1>5, <2>1, <2>3 DEF Swap, Replacing
  <2> QED BY <2>2, <2>3
<1>6. CASE Apply \/ MarkRetired \/ Notify BY <1>6 DEF Apply, MarkRetired, Notify, Replacing
<1>7. CASE Revoke
  <2>1. /\ wpc = "revoke" /\ wpc' = "idle" /\ held' = {} /\ UNCHANGED <<head, current, applied, listed, wrev>>
    BY <1>7 DEF Revoke
  <2> QED BY <1>0, <2>1 DEF Replacing
<1>8. CASE Hold
  <2>1. /\ wpc = "hold" /\ wpc' = "idle" /\ UNCHANGED <<head, current, applied, listed>> BY <1>8 DEF Hold
  <2>2. current # None => current # head BY <1>0, <2>1 DEF Rev, None
  <2> QED BY <2>1, <2>2 DEF Replacing
<1>9. CASE CloseSwap BY <1>9 DEF CloseSwap
<1>10. CASE Closing BY <1>1, <1>10 DEF Closing, CloseRetire, Barrier, CloseCurrent, AwaitRetired, CloseShared, CloseApp
<1>11. ASSUME NEW a \in Rev, Retire(a) PROVE Follow' BY <1>1, <1>11 DEF Retire, Settle, CloseRetired, CloseApp
<1>12. ASSUME NEW s \in Session, Request(s) PROVE Follow' BY <1>1, <1>12 DEF Request, LoadSnapshot, Lease, Release
<1>13. ASSUME NEW s \in Session, Calls(s) PROVE Follow'
  BY <1>1, <1>13 DEF Calls, OpenSession, Bind, Authenticate, Begin, Commit, CloseSession
<1>14. CASE UNCHANGED vars BY <1>1, <1>14 DEF vars
<1> QED BY <1>2, <1>3, <1>4, <1>5, <1>6, <1>7, <1>8, <1>9, <1>10, <1>11, <1>12, <1>13, <1>14 DEF Next, Watch

\* The sessions a step drops stay dropped, and no App names others.
LEMMA DroppedKeeps == ASSUME IInv, Dropped, [Next]_vars PROVE Dropped'
<1> USE DEF environment, shared, watcher, closer, requests, sessions
<1>0. app \in [Rev -> AppRow] /\ wrev \in Rev /\ tx \in [Session -> BOOLEAN] /\ sess \in [Session -> SessionState]
  BY DEF IInv, Types, Dropped
<1>a. ASSUME \A a \in Rev : app'[a].revoked = app[a].revoked,
             tx' \in [Session -> BOOLEAN], sess' \in [Session -> SessionState],
             \A s \in Session : sess[s] \in {"dropped", "gone"} => sess'[s] \in {"dropped", "gone"}
      PROVE Dropped'
  <2>1. \A a \in Rev : app[a].revoked \subseteq Session BY <1>0 DEF AppRow
  <2> QED BY <1>a, <2>1 DEF Dropped
<1>b. ASSUME NEW x \in Rev, NEW v, app' = [app EXCEPT ![x].state = v] PROVE \A a \in Rev : app'[a].revoked = app[a].revoked
  <2>1. app[x] \in AppRow /\ DOMAIN app = Rev BY <1>0
  <2>2. app'[x] = [app[x] EXCEPT !.state = v] /\ \A a \in Rev \ {x} : app'[a] = app[a] BY <1>b, <2>1
  <2>3. app'[x].revoked = app[x].revoked BY <2>1, <2>2 DEF AppRow
  <2> QED BY <2>2, <2>3
<1>c. ASSUME NEW x \in Rev, NEW v, app' = [app EXCEPT ![x].refs = v] PROVE \A a \in Rev : app'[a].revoked = app[a].revoked
  <2>1. app[x] \in AppRow /\ DOMAIN app = Rev BY <1>0
  <2>2. app'[x] = [app[x] EXCEPT !.refs = v] /\ \A a \in Rev \ {x} : app'[a] = app[a] BY <1>c, <2>1
  <2>3. app'[x].revoked = app[x].revoked BY <2>1, <2>2 DEF AppRow
  <2> QED BY <2>2, <2>3
<1>d. ASSUME NEW x \in Rev, app' = [app EXCEPT ![x].retired = TRUE] PROVE \A a \in Rev : app'[a].revoked = app[a].revoked
  <2>1. app[x] \in AppRow /\ DOMAIN app = Rev BY <1>0
  <2>2. app'[x] = [app[x] EXCEPT !.retired = TRUE] /\ \A a \in Rev \ {x} : app'[a] = app[a] BY <1>d, <2>1
  <2>3. app'[x].revoked = app[x].revoked BY <2>1, <2>2 DEF AppRow
  <2> QED BY <2>2, <2>3
<1>e. \A S : RolledBack(S) \in [Session -> BOOLEAN] BY <1>0 DEF RolledBack
<1>f. ASSUME NEW S, S \subseteq Session, Drop(S)
      PROVE /\ sess' \in [Session -> SessionState]
            /\ \A s \in Session : sess[s] \in {"dropped", "gone"} /\ s \notin S => sess'[s] \in {"dropped", "gone"}
            /\ \A s \in S : sess'[s] = "dropped"
  BY <1>0, <1>f DEF Drop, SessionState
<1>1. CASE UNCHANGED <<app, sess, tx>> BY <1>1 DEF Dropped
<1>2. CASE Publish BY <1>1, <1>2 DEF Publish
<1>3. CASE Poll \/ Apply \/ Notify BY <1>1, <1>3 DEF Poll, Apply, Notify
<1>4. CASE Build
  <2>1. UNCHANGED <<sess, tx>> BY <1>4 DEF Build
  <2>2. CASE UNCHANGED app BY <1>1, <2>1, <2>2
  <2>3. CASE app' = [app EXCEPT ![wrev].state = "built"] BY <1>0, <1>a, <1>b, <2>1, <2>3
  <2> QED BY <1>4, <2>2, <2>3 DEF Build
<1>5. CASE ReadOld \/ Swap
  <2>1. UNCHANGED <<sess, tx>> BY <1>5 DEF ReadOld, Swap
  <2>2. CASE UNCHANGED app BY <1>1, <2>1, <2>2
  <2>3. CASE app' = [app EXCEPT ![wrev].state = "closed"] BY <1>0, <1>a, <1>b, <2>1, <2>3
  <2>4. CASE app' = [app EXCEPT ![wrev].state = "serving"] BY <1>0, <1>a, <1>b, <2>1, <2>4
  <2> QED BY <1>5, <2>2, <2>3, <2>4 DEF ReadOld, Swap, CloseApp
<1>6. CASE MarkRetired
  <2>1. wold \in Rev BY <1>6 DEF MarkRetired, IInv, WatcherOK, Replacing
  <2> QED BY <1>0, <1>6, <1>a, <1>d, <2>1 DEF MarkRetired
<1>7. CASE Revoke
  <2>1. wold \in Rev BY <1>7 DEF Revoke, IInv, WatcherOK, Replacing
  <2> DEFINE B == Bound(Users(wold) \ Users(wrev))
  <2>2. Drop(B) /\ tx' = tx /\ app' = [app EXCEPT ![wold].state = "draining", ![wold].revoked = B] BY <1>7 DEF Revoke
  <2>3. B \subseteq Session /\ \A s \in B : sess[s] = "bound" BY DEF Bound, Of
  <2> HIDE DEF B
  <2>4. /\ sess' \in [Session -> SessionState]
        /\ \A s \in Session : sess[s] \in {"dropped", "gone"} => sess'[s] \in {"dropped", "gone"}
        /\ \A s \in B : sess'[s] = "dropped"
    BY <1>f, <2>2, <2>3
  <2>5. app[wold] \in AppRow /\ DOMAIN app = Rev BY <1>0, <2>1
  <2>6. app'[wold] = [app[wold] EXCEPT !.state = "draining", !.revoked = B] /\ \A a \in Rev \ {wold} : app'[a] = app[a]
    BY <2>1, <2>2, <2>5
  <2>7. app'[wold].revoked = B BY <2>5, <2>6 DEF AppRow
  <2>8. \A a \in Rev : app[a].revoked \subseteq Session BY <1>0 DEF AppRow
  <2>9. ASSUME NEW a \in Rev, NEW s \in app'[a].revoked PROVE sess'[s] \in {"dropped", "gone"}
    <3>1. CASE a = wold BY <2>4, <2>7, <2>9, <3>1
    <3>2. CASE a # wold
      <4>1. s \in app[a].revoked BY <2>6, <2>9, <3>2
      <4>2. s \in Session /\ sess[s] \in {"dropped", "gone"} BY <2>8, <4>1 DEF Dropped
      <4> QED BY <2>4, <4>2
    <3> QED BY <3>1, <3>2
  <2> QED BY <1>0, <2>2, <2>4, <2>9 DEF Dropped
<1>8. CASE Hold
  <2>1. app' = app BY <1>8 DEF Hold
  <2>2. CASE current = None BY <1>1, <1>8, <2>1, <2>2 DEF Hold
  <2>3. CASE current # None
    <3> DEFINE B == Bound((Users(current) \ Users(wrev)) \ held)
    <3>1. Drop(B) /\ tx' = RolledBack(B) BY <1>8, <2>3 DEF Hold
    <3>2. B \subseteq Session /\ \A s \in B : sess[s] = "bound" BY DEF Bound, Of
    <3> HIDE DEF B
    <3>3. tx' \in [Session -> BOOLEAN] BY <1>e, <3>1
    <3>4. /\ sess' \in [Session -> SessionState]
          /\ \A s \in Session : sess[s] \in {"dropped", "gone"} => sess'[s] \in {"dropped", "gone"}
      BY <1>f, <3>1, <3>2
    <3> QED BY <1>a, <2>1, <3>3, <3>4
  <2> QED BY <2>2, <2>3
<1>9. CASE CloseSwap \/ Barrier \/ AwaitRetired BY <1>1, <1>9 DEF CloseSwap, Barrier, AwaitRetired
<1>10. CASE CloseRetire
  <2>1. cold \in Rev BY <1>10 DEF CloseRetire, IInv, CloserOK
  <2> QED BY <1>0, <1>10, <1>a, <1>d, <2>1 DEF CloseRetire
<1>11. CASE CloseCurrent
  <2>1. cold \in Rev BY <1>11 DEF CloseCurrent, IInv, CloserOK
  <2> QED BY <1>0, <1>11, <1>a, <1>b, <2>1 DEF CloseCurrent, CloseApp
<1>12. CASE CloseShared BY <1>0, <1>12, <1>a DEF CloseShared
<1>13. ASSUME NEW a \in Rev, Retire(a) PROVE Dropped'
  <2>1. CASE Settle(a) BY <1>0, <1>a, <1>b, <1>e, <2>1 DEF Settle
  <2>2. CASE CloseRetired(a) BY <1>0, <1>a, <1>b, <2>2 DEF CloseRetired, CloseApp
  <2> QED BY <1>13, <2>1, <2>2 DEF Retire
<1>14. ASSUME NEW s \in Session, Request(s) PROVE Dropped'
  <2>1. UNCHANGED <<sess, tx>> BY <1>14 DEF Request, LoadSnapshot, Lease, Release
  <2>2. CASE UNCHANGED app BY <1>1, <2>1, <2>2
  <2>3. CASE app' # app
    <3>1. rapp[s] \in Rev BY <1>14, <2>3 DEF Request, LoadSnapshot, Lease, Release, IInv, AppsOK
    <3>2. PICK x \in Rev : x = rapp[s] BY <3>1
    <3>3. app' = [app EXCEPT ![x].refs = app[x].refs + 1] \/ app' = [app EXCEPT ![x].refs = app[x].refs - 1]
      BY <1>14, <2>3, <3>2 DEF Request, LoadSnapshot, Lease, Release
    <3>4. \A a \in Rev : app'[a].revoked = app[a].revoked BY <1>c, <3>3
    <3> QED BY <1>0, <1>a, <2>1, <3>4
  <2> QED BY <2>2, <2>3
<1>15. ASSUME NEW s \in Session, Calls(s) PROVE Dropped'
  <2>1. app' = app BY <1>15 DEF Calls, OpenSession, Bind, Authenticate, Begin, Commit, CloseSession
  <2>2. tx' \in [Session -> BOOLEAN]
    <3>1. CASE CloseSession(s) BY <1>e, <3>1 DEF CloseSession
    <3>2. CASE Begin(s) \/ Commit(s) BY <1>0, <3>2 DEF Begin, Commit
    <3>3. CASE OpenSession(s) \/ Bind(s) \/ Authenticate(s) BY <1>0, <3>3 DEF OpenSession, Bind, Authenticate
    <3> QED BY <1>15, <3>1, <3>2, <3>3 DEF Calls
  <2>3. /\ sess' \in [Session -> SessionState]
        /\ \A t \in Session : sess[t] \in {"dropped", "gone"} => sess'[t] \in {"dropped", "gone"}
    BY <1>0, <1>15 DEF Calls, OpenSession, Bind, Authenticate, Begin, Commit, CloseSession, SessionState
  <2> QED BY <1>a, <2>1, <2>2, <2>3
<1>16. CASE UNCHANGED vars BY <1>1, <1>16 DEF vars
<1> QED BY <1>2, <1>3, <1>4, <1>5, <1>6, <1>7, <1>8, <1>9, <1>10, <1>11, <1>12, <1>13, <1>14, <1>15, <1>16
        DEF Next, Watch, Closing

\* Only the App of x changes its state, to st.
Turns(x, st) ==
    /\ app'[x].state = st
    /\ \A a \in Rev \ {x} : app'[a].state = app[a].state
StatesKept == \A a \in Rev : app'[a].state = app[a].state

\* Draining is what it was when no App's state changes.
LEMMA DrainingKept == ASSUME StatesKept, cold' = cold PROVE Draining' = Draining
BY DEF StatesKept, Draining

\* A step that changes no App's state, no transaction, and neither who serves
\* nor where the watcher and CloseContext are.
LEMMA EndsQuiet ==
    ASSUME IInv, Ends, StatesKept, UNCHANGED <<current, wold, cpc, cold, wpc, wrev>>,
           cpc = "closed" => \A s \in Session : ~tx'[s]
    PROVE Ends'
<1>1. Draining' = Draining BY DrainingKept
<1>2. cpc \in {"wait", "shared", "closed"} => cold \in Rev BY DEF IInv, CloserOK
<1> QED BY <1>1, <1>2 DEF Ends, StatesKept, Publishing

\* Once CloseContext waited for the Apps that drain, no request runs.
LEMMA NothingRuns == ASSUME IInv, Ends, cpc \in {"shared", "closed"}, NEW s \in Session PROVE rpc[s] # "run"
<1> SUFFICES ASSUME rpc[s] = "run" PROVE FALSE OBVIOUS
<1>1. PICK x \in Rev : x = rapp[s] BY DEF IInv, AppsOK
<1>2. s \in Leases(x) BY <1>1 DEF Leases
<1>3. Cardinality(Leases(x)) # 0 BY <1>2, Finite, FS_EmptySet
<1>4. app[x].state \in {"serving", "draining"} BY <1>3 DEF IInv, AppsOK, Types, AppRow
<1>5. current = None /\ ~Publishing /\ app[cold].state = "closed" /\ Draining = {} BY DEF IInv, CloserOK, Ends
<1>6. x # current BY <1>5 DEF None, Rev
<1>7. app[x].state # "serving" BY <1>5, <1>6 DEF Ends, Publishing, Replacing
<1>8. x \in Draining BY <1>4, <1>5, <1>7 DEF Draining
<1> QED BY <1>5, <1>8

\* Transactions end with the runtime, and none begins after it.
LEMMA ClosedIsClosed ==
    ASSUME IInv, Ends, [Next]_vars, cpc = "closed", NEW s \in Session PROVE ~tx'[s]
<1> USE DEF environment, shared, watcher, closer, requests, sessions
<1>0. ~tx[s] /\ \A t \in Session : ~tx[t] BY DEF Ends
<1>1. CASE tx' = tx BY <1>0, <1>1
<1>2. ASSUME NEW S, tx' = RolledBack(S) PROVE ~tx'[s] BY <1>0, <1>2 DEF RolledBack
<1>3. CASE Publish \/ CloseSwap BY <1>1, <1>3 DEF Publish, CloseSwap
<1>4. CASE Watch
  <2>1. CASE Hold
    <3>1. CASE current = None BY <1>1, <2>1, <3>1 DEF Hold
    <3>2. CASE current # None BY <1>2, <2>1, <3>2 DEF Hold
    <3> QED BY <3>1, <3>2
  <2> QED BY <1>1, <1>4, <2>1 DEF Watch, Poll, Build, ReadOld, Swap, Apply, MarkRetired, Notify, Revoke
<1>5. CASE Closing BY <1>5 DEF Closing, CloseRetire, Barrier, CloseCurrent, AwaitRetired, CloseShared
<1>6. ASSUME NEW a \in Rev, Retire(a) PROVE ~tx'[s] BY <1>1, <1>2, <1>6 DEF Retire, Settle, CloseRetired
<1>7. ASSUME NEW r \in Session, Request(r) PROVE ~tx'[s] BY <1>1, <1>7 DEF Request, LoadSnapshot, Lease, Release
<1>8. ASSUME NEW r \in Session, Calls(r) PROVE ~tx'[s]
  <2>1. rpc[r] # "run" BY NothingRuns
  <2> QED BY <1>1, <1>2, <1>8, <2>1 DEF Calls, OpenSession, Bind, Authenticate, Begin, Commit, CloseSession
<1>9. CASE UNCHANGED vars BY <1>1, <1>9 DEF vars
<1> QED BY <1>3, <1>4, <1>5, <1>6, <1>7, <1>8, <1>9 DEF Next

\* The end of the runtime, step by step.
LEMMA EndsKeeps == ASSUME IInv, Ends, [Next]_vars PROVE Ends'
<1> USE DEF environment, shared, watcher, closer, requests, sessions
<1>0. /\ app \in [Rev -> AppRow] /\ wrev \in Rev /\ current \in Rev \cup {None} /\ cold \in Rev \cup {None}
      /\ wpc \in WatcherLabel /\ cpc \in CloserLabel
  BY DEF IInv, Types
<1>c. cpc = "closed" => \A s \in Session : ~tx'[s] BY ClosedIsClosed
<1>q. ASSUME StatesKept, UNCHANGED <<current, wold, cpc, cold, wpc, wrev>> PROVE Ends' BY <1>c, <1>q, EndsQuiet
<1>s. ASSUME NEW x \in Rev, NEW st \in {"none", "built", "serving", "draining", "settled", "closed"},
             app' = [app EXCEPT ![x].state = st]
      PROVE Turns(x, st)
  BY <1>s, StateRow DEF IInv, Turns
<1>a. app' = app => StatesKept BY DEF StatesKept
<1>1. CASE Publish BY <1>1, <1>a, <1>q DEF Publish
<1>2. CASE Poll \/ Hold \/ (Build /\ app' = app)
  <2>1. /\ wpc \in {"idle", "hold", "build"} /\ wpc' \in {"idle", "hold", "build", "publish"}
        /\ UNCHANGED <<app, current, wold, cpc, cold>>
    BY <1>2 DEF Poll, Hold, Build
  <2>2. wpc' = "publish" => wrev' = wrev BY <1>2 DEF Poll, Hold, Build
  <2>3. Draining' = Draining BY <1>a, <2>1, DrainingKept
  <2>4. \A a \in Rev : app[a].state # "built" BY <2>1 DEF Ends
  <2> QED BY <1>c, <2>1, <2>3, <2>4 DEF Ends, Publishing, Replacing
<1>3. CASE Build /\ app' # app
  <2>1. /\ wpc = "build" /\ wpc' = "publish" /\ Turns(wrev, "built") /\ app[wrev].state = "none"
        /\ UNCHANGED <<current, wold, cpc, cold, wrev>>
    BY <1>0, <1>3, <1>s DEF Build, IInv, WatcherOK
  <2>2. Draining' = Draining BY <2>1 DEF Draining, Turns
  <2>3. cpc \in {"wait", "shared", "closed"} => cold \in Rev /\ cold # wrev BY <2>1 DEF IInv, CloserOK, Ends
  <2> QED BY <1>c, <2>1, <2>2, <2>3 DEF Ends, Publishing, Replacing, Turns
<1>4. ASSUME wpc \in {"publish", "swap"}, wpc' = "idle", CloseApp(wrev), current = None,
             UNCHANGED <<current, wrev, cpc, cold>>
      PROVE Ends'
  <2>1. Turns(wrev, "closed") /\ app[wrev].state = "built" BY <1>0, <1>4, <1>s DEF CloseApp, IInv, WatcherOK
  <2>2. Draining' = Draining BY <1>4, <2>1 DEF Draining, Turns
  <2>3. cpc \in {"wait", "shared", "closed"} => cold \in Rev /\ cold # wrev BY <2>1 DEF IInv, CloserOK, Ends
  <2>4. wpc \notin Replacing BY <1>4 DEF Replacing
  <2> QED BY <1>c, <1>4, <2>1, <2>2, <2>3, <2>4 DEF Ends, Publishing, Turns
<1>5. CASE ReadOld
  <2>1. CASE current = None BY <1>4, <1>5, <2>1 DEF ReadOld
  <2>2. CASE current # None
    <3>1. /\ wpc = "publish" /\ wpc' = "swap" /\ UNCHANGED <<app, current, wrev, cpc, cold>> BY <1>5, <2>2 DEF ReadOld
    <3>2. cpc = "open" BY <2>2 DEF IInv, CloserOK
    <3>3. Draining' = Draining BY <1>a, <3>1, DrainingKept
    <3> QED BY <3>1, <3>2, <3>3 DEF Ends, Publishing, Replacing
  <2> QED BY <2>1, <2>2
<1>6. CASE Swap
  <2>1. wpc = "swap" /\ wold \in Rev /\ current \in {wold, None} BY <1>6 DEF Swap, IInv, WatcherOK
  <2>2. CASE current # wold
    <3>1. current = None BY <2>1, <2>2
    <3> QED BY <1>4, <1>6, <2>1, <2>2, <3>1 DEF Swap
  <2>3. CASE current = wold
    <3>1. /\ current' = wrev /\ wpc' = "apply" /\ Turns(wrev, "serving") /\ UNCHANGED <<wrev, wold, cpc, cold>>
      BY <1>0, <1>6, <1>s, <2>3 DEF Swap
    <3>2. current # None BY <2>1, <2>3 DEF Rev, None
    <3>3. cpc = "open" /\ cold = None BY <3>2 DEF IInv, CloserOK
    <3> QED BY <2>1, <2>3, <3>1, <3>3 DEF Ends, Publishing, Replacing, Turns
  <2> QED BY <2>2, <2>3
<1>7. CASE Apply \/ MarkRetired \/ Notify
  <2>1. /\ wpc \in Replacing /\ wpc' \in Replacing /\ Publishing /\ UNCHANGED <<current, wrev, wold, cpc, cold>>
    BY <1>7 DEF Apply, MarkRetired, Notify, Replacing, Publishing
  <2>2. StatesKept
    <3>1. CASE app' = app BY <1>a, <3>1
    <3>2. CASE MarkRetired
      <4>1. wold \in Rev BY <2>1 DEF IInv, WatcherOK
      <4> QED BY <3>2, <4>1, RetiredRow DEF MarkRetired, IInv, StatesKept
    <3> QED BY <1>7, <3>1, <3>2 DEF Apply, Notify
  <2>3. \A a \in Rev : app[a].state # "built" BY <2>1 DEF Ends, Replacing
  <2>4. cpc \notin {"drain", "wait", "shared", "closed"} BY <2>1 DEF Ends
  <2> QED BY <2>1, <2>2, <2>3, <2>4 DEF Ends, StatesKept
<1>8. CASE Revoke
  <2>1. /\ wpc = "revoke" /\ wpc' = "idle" /\ wold \in Rev /\ app[wold].state = "serving" /\ wold \notin {wrev, current, cold}
        /\ UNCHANGED <<current, wrev, wold, cpc, cold>>
    BY <1>8 DEF Revoke, IInv, WatcherOK, Replacing
  <2>2. PICK R : app' = [app EXCEPT ![wold].state = "draining", ![wold].revoked = R] BY <1>8 DEF Revoke
  <2>3. app[wold] \in AppRow /\ DOMAIN app = Rev BY <1>0, <2>1
  <2>4. app'[wold] = [app[wold] EXCEPT !.state = "draining", !.revoked = R] /\ \A a \in Rev \ {wold} : app'[a] = app[a]
    BY <2>1, <2>2, <2>3
  <2>5. Turns(wold, "draining") BY <2>3, <2>4 DEF Turns, AppRow
  <2>6. cpc \notin {"drain", "wait", "shared", "closed"} BY <2>1 DEF Ends, Publishing
  <2>7. \A a \in Rev : app[a].state # "built" BY <2>1 DEF Ends
  <2> QED BY <2>1, <2>5, <2>6, <2>7 DEF Ends, Turns
<1>9. CASE CloseSwap
  <2>1. /\ cpc = "open" /\ cpc' = "swapped" /\ cold' = current /\ cold = None /\ current' = None
        /\ UNCHANGED <<app, wpc, wrev, wold>>
    BY <1>9 DEF CloseSwap, IInv, CloserOK
  <2> QED BY <2>1 DEF Ends
<1>10. CASE CloseRetire
  <2>1. /\ cpc = "swapped" /\ cpc' = "barrier" /\ cold \in Rev /\ UNCHANGED <<current, cold, wpc, wrev, wold>>
    BY <1>10 DEF CloseRetire, IInv, CloserOK
  <2>2. StatesKept BY <1>10, <2>1, RetiredRow DEF CloseRetire, IInv, StatesKept
  <2> QED BY <2>1, <2>2 DEF Ends, StatesKept
<1>11. CASE Barrier
  <2>1. /\ cpc = "barrier" /\ cpc' = "drain" /\ ~Publishing /\ UNCHANGED <<app, current, cold, wpc, wrev, wold>>
    BY <1>11 DEF Barrier
  <2> QED BY <2>1 DEF Ends, Publishing
<1>12. CASE CloseCurrent
  <2>1. /\ cpc = "drain" /\ cpc' = "wait" /\ cold \in Rev /\ app[cold].state = "serving" /\ current = None
        /\ Turns(cold, "closed") /\ UNCHANGED <<current, cold, wpc, wrev, wold>>
    BY <1>12, <1>s DEF CloseCurrent, CloseApp, IInv, CloserOK
  <2>2. ~Publishing BY <2>1 DEF Ends
  <2>3. ASSUME NEW a \in Rev, app'[a].state = "serving" PROVE FALSE
    <3>1. a # cold /\ app[a].state = "serving" BY <2>1, <2>3 DEF Turns
    <3> QED BY SMTT(20), Z3T(20), <2>1, <2>2, <3>1 DEF Ends, Publishing, Replacing, None, Rev
  <2>4. ASSUME NEW a \in Rev, app'[a].state = "built" PROVE a = wrev /\ wpc \in {"publish", "swap"}
    <3>1. app[a].state = "built" BY <2>1, <2>4 DEF Turns
    <3> QED BY <3>1 DEF Ends
  <2> QED BY <2>1, <2>2, <2>3, <2>4 DEF Ends, Publishing, Turns
<1>13. CASE AwaitRetired
  <2>1. /\ cpc = "wait" /\ cpc' = "shared" /\ Draining = {} /\ UNCHANGED <<app, current, cold, wpc, wrev, wold>>
    BY <1>13 DEF AwaitRetired
  <2>2. Draining' = {} BY <1>a, <2>1, DrainingKept
  <2> QED BY <2>1, <2>2 DEF Ends, Publishing
<1>14. CASE CloseShared
  <2>1. /\ cpc = "shared" /\ cpc' = "closed" /\ (\A s \in Session : ~tx'[s]) /\ UNCHANGED <<app, current, cold, wpc, wrev, wold>>
    BY <1>14 DEF CloseShared
  <2>2. Draining' = Draining BY <1>a, <2>1, DrainingKept
  <2> QED BY <2>1, <2>2 DEF Ends, Publishing
<1>15. ASSUME NEW x \in Rev, Retire(x) PROVE Ends'
  <2>1. PICK st \in {"settled", "closed"} : Turns(x, st)
    BY <1>15, <1>s DEF Retire, Settle, CloseRetired, CloseApp
  <2>2. /\ app[x].state \in {"draining", "settled"} /\ x # cold
        /\ UNCHANGED <<current, wold, cpc, cold, wpc, wrev>>
    BY <1>15 DEF Retire, Settle, CloseRetired
  <2>3. Draining' \subseteq Draining BY <2>1, <2>2 DEF Draining, Turns
  <2>4. cpc \in {"wait", "shared", "closed"} => cold \in Rev /\ cold # x BY <2>2 DEF IInv, CloserOK
  <2> QED BY <1>c, <2>1, <2>2, <2>3, <2>4 DEF Ends, Publishing, Turns
<1>16. ASSUME NEW s \in Session, Request(s) PROVE Ends'
  <2>1. UNCHANGED <<current, wold, cpc, cold, wpc, wrev>> BY <1>16 DEF Request, LoadSnapshot, Lease, Release
  <2>2. StatesKept
    <3>1. CASE app' = app BY <1>a, <3>1
    <3>2. CASE app' # app
      <4>1. rapp[s] \in Rev BY <1>16, <3>2 DEF Request, LoadSnapshot, Lease, Release, IInv, AppsOK
      <4>2. PICK x \in Rev : x = rapp[s] BY <4>1
      <4>3. PICK n : app' = [app EXCEPT ![x].refs = n]
        BY <1>16, <3>2, <4>2 DEF Request, LoadSnapshot, Lease, Release
      <4>4. app[x] \in AppRow /\ DOMAIN app = Rev BY <1>0
      <4>5. app'[x] = [app[x] EXCEPT !.refs = n] /\ \A a \in Rev \ {x} : app'[a] = app[a] BY <4>3, <4>4
      <4>6. app'[x].state = app[x].state BY <4>4, <4>5 DEF AppRow
      <4> QED BY <4>5, <4>6 DEF StatesKept
    <3> QED BY <3>1, <3>2
  <2> QED BY <1>q, <2>1, <2>2
<1>17. ASSUME NEW s \in Session, Calls(s) PROVE Ends'
  BY <1>17, <1>a, <1>q DEF Calls, OpenSession, Bind, Authenticate, Begin, Commit, CloseSession
<1>18. CASE UNCHANGED vars BY <1>18, <1>a, <1>q DEF vars
<1> QED BY <1>1, <1>2, <1>3, <1>5, <1>6, <1>7, <1>8, <1>9, <1>10, <1>11, <1>12, <1>13, <1>14, <1>15, <1>16, <1>17, <1>18
        DEF Next, Watch, Closing

\* All of it.
RInv == IInv /\ Follow /\ Ends /\ Dropped

\* The first App, without requests.
LEMMA RuntimeBegins == Init => RInv
<1> SUFFICES ASSUME Init PROVE RInv OBVIOUS
<1>1. IInv BY InitHolds
<1>2. Follow BY DEF Init, Follow, Replacing
<1>3. \A a \in Rev : /\ app[a].state \in {"serving", "none"} /\ app[a].revoked = {}
                     /\ app[a].state = "serving" => a = 1
  BY DEF Init, NoApp
<1>4. Ends BY <1>3 DEF Init, Ends
<1>5. Dropped BY <1>3 DEF Init, Dropped, SessionState
<1> QED BY <1>1, <1>2, <1>4, <1>5 DEF RInv

\* Every step keeps the invariant.
LEMMA RuntimeGoesOn == RInv /\ [Next]_vars => RInv'
BY NextKeeps, FollowKeeps, EndsKeeps, DroppedKeeps DEF RInv

\* When CloseContext is done only a reload that was being built still has
\* connections, and it has them counted.
LEMMA InvariantReleases == RInv => ClosedMeansReleased
<1> SUFFICES ASSUME RInv, cpc = "closed"
             PROVE /\ \A a \in Holding : a = wrev /\ wpc = "publish"
                   /\ \A k \in Conn : pools[k] > 0 => \E a \in Holding : k \in Conns(a)
                   /\ \A s \in Session : ~tx[s]
  BY DEF ClosedMeansReleased
<1>1. current = None /\ ~Publishing /\ app[cold].state = "closed" /\ Draining = {} /\ \A s \in Session : ~tx[s]
  BY DEF RInv, IInv, CloserOK, Ends
<1>2. ASSUME NEW a \in Holding PROVE a = wrev /\ wpc = "publish"
  <2>1. a \in Rev /\ app[a].state \in {"built", "serving", "draining", "settled"}
    BY <1>2 DEF Holding, RInv, IInv, Types, AppRow
  <2>2. a # cold /\ a # current BY <1>1, <2>1 DEF None, Rev
  <2>3. app[a].state \notin {"draining", "settled"} BY <1>1, <2>1, <2>2 DEF Draining
  <2>4. app[a].state # "serving" BY <1>1, <2>1, <2>2 DEF RInv, Ends, Publishing, Replacing
  <2> QED BY <1>1, <2>1, <2>3, <2>4 DEF RInv, Ends, Publishing
<1>3. ASSUME NEW k \in Conn, pools[k] > 0 PROVE \E a \in Holding : k \in Conns(a)
  <2>1. pools[k] = Cardinality({a \in Holding : k \in Conns(a)}) BY DEF RInv, IInv, ConnectionsCounted
  <2>2. {a \in Holding : k \in Conns(a)} # {} BY SMTT(20), Z3T(20), <1>3, <2>1, FS_EmptySet
  <2> QED BY <2>2
<1> QED BY <1>1, <1>2, <1>3

\* A reload rolls back the sessions it dropped, and no others.
LEMMA StepsOutlive == ASSUME RInv, [Next]_vars, NEW s \in Session PROVE TransactionStep(s)
<1> SUFFICES ASSUME tx[s], ~tx'[s]
             PROVE \/ rpc[s] = "run" /\ UNCHANGED sess
                   \/ sess'[s] \in {"dropped", "gone"}
                   \/ cpc = "shared"
  BY DEF TransactionStep
<1> USE DEF environment, shared, watcher, closer, requests, sessions
<1>1. tx' # tx OBVIOUS
<1>2. tx \in [Session -> BOOLEAN] /\ sess \in [Session -> SessionState] BY DEF RInv, Dropped
<1>3. ASSUME NEW S, tx' = RolledBack(S) PROVE s \in S BY <1>3 DEF RolledBack
<1>4. CASE Hold
  <2>1. current # None BY <1>1, <1>4 DEF Hold
  <2> DEFINE B == Bound((Users(current) \ Users(wrev)) \ held)
  <2>2. Drop(B) /\ tx' = RolledBack(B) BY <1>4, <2>1 DEF Hold
  <2> HIDE DEF B
  <2>3. s \in B BY <1>3, <2>2
  <2> QED BY <2>2, <2>3 DEF Drop
<1>5. ASSUME NEW a \in Rev, Settle(a) PROVE sess'[s] \in {"dropped", "gone"}
  <2>1. s \in app[a].revoked BY <1>3, <1>5 DEF Settle
  <2> QED BY <1>5, <2>1 DEF Settle, RInv, Dropped
<1>6. CASE CloseShared BY <1>6 DEF CloseShared
<1>7. ASSUME NEW r \in Session, Commit(r) PROVE rpc[s] = "run" /\ UNCHANGED sess
  <2>1. r = s BY <1>2, <1>7 DEF Commit
  <2> QED BY <1>7, <2>1 DEF Commit
<1>8. ASSUME NEW r \in Session, Begin(r) PROVE FALSE BY <1>2, <1>8 DEF Begin
<1>9. ASSUME NEW r \in Session, CloseSession(r) PROVE sess'[s] \in {"dropped", "gone"}
  <2>1. r = s BY <1>3, <1>9 DEF CloseSession
  <2> QED BY <1>2, <1>9, <2>1 DEF CloseSession
<1>10. CASE Publish \/ CloseSwap BY <1>1, <1>10 DEF Publish, CloseSwap
<1>11. CASE Watch BY <1>1, <1>4, <1>11 DEF Watch, Poll, Build, ReadOld, Swap, Apply, MarkRetired, Notify, Revoke
<1>12. CASE Closing BY <1>1, <1>6, <1>12 DEF Closing, CloseRetire, Barrier, CloseCurrent, AwaitRetired
<1>13. ASSUME NEW a \in Rev, Retire(a) PROVE sess'[s] \in {"dropped", "gone"}
  BY <1>1, <1>5, <1>13 DEF Retire, CloseRetired
<1>14. ASSUME NEW r \in Session, Request(r) PROVE FALSE BY <1>1, <1>14 DEF Request, LoadSnapshot, Lease, Release
<1>15. ASSUME NEW r \in Session, Calls(r)
       PROVE (rpc[s] = "run" /\ UNCHANGED sess) \/ sess'[s] \in {"dropped", "gone"}
  BY <1>1, <1>7, <1>8, <1>9, <1>15 DEF Calls, OpenSession, Bind, Authenticate
<1>16. CASE UNCHANGED vars BY <1>1, <1>16 DEF vars
<1> QED BY <1>10, <1>11, <1>4, <1>12, <1>13, <1>14, <1>15, <1>16, <1>6 DEF Next

\* CloseContext returns with the connections released and the transactions
\* ended, also when it meets a reload at any of its steps.
THEOREM ClosingReleases == Spec => []ClosedMeansReleased
<1>1. Init => RInv BY RuntimeBegins
<1>2. RInv /\ [Next]_vars => RInv' BY RuntimeGoesOn
<1>3. RInv => ClosedMeansReleased BY InvariantReleases
<1> QED BY <1>1, <1>2, <1>3, PTL DEF Spec

\* Between reloads the settings are those of the App that serves, and nobody
\* is held under the published revision.
THEOREM SettingsFollow == Spec => []SettingsFollowCurrent
<1>1. Init => RInv BY RuntimeBegins
<1>2. RInv /\ [Next]_vars => RInv' BY RuntimeGoesOn
<1>3. RInv => SettingsFollowCurrent BY DEF RInv, Follow, SettingsFollowCurrent, Replacing
<1> QED BY <1>1, <1>2, <1>3, PTL DEF Spec

\* No reload ends a transaction of a session that stays bound.
THEOREM TransactionsOutlive == Spec => SessionsOutliveReloads
<1>1. Init => RInv BY RuntimeBegins
<1>2. RInv /\ [Next]_vars => RInv' BY RuntimeGoesOn
<1>3. RInv /\ [Next]_vars => [\A s \in Session : TransactionStep(s)]_vars BY StepsOutlive
<1> QED BY <1>1, <1>2, <1>3, PTL DEF Spec, SessionsOutliveReloads
=============================================================================
