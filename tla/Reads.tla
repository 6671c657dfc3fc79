------------------------------- MODULE Reads --------------------------------
(***************************************************************************)
(* Reads and writes outside transactions: the read cache (core/cache), the *)
(* sharing of identical reads (singleflight, core/engine), the routing of  *)
(* reads after writes (core/tool/routing.go) and the invalidation a write  *)
(* ends with, over databases whose reads may go to a replica that lags.    *)
(*                                                                         *)
(* A database is the number of the writes it carried out; what a read saw  *)
(* is the number at the time.  A scope stands for all that keeps cache keys *)
(* and flights apart (configuration generation, role and subject,          *)
(* arguments); one datasource reaches the database.                        *)
(***************************************************************************)
EXTENDS Invalidation

CONSTANTS
    Reader, Writer,  \* the calls: reads and writes
    Session,
    Scope,
    Registries,      \* the registries to serve: one of them is chosen
    MaxCalls,        \* bound of the model: the calls that come, by registry
    Replication,     \* the deployments: without, or with a replica to read from
    None

Call == Reader \cup Writer

ASSUME CallsAssumption ==
    /\ IsFiniteSet(Reader) /\ IsFiniteSet(Writer) /\ Reader \cap Writer = {}
    /\ Replication \subseteq BOOLEAN
    /\ MaxCalls \in [Registries -> Nat]

ASSUME RegistriesAssumption == \A r \in Registries : IsRegistry(r)

ASSUME NoneAssumption == None \notin Session

VARIABLES
    reg,         \* the registry
    replicated,  \* whether reads go to a replica, and follow writes for a while
    db, rep,     \* writes carried out by each database, and by its replica
    cache,       \* per scope and entity, what the entry saw; 0 for none
    stamps,      \* invalidations of each database
    recent,      \* the sessions whose reads follow their writes (WriteTracker)
    call,        \* the calls
    flight,      \* the flights of singleflight, by the call that began them
    done,        \* history: per entity, the last write that returned
    own          \* history: the same per session

data == <<reg, replicated, db, rep>>
history == <<done, own>>
vars == <<data, cache, stamps, recent, call, flight, history>>

Entity == DOMAIN reg
Readable == {e \in Entity : ~reg[e].procedure}
Database == {reg[e].database : e \in Entity}
DatabaseOf(e) == reg[e].database

\* A call.  after is history: whether it came while the reads of its session
\* followed a write.
Idle == [pc |-> "none", session |-> None, entity |-> None, key |-> None, leader |-> None,
         after |-> FALSE, todo |-> {}, write |-> 0]
Gone == [Idle EXCEPT !.pc = "gone"]

\* A flight.  fresh and owed are history: what was written before it, by all and
\* by each session.
Grounded == [run |-> "none", session |-> None, key |-> None, listed |-> FALSE, waiters |-> 0, canceled |-> FALSE,
             primary |-> FALSE, follows |-> FALSE, stamp |-> 0, got |-> 0,
             fresh |-> 0, owed |-> [s \in Session |-> 0]]

Init ==
    /\ reg \in Registries /\ replicated \in Replication
    /\ db = [d \in Database |-> 1] /\ rep = db /\ stamps = [d \in Database |-> 0]
    /\ cache = [s \in Scope |-> [e \in Readable |-> 0]]
    /\ recent = {}
    /\ call = [c \in Call |-> Idle] /\ flight = [c \in Call |-> Grounded]
    /\ done = [e \in Readable |-> 1] /\ own = [s \in Session |-> done]

-----------------------------------------------------------------------------
(* A read, up to its flight and after.                                     *)

\* Wrote and Recent of the tracker, which are the same with one datasource.
Wrote(s) == s \in recent
Recent(s) == s \in recent

\* Mutant: the sessions that wrote share the reads of the others.
KeyShared(s, g, e) == <<g, e, None>>

\* engineSubmitKey: the session is part of the key while its reads follow a write.
KeyOf(s, g, e) == <<g, e, IF Wrote(s) THEN s ELSE None>>

Comes(c) == call[c].pc = "none" /\ Cardinality({o \in Call : call[o].pc # "none"}) < MaxCalls[reg]

ReadBegin(c, s, g, e) ==
    /\ Comes(c)
    /\ call' = [call EXCEPT ![c] = [Idle EXCEPT !.pc = "do", !.session = s, !.entity = e,
                                                !.key = KeyOf(s, g, e), !.after = s \in recent]]
    /\ UNCHANGED <<data, cache, stamps, recent, flight, history>>

Listed(k) == {l \in Call : flight[l].listed /\ flight[l].key = k}

\* singleflight.Do: join the flight of the key, or begin one.
Join(c) ==
    LET k == call[c].key
        owed(s) == IF s \in recent THEN own[s][call[c].entity] ELSE 0
    IN
    /\ call[c].pc = "do"
    /\ \/ \E l \in Listed(k) :
             /\ call' = [call EXCEPT ![c].pc = "wait", ![c].leader = l]
             /\ flight' = [flight EXCEPT ![l].waiters = @ + 1]
       \/ /\ Listed(k) = {}
          /\ call' = [call EXCEPT ![c].pc = "wait", ![c].leader = c]
          /\ flight' = [flight EXCEPT ![c] = [Grounded EXCEPT
                !.run = "route", !.session = call[c].session, !.key = k, !.listed = TRUE, !.waiters = 1,
                !.fresh = done[call[c].entity], !.owed = [s \in Session |-> owed(s)]]]
    /\ UNCHANGED <<data, cache, stamps, recent, history>>

\* Mutant: a flight the last waiter canceled stays in the table.
LeaveFlightListed(c) ==
    LET l == call[c].leader
        n == flight[l].waiters - 1
    IN
    /\ call[c].pc = "wait" /\ call' = [call EXCEPT ![c] = Gone]
    /\ flight' = [flight EXCEPT ![l].waiters = n, ![l].canceled = @ \/ n = 0]
    /\ UNCHANGED <<data, cache, stamps, recent, history>>

\* wait, the context of the call ended: the last waiter that leaves cancels the
\* flight, and takes it out of the table at once.
LeaveFlight(c) ==
    LET l == call[c].leader
        n == flight[l].waiters - 1
    IN
    /\ call[c].pc = "wait" /\ call' = [call EXCEPT ![c] = Gone]
    /\ flight' = [flight EXCEPT ![l].waiters = n, ![l].canceled = @ \/ n = 0, ![l].listed = @ /\ n # 0]
    /\ UNCHANGED <<data, cache, stamps, recent, history>>

\* wait, the flight landed: the call has its result, or its error.
Answer(c) ==
    LET l == call[c].leader IN
    /\ call[c].pc = "wait" /\ flight[l].run = "done"
    /\ call' = [call EXCEPT ![c] = Gone]
    /\ flight' = IF \A o \in Call \ {c} : call[o].leader # l THEN [flight EXCEPT ![l] = Grounded] ELSE flight
    /\ UNCHANGED <<data, cache, stamps, recent, history>>

-----------------------------------------------------------------------------
(* A flight: runRead on behalf of the call that began it.                  *)

ScopeOf(c) == flight[c].key[1]
EntityOf(c) == flight[c].key[2]
Follows(c) == replicated /\ Recent(flight[c].session)
Flies(c, from, f) ==
    flight[c].run = from /\ flight' = [flight EXCEPT ![c] = f] /\ UNCHANGED <<data, stamps, recent, call, history>>

CachesRead(c) == ~flight[c].follows

\* routeEntity asks the tracker twice: for the connection, and for the cache.
RouteConnection(c) ==
    /\ Flies(c, "route", [flight[c] EXCEPT !.run = IF replicated THEN "follow" ELSE "stamp", !.primary = ~replicated \/ Follows(c)])
    /\ UNCHANGED cache

RouteFollows(c) ==
    /\ Flies(c, "follow", [flight[c] EXCEPT !.run = "stamp", !.follows = Follows(c)])
    /\ UNCHANGED cache

Stamp(c) ==
    /\ Flies(c, "stamp", [flight[c] EXCEPT !.run = "get", !.stamp = stamps[DatabaseOf(EntityOf(c))]])
    /\ UNCHANGED cache

GetSized(c) == cache[ScopeOf(c)][EntityOf(c)]

\* readCacheHit: the entry is served, unless it is past the limits of the call.
Get(c) ==
    LET hit == CachesRead(c) /\ GetSized(c) # 0 IN
    /\ \/ Flies(c, "get", [flight[c] EXCEPT !.run = "end", !.got = GetSized(c)]) /\ hit
       \/ Flies(c, "get", [flight[c] EXCEPT !.run = "end"]) /\ hit
       \/ Flies(c, "get", [flight[c] EXCEPT !.run = "query"]) /\ ~hit
    /\ UNCHANGED cache

\* The query reads the rows, or fails: an error of the database, a limit, or its
\* context.
Query(c) ==
    LET d == DatabaseOf(EntityOf(c)) IN
    /\ \/ Flies(c, "query", [flight[c] EXCEPT !.run = "set", !.got = IF flight[c].primary THEN db[d] ELSE rep[d]])
       \/ Flies(c, "query", [flight[c] EXCEPT !.run = "end"])
    /\ UNCHANGED cache

\* Mutant: an invalidation during the query goes unnoticed.
SetSizedUnstamped(c) == cache' = [cache EXCEPT ![ScopeOf(c)][EntityOf(c)] = flight[c].got]

\* SetSized: what may predate a write is not stored.
SetSized(c) ==
    /\ stamps[DatabaseOf(EntityOf(c))] = flight[c].stamp
    /\ cache' = [cache EXCEPT ![ScopeOf(c)][EntityOf(c)] = flight[c].got]

\* storeReadCache; what is too large, or goes on past a cursor, is not stored.
Store(c) ==
    /\ Flies(c, "set", [flight[c] EXCEPT !.run = "end"])
    /\ \/ CachesRead(c) /\ SetSized(c)
       \/ UNCHANGED cache

\* The flight leaves the table and tells its waiters, if there are any left.
Land(c) ==
    /\ Flies(c, "end", IF \E o \in Call : call[o].leader = c
                       THEN [flight[c] EXCEPT !.run = "done", !.listed = FALSE, !.primary = FALSE, !.follows = FALSE, !.stamp = 0]
                       ELSE Grounded)
    /\ UNCHANGED cache

-----------------------------------------------------------------------------
(* Writes.                                                                 *)

WriteBegin(c, s, e) ==
    /\ Comes(c)
    /\ call' = [call EXCEPT ![c] = [Idle EXCEPT !.pc = "exec", !.session = s, !.entity = e]]
    /\ UNCHANGED <<data, cache, stamps, recent, flight, history>>

AfterWrite(e) == Compute(reg, e)
Settle(c) == [call[c] EXCEPT !.pc = "record", !.todo = AfterWrite(call[c].entity)]

\* The database carries the write out, or does not.  Whatever it was, and
\* whether the call knows it or its connection was lost, settle follows.
WriteExec(c) ==
    LET d == DatabaseOf(call[c].entity) IN
    /\ call[c].pc = "exec"
    /\ \/ /\ db' = [db EXCEPT ![d] = @ + 1]
          /\ call' = [call EXCEPT ![c] = [Settle(c) EXCEPT !.write = db'[d]]]
       \/ /\ call' = [call EXCEPT ![c] = Settle(c)]
          /\ UNCHANGED db
    /\ UNCHANGED <<reg, replicated, rep, cache, stamps, recent, flight, history>>

\* applyWrite: the session's reads follow its write,
WriteRecord(c) ==
    /\ call[c].pc = "record" /\ call' = [call EXCEPT ![c].pc = "invalidate"]
    /\ recent' = IF replicated THEN recent \cup {call[c].session} ELSE recent
    /\ UNCHANGED <<data, cache, stamps, flight, history>>

\* and one target after the other is invalidated, in the cache all configurations
\* share; then the write returns.
WriteInvalidate(c) ==
    \E t \in call[c].todo :
        LET rest == call[c].todo \ {t}
            n == call[c].write
            returned(f, h) == IF rest = {} /\ f \in Changes(reg, call[c].entity) /\ n > h THEN n ELSE h
        IN
        /\ call[c].pc = "invalidate"
        /\ stamps' = [stamps EXCEPT ![t.physical] = @ + 1]
        /\ cache' = [s \in Scope |-> [e \in Readable |-> IF Drops(reg, t, e) THEN 0 ELSE cache[s][e]]]
        /\ call' = [call EXCEPT ![c] = IF rest = {} THEN Gone ELSE [call[c] EXCEPT !.todo = rest]]
        /\ done' = [f \in Readable |-> returned(f, done[f])]
        /\ own' = [own EXCEPT ![call[c].session] = [f \in Readable |-> returned(f, @[f])]]
        /\ UNCHANGED <<data, recent, flight>>

-----------------------------------------------------------------------------
(* Time and the limits of the cache.                                       *)

\* An entry expires, is evicted by the caps, or goes with its configuration.
Evict(s, e) ==
    /\ cache[s][e] # 0 /\ cache' = [cache EXCEPT ![s][e] = 0]
    /\ UNCHANGED <<data, stamps, recent, call, flight, history>>

Replicate(d) ==
    /\ replicated /\ rep[d] < db[d] /\ rep' = [rep EXCEPT ![d] = @ + 1]
    /\ UNCHANGED <<reg, replicated, db, cache, stamps, recent, call, flight, history>>

\* The window of a session ends: nothing is owed to its reads any more.
WindowEnds(s) ==
    /\ s \in recent /\ recent' = recent \ {s}
    /\ flight' = [c \in Call |-> [flight[c] EXCEPT !.owed[s] = 0]]
    /\ UNCHANGED <<data, cache, stamps, call, history>>

-----------------------------------------------------------------------------
CallStep(c) == Join(c) \/ LeaveFlight(c) \/ Answer(c) \/ WriteExec(c) \/ WriteRecord(c) \/ WriteInvalidate(c)
FlightStep(c) ==
    RouteConnection(c) \/ RouteFollows(c) \/ Stamp(c) \/ Get(c) \/ Query(c) \/ Store(c) \/ Land(c)

Rest ==
    /\ \A c \in Call : call[c].pc \in {"none", "gone"} /\ ~Comes(c)
    /\ UNCHANGED vars

Next ==
    \/ \E c \in Reader, s \in Session, g \in Scope, e \in Readable : ReadBegin(c, s, g, e)
    \/ \E c \in Writer, s \in Session, e \in Entity : WriteBegin(c, s, e)
    \/ \E c \in Call : CallStep(c) \/ FlightStep(c)
    \/ \E s \in Scope, e \in Readable : Evict(s, e)
    \/ \E d \in Database : Replicate(d)
    \/ \E s \in Session : WindowEnds(s)
    \/ Rest

Spec == Init /\ [][Next]_vars

-----------------------------------------------------------------------------
(* Properties.                                                             *)

\* Without a replica, no entry of the cache is older than a write that returned:
\* a read that a write overtook does not store what it saw (cache.go:203), and
\* a write drops all it may have changed (invalidation.go:82), also when its
\* call only knows that it may have been carried out (pipeline.go:452).
CacheFresh == ~replicated => \A s \in Scope, e \in Readable : cache[s][e] # 0 => cache[s][e] >= done[e]

\* The call has an answer that is not an error.
Answered(c) == Answer(c) /\ flight[call[c].leader].got # 0

\* Without a replica, a read shows all writes that returned before its flight
\* began, whether it led the flight, joined it or was served from the cache.
FlightsFresh ==
    [][\A c \in Call : Answered(c) /\ ~replicated
          => flight[call[c].leader].got >= flight[call[c].leader].fresh]_vars

\* With a replica, a read of a session that wrote a short while ago shows what
\* it wrote before the flight began (routing.go:29, engineSubmitKey).
OwnWritesSeen ==
    [][\A c \in Call : Answered(c) /\ call[c].after
          => flight[call[c].leader].got >= flight[call[c].leader].owed[call[c].session]]_vars

\* No call waits for a flight that was canceled because others left it
\* (engine.go:325).
CanceledAlone == \A c \in Call : call[c].pc = "wait" => ~flight[call[c].leader].canceled
=============================================================================
