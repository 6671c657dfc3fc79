---------------------------- MODULE ReadsProofs -----------------------------
(***************************************************************************)
(* Theorems about reads and writes, for any calls, sessions and            *)
(* registries: nobody is handed a read that was canceled because others    *)
(* left it (singleflight); what compute invalidates covers what a write    *)
(* may change; the cache holds nothing older than a write that returned,   *)
(* reads show what was written before them, and those of a session what    *)
(* the session wrote.                                                      *)
(***************************************************************************)
EXTENDS Reads, FiniteSetTheorems, TLAPS

USE ZenonT(20), SMTT(10), Z3T(10)

\* The calls that wait for the flight of l.
Waiting(l) == {c \in Call : call[c].pc = "wait" /\ call[c].leader = l}

\* Calls that came to the flight they lead, or past it.
Came == {"wait", "gone"}

CallFields == {"pc", "session", "entity", "key", "leader", "after", "todo", "write"}
FlightFields ==
    {"run", "session", "key", "listed", "waiters", "canceled", "primary", "follows", "stamp", "got", "fresh", "owed"}

Shapes ==
    /\ call = [c \in Call |-> call[c]] /\ \A c \in Call : DOMAIN call[c] = CallFields
    /\ flight = [c \in Call |-> flight[c]] /\ \A c \in Call : DOMAIN flight[c] = FlightFields

\* A flight waited for or in the table was begun, by a call that will not begin
\* another.
Led ==
    /\ \A c \in Call : call[c].pc = "wait" => call[c].leader \in Call /\ call[call[c].leader].pc \in Came
    /\ \A l \in Call : flight[l].listed => call[l].pc \in Came /\ flight[l].run # "none"

\* waiters counts those who wait, and the answered: it is zero only when all have
\* left.  Then the flight is out of the table.
Counted ==
    \A l \in Call :
        /\ flight[l].waiters \in Nat /\ Cardinality(Waiting(l)) <= flight[l].waiters
        /\ flight[l].canceled => ~flight[l].listed /\ Waiting(l) = {}

IInv == Shapes /\ Led /\ Counted

\* The calls are finitely many, and so are those that wait.
LEMMA WaitingFinite == \A l : IsFiniteSet(Waiting(l)) /\ Cardinality(Waiting(l)) \in Nat
<1>1. IsFiniteSet(Call) BY CallsAssumption, FS_Union DEF Call
<1>2. \A l : Waiting(l) \subseteq Call BY DEF Waiting
<1> QED BY <1>1, <1>2, FS_Subset, FS_CardinalityType

\* What a step that neither joins, leaves nor answers does to the calls
CallsQuiet ==
    \A c \in Call :
        /\ call'[c].pc = "wait" <=> call[c].pc = "wait"
        /\ call[c].pc \in Came => call'[c].pc \in Came
        /\ call[c].pc = "wait" => call'[c].leader = call[c].leader

\* and to a flight: it leaves its waiters, or is taken away once it has none.
FlightQuiet(l) ==
    \/ /\ flight'[l].waiters = flight[l].waiters
       /\ flight'[l].canceled = flight[l].canceled
       /\ flight'[l].listed => flight[l].listed /\ flight'[l].run # "none"
    \/ /\ Waiting(l) = {} /\ flight'[l].waiters = 0
       /\ ~flight'[l].canceled /\ ~flight'[l].listed

\* Such a step preserves the invariant.
LEMMA QuietKeeps ==
    ASSUME IInv, Shapes', CallsQuiet, \A l \in Call : FlightQuiet(l)
    PROVE IInv'
<1>1. \A l : Waiting(l)' = Waiting(l)
  BY DEF Waiting, CallsQuiet
<1>2. Led'
  <2>1. ASSUME NEW c \in Call, call'[c].pc = "wait"
        PROVE call'[c].leader \in Call /\ call'[call'[c].leader].pc \in Came
    BY <2>1 DEF IInv, Led, CallsQuiet
  <2>2. ASSUME NEW l \in Call, flight'[l].listed PROVE call'[l].pc \in Came /\ flight'[l].run # "none"
    <3>1. flight[l].listed /\ flight'[l].run # "none" BY <2>2 DEF FlightQuiet
    <3> QED BY <3>1 DEF IInv, Led, CallsQuiet
  <2> QED BY <2>1, <2>2 DEF Led
<1>3. Counted'
  <2> SUFFICES ASSUME NEW l \in Call
               PROVE /\ flight'[l].waiters \in Nat /\ Cardinality(Waiting(l)) <= flight'[l].waiters
                     /\ flight'[l].canceled => ~flight'[l].listed /\ Waiting(l) = {}
    BY <1>1 DEF Counted
  <2>1. CASE /\ flight'[l].waiters = flight[l].waiters
             /\ flight'[l].canceled = flight[l].canceled
             /\ flight'[l].listed => flight[l].listed /\ flight'[l].run # "none"
    BY <2>1 DEF IInv, Counted
  <2>2. CASE /\ Waiting(l) = {} /\ flight'[l].waiters = 0
             /\ ~flight'[l].canceled /\ ~flight'[l].listed
    BY SMTT(20), Z3T(20), <2>2, FS_EmptySet
  <2> QED BY <2>1, <2>2 DEF FlightQuiet
<1> QED BY <1>2, <1>3 DEF IInv

\* A call that comes, or a write that goes on: its record is replaced, and it
\* waits for no flight before or after.
LEMMA CallMoves ==
    ASSUME IInv, NEW c \in Call, NEW r, DOMAIN r = CallFields,
           call[c].pc \notin Came, r.pc # "wait",
           call' = [call EXCEPT ![c] = r], flight' = flight
    PROVE IInv'
<1>1. call' = [o \in Call |-> IF o = c THEN r ELSE call[o]]
  BY DEF IInv, Shapes
<1>2. Shapes'
  BY <1>1 DEF IInv, Shapes
<1>3. CallsQuiet
  BY <1>1 DEF CallsQuiet, Came
<1>4. \A l \in Call : FlightQuiet(l)
  BY DEF FlightQuiet, IInv, Led
<1> QED BY <1>2, <1>3, <1>4, QuietKeeps

\* A flight that goes on keeps its waiters.
LEMMA FlightMoves ==
    ASSUME IInv, NEW c \in Call, NEW from, NEW r, Flies(c, from, r), DOMAIN r = FlightFields,
           \/ /\ r.waiters = flight[c].waiters /\ r.canceled = flight[c].canceled
              /\ r.listed => flight[c].listed /\ r.run # "none"
           \/ Waiting(c) = {} /\ r.waiters = 0 /\ ~r.canceled /\ ~r.listed
    PROVE IInv'
<1>1. flight' = [o \in Call |-> IF o = c THEN r ELSE flight[o]] /\ call' = call
  BY DEF IInv, Shapes, Flies
<1>2. Shapes'
  BY <1>1 DEF IInv, Shapes
<1>3. CallsQuiet
  BY <1>1 DEF CallsQuiet
<1>4. \A l \in Call : FlightQuiet(l)
  BY <1>1 DEF FlightQuiet, IInv, Led
<1> QED BY <1>2, <1>3, <1>4, QuietKeeps

\* Every step of a flight, its landing included.
LEMMA FlightStepKeeps == ASSUME IInv, NEW c \in Call, FlightStep(c) PROVE IInv'
<1>1. DOMAIN flight[c] = FlightFields
  BY DEF IInv, Shapes
<1>2. CASE RouteConnection(c)
  BY <1>1, <1>2, FlightMoves DEF RouteConnection, FlightFields
<1>3. CASE RouteFollows(c)
  BY <1>1, <1>3, FlightMoves DEF RouteFollows, FlightFields
<1>4. CASE Stamp(c)
  BY <1>1, <1>4, FlightMoves DEF Stamp, FlightFields
<1>5. CASE Get(c)
  BY <1>1, <1>5, FlightMoves DEF Get, FlightFields
<1>6. CASE Query(c)
  BY <1>1, <1>6, FlightMoves DEF Query, FlightFields
<1>7. CASE Store(c)
  BY <1>1, <1>7, FlightMoves DEF Store, FlightFields
<1>8. CASE Land(c)
  <2>1. CASE \E o \in Call : call[o].leader = c
    BY <1>1, <1>8, <2>1, FlightMoves DEF Land, FlightFields
  <2>2. CASE ~\E o \in Call : call[o].leader = c
    <3>1. Waiting(c) = {} BY <2>2 DEF Waiting
    <3>2. Flies(c, "end", Grounded) BY <1>8, <2>2 DEF Land
    <3>3. DOMAIN Grounded = FlightFields /\ Grounded.waiters = 0 /\ ~Grounded.canceled /\ ~Grounded.listed
      BY DEF Grounded, FlightFields
    <3> QED BY <3>1, <3>2, <3>3, FlightMoves
  <2> QED BY <2>1, <2>2
<1> QED BY <1>2, <1>3, <1>4, <1>5, <1>6, <1>7, <1>8 DEF FlightStep

\* A call joins a flight of the table, which nobody canceled, or begins one of its
\* own, for which nobody can be waiting.
LEMMA JoinKeeps == ASSUME IInv, NEW c \in Call, Join(c) PROVE IInv'
<1>1. DOMAIN call[c] = CallFields /\ DOMAIN flight[c] = FlightFields /\ call[c].pc = "do"
  BY DEF IInv, Shapes, Join
<1>2. ASSUME NEW l \in Call, NEW r, DOMAIN r = FlightFields, l = c \/ call[l].pc \in Came,
             call' = [call EXCEPT ![c].pc = "wait", ![c].leader = l],
             flight' = [flight EXCEPT ![l] = r],
             r.waiters \in Nat, Cardinality(Waiting(l)) + 1 <= r.waiters, ~r.canceled, r.run # "none"
      PROVE IInv'
  <2>1. /\ call' = [o \in Call |-> IF o = c THEN [call[c] EXCEPT !.pc = "wait", !.leader = l] ELSE call[o]]
        /\ flight' = [o \in Call |-> IF o = l THEN r ELSE flight[o]]
    BY <1>2 DEF IInv, Shapes
  <2>2. Shapes'
    <3>1. DOMAIN [call[c] EXCEPT !.pc = "wait", !.leader = l] = CallFields
      BY <1>1
    <3> QED BY <1>2, <2>1, <3>1 DEF IInv, Shapes
  <2>3. call'[c].pc = "wait" /\ call'[c].leader = l /\ \A o \in Call \ {c} : call'[o] = call[o]
    BY <1>1, <2>1 DEF CallFields
  <2>4. Led'
    BY SMTT(20), Z3T(20), <1>1, <1>2, <2>1, <2>3 DEF IInv, Led, Came
  <2>5. Waiting(l)' = Waiting(l) \cup {c} /\ c \notin Waiting(l)
    BY <1>1, <2>3 DEF Waiting
  <2>6. Cardinality(Waiting(l)') = Cardinality(Waiting(l)) + 1
    BY <2>5, WaitingFinite, FS_AddElement
  <2>7. \A o \in Call \ {l} : Waiting(o)' = Waiting(o)
    BY <1>1, <2>3 DEF Waiting
  <2>8. \A o \in Call \ {l} : flight'[o] = flight[o]
    BY <2>1
  <2>9. flight'[l] = r
    BY <2>1
  <2>10. Counted'
    BY <1>2, <2>6, <2>7, <2>8, <2>9 DEF IInv, Counted
  <2> QED BY <2>2, <2>4, <2>10 DEF IInv
<1>3. ASSUME NEW l \in Listed(call[c].key),
             call' = [call EXCEPT ![c].pc = "wait", ![c].leader = l],
             flight' = [flight EXCEPT ![l].waiters = @ + 1]
      PROVE IInv'
  <2> DEFINE r == [flight[l] EXCEPT !.waiters = @ + 1]
  <2>1. l \in Call /\ flight[l].listed /\ call[l].pc \in Came /\ flight[l].run # "none" /\ DOMAIN flight[l] = FlightFields
    BY <1>3 DEF Listed, IInv, Led, Shapes
  <2>2. flight' = [flight EXCEPT ![l] = r]
    BY <1>3
  <2>3. DOMAIN r = FlightFields /\ r.waiters = flight[l].waiters + 1 /\ r.canceled = flight[l].canceled /\ r.run # "none"
    BY <2>1 DEF FlightFields
  <2>4. /\ flight[l].waiters \in Nat /\ Cardinality(Waiting(l)) <= flight[l].waiters /\ ~flight[l].canceled
        /\ Cardinality(Waiting(l)) \in Nat
    BY <2>1, WaitingFinite DEF IInv, Counted
  <2>5. r.waiters \in Nat /\ Cardinality(Waiting(l)) + 1 <= r.waiters /\ ~r.canceled
    BY SMTT(20), Z3T(20), <2>3, <2>4
  <2> HIDE DEF r
  <2> QED BY <1>2, <1>3, <2>1, <2>2, <2>3, <2>5
<1>4. ASSUME NEW r, DOMAIN r = FlightFields, r.waiters = 1, ~r.canceled, r.run # "none",
             call' = [call EXCEPT ![c].pc = "wait", ![c].leader = c],
             flight' = [flight EXCEPT ![c] = r]
      PROVE IInv'
  <2>1. Waiting(c) = {}
    BY <1>1 DEF Waiting, IInv, Led, Came
  <2>2. Cardinality(Waiting(c)) = 0
    BY <2>1, FS_EmptySet
  <2>3. r.waiters \in Nat /\ Cardinality(Waiting(c)) + 1 <= r.waiters
    BY <1>4, <2>2
  <2> QED BY <1>2, <1>4, <2>3
<1>5. CASE \E l \in Listed(call[c].key) :
             /\ call' = [call EXCEPT ![c].pc = "wait", ![c].leader = l]
             /\ flight' = [flight EXCEPT ![l].waiters = @ + 1]
  BY <1>3, <1>5
<1>6. CASE /\ Listed(call[c].key) = {}
           /\ call' = [call EXCEPT ![c].pc = "wait", ![c].leader = c]
           /\ flight' = [flight EXCEPT ![c] = [Grounded EXCEPT
                 !.run = "route", !.session = call[c].session, !.key = call[c].key, !.listed = TRUE, !.waiters = 1,
                 !.fresh = done[call[c].entity],
                 !.owed = [s \in Session |-> IF s \in recent THEN own[s][call[c].entity] ELSE 0]]]
  <2> DEFINE r == [Grounded EXCEPT
                 !.run = "route", !.session = call[c].session, !.key = call[c].key, !.listed = TRUE, !.waiters = 1,
                 !.fresh = done[call[c].entity],
                 !.owed = [s \in Session |-> IF s \in recent THEN own[s][call[c].entity] ELSE 0]]
  <2>1. DOMAIN r = FlightFields /\ r.waiters = 1 /\ ~r.canceled /\ r.run # "none"
    BY DEF Grounded, FlightFields
  <2> HIDE DEF r
  <2> QED BY <1>4, <1>6, <2>1 DEF r
<1> QED BY <1>5, <1>6 DEF Join

\* A call leaves its flight.  The last to leave cancels it, and is the last that
\* waited.
LEMMA LeaveKeeps == ASSUME IInv, NEW c \in Call, LeaveFlight(c) PROVE IInv'
<1>0. PICK l : l = call[c].leader OBVIOUS
<1>n. PICK n : n = flight[l].waiters - 1 OBVIOUS
<1> DEFINE r == [flight[l] EXCEPT !.waiters = n, !.canceled = @ \/ n = 0, !.listed = @ /\ n # 0]
<1>1. l \in Call /\ call[c].pc = "wait" /\ DOMAIN flight[l] = FlightFields /\ call[l].pc \in Came
  BY <1>0 DEF LeaveFlight, IInv, Shapes, Led
<1>2. /\ call' = [o \in Call |-> IF o = c THEN Gone ELSE call[o]]
      /\ flight' = [o \in Call |-> IF o = l THEN r ELSE flight[o]]
  BY <1>0, <1>n, <1>1 DEF LeaveFlight, IInv, Shapes
<1>3. DOMAIN Gone = CallFields /\ Gone.pc = "gone"
  BY DEF Gone, Idle, CallFields
<1>4. /\ DOMAIN r = FlightFields /\ r.waiters = n /\ r.run = flight[l].run
      /\ r.canceled = (flight[l].canceled \/ n = 0) /\ r.listed = (flight[l].listed /\ n # 0)
  BY <1>1 DEF FlightFields
<1>5. c \in Waiting(l) /\ Waiting(l)' = Waiting(l) \ {c}
  BY <1>0, <1>1, <1>2, <1>3 DEF Waiting
<1>6. /\ Cardinality(Waiting(l)') = Cardinality(Waiting(l)) - 1
      /\ Cardinality(Waiting(l)) \in Nat
  BY <1>5, WaitingFinite, FS_RemoveElement
<1>7. Waiting(l) # {} /\ Cardinality(Waiting(l)) >= 1
  BY SMTT(20), Z3T(20), <1>5, <1>6, WaitingFinite, FS_EmptySet
<1>8. flight[l].waiters \in Nat /\ Cardinality(Waiting(l)) <= flight[l].waiters /\ ~flight[l].canceled
  BY <1>1, <1>7 DEF IInv, Counted
<1>9. n \in Nat /\ Cardinality(Waiting(l)') <= n
  BY <1>n, <1>6, <1>7, <1>8
<1>10. n = 0 => Waiting(l)' = {}
  <2>1. n = 0 => Cardinality(Waiting(l)') = 0
    BY <1>6, <1>7, <1>9
  <2>2. IsFiniteSet(Waiting(l)')
    BY <1>5, WaitingFinite, FS_RemoveElement
  <2> QED BY <2>1, <2>2, FS_EmptySet
<1>11. \A o \in Call \ {l} : Waiting(o)' = Waiting(o) /\ flight'[o] = flight[o]
  BY <1>0, <1>1, <1>2, <1>3 DEF Waiting
<1>12. flight'[l] = r
  BY <1>1, <1>2
<1> HIDE DEF r
<1>13. Counted'
  <2>1. ASSUME NEW o \in Call \ {l}
        PROVE /\ flight'[o].waiters \in Nat /\ Cardinality(Waiting(o)') <= flight'[o].waiters
              /\ flight'[o].canceled => ~flight'[o].listed /\ Waiting(o)' = {}
    BY <1>11 DEF IInv, Counted
  <2>2. /\ flight'[l].waiters \in Nat /\ Cardinality(Waiting(l)') <= flight'[l].waiters
        /\ flight'[l].canceled => ~flight'[l].listed /\ Waiting(l)' = {}
    BY <1>4, <1>8, <1>9, <1>10, <1>12
  <2> QED BY <2>1, <2>2 DEF Counted
<1>14. Shapes'
  BY <1>2, <1>3, <1>4 DEF IInv, Shapes
<1>15. Led'
  <2>1. ASSUME NEW o \in Call, call'[o].pc = "wait"
        PROVE call'[o].leader \in Call /\ call'[call'[o].leader].pc \in Came
    BY <1>2, <1>3, <2>1 DEF IInv, Led, Came
  <2>2. ASSUME NEW o \in Call, flight'[o].listed PROVE flight[o].listed /\ flight'[o].run = flight[o].run
    BY <1>4, <1>11, <1>12, <2>2
  <2>3. ASSUME NEW o \in Call, flight'[o].listed PROVE call'[o].pc \in Came /\ flight'[o].run # "none"
    BY <1>2, <1>3, <2>2, <2>3 DEF IInv, Led, Came
  <2> QED BY <2>1, <2>3 DEF Led
<1> QED BY <1>13, <1>14, <1>15 DEF IInv

\* A call has its answer; the last takes the flight away.
LEMMA AnswerKeeps == ASSUME IInv, NEW c \in Call, Answer(c) PROVE IInv'
<1>0. PICK l : l = call[c].leader OBVIOUS
<1>1. l \in Call /\ call[c].pc = "wait"
  BY <1>0 DEF Answer, IInv, Led
<1>2. call' = [o \in Call |-> IF o = c THEN Gone ELSE call[o]]
  BY DEF Answer, IInv, Shapes
<1>3. DOMAIN Gone = CallFields /\ Gone.pc = "gone"
  BY DEF Gone, Idle, CallFields
<1>4. /\ DOMAIN Grounded = FlightFields /\ Grounded.waiters = 0
      /\ ~Grounded.canceled /\ ~Grounded.listed
  BY DEF Grounded, FlightFields
<1>5. \A o \in Call : Waiting(o)' \subseteq Waiting(o)
  BY <1>2, <1>3 DEF Waiting
<1>6. \A o \in Call : Cardinality(Waiting(o)') <= Cardinality(Waiting(o)) /\ Cardinality(Waiting(o)') \in Nat
  BY <1>5, WaitingFinite, FS_Subset, FS_CardinalityType
<1>7. CASE flight' = flight
  <2>1. Shapes'
    BY <1>2, <1>3, <1>7 DEF IInv, Shapes
  <2>2. Led'
    BY <1>2, <1>3, <1>7 DEF IInv, Led, Came
  <2>3. Counted'
    <3> SUFFICES ASSUME NEW o \in Call
                 PROVE /\ flight[o].waiters \in Nat /\ Cardinality(Waiting(o)') <= flight[o].waiters
                       /\ flight[o].canceled => ~flight[o].listed /\ Waiting(o)' = {}
      BY <1>7 DEF Counted
    <3>1. /\ flight[o].waiters \in Nat /\ Cardinality(Waiting(o)) <= flight[o].waiters
          /\ flight[o].canceled => ~flight[o].listed /\ Waiting(o) = {}
      BY DEF IInv, Counted
    <3>2. Cardinality(Waiting(o)) \in Nat BY WaitingFinite
    <3> QED BY <1>5, <1>6, <3>1, <3>2
  <2> QED BY <2>1, <2>2, <2>3 DEF IInv
<1>8. CASE (\A o \in Call \ {c} : call[o].leader # l) /\ flight' = [flight EXCEPT ![l] = Grounded]
  <2>1. flight' = [o \in Call |-> IF o = l THEN Grounded ELSE flight[o]]
    BY <1>8 DEF IInv, Shapes
  <2>2. Shapes'
    BY <1>2, <1>3, <1>4, <2>1 DEF IInv, Shapes
  <2>3. Led'
    BY <1>2, <1>3, <1>4, <2>1 DEF IInv, Led, Came
  <2>4. Waiting(l)' = {}
    BY <1>0, <1>2, <1>3, <1>8 DEF Waiting
  <2>5. Counted'
    <3>1. ASSUME NEW o \in Call, o # l
          PROVE /\ flight'[o].waiters \in Nat /\ Cardinality(Waiting(o)') <= flight'[o].waiters
                /\ flight'[o].canceled => ~flight'[o].listed /\ Waiting(o)' = {}
      <4>1. flight'[o] = flight[o] BY <2>1, <3>1
      <4>2. /\ flight[o].waiters \in Nat /\ Cardinality(Waiting(o)) <= flight[o].waiters
            /\ flight[o].canceled => ~flight[o].listed /\ Waiting(o) = {}
        BY DEF IInv, Counted
      <4>3. Cardinality(Waiting(o)) \in Nat BY WaitingFinite
      <4> QED BY <1>5, <1>6, <4>1, <4>2, <4>3
    <3>2. flight'[l] = Grounded BY <1>1, <2>1
    <3>3. Cardinality(Waiting(l)') = 0 BY <2>4, FS_EmptySet
    <3> QED BY <1>4, <2>4, <3>1, <3>2, <3>3 DEF Counted
  <2> QED BY <2>2, <2>3, <2>5 DEF IInv
<1> QED BY <1>0, <1>7, <1>8 DEF Answer

\* A write waits for no flight.
LEMMA WriteKeeps ==
    ASSUME IInv, NEW c \in Call, WriteExec(c) \/ WriteRecord(c) \/ WriteInvalidate(c)
    PROVE IInv'
<1>1. DOMAIN call[c] = CallFields
  BY DEF IInv, Shapes
<1>2. CASE WriteExec(c)
  <2> DEFINE s == Settle(c)
  <2>1. DOMAIN s = CallFields /\ s.pc = "record"
    BY <1>1 DEF Settle, CallFields
  <2>2. call[c].pc = "exec" /\ flight' = flight
    BY <1>2 DEF WriteExec
  <2>3. \A v : DOMAIN [s EXCEPT !.write = v] = CallFields /\ [s EXCEPT !.write = v].pc = "record"
    BY <2>1 DEF CallFields
  <2>4. PICK r : /\ call' = [call EXCEPT ![c] = r]
                 /\ r = s \/ \E v : r = [s EXCEPT !.write = v]
    BY <1>2 DEF WriteExec
  <2> HIDE DEF s
  <2>5. DOMAIN r = CallFields /\ r.pc = "record"
    BY <2>1, <2>3, <2>4
  <2> QED BY <2>2, <2>4, <2>5, CallMoves DEF Came
<1>3. CASE WriteRecord(c)
  <2> DEFINE r == [call[c] EXCEPT !.pc = "invalidate"]
  <2>1. call' = [call EXCEPT ![c] = r] /\ flight' = flight /\ call[c].pc = "record"
    BY <1>3 DEF WriteRecord
  <2>2. DOMAIN r = CallFields /\ r.pc = "invalidate"
    BY <1>1 DEF CallFields
  <2> HIDE DEF r
  <2> QED BY <2>1, <2>2, CallMoves DEF Came
<1>4. CASE WriteInvalidate(c)
  <2>1. PICK t : /\ call' = [call EXCEPT ![c] = IF call[c].todo \ {t} = {} THEN Gone
                                                ELSE [call[c] EXCEPT !.todo = call[c].todo \ {t}]]
                 /\ flight' = flight /\ call[c].pc = "invalidate"
    BY <1>4 DEF WriteInvalidate
  <2> DEFINE r == IF call[c].todo \ {t} = {} THEN Gone ELSE [call[c] EXCEPT !.todo = call[c].todo \ {t}]
  <2>2. DOMAIN Gone = CallFields /\ Gone.pc = "gone"
    BY DEF Gone, Idle, CallFields
  <2>3. DOMAIN r = CallFields /\ r.pc \in {"gone", "invalidate"}
    BY <1>1, <2>1, <2>2 DEF CallFields
  <2> HIDE DEF r
  <2> QED BY <2>1, <2>3, CallMoves DEF Came, r
<1> QED BY <1>2, <1>3, <1>4

\* A call comes, as the first and only time.
LEMMA BeginKeeps ==
    ASSUME IInv, NEW c \in Call,
           \/ \E s \in Session, g \in Scope, e \in Readable : ReadBegin(c, s, g, e)
           \/ \E s \in Session, e \in Entity : WriteBegin(c, s, e)
    PROVE IInv'
<1>1. ASSUME NEW s, NEW g, NEW e, ReadBegin(c, s, g, e) PROVE IInv'
  <2> DEFINE r == [Idle EXCEPT !.pc = "do", !.session = s, !.entity = e,
                               !.key = KeyOf(s, g, e), !.after = s \in recent]
  <2>1. call' = [call EXCEPT ![c] = r] /\ flight' = flight /\ call[c].pc = "none"
    BY <1>1 DEF ReadBegin, Comes
  <2>2. DOMAIN r = CallFields /\ r.pc = "do"
    BY DEF Idle, CallFields
  <2> HIDE DEF r
  <2> QED BY <2>1, <2>2, CallMoves DEF Came
<1>2. ASSUME NEW s, NEW e, WriteBegin(c, s, e) PROVE IInv'
  <2> DEFINE r == [Idle EXCEPT !.pc = "exec", !.session = s, !.entity = e]
  <2>1. call' = [call EXCEPT ![c] = r] /\ flight' = flight /\ call[c].pc = "none"
    BY <1>2 DEF WriteBegin, Comes
  <2>2. DOMAIN r = CallFields /\ r.pc = "exec"
    BY DEF Idle, CallFields
  <2> HIDE DEF r
  <2> QED BY <2>1, <2>2, CallMoves DEF Came
<1> QED BY <1>1, <1>2

\* The end of a window changes only what is owed.
LEMMA WindowKeeps == ASSUME IInv, NEW s, WindowEnds(s) PROVE IInv'
<1>1. call' = call /\ flight' = [c \in Call |-> [flight[c] EXCEPT !.owed[s] = 0]]
  BY DEF WindowEnds
<1>2. ASSUME NEW c \in Call
      PROVE /\ DOMAIN flight'[c] = FlightFields
            /\ flight'[c].waiters = flight[c].waiters /\ flight'[c].canceled = flight[c].canceled
            /\ flight'[c].listed = flight[c].listed /\ flight'[c].run = flight[c].run
  <2>1. DOMAIN flight[c] = FlightFields BY DEF IInv, Shapes
  <2> QED BY <1>1, <2>1 DEF FlightFields
<1>3. Shapes'
  BY <1>1, <1>2 DEF IInv, Shapes
<1>4. \A l \in Call : FlightQuiet(l)
  BY <1>2 DEF FlightQuiet, IInv, Led
<1>5. CallsQuiet
  BY <1>1 DEF CallsQuiet
<1> QED BY <1>3, <1>4, <1>5, QuietKeeps

\* What is counted is counted throughout.
LEMMA Shared == Spec => []IInv
<1>1. Init => IInv
  <2> SUFFICES ASSUME Init PROVE IInv OBVIOUS
  <2>1. call = [c \in Call |-> Idle] /\ flight = [c \in Call |-> Grounded]
    BY DEF Init
  <2>2. /\ DOMAIN Idle = CallFields /\ Idle.pc = "none" /\ DOMAIN Grounded = FlightFields
        /\ Grounded.waiters = 0 /\ ~Grounded.canceled /\ ~Grounded.listed
    BY DEF Idle, Grounded, CallFields, FlightFields
  <2>3. \A l : Waiting(l) = {}
    BY <2>1, <2>2 DEF Waiting
  <2>4. \A l : Cardinality(Waiting(l)) = 0
    BY <2>3, FS_EmptySet
  <2>5. Shapes BY <2>1, <2>2 DEF Shapes
  <2>6. Led BY <2>1, <2>2 DEF Led
  <2>7. Counted BY <2>1, <2>2, <2>3, <2>4 DEF Counted
  <2> QED BY <2>5, <2>6, <2>7 DEF IInv
<1>2. IInv /\ [Next]_vars => IInv'
  <2> SUFFICES ASSUME IInv, [Next]_vars PROVE IInv' OBVIOUS
  <2>1. ASSUME call' = call, flight' = flight PROVE IInv'
    BY <2>1 DEF IInv, Shapes, Led, Counted, Waiting
  <2>2. CASE \E c \in Call : CallStep(c) \/ FlightStep(c)
    BY <2>2, JoinKeeps, LeaveKeeps, AnswerKeeps, WriteKeeps, FlightStepKeeps DEF CallStep
  <2>3. CASE \E c \in Reader, s \in Session, g \in Scope, e \in Readable : ReadBegin(c, s, g, e)
    BY <2>3, BeginKeeps DEF Call
  <2>4. CASE \E c \in Writer, s \in Session, e \in Entity : WriteBegin(c, s, e)
    BY <2>4, BeginKeeps DEF Call
  <2>5. CASE \E s \in Session : WindowEnds(s)
    BY <2>5, WindowKeeps
  <2>6. CASE \/ \E s \in Scope, e \in Readable : Evict(s, e)
             \/ \E d \in Database : Replicate(d)
             \/ Rest
             \/ UNCHANGED vars
    BY <2>1, <2>6 DEF Evict, Replicate, Rest, vars
  <2> QED BY <2>2, <2>3, <2>4, <2>5, <2>6 DEF Next
<1> QED BY <1>1, <1>2, PTL DEF Spec

\* However many calls share a read, come and leave, whoever waits for a read waits
\* for one that was not canceled: singleflight takes a read out of its table in
\* the step in which the last waiter leaves.
THEOREM NoCanceledRead == Spec => []CanceledAlone
<1>1. IInv => CanceledAlone
  BY DEF IInv, Led, Counted, Waiting, CanceledAlone
<1> QED BY <1>1, Shared, PTL

-----------------------------------------------------------------------------
(* Freshness.  What is invalidated covers what is written (Covered, by the *)
(* rounds of compute); the invariant FInv; one lemma per action.           *)
-----------------------------------------------------------------------------
(* Induction over the rounds of a computation.  The induction theorems of   *)
(* the library take a predicate, which no prover can be given; that a set   *)
(* of numbers has a least one is enough.                                    *)

\* A set of numbers has a least one.
LEMMA Least == ASSUME NEW S \in SUBSET Nat, S # {} PROVE \E m \in S : \A k \in S : m <= k
<1>1. PICK m \in S : \A k \in S : ~(<<k, m>> \in OpToRel(<, Nat)) BY NatLessThanWellFounded, WFMin
<1>2. \A k \in S : ~(k < m) BY <1>1 DEF OpToRel
<1> QED BY SMTT(20), Z3T(20), <1>2

\* What holds at 0 and of each number after one it holds of holds up to N.
LEMMA UpTo ==
    ASSUME NEW N \in Nat, NEW S, 0 \in S, \A n \in 0..(N - 1) : n \in S => n + 1 \in S
    PROVE \A n \in 0..N : n \in S
<1>1. PICK T : T = (0..N) \ S OBVIOUS
<1> SUFFICES ASSUME T # {} PROVE FALSE BY <1>1
<1>2. PICK m \in T : \A k \in T : m <= k
  <2>1. T \in SUBSET Nat BY SMTT(20), Z3T(20), <1>1
  <2> QED BY <2>1, Least
<1>3. m # 0 BY <1>1
<1>4. m - 1 \in 0..(N - 1) /\ m - 1 \in S /\ m - 1 + 1 = m BY <1>1, <1>2, <1>3
<1> QED BY <1>1, <1>4

\* g is N rounds of F from a.
Iterates(g, F, a, V, N) == g \in [0..N -> V] /\ g[0] = a /\ \A i \in 1..N : g[i] = F[g[i - 1]]

\* A function may be applied any number of times.
LEMMA Rounds == ASSUME NEW V, NEW F \in [V -> V], NEW a \in V, NEW N \in Nat PROVE \E g : Iterates(g, F, a, V, N)
<1>0. PICK S : S = {n \in 0..N : \E g : Iterates(g, F, a, V, n)} OBVIOUS
<1>1. 0 \in S
  <2> DEFINE g == [i \in 0..0 |-> a]
  <2>1. Iterates(g, F, a, V, 0) BY DEF Iterates
  <2> HIDE DEF g
  <2> QED BY <1>0, <2>1
<1>2. ASSUME NEW n \in 0..(N - 1), n \in S PROVE n + 1 \in S
  <2>1. PICK g : Iterates(g, F, a, V, n) BY <1>0, <1>2
  <2> DEFINE h == [i \in 0..(n + 1) |-> IF i = n + 1 THEN F[g[n]] ELSE g[i]]
  <2>2. h \in [0..(n + 1) -> V] /\ h[0] = a BY SMTT(20), Z3T(20), <2>1 DEF Iterates
  <2>3. ASSUME NEW i \in 1..(n + 1) PROVE h[i] = F[h[i - 1]]
    <3>1. CASE i = n + 1 BY <3>1
    <3>2. CASE i # n + 1 BY SMTT(20), Z3T(20), <2>1, <3>2 DEF Iterates
    <3> QED BY <3>1, <3>2
  <2> HIDE DEF h
  <2>4. Iterates(h, F, a, V, n + 1) BY <2>2, <2>3 DEF Iterates
  <2>5. n + 1 \in 0..N OBVIOUS
  <2> QED BY <1>0, <2>4, <2>5
<1>3. N \in S BY SMTT(20), Z3T(20), <1>1, <1>2, UpTo
<1> QED BY <1>0, <1>3

-----------------------------------------------------------------------------
(* What a write invalidates.                                               *)

\* A round of the worklist: the entities of r and those they cascade to.
More(rg, r) == r \cup (DOMAIN rg \cap UNION {rg[e].cascades : e \in r})

\* The rounds of Visited, one by one.
LEMMA VisitedRounds ==
    ASSUME NEW rg, IsFiniteSet(DOMAIN rg), NEW s, NEW C, C = Cardinality(DOMAIN rg)
    PROVE \E h \in [0..C -> SUBSET DOMAIN rg] :
            /\ h[0] = s \cap DOMAIN rg /\ \A n \in 1..C : h[n] = More(rg, h[n - 1])
            /\ Visited(rg, s) = h[C]
<1>1. C \in Nat BY FS_CardinalityType
<1>0. PICK names, a, V : names = DOMAIN rg /\ a = s \cap names /\ V = SUBSET names OBVIOUS
<1>2. PICK F : F = [r \in V |-> More(rg, r)] OBVIOUS
<1>3. F \in [V -> V] /\ a \in V BY <1>0, <1>2 DEF More
<1>4. PICK g : Iterates(g, F, a, V, C) BY <1>1, <1>3, Rounds
<1>5. ASSUME NEW n \in 0..C PROVE g[n] = IF n = 0 THEN a ELSE More(rg, g[n - 1])
  <2>1. CASE n = 0 BY <1>4, <2>1 DEF Iterates
  <2>2. CASE n # 0
    <3>1. n \in 1..C /\ n - 1 \in 0..C BY <1>1, <2>2
    <3> QED BY <1>2, <1>4, <2>2, <3>1 DEF Iterates
  <2> QED BY <2>1, <2>2
<1>6. g = [n \in 0..C |-> IF n = 0 THEN a ELSE More(rg, g[n - 1])]
  <2>1. g = [n \in 0..C |-> g[n]] BY <1>4 DEF Iterates
  <2> QED BY <1>5, <2>1
<1>7. PICK h : h = CHOOSE x : x = [n \in 0..C |-> IF n = 0 THEN a ELSE More(rg, x[n - 1])] OBVIOUS
<1>8. h = [n \in 0..C |-> IF n = 0 THEN a ELSE More(rg, h[n - 1])] BY <1>6, <1>7
<1>9. Visited(rg, s) = h[C] BY <1>0, <1>7 DEF Visited, More
<1>10. h[0] = a /\ \A n \in 1..C : h[n] = More(rg, h[n - 1])
  <2>1. \A n \in 0..C : h[n] = IF n = 0 THEN a ELSE More(rg, h[n - 1]) BY <1>8
  <2> QED BY SMTT(20), Z3T(20), <1>1, <2>1
<1>11. \A n \in 0..C : h[n] \in V
  <2>0. PICK S : S = {n \in 0..C : h[n] \in V} OBVIOUS
  <2>1. 0 \in S BY SMTT(20), Z3T(20), <1>1, <1>3, <1>10, <2>0
  <2>2. ASSUME NEW n \in 0..(C - 1), n \in S PROVE n + 1 \in S
    <3>1. n + 1 \in 1..C /\ n + 1 \in 0..C /\ n + 1 - 1 = n BY <1>1
    <3>2. h[n + 1] = More(rg, h[n]) BY SMTT(20), Z3T(20), <1>10, <3>1
    <3>3. h[n + 1] \in V BY <1>0, <2>0, <2>2, <3>2 DEF More
    <3> QED BY <2>0, <3>1, <3>3
  <2>3. \A n \in 0..C : n \in S BY <1>1, <2>1, <2>2, UpTo
  <2> QED BY <2>0, <2>3
<1>12. h \in [0..C -> V]
  <2>1. h = [n \in 0..C |-> h[n]] BY <1>8
  <2> QED BY <1>11, <2>1
<1> QED BY <1>0, <1>9, <1>10, <1>12

\* The worklist ends with all that the entities of s reach: as many rounds as
\* there are entities are enough, since each but the last finds a new one.
LEMMA VisitedClosed ==
    ASSUME NEW rg, IsFiniteSet(DOMAIN rg), NEW s
    PROVE /\ Visited(rg, s) \subseteq DOMAIN rg /\ s \cap DOMAIN rg \subseteq Visited(rg, s)
          /\ \A v \in Visited(rg, s) : rg[v].cascades \cap DOMAIN rg \subseteq Visited(rg, s)
<1>0. PICK C, names : C = Cardinality(DOMAIN rg) /\ names = DOMAIN rg OBVIOUS
<1>1. C \in Nat BY <1>0, FS_CardinalityType
<1>2. PICK h \in [0..C -> SUBSET names] :
            /\ h[0] = s \cap names /\ \A n \in 1..C : h[n] = More(rg, h[n - 1])
            /\ Visited(rg, s) = h[C]
  BY SMTT(20), Z3T(20), <1>0, VisitedRounds
<1>3. ASSUME NEW n \in 0..(C - 1)
      PROVE n \in 0..C /\ n + 1 \in 0..C /\ h[n] \subseteq names /\ h[n + 1] \subseteq names /\ h[n + 1] = More(rg, h[n])
  <2>1. n \in 0..C /\ n + 1 \in 1..C /\ n + 1 \in 0..C /\ n + 1 - 1 = n BY <1>1
  <2> QED BY SMTT(20), Z3T(20), <1>2, <2>1
<1>4. s \cap names \subseteq h[C]
  <2>0. PICK S : S = {n \in 0..C : s \cap names \subseteq h[n]} OBVIOUS
  <2>1. 0 \in S BY SMTT(20), Z3T(20), <1>1, <1>2, <2>0
  <2>2. ASSUME NEW n \in 0..(C - 1), n \in S PROVE n + 1 \in S BY <1>3, <2>0, <2>2 DEF More
  <2>3. \A n \in 0..C : n \in S BY <1>1, <2>1, <2>2, UpTo
  <2> QED BY SMTT(20), Z3T(20), <1>1, <2>0, <2>3
<1>5. \A r : r \subseteq names => IsFiniteSet(r) /\ Cardinality(r) \in Nat /\ Cardinality(r) <= C /\ (Cardinality(r) = C => r = names)
  BY <1>0, FS_Subset, FS_CardinalityType
<1>6. \A r, t : r \subseteq t /\ t \subseteq names /\ r # t => Cardinality(r) < Cardinality(t)
  <2> SUFFICES ASSUME NEW r, NEW t, r \subseteq t, t \subseteq names, r # t PROVE Cardinality(r) < Cardinality(t) OBVIOUS
  <2>1. IsFiniteSet(t) /\ Cardinality(r) \in Nat /\ Cardinality(t) \in Nat BY <1>5
  <2>2. Cardinality(r) <= Cardinality(t) /\ Cardinality(r) # Cardinality(t) BY <2>1, FS_Subset
  <2> QED BY <2>1, <2>2
<1>7. More(rg, h[C]) = h[C]
  <2>0. PICK S : S = {n \in 0..C : More(rg, h[n]) = h[n] \/ n <= Cardinality(h[n])} OBVIOUS
  <2>1. 0 \in S
    <3>1. 0 \in 0..C /\ h[0] \subseteq names BY SMTT(20), Z3T(20), <1>1, <1>2
    <3>2. 0 <= Cardinality(h[0]) BY <1>5, <3>1
    <3> QED BY <2>0, <3>1, <3>2
  <2>2. ASSUME NEW n \in 0..(C - 1), n \in S PROVE n + 1 \in S
    <3>1. CASE More(rg, h[n]) = h[n] BY <1>3, <2>0, <3>1
    <3>2. CASE More(rg, h[n]) # h[n]
      <4>1. n <= Cardinality(h[n]) BY <2>0, <2>2, <3>2
      <4>2. h[n] \subseteq h[n + 1] /\ h[n] # h[n + 1] /\ h[n + 1] \subseteq names BY <1>3, <3>2 DEF More
      <4>3. Cardinality(h[n]) < Cardinality(h[n + 1]) BY <1>6, <4>2
      <4>4. Cardinality(h[n]) \in Nat /\ Cardinality(h[n + 1]) \in Nat BY <1>3, <1>5
      <4>5. n + 1 <= Cardinality(h[n + 1]) BY <4>1, <4>3, <4>4
      <4> QED BY <1>3, <2>0, <4>5
    <3> QED BY <3>1, <3>2
  <2>3. C \in S
    <3>1. \A n \in 0..C : n \in S BY <1>1, <2>1, <2>2, UpTo
    <3> QED BY SMTT(20), Z3T(20), <1>1, <3>1
  <2>4. h[C] \subseteq names BY SMTT(20), Z3T(20), <1>1, <1>2
  <2>5. CASE C <= Cardinality(h[C])
    <3>1. h[C] = names BY <1>1, <1>5, <2>4, <2>5
    <3> QED BY <1>0, <3>1 DEF More
  <2> QED BY <2>0, <2>3, <2>5
<1>8. h[C] \subseteq names BY <1>1, <1>2
<1>9. ASSUME NEW v \in h[C] PROVE rg[v].cascades \cap names \subseteq h[C] BY <1>0, <1>7 DEF More
<1> QED BY <1>0, <1>2, <1>4, <1>8, <1>9

\* What the entities of s reach is visited, and of the database d when they are.
LEMMA Reached ==
    ASSUME NEW rg, IsRegistry(rg), NEW s, NEW f, f \in DOMAIN rg, Reaches(rg, s, f)
    PROVE /\ f \in Visited(rg, s)
          /\ \A d : (\A v \in s \cap DOMAIN rg : rg[v].database = d) => rg[f].database = d
<1>1. f \in Visited(rg, s) BY VisitedClosed DEF Reaches, IsRegistry
<1>2. ASSUME NEW d, \A v \in s \cap DOMAIN rg : rg[v].database = d PROVE rg[f].database = d
  <2>1. PICK r : r = {x \in DOMAIN rg : rg[x].database = d} OBVIOUS
  <2>2. r \in SUBSET DOMAIN rg /\ s \cap DOMAIN rg \subseteq r BY <1>2, <2>1
  <2>3. \A v \in r : rg[v].cascades \cap DOMAIN rg \subseteq r BY <2>1 DEF IsRegistry
  <2>4. f \in r BY <2>2, <2>3 DEF Reaches
  <2> QED BY <2>1, <2>4
<1> QED BY <1>1, <1>2

\* Compacting loses no target.
LEMMA Compacted ==
    ASSUME NEW rg, NEW T, NEW p, NEW x, [physical |-> p, relation |-> x] \in T
    PROVE \E u \in CompactTargets(T) : u.physical = p /\ (u.relation = x \/ u.relation = Whole)
<1>1. PICK t : t = [physical |-> p, relation |-> x] OBVIOUS
<1>2. PICK u : u = [t EXCEPT !.relation = IF [t EXCEPT !.relation = Whole] \in T THEN Whole ELSE @] OBVIOUS
<1>3. u \in CompactTargets(T) BY <1>1, <1>2 DEF CompactTargets
<1>4. u.physical = p /\ (u.relation = x \/ u.relation = Whole) BY <1>1, <1>2
<1> QED BY <1>3, <1>4

\* What a write may change is of the database it goes to, and is dropped by one
\* of its targets: whatever cascades, views, procedures and triggers there are,
\* compute leaves nothing out.
THEOREM Covered ==
    ASSUME NEW rg, IsRegistry(rg), NEW e \in DOMAIN rg, NEW f \in Changes(rg, e)
    PROVE \E t \in Compute(rg, e) : Drops(rg, t, f)
<1>0. PICK W : W = IF rg[e].procedure THEN rg[e].affects ELSE {e} OBVIOUS
<1>1. PICK V : V = Visited(rg, W) OBVIOUS
<1>2. PICK whole : whole = \/ rg[e].procedure /\ (W = {} \/ ~(W \subseteq DOMAIN rg))
                           \/ \E v \in V : rg[v].sideEffects \/ ~(rg[v].cascades \subseteq DOMAIN rg)
  OBVIOUS
<1>3. PICK T : T = {[physical |-> rg[v].database, relation |-> CacheRelation(rg, v)] : v \in V} OBVIOUS
<1>4. Compute(rg, e) = IF whole THEN WholeOf(rg, e) ELSE CompactTargets(T)
  BY <1>0, <1>1, <1>2, <1>3 DEF Compute
<1>5. f \in DOMAIN rg /\ rg[f].database = rg[e].database BY DEF Changes
<1>6. \/ rg[e].procedure /\ (W = {} \/ ~(W \subseteq DOMAIN rg))
      \/ \E v \in DOMAIN rg : Reaches(rg, W, v) /\ (rg[v].sideEffects \/ rg[v].derived \/ ~(rg[v].cascades \subseteq DOMAIN rg))
      \/ rg[f].derived \/ Reaches(rg, W, f)
  BY <1>0 DEF Changes
<1>7. V \subseteq DOMAIN rg /\ W \cap DOMAIN rg \subseteq V BY <1>1, VisitedClosed DEF IsRegistry
<1>8. \A v \in W \cap DOMAIN rg : rg[v].database = rg[e].database BY <1>0 DEF IsRegistry
<1>9. CASE whole
  <2>1. PICK t : t = [physical |-> rg[e].database, relation |-> Whole] OBVIOUS
  <2>2. t \in Compute(rg, e) BY <1>4, <1>9, <2>1 DEF WholeOf
  <2>3. Drops(rg, t, f) BY <1>5, <2>1 DEF Drops
  <2> QED BY <2>2, <2>3
<1>10. CASE ~whole
  <2>1. ASSUME NEW v \in V, rg[v].database = rg[e].database, v = f \/ rg[v].derived \/ rg[f].derived
        PROVE \E t \in Compute(rg, e) : Drops(rg, t, f)
    <3>1. PICK u \in CompactTargets(T) :
              u.physical = rg[v].database /\ (u.relation = CacheRelation(rg, v) \/ u.relation = Whole)
      <4>1. [physical |-> rg[v].database, relation |-> CacheRelation(rg, v)] \in T BY <1>3
      <4> QED BY SMTT(20), Z3T(20), <4>1, Compacted
    <3>2. Drops(rg, u, f) BY <1>5, <2>1, <3>1 DEF Drops, CacheRelation
    <3> QED BY <1>4, <1>10, <3>2
  <2>2. CASE Reaches(rg, W, f)
    <3>1. f \in V BY <1>1, <1>5, <2>2, Reached
    <3> QED BY <1>5, <2>1, <3>1
  <2>3. CASE rg[f].derived
    <3>1. W \cap DOMAIN rg # {} BY <1>0, <1>2, <1>10
    <3> QED BY <1>7, <1>8, <2>1, <2>3, <3>1
  <2>4. ASSUME NEW v \in DOMAIN rg, Reaches(rg, W, v),
               rg[v].sideEffects \/ rg[v].derived \/ ~(rg[v].cascades \subseteq DOMAIN rg)
        PROVE \E t \in Compute(rg, e) : Drops(rg, t, f)
    <3>1. v \in V /\ rg[v].database = rg[e].database BY SMTT(20), Z3T(20), <1>1, <1>8, <2>4, Reached
    <3>2. rg[v].derived BY <1>2, <1>10, <2>4, <3>1
    <3> QED BY <2>1, <3>1, <3>2
  <2> QED BY <1>2, <1>6, <1>10, <2>2, <2>3, <2>4
<1> QED BY <1>9, <1>10

\* What a write may change can be read, and is of its database.
LEMMA ChangesAre == ASSUME NEW e \in Entity, NEW f \in Changes(reg, e) PROVE f \in Readable /\ DatabaseOf(f) = DatabaseOf(e)
BY DEF Changes, Readable, Entity, DatabaseOf

-----------------------------------------------------------------------------
(* The freshness of reads.                                                 *)

Writing == {"exec", "record", "invalidate"}

\* Versions and stamps are numbers, and a write that returned was carried out.
Numbers ==
    /\ reg \in Registries /\ replicated \in BOOLEAN /\ recent \subseteq Session /\ (~replicated => recent = {})
    /\ db \in [Database -> Nat] /\ rep \in [Database -> Nat] /\ stamps \in [Database -> Nat]
    /\ cache \in [Scope -> [Readable -> Nat]]
    /\ done \in [Readable -> Nat] /\ own \in [Session -> [Readable -> Nat]]
    /\ \A e \in Readable :
          done[e] <= db[DatabaseOf(e)] /\ \A s \in Session : own[s][e] <= db[DatabaseOf(e)]

\* A key is of an entity, and of the session or of all.
KeyOK(k, s) == \E g \in Scope, e \in Readable, x \in {s, None} : k = <<g, e, x>>

\* A read knows its key, and waits for a flight of that key; a write has the
\* targets it has yet to invalidate.
CallOK(c) ==
    LET r == call[c] IN
    /\ r.pc \in {"none", "gone", "do", "wait"} \cup Writing
    /\ r.pc \in {"do", "wait"} =>
          /\ r.session \in Session /\ KeyOK(r.key, r.session) /\ r.entity = r.key[2]
          /\ r.after => r.key[3] = r.session
    /\ r.pc = "wait" => flight[r.leader].run # "none" /\ flight[r.leader].key = r.key
    /\ r.pc \in Writing =>
          r.session \in Session /\ r.entity \in Entity /\ r.write \in Nat /\ r.write <= db[DatabaseOf(r.entity)]
    /\ r.pc \in {"record", "invalidate"} => r.todo \subseteq Compute(reg, r.entity)
    /\ r.pc = "record" => r.todo = Compute(reg, r.entity)
CallsOK == \A c \in Call : CallOK(c)

\* A flight owes its waiters what was written before it, and has it: it goes
\* past the cache to the primary for the session that is owed something.
Aloft(f) ==
    LET e == f.key[2]
        d == DatabaseOf(e)
    IN
    /\ f.run \in {"route", "follow", "stamp", "get", "query", "set", "end", "done"}
    /\ f.session \in Session /\ KeyOK(f.key, f.session)
    /\ f.got \in Nat /\ f.fresh \in Nat /\ f.stamp \in Nat /\ f.owed \in [Session -> Nat]
    /\ f.fresh <= done[e]
    /\ \A s \in Session : f.owed[s] <= db[d] /\ (f.owed[s] # 0 => s \in recent)
    /\ f.run \in {"get", "query", "set"} => f.stamp <= stamps[d]
    /\ f.run \in {"route", "follow", "stamp", "get", "query"} => f.got = 0
    /\ f.run \in {"follow", "stamp", "get", "query", "set"} =>
          f.primary \/ (replicated /\ (f.key[3] = f.session => f.owed[f.session] = 0))
    /\ f.run \in {"stamp", "get", "query", "set"} /\ f.key[3] = f.session /\ ~f.follows => f.owed[f.session] = 0
    /\ f.got # 0 /\ ~replicated => f.got >= f.fresh
    /\ f.got # 0 /\ f.key[3] = f.session => f.got >= f.owed[f.session]
FlightOK(l) == flight[l].run # "none" => Aloft(flight[l])
FlightsOK == \A l \in Call : FlightOK(l)

\* No entry of e is older than version v, and none such will be stored.
NoneOlder(e, v) ==
    /\ \A g \in Scope : cache[g][e] # 0 => cache[g][e] >= v
    /\ \A l \in Call :
          /\ flight[l].run = "set" /\ flight[l].key[2] = e
          /\ flight[l].stamp = stamps[DatabaseOf(e)]
          => flight[l].got >= v

\* Without a replica, nothing of a write is left in the cache: not once it
\* returned, and not of the targets it has invalidated before.
Fresh ==
    ~replicated =>
        /\ \A e \in Readable : NoneOlder(e, done[e])
        /\ \A c \in Call : call[c].pc = "invalidate" =>
              \A e \in Changes(reg, call[c].entity) :
                  (\E t \in Compute(reg, call[c].entity) \ call[c].todo : Drops(reg, t, e)) => NoneOlder(e, call[c].write)

FInv == Numbers /\ CallsOK /\ FlightsOK /\ Fresh

\* Numbers only grow.
Grows ==
    /\ reg' = reg /\ replicated' = replicated
    /\ \A d \in Database : db[d] <= db'[d] /\ stamps[d] <= stamps'[d]
    /\ \A e \in Readable : done[e] <= done'[e]
    /\ \A s \in Session : s \in recent => s \in recent'

\* Flights that differ in who waits for them only.
Alike(f, r) ==
    /\ f.run = r.run /\ f.session = r.session /\ f.key = r.key /\ f.got = r.got /\ f.fresh = r.fresh
    /\ f.stamp = r.stamp /\ f.owed = r.owed /\ f.primary = r.primary /\ f.follows = r.follows

\* The registry served is a registry, and stays.
LEMMA Served == ASSUME Numbers PROVE IsRegistry(reg) BY RegistriesAssumption DEF Numbers

\* The parts of a key.
LEMMA KeyParts ==
    ASSUME NEW k, NEW s, KeyOK(k, s)
    PROVE k[1] \in Scope /\ k[2] \in Readable /\ k[3] \in {s, None} /\ DatabaseOf(k[2]) \in Database
BY SMTT(20), Z3T(20) DEF KeyOK, DatabaseOf, Database, Readable

\* As the numbers grow, a flight stays as it should be.
LEMMA StaysAloft ==
    ASSUME Numbers, Numbers', Grows, NEW f, NEW r, Aloft(f), Alike(f, r)
    PROVE Aloft(r)'
<1>1. PICK e, d : e = f.key[2] /\ d = DatabaseOf(e) OBVIOUS
<1>2. e \in Readable /\ d \in Database BY <1>1, KeyParts DEF Aloft
<1>3. KeyOK(r.key, r.session)' BY DEF Aloft, Alike, KeyOK, Grows, Readable, Entity
<1>4. r.key[2] = e /\ DatabaseOf(e)' = d BY <1>1 DEF Alike, Grows, DatabaseOf
<1>5. f.fresh <= done'[e]
  <2>1. f.fresh \in Nat /\ f.fresh <= done[e] BY <1>1 DEF Aloft
  <2>2. done[e] \in Nat /\ done'[e] \in Nat /\ done[e] <= done'[e] BY <1>2 DEF Numbers, Grows, Readable, Entity
  <2> QED BY <2>1, <2>2, SMT
<1>6. db[d] \in Nat /\ db'[d] \in Nat /\ db[d] <= db'[d] /\ stamps[d] \in Nat /\ stamps'[d] \in Nat /\ stamps[d] <= stamps'[d]
  BY <1>2 DEF Numbers, Grows, Database, Entity
<1>7. ASSUME NEW s \in Session PROVE f.owed[s] <= db'[d] /\ (f.owed[s] # 0 => s \in recent')
  <2>1. f.owed[s] \in Nat /\ f.owed[s] <= db[d] /\ (f.owed[s] # 0 => s \in recent) BY <1>1 DEF Aloft
  <2> QED BY <1>6, <2>1, SMT DEF Grows
<1>8. f.run \in {"get", "query", "set"} => f.stamp <= stamps'[d]
  <2>1. f.stamp \in Nat /\ (f.run \in {"get", "query", "set"} => f.stamp <= stamps[d]) BY <1>1 DEF Aloft
  <2> QED BY <1>6, <2>1, SMT
<1>9. replicated' = replicated BY DEF Grows
<1> QED BY <1>1, <1>3, <1>4, <1>5, <1>7, <1>8, <1>9 DEF Aloft, Alike

\* A call that a step leaves, and whose flight it leaves in the air.
LEMMA CallKeeps ==
    ASSUME NEW c \in Call, CallOK(c), Numbers, Numbers', Grows, call'[c] = call[c],
           call[c].pc = "wait" => flight'[call[c].leader].run # "none" /\ flight'[call[c].leader].key = flight[call[c].leader].key
    PROVE CallOK(c)'
<1>1. PICK r : r = call[c] OBVIOUS
<1>2. CASE r.pc \in {"none", "gone"} BY <1>1, <1>2 DEF CallOK, Writing
<1>3. CASE r.pc \in {"do", "wait"} BY <1>1, <1>3 DEF CallOK, Writing, KeyOK, Grows, Readable, Entity
<1>4. CASE r.pc \in Writing
  <2>1. r.session \in Session /\ r.entity \in Entity /\ r.entity \in Entity' /\ DatabaseOf(r.entity)' = DatabaseOf(r.entity)
    BY <1>1, <1>4 DEF CallOK, Grows, Entity, DatabaseOf
  <2>2. r.write \in Nat /\ r.write <= db'[DatabaseOf(r.entity)]
    <3>1. DatabaseOf(r.entity) \in Database BY <2>1 DEF DatabaseOf, Database
    <3>2. db[DatabaseOf(r.entity)] \in Nat /\ db'[DatabaseOf(r.entity)] \in Nat /\ db[DatabaseOf(r.entity)] <= db'[DatabaseOf(r.entity)]
      BY <3>1 DEF Numbers, Grows, Database, Entity
    <3>3. r.write \in Nat /\ r.write <= db[DatabaseOf(r.entity)] BY <1>1, <1>4 DEF CallOK
    <3> QED BY <3>2, <3>3
  <2>3. /\ r.pc = "record" => r.todo = Compute(reg', r.entity)
        /\ r.pc \in {"record", "invalidate"} => r.todo \subseteq Compute(reg', r.entity)
    BY <1>1 DEF CallOK, Grows
  <2> QED BY <1>1, <1>4, <2>1, <2>2, <2>3 DEF CallOK, Writing
<1> QED BY <1>1, <1>2, <1>3, <1>4 DEF CallOK, Writing

\* A version that was never newer than the database.
Past(e, v) == v \in Nat /\ v <= db[DatabaseOf(e)]

\* Unless a write goes on to invalidate, the cache is fresh as long as a step
\* brings nothing older.
LEMMA FreshKeeps ==
    ASSUME Numbers, CallsOK, Fresh, Grows, done' = done,
           \A c \in Call : call'[c].pc = "invalidate" =>
               \/ call[c].pc = "invalidate" /\ call'[c].entity = call[c].entity
                  /\ call'[c].todo = call[c].todo /\ call'[c].write = call[c].write
               \/ call'[c].todo = Compute(reg, call'[c].entity),
           ~replicated => \A e \in Readable : \A v : NoneOlder(e, v) /\ Past(e, v) => NoneOlder(e, v)'
    PROVE Fresh'
<1> SUFFICES ASSUME ~replicated PROVE Fresh' BY DEF Fresh, Grows
<1>0. Readable' = Readable /\ reg' = reg BY DEF Grows, Readable, Entity
<1>1. ASSUME NEW e \in Readable PROVE NoneOlder(e, done[e])'
  <2>1. NoneOlder(e, done[e]) /\ Past(e, done[e]) BY DEF Fresh, Numbers, Past
  <2>2. PICK v : v = done[e] OBVIOUS
  <2>3. NoneOlder(e, v)' BY <2>1, <2>2
  <2> QED BY <2>2, <2>3 DEF NoneOlder
<1>2. ASSUME NEW c \in Call, call'[c].pc = "invalidate", NEW e \in Changes(reg, call'[c].entity),
             NEW t \in Compute(reg, call'[c].entity) \ call'[c].todo, Drops(reg, t, e)
      PROVE NoneOlder(e, call[c].write)' /\ call'[c].write = call[c].write
  <2>1. /\ call[c].pc = "invalidate" /\ call'[c].entity = call[c].entity
        /\ call'[c].todo = call[c].todo /\ call'[c].write = call[c].write
    BY <1>2
  <2>2. PICK v : v = call[c].write OBVIOUS
  <2>3. NoneOlder(e, v) BY <1>2, <2>1, <2>2 DEF Fresh
  <2>4. v \in Nat /\ v <= db[DatabaseOf(call[c].entity)] /\ call[c].entity \in Entity BY <2>1, <2>2 DEF CallsOK, CallOK, Writing
  <2>5. e \in Readable /\ DatabaseOf(e) = DatabaseOf(call[c].entity) BY <1>2, <2>1, <2>4, ChangesAre
  <2>6. NoneOlder(e, v)' BY <2>3, <2>4, <2>5 DEF Past
  <2> QED BY <2>1, <2>2, <2>6
<1> QED BY <1>0, <1>1, <1>2 DEF Fresh, NoneOlder

\* A step that begins, moves or ends calls and flights, each as it should be.
LEMMA Moves ==
    ASSUME FInv, Numbers', Grows, done' = done,
           \A o \in Call : \/ CallOK(o)'
                           \/ /\ call'[o] = call[o]
                              /\ call[o].pc = "wait" => /\ flight'[call[o].leader].run # "none"
                                                        /\ flight'[call[o].leader].key = flight[call[o].leader].key,
           \A l \in Call : flight'[l].run # "none" => \E f : Aloft(f) /\ Alike(f, flight'[l]),
           \A c \in Call : call'[c].pc = "invalidate" =>
               \/ call[c].pc = "invalidate" /\ call'[c].entity = call[c].entity
                  /\ call'[c].todo = call[c].todo /\ call'[c].write = call[c].write
               \/ call'[c].todo = Compute(reg, call'[c].entity),
           ~replicated => \A e \in Readable : \A v : NoneOlder(e, v) /\ Past(e, v) => NoneOlder(e, v)'
    PROVE FInv'
<1>1. CallsOK' BY CallKeeps DEF FInv, CallsOK
<1>2. ASSUME NEW l \in Call PROVE FlightOK(l)'
  <2> SUFFICES ASSUME flight'[l].run # "none" PROVE Aloft(flight[l])' BY DEF FlightOK
  <2>1. PICK r : r = flight'[l] OBVIOUS
  <2>2. PICK f : Aloft(f) /\ Alike(f, r) BY <2>1
  <2>3. Aloft(r)' BY <2>2, StaysAloft DEF FInv
  <2> QED BY <2>1, <2>3 DEF Aloft
<1>3. Fresh' BY FreshKeeps DEF FInv
<1> QED BY <1>1, <1>2, <1>3 DEF FInv, FlightsOK

\* A step that changes no number.
LEMMA Quiet ==
    ASSUME Numbers, UNCHANGED <<data, stamps, recent, history>>, cache' \in [Scope -> [Readable -> Nat]]
    PROVE Numbers' /\ Grows
<1>1. Readable' = Readable /\ Database' = Database BY DEF data, Readable, Entity, Database
<1>2. \A e : DatabaseOf(e)' = DatabaseOf(e) BY DEF data, DatabaseOf
<1>3. Numbers' BY <1>1, <1>2 DEF Numbers, data, history
<1>4. /\ \A d \in Database : db[d] \in Nat /\ stamps[d] \in Nat
      /\ \A e \in Readable : done[e] \in Nat
  BY DEF Numbers
<1> QED BY <1>3, <1>4 DEF Grows, data, history

\* The flights of a step that replaces one, and what is not stored by others.
LEMMA OneFlight ==
    ASSUME IInv, FInv, NEW l \in Call, NEW r, flight' = [flight EXCEPT ![l] = r],
           r.run # "none" => \E f : Aloft(f) /\ Alike(f, r)
    PROVE /\ flight'[l] = r /\ \A o \in Call : o # l => flight'[o] = flight[o]
          /\ \A o \in Call : flight'[o].run # "none" => \E f : Aloft(f) /\ Alike(f, flight'[o])
<1>1. flight'[l] = r /\ \A o \in Call : o # l => flight'[o] = flight[o] BY DEF IInv, Shapes
<1>2. ASSUME NEW o \in Call, o # l, flight'[o].run # "none" PROVE Aloft(flight[o]) /\ Alike(flight[o], flight'[o])
  BY <1>1, <1>2 DEF FInv, FlightsOK, FlightOK, Alike
<1> QED BY <1>1, <1>2

\* Neither a flight that is not about to store, nor one that stored what it saw,
\* nor one that has just queried the database, brings anything older.
LEMMA NothingOlder ==
    ASSUME FInv, UNCHANGED <<data, stamps>>, cache' = cache, NEW l \in Call,
           \A o \in Call : o # l => flight'[o] = flight[o],
           flight'[l].run = "set" =>
               \/ Alike(flight[l], flight'[l])
               \/ flight'[l].got \in Nat /\ flight'[l].got >= db[DatabaseOf(flight'[l].key[2])],
           NEW e \in Readable, NEW v, NoneOlder(e, v), Past(e, v)
    PROVE NoneOlder(e, v)'
<1>1. DatabaseOf(e)' = DatabaseOf(e) BY DEF data, DatabaseOf
<1>2. ASSUME NEW o \in Call, flight'[o].run = "set", flight'[o].key[2] = e, flight'[o].stamp = stamps[DatabaseOf(e)]
      PROVE flight'[o].got >= v
  <2>1. CASE o # l BY <1>2, <2>1 DEF NoneOlder
  <2>2. CASE o = l /\ Alike(flight[l], flight'[l]) BY <1>2, <2>2 DEF NoneOlder, Alike
  <2>3. CASE o = l /\ flight'[l].got \in Nat /\ flight'[l].got >= db[DatabaseOf(flight'[l].key[2])]
    <3>1. DatabaseOf(e) \in Database BY DEF Readable, Database, DatabaseOf
    <3>2. db[DatabaseOf(e)] \in Nat BY <3>1 DEF FInv, Numbers
    <3> QED BY <1>2, <2>3, <3>2, SMT DEF Past
  <2> QED BY <1>2, <2>1, <2>2, <2>3
<1> QED BY <1>1, <1>2 DEF NoneOlder

\* A flight that goes on.
LEMMA FliesKeeps ==
    ASSUME IInv, FInv, NEW c \in Call, NEW from, from # "none", NEW r, Flies(c, from, r),
           \/ r.run # "none" /\ r.key = flight[c].key /\ Aloft(r)
           \/ r.run = "none" /\ \A o \in Call : call[o].leader # c,
           cache' \in [Scope -> [Readable -> Nat]],
           ~replicated => \A e \in Readable : \A v : NoneOlder(e, v) /\ Past(e, v) => NoneOlder(e, v)'
    PROVE FInv'
<1>1. flight' = [flight EXCEPT ![c] = r] /\ UNCHANGED <<data, stamps, recent, call, history>> BY DEF Flies
<1>2. Numbers' /\ Grows BY <1>1, Quiet DEF FInv
<1>3. r.run # "none" => \E f : Aloft(f) /\ Alike(f, r)
  <2>1. Alike(r, r) BY DEF Alike
  <2> QED BY <2>1
<1>4. /\ flight'[c] = r /\ \A o \in Call : o # c => flight'[o] = flight[o]
      /\ \A o \in Call : flight'[o].run # "none" => \E f : Aloft(f) /\ Alike(f, flight'[o])
  BY <1>1, <1>3, OneFlight
<1>5. ASSUME NEW o \in Call, call[o].pc = "wait"
      PROVE flight'[call[o].leader].run # "none" /\ flight'[call[o].leader].key = flight[call[o].leader].key
  <2>1. call[o].leader \in Call BY <1>5 DEF IInv, Led
  <2>2. flight[call[o].leader].run # "none" BY <1>5 DEF FInv, CallsOK, CallOK
  <2> QED BY <1>4, <2>1, <2>2
<1>6. done' = done BY <1>1 DEF history
<1> QED BY <1>1, <1>2, <1>4, <1>5, <1>6, Moves

\* The records of a flight that goes on.
LEMMA Fields ==
    ASSUME NEW f, DOMAIN f = FlightFields, NEW a, NEW b
    PROVE /\ LET r == [f EXCEPT !.run = a] IN
                /\ r.run = a /\ r.session = f.session /\ r.key = f.key /\ r.got = f.got /\ r.fresh = f.fresh
                /\ r.stamp = f.stamp /\ r.owed = f.owed /\ r.primary = f.primary /\ r.follows = f.follows
          /\ LET r == [f EXCEPT !.run = a, !.primary = b] IN
                /\ r.run = a /\ r.session = f.session /\ r.key = f.key /\ r.got = f.got /\ r.fresh = f.fresh
                /\ r.stamp = f.stamp /\ r.owed = f.owed /\ r.primary = b /\ r.follows = f.follows
          /\ LET r == [f EXCEPT !.run = a, !.follows = b] IN
                /\ r.run = a /\ r.session = f.session /\ r.key = f.key /\ r.got = f.got /\ r.fresh = f.fresh
                /\ r.stamp = f.stamp /\ r.owed = f.owed /\ r.primary = f.primary /\ r.follows = b
          /\ LET r == [f EXCEPT !.run = a, !.stamp = b] IN
                /\ r.run = a /\ r.session = f.session /\ r.key = f.key /\ r.got = f.got /\ r.fresh = f.fresh
                /\ r.stamp = b /\ r.owed = f.owed /\ r.primary = f.primary /\ r.follows = f.follows
          /\ LET r == [f EXCEPT !.run = a, !.got = b] IN
                /\ r.run = a /\ r.session = f.session /\ r.key = f.key /\ r.got = b /\ r.fresh = f.fresh
                /\ r.stamp = f.stamp /\ r.owed = f.owed /\ r.primary = f.primary /\ r.follows = f.follows
BY SMT DEF FlightFields

\* What is known of a flight that goes on.
LEMMA Flying ==
    ASSUME IInv, FInv, NEW c \in Call, flight[c].run # "none", NEW f, f = flight[c]
    PROVE /\ DOMAIN f = FlightFields /\ Aloft(f) /\ f.key[1] \in Scope /\ f.key[2] \in Readable
          /\ DatabaseOf(f.key[2]) \in Database /\ f.session \in Session
          /\ db[DatabaseOf(f.key[2])] \in Nat /\ rep[DatabaseOf(f.key[2])] \in Nat /\ stamps[DatabaseOf(f.key[2])] \in Nat
          /\ done[f.key[2]] \in Nat /\ done[f.key[2]] <= db[DatabaseOf(f.key[2])]
<1>1. DOMAIN f = FlightFields BY DEF IInv, Shapes
<1>2. Aloft(f) BY DEF FInv, FlightsOK, FlightOK
<1>3. KeyOK(f.key, f.session) /\ f.session \in Session BY <1>2 DEF Aloft
<1>4. f.key[1] \in Scope /\ f.key[2] \in Readable /\ DatabaseOf(f.key[2]) \in Database BY <1>3, KeyParts
<1> QED BY <1>1, <1>2, <1>3, <1>4 DEF FInv, Numbers

\* A step of a flight that neither queries nor stores.
LEMMA StepKeeps ==
    ASSUME IInv, FInv, NEW c \in Call, NEW from, from # "none", NEW r, Flies(c, from, r),
           r.run # "none" /\ r.key = flight[c].key /\ Aloft(r), cache' = cache,
           r.run = "set" => r.got \in Nat /\ (~replicated => r.got >= db[DatabaseOf(r.key[2])])
    PROVE FInv'
<1>1. flight' = [flight EXCEPT ![c] = r] /\ UNCHANGED <<data, stamps>> BY DEF Flies
<1>2. flight'[c] = r /\ \A o \in Call : o # c => flight'[o] = flight[o] BY <1>1 DEF IInv, Shapes
<1>3. ~replicated => \A e \in Readable : \A v : NoneOlder(e, v) /\ Past(e, v) => NoneOlder(e, v)'
  BY <1>1, <1>2, NothingOlder
<1>4. cache' \in [Scope -> [Readable -> Nat]] BY DEF FInv, Numbers
<1> QED BY <1>3, <1>4, FliesKeeps

LEMMA RouteConnectionFresh == ASSUME IInv, FInv, NEW c \in Call, RouteConnection(c) PROVE FInv'
<1>1. PICK f : f = flight[c] OBVIOUS
<1>2. PICK r : r = [f EXCEPT !.run = IF replicated THEN "follow" ELSE "stamp", !.primary = ~replicated \/ Follows(c)] OBVIOUS
<1>3. Flies(c, "route", r) /\ cache' = cache /\ f.run = "route" BY <1>1, <1>2 DEF RouteConnection, Flies
<1>4. DOMAIN f = FlightFields /\ Aloft(f) /\ f.session \in Session BY <1>1, <1>3, Flying
<1>5. /\ r.run = IF replicated THEN "follow" ELSE "stamp"
      /\ r.session = f.session /\ r.key = f.key /\ r.got = f.got /\ r.fresh = f.fresh
      /\ r.stamp = f.stamp /\ r.owed = f.owed /\ r.primary = (~replicated \/ Follows(c)) /\ r.follows = f.follows
  BY SMTT(20), Z3T(20), <1>2, <1>4, Fields
<1>6. f.session \notin recent => f.owed[f.session] = 0 BY <1>4 DEF Aloft
<1>7. ~replicated => recent = {} BY DEF FInv, Numbers
<1>8. Follows(c) <=> replicated /\ f.session \in recent BY <1>1 DEF Follows, Recent
<1>9. Aloft(r) BY <1>3, <1>4, <1>5, <1>6, <1>7, <1>8 DEF Aloft
<1>10. r.run # "none" /\ r.run # "set" BY <1>5
<1> QED BY <1>1, <1>3, <1>5, <1>9, <1>10, StepKeeps

LEMMA RouteFollowsFresh == ASSUME IInv, FInv, NEW c \in Call, RouteFollows(c) PROVE FInv'
<1>1. PICK f : f = flight[c] OBVIOUS
<1>2. PICK r : r = [f EXCEPT !.run = "stamp", !.follows = Follows(c)] OBVIOUS
<1>3. Flies(c, "follow", r) /\ cache' = cache /\ f.run = "follow" BY <1>1, <1>2 DEF RouteFollows, Flies
<1>4. DOMAIN f = FlightFields /\ Aloft(f) /\ f.session \in Session BY <1>1, <1>3, Flying
<1>5. /\ r.run = "stamp" /\ r.session = f.session /\ r.key = f.key /\ r.got = f.got /\ r.fresh = f.fresh
      /\ r.stamp = f.stamp /\ r.owed = f.owed /\ r.primary = f.primary /\ r.follows = Follows(c)
  BY SMTT(20), Z3T(20), <1>2, <1>4, Fields
<1>6. f.session \notin recent => f.owed[f.session] = 0 BY <1>4 DEF Aloft
<1>7. ~replicated => recent = {} BY DEF FInv, Numbers
<1>8. Follows(c) <=> replicated /\ f.session \in recent BY <1>1 DEF Follows, Recent
<1>9. Aloft(r) BY <1>3, <1>4, <1>5, <1>6, <1>7, <1>8 DEF Aloft
<1> QED BY <1>1, <1>3, <1>5, <1>9, StepKeeps

LEMMA StampFresh == ASSUME IInv, FInv, NEW c \in Call, Stamp(c) PROVE FInv'
<1>1. PICK f : f = flight[c] OBVIOUS
<1>2. PICK r : r = [f EXCEPT !.run = "get", !.stamp = stamps[DatabaseOf(f.key[2])]] OBVIOUS
<1>3. Flies(c, "stamp", r) /\ cache' = cache /\ f.run = "stamp" BY <1>1, <1>2 DEF Stamp, Flies, EntityOf
<1>4. DOMAIN f = FlightFields /\ Aloft(f) /\ stamps[DatabaseOf(f.key[2])] \in Nat BY <1>1, <1>3, Flying
<1>5. /\ r.run = "get" /\ r.session = f.session /\ r.key = f.key /\ r.got = f.got /\ r.fresh = f.fresh
      /\ r.stamp = stamps[DatabaseOf(f.key[2])] /\ r.owed = f.owed /\ r.primary = f.primary /\ r.follows = f.follows
  BY SMTT(20), Z3T(20), <1>2, <1>4, Fields
<1>6. r.stamp <= stamps[DatabaseOf(f.key[2])] BY <1>4, <1>5
<1>7. Aloft(r) BY <1>3, <1>4, <1>5, <1>6 DEF Aloft
<1> QED BY <1>1, <1>3, <1>5, <1>7, StepKeeps

\* What the cache holds is fresh, and is not asked for what is owed.
LEMMA GetFresh == ASSUME IInv, FInv, NEW c \in Call, Get(c) PROVE FInv'
<1>1. PICK f : f = flight[c] OBVIOUS
<1>2. PICK g : g = GetSized(c) OBVIOUS
<1>3. cache' = cache /\ f.run = "get" BY <1>1 DEF Get, Flies
<1>4. /\ DOMAIN f = FlightFields /\ Aloft(f) /\ f.session \in Session /\ f.key[1] \in Scope /\ f.key[2] \in Readable
      /\ done[f.key[2]] \in Nat
  BY <1>1, <1>3, Flying
<1>5. g = cache[f.key[1]][f.key[2]] /\ g \in Nat BY <1>1, <1>2, <1>4 DEF GetSized, ScopeOf, EntityOf, FInv, Numbers
<1>6. CASE Flies(c, "get", [f EXCEPT !.run = "end", !.got = g]) /\ ~f.follows /\ g # 0
  <2>1. PICK r : r = [f EXCEPT !.run = "end", !.got = g] OBVIOUS
  <2>2. /\ r.run = "end" /\ r.session = f.session /\ r.key = f.key /\ r.got = g /\ r.fresh = f.fresh
        /\ r.stamp = f.stamp /\ r.owed = f.owed /\ r.primary = f.primary /\ r.follows = f.follows
    BY SMTT(20), Z3T(20), <1>4, <2>1, Fields
  <2>3. ~replicated => g >= done[f.key[2]] BY <1>4, <1>5, <1>6 DEF FInv, Fresh, NoneOlder
  <2>4. f.fresh \in Nat /\ f.fresh <= done[f.key[2]] BY <1>4 DEF Aloft
  <2>5. ~replicated => g >= f.fresh BY <1>4, <1>5, <2>3, <2>4, SMT
  <2>6. f.key[3] = f.session => f.owed[f.session] = 0 BY <1>3, <1>4, <1>6 DEF Aloft
  <2>7. f.key[3] = f.session => g >= f.owed[f.session] BY <1>5, <2>6, SMT
  <2>8. Aloft(r) BY <1>3, <1>4, <1>5, <2>2, <2>5, <2>7 DEF Aloft
  <2> QED BY <1>1, <1>3, <1>6, <2>1, <2>2, <2>8, StepKeeps
<1>7. ASSUME NEW w \in {"end", "query"}, Flies(c, "get", [f EXCEPT !.run = w]) PROVE FInv'
  <2>1. PICK r : r = [f EXCEPT !.run = w] OBVIOUS
  <2>2. /\ r.run = w /\ r.session = f.session /\ r.key = f.key /\ r.got = f.got /\ r.fresh = f.fresh
        /\ r.stamp = f.stamp /\ r.owed = f.owed /\ r.primary = f.primary /\ r.follows = f.follows
    BY SMTT(20), Z3T(20), <1>4, <2>1, Fields
  <2>3. Aloft(r) BY <1>3, <1>4, <2>2 DEF Aloft
  <2>4. r.run # "none" /\ r.run # "set" BY <2>2
  <2> QED BY <1>1, <1>3, <1>7, <2>1, <2>2, <2>3, <2>4, StepKeeps
<1> QED BY <1>1, <1>2, <1>6, <1>7 DEF Get, CachesRead

\* The primary has all that was written, and a replica is asked by those only
\* who are owed nothing.
LEMMA QueryFresh == ASSUME IInv, FInv, NEW c \in Call, Query(c) PROVE FInv'
<1>1. PICK f : f = flight[c] OBVIOUS
<1>2. PICK e, d : e = f.key[2] /\ d = DatabaseOf(e) OBVIOUS
<1>3. cache' = cache /\ f.run = "query" BY <1>1 DEF Query, Flies
<1>4. /\ DOMAIN f = FlightFields /\ Aloft(f) /\ f.session \in Session /\ db[d] \in Nat /\ rep[d] \in Nat
      /\ done[e] \in Nat /\ done[e] <= db[d]
  BY <1>1, <1>2, <1>3, Flying
<1>5. PICK g : g = IF f.primary THEN db[d] ELSE rep[d] OBVIOUS
<1>6. CASE Flies(c, "query", [f EXCEPT !.run = "set", !.got = g])
  <2>1. PICK r : r = [f EXCEPT !.run = "set", !.got = g] OBVIOUS
  <2>2. /\ r.run = "set" /\ r.session = f.session /\ r.key = f.key /\ r.got = g /\ r.fresh = f.fresh
        /\ r.stamp = f.stamp /\ r.owed = f.owed /\ r.primary = f.primary /\ r.follows = f.follows
    BY SMTT(20), Z3T(20), <1>4, <2>1, Fields
  <2>3. f.primary \/ (replicated /\ (f.key[3] = f.session => f.owed[f.session] = 0)) BY <1>3, <1>4 DEF Aloft
  <2>4. /\ f.fresh \in Nat /\ f.fresh <= done[e]
        /\ f.owed[f.session] \in Nat /\ f.owed[f.session] <= db[d]
    BY <1>2, <1>4 DEF Aloft
  <2>5. g \in Nat /\ (~replicated => g = db[d] /\ g >= f.fresh) BY <1>4, <1>5, <2>3, <2>4, SMT
  <2>6. f.key[3] = f.session => g >= f.owed[f.session]
    <3>1. CASE f.primary BY <1>4, <1>5, <2>4, <3>1, SMT
    <3>2. CASE ~f.primary BY <2>3, <2>5, <3>2, SMT
    <3> QED BY <3>1, <3>2
  <2>7. Aloft(r) BY <1>3, <1>4, <2>2, <2>3, <2>5, <2>6 DEF Aloft
  <2>8. ~replicated => r.got >= db[DatabaseOf(r.key[2])] BY <1>2, <1>4, <2>2, <2>5
  <2> QED BY <1>1, <1>3, <1>6, <2>1, <2>2, <2>5, <2>7, <2>8, StepKeeps
<1>7. CASE Flies(c, "query", [f EXCEPT !.run = "end"])
  <2>1. PICK r : r = [f EXCEPT !.run = "end"] OBVIOUS
  <2>2. /\ r.run = "end" /\ r.session = f.session /\ r.key = f.key /\ r.got = f.got /\ r.fresh = f.fresh
        /\ r.stamp = f.stamp /\ r.owed = f.owed /\ r.primary = f.primary /\ r.follows = f.follows
    BY SMTT(20), Z3T(20), <1>4, <2>1, Fields
  <2>3. Aloft(r) BY <1>3, <1>4, <2>2 DEF Aloft
  <2> QED BY <1>1, <1>3, <1>7, <2>1, <2>2, <2>3, StepKeeps
<1> QED BY <1>1, <1>2, <1>5, <1>6, <1>7 DEF Query, EntityOf

\* What the cache is given is no older than what it was purged of since.
LEMMA StoreFresh == ASSUME IInv, FInv, NEW c \in Call, Store(c) PROVE FInv'
<1>1. PICK f : f = flight[c] OBVIOUS
<1>2. PICK r : r = [f EXCEPT !.run = "end"] OBVIOUS
<1>3. Flies(c, "set", r) /\ f.run = "set" BY <1>1, <1>2 DEF Store, Flies
<1>4. DOMAIN f = FlightFields /\ Aloft(f) /\ f.key[1] \in Scope /\ f.key[2] \in Readable BY <1>1, <1>3, Flying
<1>5. /\ r.run = "end" /\ r.session = f.session /\ r.key = f.key /\ r.got = f.got /\ r.fresh = f.fresh
      /\ r.stamp = f.stamp /\ r.owed = f.owed /\ r.primary = f.primary /\ r.follows = f.follows
  BY SMTT(20), Z3T(20), <1>2, <1>4, Fields
<1>6. Aloft(r) BY <1>3, <1>4, <1>5 DEF Aloft
<1>7. CASE cache' = cache BY <1>1, <1>3, <1>5, <1>6, <1>7, StepKeeps
<1>8. CASE stamps[DatabaseOf(f.key[2])] = f.stamp /\ cache' = [cache EXCEPT ![f.key[1]][f.key[2]] = f.got]
  <2>1. cache \in [Scope -> [Readable -> Nat]] /\ f.got \in Nat BY <1>4 DEF FInv, Numbers, Aloft
  <2>2. cache' \in [Scope -> [Readable -> Nat]] BY <1>8, <2>1
  <2>3. flight' = [flight EXCEPT ![c] = r] /\ UNCHANGED <<data, stamps>> BY <1>3 DEF Flies
  <2>4. flight'[c] = r /\ \A o \in Call : o # c => flight'[o] = flight[o] BY <2>3 DEF IInv, Shapes
  <2>5. ASSUME NEW e \in Readable, NEW v, NoneOlder(e, v) PROVE NoneOlder(e, v)'
    <3>1. DatabaseOf(e)' = DatabaseOf(e) BY <2>3 DEF data, DatabaseOf
    <3>2. \A o \in Call : flight'[o].run = "set" => flight'[o] = flight[o] BY <1>5, <2>4
    <3>3. ASSUME NEW g \in Scope, cache'[g][e] # 0 PROVE cache'[g][e] >= v
      <4>1. CASE g = f.key[1] /\ e = f.key[2]
        <5>1. cache'[g][e] = f.got BY <1>4, <1>8, <2>1, <4>1
        <5>2. f.got >= v BY <1>1, <1>3, <1>8, <2>5, <4>1 DEF NoneOlder
        <5> QED BY <5>1, <5>2
      <4>2. CASE ~(g = f.key[1] /\ e = f.key[2])
        <5>1. cache'[g][e] = cache[g][e] BY <1>4, <1>8, <2>1, <4>2
        <5> QED BY <2>5, <3>3, <5>1 DEF NoneOlder
      <4> QED BY <4>1, <4>2
    <3> QED BY <2>3, <2>5, <3>1, <3>2, <3>3 DEF NoneOlder
  <2> QED BY <1>1, <1>3, <1>5, <1>6, <2>2, <2>5, FliesKeeps
<1> QED BY <1>1, <1>7, <1>8 DEF Store, SetSized, ScopeOf, EntityOf

LEMMA LandFresh == ASSUME IInv, FInv, NEW c \in Call, Land(c) PROVE FInv'
<1>1. PICK f : f = flight[c] OBVIOUS
<1>2. f.run = "end" /\ cache' = cache BY <1>1 DEF Land, Flies
<1>3. DOMAIN f = FlightFields /\ Aloft(f) BY <1>1, <1>2, Flying
<1>4. CASE \E o \in Call : call[o].leader = c
  <2>1. PICK r : r = [f EXCEPT !.run = "done", !.listed = FALSE, !.primary = FALSE, !.follows = FALSE, !.stamp = 0] OBVIOUS
  <2>2. Flies(c, "end", r) BY <1>1, <1>4, <2>1 DEF Land
  <2>3. /\ r.run = "done" /\ r.session = f.session /\ r.key = f.key /\ r.got = f.got /\ r.fresh = f.fresh
        /\ r.stamp = 0 /\ r.owed = f.owed
    BY <1>3, <2>1 DEF FlightFields
  <2>4. Aloft(r) BY SMTT(20), Z3T(20), <1>2, <1>3, <2>3 DEF Aloft
  <2> QED BY <1>1, <1>2, <2>2, <2>3, <2>4, StepKeeps
<1>5. CASE ~\E o \in Call : call[o].leader = c
  <2>1. Flies(c, "end", Grounded) BY <1>5 DEF Land
  <2>2. Grounded.run = "none" BY DEF Grounded
  <2>3. flight' = [flight EXCEPT ![c] = Grounded] /\ UNCHANGED <<data, stamps>> BY <2>1 DEF Flies
  <2>4. flight'[c] = Grounded /\ \A o \in Call : o # c => flight'[o] = flight[o] BY <2>3 DEF IInv, Shapes
  <2>5. \A e \in Readable : \A v : NoneOlder(e, v) /\ Past(e, v) => NoneOlder(e, v)'
    BY <1>2, <2>2, <2>3, <2>4, NothingOlder
  <2>6. cache' \in [Scope -> [Readable -> Nat]] BY <1>2 DEF FInv, Numbers
  <2> QED BY <1>5, <2>1, <2>2, <2>5, <2>6, FliesKeeps
<1> QED BY <1>4, <1>5

\* The calls of a step that moves one.
LEMMA OneCall ==
    ASSUME IInv, NEW c \in Call, NEW q, call' = [call EXCEPT ![c] = q]
    PROVE call'[c] = q /\ \A o \in Call : o # c => call'[o] = call[o]
BY DEF IInv, Shapes

\* A read that comes, with the key of its session.
LEMMA ReadBeginFresh ==
    ASSUME IInv, FInv, NEW c \in Call, NEW s \in Session, NEW g \in Scope, NEW e \in Readable, ReadBegin(c, s, g, e)
    PROVE FInv'
<1>1. PICK q : q = [Idle EXCEPT !.pc = "do", !.session = s, !.entity = e, !.key = KeyOf(s, g, e), !.after = s \in recent] OBVIOUS
<1>2. call' = [call EXCEPT ![c] = q] /\ UNCHANGED <<data, cache, stamps, recent, flight, history>> BY <1>1 DEF ReadBegin
<1>3. q.pc = "do" /\ q.session = s /\ q.entity = e /\ q.key = KeyOf(s, g, e) /\ q.after = (s \in recent) BY <1>1 DEF Idle
<1>4. call'[c] = q /\ \A o \in Call : o # c => call'[o] = call[o] BY <1>2, OneCall
<1>5. Numbers' /\ Grows
  <2>1. cache' \in [Scope -> [Readable -> Nat]] BY <1>2 DEF FInv, Numbers
  <2> QED BY <1>2, <2>1, Quiet DEF FInv
<1>6. Readable' = Readable BY <1>2 DEF data, Readable, Entity
<1>7. q.key[2] = e /\ (q.after => q.key[3] = s) /\ KeyOK(q.key, s)'
  <2>1. PICK x : x = IF s \in recent THEN s ELSE None OBVIOUS
  <2>2. q.key = <<g, e, x>> /\ x \in {s, None} BY <1>3, <2>1 DEF KeyOf, Wrote
  <2>3. q.key[2] = e /\ q.key[3] = x BY <2>2
  <2>4. KeyOK(q.key, s)' BY <1>6, <2>2 DEF KeyOK
  <2> QED BY <1>3, <2>1, <2>3, <2>4
<1>8. CallOK(c)' BY <1>3, <1>4, <1>7 DEF CallOK, Writing
<1>9. \A l \in Call : flight'[l].run # "none" => Aloft(flight[l]) /\ Alike(flight[l], flight'[l])
  BY <1>2 DEF FInv, FlightsOK, FlightOK, Alike
<1>10. \A x \in Readable : \A v : NoneOlder(x, v) /\ Past(x, v) => NoneOlder(x, v)'
  BY <1>2 DEF NoneOlder, DatabaseOf, data
<1>11. \A o \in Call : CallOK(o)' \/ /\ call'[o] = call[o]
                                     /\ call[o].pc = "wait" => /\ flight'[call[o].leader].run # "none"
                                                               /\ flight'[call[o].leader].key = flight[call[o].leader].key
  BY <1>2, <1>4, <1>8 DEF FInv, CallsOK, CallOK
<1>12. \A o \in Call : call'[o].pc = "invalidate" => call'[o] = call[o] BY <1>3, <1>4
<1> QED BY <1>2, <1>5, <1>9, <1>10, <1>11, <1>12, Moves DEF history

\* A write that comes, or goes on before it invalidates: its record is replaced.
LEMMA WriteMoves ==
    ASSUME IInv, FInv, Numbers', Grows, NEW c \in Call, NEW q, call' = [call EXCEPT ![c] = q], CallOK(c)',
           UNCHANGED <<cache, stamps, flight, history>>,
           q.pc = "invalidate" => q.todo = Compute(reg, q.entity)
    PROVE FInv'
<1>1. call'[c] = q /\ \A o \in Call : o # c => call'[o] = call[o] BY OneCall
<1>2. \A l \in Call : flight'[l].run # "none" => Aloft(flight[l]) /\ Alike(flight[l], flight'[l])
  BY DEF FInv, FlightsOK, FlightOK, Alike
<1>3. \A x \in Readable : \A v : NoneOlder(x, v) /\ Past(x, v) => NoneOlder(x, v)'
  BY DEF NoneOlder, DatabaseOf, Grows
<1>4. \A o \in Call : CallOK(o)' \/ /\ call'[o] = call[o]
                                    /\ call[o].pc = "wait" => /\ flight'[call[o].leader].run # "none"
                                                              /\ flight'[call[o].leader].key = flight[call[o].leader].key
  BY <1>1 DEF FInv, CallsOK, CallOK
<1>5. \A o \in Call : call'[o].pc = "invalidate" => call'[o] = call[o] \/ call'[o].todo = Compute(reg, call'[o].entity)
  BY <1>1
<1> QED BY <1>2, <1>3, <1>4, <1>5, Moves DEF history

LEMMA WriteBeginFresh ==
    ASSUME IInv, FInv, NEW c \in Call, NEW s \in Session, NEW e \in Entity, WriteBegin(c, s, e)
    PROVE FInv'
<1>1. PICK q : q = [Idle EXCEPT !.pc = "exec", !.session = s, !.entity = e] OBVIOUS
<1>2. call' = [call EXCEPT ![c] = q] /\ UNCHANGED <<data, cache, stamps, recent, flight, history>> BY <1>1 DEF WriteBegin
<1>3. q.pc = "exec" /\ q.session = s /\ q.entity = e BY <1>1 DEF Idle
<1>4. call'[c] = q BY <1>2, OneCall
<1>5. Numbers' /\ Grows
  <2>1. cache' \in [Scope -> [Readable -> Nat]] BY <1>2 DEF FInv, Numbers
  <2> QED BY <1>2, <2>1, Quiet DEF FInv
<1>6. Entity' = Entity BY <1>2 DEF data, Entity
<1>7. q.write \in Nat /\ q.write <= db'[DatabaseOf(e)'] /\ e \in Entity'
  <2>1. q.write = 0 BY <1>1 DEF Idle
  <2>2. DatabaseOf(e)' \in Database' BY <1>6 DEF DatabaseOf, Database
  <2>3. db'[DatabaseOf(e)'] \in Nat BY <1>5, <2>2 DEF Numbers
  <2> QED BY <1>6, <2>1, <2>3, SMT
<1>8. CallOK(c)' BY <1>3, <1>4, <1>7 DEF CallOK, Writing
<1> QED BY <1>2, <1>3, <1>5, <1>8, WriteMoves

\* A write is carried out, or not: it is of a version the database then has, and
\* has all of its targets before it.
LEMMA WriteExecFresh == ASSUME IInv, FInv, NEW c \in Call, WriteExec(c) PROVE FInv'
<1>1. PICK b, e, d : b = call[c] /\ e = b.entity /\ d = DatabaseOf(e) OBVIOUS
<1>2. /\ b.pc = "exec" /\ DOMAIN b = CallFields /\ b.session \in Session /\ e \in Entity /\ d \in Database
  BY <1>1 DEF WriteExec, IInv, Shapes, FInv, CallsOK, CallOK, Writing, DatabaseOf, Database
<1>3. db \in [Database -> Nat] /\ db[d] \in Nat BY <1>2 DEF FInv, Numbers
<1>4. UNCHANGED <<reg, replicated, rep, cache, stamps, recent, flight, history>> BY DEF WriteExec
<1>5. Entity' = Entity /\ Readable' = Readable /\ Database' = Database /\ \A x : DatabaseOf(x)' = DatabaseOf(x)
  BY <1>4 DEF Entity, Readable, Database, DatabaseOf
<1> DEFINE K(w) == /\ w = b.write \/ (w = db[d] + 1 /\ db' = [db EXCEPT ![d] = @ + 1])
                   /\ db' = db \/ db' = [db EXCEPT ![d] = @ + 1]
                   /\ call' = [call EXCEPT ![c] = [b EXCEPT !.pc = "record", !.todo = Compute(reg, e), !.write = w]]
<1>6. PICK w : K(w)
  <2>1. ASSUME db' = db, call' = [call EXCEPT ![c] = Settle(c)] PROVE K(b.write)
    <3>1. PICK w : w = b.write OBVIOUS
    <3>2. Settle(c) = [b EXCEPT !.pc = "record", !.todo = Compute(reg, e), !.write = w]
      BY <1>1, <1>2, <3>1 DEF Settle, AfterWrite, CallFields
    <3>3. K(w) BY <2>1, <3>1, <3>2
    <3> HIDE DEF K
    <3> QED BY <3>1, <3>3
  <2>2. ASSUME db' = [db EXCEPT ![d] = @ + 1], call' = [call EXCEPT ![c] = [Settle(c) EXCEPT !.write = db'[d]]]
        PROVE K(db'[d])
    <3>1. PICK w : w = db'[d] OBVIOUS
    <3>2. [Settle(c) EXCEPT !.write = w] = [b EXCEPT !.pc = "record", !.todo = Compute(reg, e), !.write = w]
      BY <1>1, <1>2 DEF Settle, AfterWrite, CallFields
    <3>3. w = db[d] + 1 BY <1>2, <1>3, <2>2, <3>1
    <3> QED BY <2>2, <3>1, <3>2, <3>3
  <2> HIDE DEF K
  <2> QED BY <1>1, <2>1, <2>2 DEF WriteExec
<1>7. PICK q : q = [b EXCEPT !.pc = "record", !.todo = Compute(reg, e), !.write = w] OBVIOUS
<1>8. q.pc = "record" /\ q.session = b.session /\ q.entity = e /\ q.todo = Compute(reg, e) /\ q.write = w
  BY <1>1, <1>2, <1>7 DEF CallFields
<1>9. db' \in [Database -> Nat] /\ \A x \in Database : db[x] \in Nat /\ db'[x] \in Nat /\ db[x] <= db'[x]
  <2>1. CASE db' = db BY <1>3, <2>1
  <2>2. CASE db' = [db EXCEPT ![d] = @ + 1]
    <3>1. db' = [x \in Database |-> IF x = d THEN db[d] + 1 ELSE db[x]] BY <1>2, <1>3, <2>2
    <3>2. ASSUME NEW x \in Database PROVE db[x] \in Nat /\ db'[x] \in Nat /\ db[x] <= db'[x] BY <1>3, <3>1, SMT
    <3>3. db' \in [Database -> Nat] BY <3>1, <3>2
    <3> QED BY <3>2, <3>3
  <2> QED BY <1>6, <2>1, <2>2
<1>10. Grows
  <2>1. /\ \A x \in Database : stamps[x] \in Nat
        /\ \A x \in Readable : done[x] \in Nat
    BY DEF FInv, Numbers
  <2> QED BY <1>4, <1>9, <2>1 DEF Grows, history
<1>11. Numbers'
  <2>1. ASSUME NEW x \in Readable, NEW n \in Nat, n <= db[DatabaseOf(x)] PROVE n <= db'[DatabaseOf(x)]
    <3>1. DatabaseOf(x) \in Database BY DEF Readable, Database, DatabaseOf
    <3>2. db[DatabaseOf(x)] \in Nat /\ db'[DatabaseOf(x)] \in Nat /\ db[DatabaseOf(x)] <= db'[DatabaseOf(x)] BY <1>9, <3>1
    <3> QED BY <2>1, <3>2, SMT
  <2>2. \A x \in Readable : done[x] \in Nat /\ done[x] <= db[DatabaseOf(x)]
                            /\ \A s \in Session : own[s][x] \in Nat /\ own[s][x] <= db[DatabaseOf(x)]
    BY DEF FInv, Numbers
  <2>3. \A x \in Readable : done[x] <= db'[DatabaseOf(x)] /\ \A s \in Session : own[s][x] <= db'[DatabaseOf(x)]
    BY <2>1, <2>2
  <2> QED BY <1>4, <1>5, <1>9, <2>3 DEF FInv, Numbers, history
<1>12. w \in Nat /\ w <= db'[d]
  <2>1. b.write \in Nat /\ b.write <= db[d] BY <1>1, <1>2 DEF FInv, CallsOK, CallOK, Writing
  <2>2. db'[d] \in Nat /\ db[d] <= db'[d] BY <1>2, <1>9
  <2>3. (w = db[d] + 1 /\ db' = [db EXCEPT ![d] = @ + 1]) => w = db'[d] BY <1>2, <1>3
  <2> QED BY <1>3, <1>6, <2>1, <2>2, <2>3, SMT
<1>13. call'[c] = q BY <1>6, <1>7, OneCall
<1>14. CallOK(c)' BY <1>1, <1>2, <1>4, <1>5, <1>8, <1>12, <1>13 DEF CallOK, Writing
<1> QED BY <1>4, <1>6, <1>7, <1>8, <1>10, <1>11, <1>14, WriteMoves

\* The reads of the session follow its write from now on; no target of the write
\* is invalidated yet.
LEMMA WriteRecordFresh == ASSUME IInv, FInv, NEW c \in Call, WriteRecord(c) PROVE FInv'
<1>1. PICK b : b = call[c] OBVIOUS
<1>2. b.pc = "record" /\ DOMAIN b = CallFields BY <1>1 DEF WriteRecord, IInv, Shapes
<1>3. /\ b.session \in Session /\ b.entity \in Entity /\ b.write \in Nat /\ b.write <= db[DatabaseOf(b.entity)]
      /\ b.todo = Compute(reg, b.entity)
  BY <1>1, <1>2 DEF FInv, CallsOK, CallOK, Writing
<1>4. PICK q : q = [b EXCEPT !.pc = "invalidate"] OBVIOUS
<1>5. q.pc = "invalidate" /\ q.session = b.session /\ q.entity = b.entity /\ q.write = b.write /\ q.todo = b.todo
  BY <1>2, <1>4 DEF CallFields
<1>6. /\ call' = [call EXCEPT ![c] = q] /\ UNCHANGED <<data, cache, stamps, flight, history>>
      /\ recent' = IF replicated THEN recent \cup {b.session} ELSE recent
  BY <1>1, <1>4 DEF WriteRecord
<1>7. Entity' = Entity /\ Readable' = Readable /\ Database' = Database /\ \A x : DatabaseOf(x)' = DatabaseOf(x)
  BY <1>6 DEF data, Entity, Readable, Database, DatabaseOf
<1>8. recent' \subseteq Session /\ (~replicated => recent' = {}) /\ recent \subseteq recent' BY <1>3, <1>6 DEF FInv, Numbers
<1>9. Numbers' BY <1>6, <1>7, <1>8 DEF FInv, Numbers, data, history
<1>10. Grows
  <2>1. /\ \A d \in Database : db[d] \in Nat /\ stamps[d] \in Nat
        /\ \A e \in Readable : done[e] \in Nat
    BY DEF FInv, Numbers
  <2> QED BY <1>6, <1>8, <2>1 DEF Grows, data, history
<1>11. call'[c] = q BY <1>6, OneCall
<1>12. CallOK(c)' BY <1>3, <1>5, <1>6, <1>7, <1>11 DEF CallOK, Writing, data
<1> QED BY <1>3, <1>5, <1>6, <1>9, <1>10, <1>12, WriteMoves

\* An entry goes, or the replica catches up.
LEMMA EvictFresh == ASSUME IInv, FInv, NEW s \in Scope, NEW e \in Readable, Evict(s, e) PROVE FInv'
<1>1. cache' = [cache EXCEPT ![s][e] = 0] /\ UNCHANGED <<data, stamps, recent, call, flight, history>> BY DEF Evict
<1>2. cache \in [Scope -> [Readable -> Nat]] BY DEF FInv, Numbers
<1>3. cache' \in [Scope -> [Readable -> Nat]] BY <1>1, <1>2
<1>4. \A g \in Scope, x \in Readable : cache'[g][x] = 0 \/ cache'[g][x] = cache[g][x] BY <1>1, <1>2
<1>5. Numbers' /\ Grows BY <1>1, <1>3, Quiet DEF FInv
<1>6. \A x \in Readable : \A v : NoneOlder(x, v) /\ Past(x, v) => NoneOlder(x, v)'
  BY <1>1, <1>4 DEF NoneOlder, DatabaseOf, data
<1>7. \A l \in Call : flight'[l].run # "none" => Aloft(flight[l]) /\ Alike(flight[l], flight'[l])
  BY <1>1 DEF FInv, FlightsOK, FlightOK, Alike
<1>8. \A o \in Call : call'[o] = call[o] /\ (call[o].pc = "wait" => /\ flight'[call[o].leader].run # "none"
                                                                  /\ flight'[call[o].leader].key = flight[call[o].leader].key)
  BY <1>1 DEF FInv, CallsOK, CallOK
<1> QED BY <1>1, <1>5, <1>6, <1>7, <1>8, Moves DEF history

LEMMA ReplicateFresh == ASSUME IInv, FInv, NEW d \in Database, Replicate(d) PROVE FInv'
<1>1. rep' = [rep EXCEPT ![d] = @ + 1] /\ UNCHANGED <<reg, replicated, db, cache, stamps, recent, call, flight, history>>
  BY DEF Replicate
<1>2. Readable' = Readable /\ Database' = Database /\ \A x : DatabaseOf(x)' = DatabaseOf(x)
  BY <1>1 DEF Readable, Entity, Database, DatabaseOf
<1>3. rep' \in [Database -> Nat]
  <2>1. rep \in [Database -> Nat] BY DEF FInv, Numbers
  <2> QED BY SMTT(20), Z3T(20), <1>1, <2>1
<1>4. Numbers' BY <1>1, <1>2, <1>3 DEF FInv, Numbers, history
<1>5. Grows
  <2>1. /\ \A x \in Database : db[x] \in Nat /\ stamps[x] \in Nat
        /\ \A x \in Readable : done[x] \in Nat
    BY DEF FInv, Numbers
  <2> QED BY <1>1, <2>1 DEF Grows, history
<1>6. \A x \in Readable : \A v : NoneOlder(x, v) /\ Past(x, v) => NoneOlder(x, v)'
  BY <1>1, <1>2 DEF NoneOlder
<1>7. \A l \in Call : flight'[l].run # "none" => Aloft(flight[l]) /\ Alike(flight[l], flight'[l])
  BY <1>1 DEF FInv, FlightsOK, FlightOK, Alike
<1>8. \A o \in Call : call'[o] = call[o] /\ (call[o].pc = "wait" => /\ flight'[call[o].leader].run # "none"
                                                                  /\ flight'[call[o].leader].key = flight[call[o].leader].key)
  BY <1>1 DEF FInv, CallsOK, CallOK
<1> QED BY <1>1, <1>4, <1>5, <1>6, <1>7, <1>8, Moves DEF history

\* A call leaves its flight, or has its answer: it is gone, and the flight is as it
\* was or taken away with nobody waiting.
LEMMA GoneKeeps ==
    ASSUME IInv, FInv, NEW c \in Call, call' = [call EXCEPT ![c] = Gone], NEW l \in Call, NEW r,
           flight' = [flight EXCEPT ![l] = r], UNCHANGED <<data, cache, stamps, recent, history>>,
           \/ Alike(flight[l], r)
           \/ r.run = "none" /\ \A o \in Call : o # c => call[o].leader # l
    PROVE FInv'
<1>1. call'[c] = Gone /\ \A o \in Call : o # c => call'[o] = call[o] BY OneCall
<1>2. Numbers' /\ Grows
  <2>1. cache' \in [Scope -> [Readable -> Nat]] BY DEF FInv, Numbers
  <2> QED BY <2>1, Quiet DEF FInv
<1>3. r.run # "none" => \E f : Aloft(f) /\ Alike(f, r)
  <2> SUFFICES ASSUME r.run # "none" PROVE Aloft(flight[l]) /\ Alike(flight[l], r) OBVIOUS
  <2> QED BY DEF FInv, FlightsOK, FlightOK, Alike
<1>4. /\ flight'[l] = r /\ \A o \in Call : o # l => flight'[o] = flight[o]
      /\ \A o \in Call : flight'[o].run # "none" => \E f : Aloft(f) /\ Alike(f, flight'[o])
  BY <1>3, OneFlight
<1>5. Gone.pc = "gone" BY DEF Gone, Idle
<1>6. CallOK(c)' BY <1>1, <1>5 DEF CallOK, Writing
<1>7. ASSUME NEW o \in Call, o # c, call[o].pc = "wait"
      PROVE flight'[call[o].leader].run # "none" /\ flight'[call[o].leader].key = flight[call[o].leader].key
  <2>1. call[o].leader \in Call BY <1>7 DEF IInv, Led
  <2>2. flight[call[o].leader].run # "none" BY <1>7 DEF FInv, CallsOK, CallOK
  <2>3. CASE call[o].leader # l BY <1>4, <2>1, <2>2, <2>3
  <2>4. CASE call[o].leader = l BY SMTT(20), Z3T(20), <1>4, <1>7, <2>2, <2>4 DEF Alike
  <2> QED BY <2>3, <2>4
<1>8. \A o \in Call : CallOK(o)' \/ /\ call'[o] = call[o]
                                    /\ call[o].pc = "wait" => /\ flight'[call[o].leader].run # "none"
                                                              /\ flight'[call[o].leader].key = flight[call[o].leader].key
  BY <1>1, <1>6, <1>7
<1>9. \A e \in Readable : \A v : NoneOlder(e, v) /\ Past(e, v) => NoneOlder(e, v)'
  <2>1. flight'[l].run = "set" => Alike(flight[l], flight'[l]) BY <1>4
  <2> QED BY <1>4, <2>1, NothingOlder
<1>10. \A o \in Call : call'[o].pc = "invalidate" => call'[o] = call[o] BY <1>1, <1>5
<1> QED BY <1>2, <1>4, <1>8, <1>9, <1>10, Moves DEF history

LEMMA LeaveFresh == ASSUME IInv, FInv, NEW c \in Call, LeaveFlight(c) PROVE FInv'
<1>1. PICK l, n, f : l = call[c].leader /\ n = flight[l].waiters - 1 /\ f = flight[l] OBVIOUS
<1>2. PICK r : r = [f EXCEPT !.waiters = n, !.canceled = @ \/ n = 0, !.listed = @ /\ n # 0] OBVIOUS
<1>3. l \in Call BY <1>1 DEF LeaveFlight, IInv, Led
<1>4. call' = [call EXCEPT ![c] = Gone] /\ UNCHANGED <<data, cache, stamps, recent, history>> BY DEF LeaveFlight
<1>5. flight' = [flight EXCEPT ![l].waiters = n, ![l].canceled = @ \/ n = 0, ![l].listed = @ /\ n # 0] BY <1>1 DEF LeaveFlight
<1>6. flight' = [flight EXCEPT ![l] = r] BY <1>1, <1>2, <1>3, <1>5 DEF IInv, Shapes
<1>7. DOMAIN f = FlightFields BY <1>1, <1>3 DEF IInv, Shapes
<1>8. Alike(f, r) BY <1>2, <1>7 DEF Alike, FlightFields
<1> QED BY <1>1, <1>3, <1>4, <1>6, <1>8, GoneKeeps

LEMMA AnswerFresh == ASSUME IInv, FInv, NEW c \in Call, Answer(c) PROVE FInv'
<1>1. PICK l : l = call[c].leader OBVIOUS
<1>2. l \in Call BY <1>1 DEF Answer, IInv, Led
<1>3. call' = [call EXCEPT ![c] = Gone] /\ UNCHANGED <<data, cache, stamps, recent, history>> BY DEF Answer
<1>4. CASE (\A o \in Call \ {c} : call[o].leader # l) /\ flight' = [flight EXCEPT ![l] = Grounded]
  <2>1. Grounded.run = "none" BY DEF Grounded
  <2> QED BY <1>2, <1>3, <1>4, <2>1, GoneKeeps
<1>5. CASE flight' = flight
  <2>1. flight' = [flight EXCEPT ![l] = flight[l]] BY <1>2, <1>5 DEF IInv, Shapes
  <2>2. PICK r : r = flight[l] OBVIOUS
  <2>3. Alike(flight[l], r) BY <2>2 DEF Alike
  <2> QED BY <1>2, <1>3, <2>1, <2>2, <2>3, GoneKeeps
<1> QED BY <1>1, <1>4, <1>5 DEF Answer

\* A read joins a flight of its key, which is on its way, or begins one that owes it
\* what was written before.
LEMMA JoinFresh == ASSUME IInv, FInv, NEW c \in Call, Join(c) PROVE FInv'
<1>1. PICK b, k : b = call[c] /\ k = b.key OBVIOUS
<1>2. b.pc = "do" /\ DOMAIN b = CallFields BY <1>1 DEF Join, IInv, Shapes
<1>3. b.session \in Session /\ KeyOK(k, b.session) /\ b.entity = k[2] /\ (b.after => k[3] = b.session)
  BY <1>1, <1>2 DEF FInv, CallsOK, CallOK
<1>4. UNCHANGED <<data, cache, stamps, recent, history>> BY DEF Join
<1>5. Numbers' /\ Grows
  <2>1. cache' \in [Scope -> [Readable -> Nat]] BY <1>4 DEF FInv, Numbers
  <2> QED BY <1>4, <2>1, Quiet DEF FInv
<1>6. ASSUME NEW l \in Call, NEW r, call' = [call EXCEPT ![c].pc = "wait", ![c].leader = l],
             flight' = [flight EXCEPT ![l] = r], r.run # "none", r.key = k, \E f : Aloft(f) /\ Alike(f, r),
             flight[l].key = k \/ (l = c /\ \A o \in Call : call[o].pc = "wait" => call[o].leader # c),
             r.run = "set" => Alike(flight[l], r)
      PROVE FInv'
  <2>1. PICK q : q = [b EXCEPT !.pc = "wait", !.leader = l] OBVIOUS
  <2>2. /\ q.pc = "wait" /\ q.leader = l /\ q.session = b.session /\ q.key = k /\ q.entity = b.entity
        /\ q.after = b.after
    BY <1>1, <1>2, <2>1 DEF CallFields
  <2>3. call' = [call EXCEPT ![c] = q] BY <1>1, <1>6, <2>1 DEF IInv, Shapes
  <2>4. call'[c] = q /\ \A o \in Call : o # c => call'[o] = call[o] BY <2>3, OneCall
  <2>5. /\ flight'[l] = r /\ \A o \in Call : o # l => flight'[o] = flight[o]
        /\ \A o \in Call : flight'[o].run # "none" => \E f : Aloft(f) /\ Alike(f, flight'[o])
    BY <1>6, OneFlight
  <2>6. KeyOK(k, b.session)' BY <1>3, <1>5 DEF KeyOK, Grows, Readable, Entity
  <2>7. CallOK(c)'
    <3>1. flight'[q.leader].run # "none" /\ flight'[q.leader].key = q.key BY <1>6, <2>2, <2>5
    <3>2. q.pc \notin Writing /\ q.pc \notin {"record", "invalidate"} /\ q.pc \in {"do", "wait"} BY <2>2 DEF Writing
    <3> QED BY <1>3, <2>2, <2>4, <2>6, <3>1, <3>2 DEF CallOK, KeyOK
  <2>8. ASSUME NEW o \in Call, o # c, call[o].pc = "wait"
        PROVE flight'[call[o].leader].run # "none" /\ flight'[call[o].leader].key = flight[call[o].leader].key
    <3>1. call[o].leader \in Call BY <2>8 DEF IInv, Led
    <3>2. flight[call[o].leader].run # "none" BY <2>8 DEF FInv, CallsOK, CallOK
    <3>3. CASE call[o].leader # l BY <2>5, <3>1, <3>2, <3>3
    <3>4. CASE call[o].leader = l BY <1>6, <2>5, <2>8, <3>4
    <3> QED BY <3>3, <3>4
  <2>9. \A o \in Call : CallOK(o)' \/ /\ call'[o] = call[o]
                                      /\ call[o].pc = "wait" => /\ flight'[call[o].leader].run # "none"
                                                                /\ flight'[call[o].leader].key = flight[call[o].leader].key
    BY <2>4, <2>7, <2>8
  <2>10. \A e \in Readable : \A v : NoneOlder(e, v) /\ Past(e, v) => NoneOlder(e, v)'
    <3>1. flight'[l].run = "set" => Alike(flight[l], flight'[l]) BY <1>6, <2>5
    <3> QED BY <1>4, <2>5, <3>1, NothingOlder
  <2>11. \A o \in Call : call'[o].pc = "invalidate" => call'[o] = call[o] BY <2>2, <2>4
  <2> QED BY <1>4, <1>5, <2>5, <2>9, <2>10, <2>11, Moves DEF history
<1>7. ASSUME NEW l \in Listed(k), call' = [call EXCEPT ![c].pc = "wait", ![c].leader = l],
             flight' = [flight EXCEPT ![l].waiters = @ + 1]
      PROVE FInv'
  <2>1. PICK f : f = flight[l] OBVIOUS
  <2>2. l \in Call /\ f.key = k /\ f.run # "none" /\ DOMAIN f = FlightFields
    BY <1>7, <2>1 DEF Listed, IInv, Led, Shapes
  <2>3. PICK r : r = [f EXCEPT !.waiters = @ + 1] OBVIOUS
  <2>4. Alike(f, r) /\ r.run = f.run /\ r.key = f.key BY <2>2, <2>3 DEF Alike, FlightFields
  <2>5. flight' = [flight EXCEPT ![l] = r] BY <1>7, <2>1, <2>2, <2>3 DEF IInv, Shapes
  <2>6. Aloft(f) BY <2>1, <2>2 DEF FInv, FlightsOK, FlightOK
  <2> QED BY <1>6, <1>7, <2>1, <2>2, <2>4, <2>5, <2>6
<1>8. ASSUME call' = [call EXCEPT ![c].pc = "wait", ![c].leader = c],
             NEW w, w = [s \in Session |-> IF s \in recent THEN own[s][b.entity] ELSE 0],
             NEW r, r = [Grounded EXCEPT
                !.run = "route", !.session = b.session, !.key = k, !.listed = TRUE, !.waiters = 1,
                !.fresh = done[b.entity], !.owed = w],
             flight' = [flight EXCEPT ![c] = r]
      PROVE FInv'
  <2>1. /\ r.run = "route" /\ r.session = b.session /\ r.key = k /\ r.got = 0 /\ r.stamp = 0
        /\ r.fresh = done[b.entity] /\ r.owed = w
    BY <1>8 DEF Grounded
  <2>2. b.entity \in Readable /\ DatabaseOf(b.entity) \in Database BY <1>3, KeyParts
  <2>3. done[b.entity] \in Nat /\ db[DatabaseOf(b.entity)] \in Nat BY <2>2 DEF FInv, Numbers
  <2>4. w \in [Session -> Nat] /\ \A s \in Session : w[s] <= db[DatabaseOf(b.entity)] /\ (w[s] # 0 => s \in recent)
    <3>1. \A s \in Session : own[s][b.entity] \in Nat /\ own[s][b.entity] <= db[DatabaseOf(b.entity)]
      BY <2>2 DEF FInv, Numbers
    <3>2. \A s \in Session : w[s] \in Nat /\ w[s] <= db[DatabaseOf(b.entity)] /\ (w[s] # 0 => s \in recent)
      BY <1>8, <2>3, <3>1, SMT
    <3> QED BY <1>8, <3>2
  <2>5. done[b.entity] <= done[b.entity] /\ 0 \in Nat BY <2>3, SMT
  <2>6. Aloft(r) BY <1>3, <2>1, <2>3, <2>4, <2>5 DEF Aloft
  <2>7. Alike(r, r) BY DEF Alike
  <2>8. \A o \in Call : call[o].pc = "wait" => call[o].leader # c BY <1>1, <1>2 DEF IInv, Led, Came
  <2> QED BY <1>6, <1>8, <2>1, <2>6, <2>7, <2>8
<1> QED BY <1>1, <1>7, <1>8 DEF Join

\* A window ends: what was owed to the session no longer is.
LEMMA WindowFresh == ASSUME IInv, FInv, NEW s \in Session, WindowEnds(s) PROVE FInv'
<1>1. /\ recent' = recent \ {s} /\ flight' = [c \in Call |-> [flight[c] EXCEPT !.owed[s] = 0]]
      /\ UNCHANGED <<data, cache, stamps, call, history>>
  BY DEF WindowEnds
<1>2. Entity' = Entity /\ Readable' = Readable /\ Database' = Database /\ \A x : DatabaseOf(x)' = DatabaseOf(x)
  BY <1>1 DEF data, Entity, Readable, Database, DatabaseOf
<1>3. Numbers' BY <1>1, <1>2 DEF FInv, Numbers, data, history
<1>10. ASSUME NEW l \in Call
       PROVE \E f, r : /\ f = flight[l] /\ r = flight'[l]
                       /\ r.run = f.run /\ r.session = f.session /\ r.key = f.key /\ r.got = f.got
                       /\ r.fresh = f.fresh /\ r.stamp = f.stamp /\ r.primary = f.primary /\ r.follows = f.follows
                       /\ r.owed = [f.owed EXCEPT ![s] = 0]
  <2>1. PICK f : f = flight[l] OBVIOUS
  <2>2. PICK r : r = [f EXCEPT !.owed[s] = 0] OBVIOUS
  <2>3. r = flight'[l] BY <1>1, <2>1, <2>2
  <2>4. DOMAIN f = FlightFields BY <2>1 DEF IInv, Shapes
  <2>5. /\ r.run = f.run /\ r.session = f.session /\ r.key = f.key /\ r.got = f.got
        /\ r.fresh = f.fresh /\ r.stamp = f.stamp /\ r.primary = f.primary /\ r.follows = f.follows
        /\ r.owed = [f.owed EXCEPT ![s] = 0]
    BY <2>2, <2>4 DEF FlightFields
  <2> QED BY <2>1, <2>3, <2>5
<1>4. ASSUME NEW l \in Call
      PROVE /\ flight'[l].run = flight[l].run /\ flight'[l].key = flight[l].key
            /\ flight'[l].got = flight[l].got /\ flight'[l].stamp = flight[l].stamp
  <2>1. PICK f, r : /\ f = flight[l] /\ r = flight'[l]
                    /\ r.run = f.run /\ r.session = f.session /\ r.key = f.key /\ r.got = f.got
                    /\ r.fresh = f.fresh /\ r.stamp = f.stamp /\ r.primary = f.primary /\ r.follows = f.follows
                    /\ r.owed = [f.owed EXCEPT ![s] = 0]
    BY <1>10
  <2> QED BY <2>1
<1>5. ASSUME NEW l \in Call, flight'[l].run # "none" PROVE Aloft(flight[l])'
  <2>1. PICK f, r : /\ f = flight[l] /\ r = flight'[l]
                    /\ r.run = f.run /\ r.session = f.session /\ r.key = f.key /\ r.got = f.got
                    /\ r.fresh = f.fresh /\ r.stamp = f.stamp /\ r.primary = f.primary /\ r.follows = f.follows
                    /\ r.owed = [f.owed EXCEPT ![s] = 0]
    BY <1>10
  <2>2. /\ r.run = f.run /\ r.session = f.session /\ r.key = f.key /\ r.got = f.got /\ r.fresh = f.fresh
        /\ r.stamp = f.stamp /\ r.primary = f.primary /\ r.follows = f.follows
        /\ r.owed = [f.owed EXCEPT ![s] = 0]
    BY <2>1
  <2>3. Aloft(f) BY <1>5, <2>1, <2>2 DEF FInv, FlightsOK, FlightOK
  <2>4. f.owed \in [Session -> Nat] /\ f.session \in Session BY <2>3 DEF Aloft
  <2>5. r.owed \in [Session -> Nat] /\ \A x \in Session : r.owed[x] = IF x = s THEN 0 ELSE f.owed[x] BY SMTT(20), Z3T(20), <2>2, <2>4
  <2>6. PICK d : d = DatabaseOf(f.key[2]) OBVIOUS
  <2>7. db[d] \in Nat
    <3>1. d \in Database BY <2>3, <2>6, KeyParts DEF Aloft
    <3> QED BY <3>1 DEF FInv, Numbers
  <2>8. ASSUME NEW x \in Session PROVE r.owed[x] <= db[d] /\ (r.owed[x] # 0 => x \in recent')
    <3>1. f.owed[x] <= db[d] /\ (f.owed[x] # 0 => x \in recent) BY <2>3, <2>6 DEF Aloft
    <3> QED BY <1>1, <2>5, <2>7, <3>1
  <2>9. f.got # 0 /\ f.key[3] = f.session => f.got >= r.owed[f.session]
    <3>1. f.got \in Nat /\ (f.got # 0 /\ f.key[3] = f.session => f.got >= f.owed[f.session]) BY <2>3 DEF Aloft
    <3>2. r.owed[f.session] = 0 \/ r.owed[f.session] = f.owed[f.session] BY <2>4, <2>5
    <3> QED BY <3>1, <3>2
  <2>10. f.owed[f.session] = 0 => r.owed[f.session] = 0 BY <2>4, <2>5
  <2>11. KeyOK(r.key, r.session)' BY <1>2, <2>2, <2>3 DEF Aloft, KeyOK
  <2>12. Aloft(r)' BY <1>1, <1>2, <2>2, <2>3, <2>5, <2>6, <2>8, <2>9, <2>10, <2>11 DEF Aloft, data, history
  <2> QED BY <2>1, <2>12 DEF Aloft
<1>6. FlightsOK' BY <1>5 DEF FlightsOK, FlightOK
<1>7. ASSUME NEW o \in Call PROVE CallOK(o)'
  <2>1. CallOK(o) BY DEF FInv, CallsOK
  <2>2. call[o].pc = "wait" => flight'[call[o].leader].run # "none" /\ flight'[call[o].leader].key = call[o].key
    <3>1. call[o].pc = "wait" => call[o].leader \in Call BY DEF IInv, Led
    <3> QED BY <1>4, <2>1, <3>1 DEF CallOK
  <2>3. reg' = reg /\ db' = db /\ call' = call BY <1>1 DEF data
  <2> QED BY <1>2, <2>1, <2>2, <2>3 DEF CallOK, Writing, KeyOK
<1>8. ASSUME NEW e, NEW v, NoneOlder(e, v) PROVE NoneOlder(e, v)'
  <2>1. cache' = cache /\ stamps' = stamps BY <1>1
  <2> QED BY <1>2, <1>4, <1>8, <2>1 DEF NoneOlder
<1>9. Fresh'
  <2>1. ASSUME NEW e \in Readable, NoneOlder(e, done[e]) PROVE NoneOlder(e, done[e])'
    <3>1. PICK v : v = done[e] OBVIOUS
    <3>2. NoneOlder(e, v)' BY <1>8, <2>1, <3>1
    <3> QED BY <1>1, <3>1, <3>2 DEF history, NoneOlder
  <2>2. ASSUME NEW o \in Call, NEW e, NoneOlder(e, call[o].write) PROVE NoneOlder(e, call[o].write)'
    <3>1. PICK v : v = call[o].write OBVIOUS
    <3>2. NoneOlder(e, v)' BY <1>8, <2>2, <3>1
    <3> QED BY <1>1, <3>1, <3>2 DEF NoneOlder
  <2>3. reg' = reg /\ replicated' = replicated /\ call' = call BY <1>1 DEF data
  <2> QED BY <1>2, <2>1, <2>2, <2>3 DEF FInv, Fresh
<1> QED BY <1>3, <1>6, <1>7, <1>9 DEF FInv, CallsOK

\* A target is invalidated: its entries go, and what is about to be stored of it
\* is refused.  After the last one all the write may have changed is.
LEMMA WriteInvalidateFresh == ASSUME IInv, FInv, NEW c \in Call, WriteInvalidate(c) PROVE FInv'
<1>1. PICK b : b = call[c] OBVIOUS
<1>2. PICK t \in call[c].todo :
        LET rest == call[c].todo \ {t}
            n == call[c].write
            returned(f, h) == IF rest = {} /\ f \in Changes(reg, call[c].entity) /\ n > h THEN n ELSE h
        IN
        /\ call[c].pc = "invalidate"
        /\ stamps' = [stamps EXCEPT ![t.physical] = @ + 1]
        /\ cache' = [s \in Scope |-> [e \in Readable |-> IF Drops(reg, t, e) THEN 0 ELSE cache[s][e]]]
        /\ call' = [call EXCEPT ![c] = IF rest = {} THEN Gone ELSE [call[c] EXCEPT !.todo = rest]]
        /\ done' = [f \in Readable |-> returned(f, done[f])]
        /\ own' = [own EXCEPT ![call[c].session] = [f \in Readable |-> returned(f, @[f])]]
        /\ UNCHANGED <<data, recent, flight>>
  BY DEF WriteInvalidate
<1>3. PICK rest, n, e0 : rest = b.todo \ {t} /\ n = b.write /\ e0 = b.entity /\ t \in b.todo BY <1>1, <1>2
<1>4. PICK q : q = IF rest = {} THEN Gone ELSE [b EXCEPT !.todo = rest] OBVIOUS
<1>5. /\ b.pc = "invalidate" /\ call' = [call EXCEPT ![c] = q] /\ UNCHANGED <<data, recent, flight>>
      /\ stamps' = [stamps EXCEPT ![t.physical] = @ + 1]
      /\ cache' = [s \in Scope |-> [e \in Readable |-> IF Drops(reg, t, e) THEN 0 ELSE cache[s][e]]]
  BY <1>1, <1>2, <1>3, <1>4
<1>6. done' = [f \in Readable |-> IF rest = {} /\ f \in Changes(reg, e0) /\ n > done[f] THEN n ELSE done[f]]
  BY <1>1, <1>2, <1>3
<1>7. own' = [own EXCEPT ![b.session] =
                 [f \in Readable |-> IF rest = {} /\ f \in Changes(reg, e0) /\ n > @[f] THEN n ELSE @[f]]]
  BY <1>1, <1>2, <1>3
<1>8. DOMAIN b = CallFields /\ b.session \in Session /\ e0 \in Entity /\ n \in Nat /\ n <= db[DatabaseOf(e0)]
      /\ b.todo \subseteq Compute(reg, e0)
  BY <1>1, <1>3, <1>5 DEF IInv, Shapes, FInv, CallsOK, CallOK, Writing
<1>9. /\ Entity' = Entity /\ Readable' = Readable /\ Database' = Database /\ reg' = reg /\ db' = db
      /\ replicated' = replicated /\ recent' = recent /\ flight' = flight /\ \A x : DatabaseOf(x)' = DatabaseOf(x)
  BY <1>5 DEF data, Entity, Readable, Database, DatabaseOf
<1>10. \A d \in Database : stamps[d] \in Nat /\ stamps'[d] = IF d = t.physical THEN stamps[d] + 1 ELSE stamps[d]
  BY <1>5 DEF FInv, Numbers
<1>11. \A f \in Readable : DatabaseOf(f) \in Database /\ db[DatabaseOf(f)] \in Nat /\ done[f] \in Nat /\ done[f] <= db[DatabaseOf(f)]
  <2>1. \A f \in Readable : DatabaseOf(f) \in Database BY DEF Readable, DatabaseOf, Database
  <2> QED BY <2>1 DEF FInv, Numbers
<1>12. \A f \in Changes(reg, e0) : f \in Readable /\ n <= db[DatabaseOf(f)] BY <1>8, ChangesAre
<1>13. ASSUME NEW f \in Readable
       PROVE done'[f] \in Nat /\ done[f] <= done'[f] /\ done'[f] <= db[DatabaseOf(f)]
  <2>1. done'[f] = IF rest = {} /\ f \in Changes(reg, e0) /\ n > done[f] THEN n ELSE done[f] BY <1>6
  <2>2. CASE rest = {} /\ f \in Changes(reg, e0) /\ n > done[f] BY <1>8, <1>11, <1>12, <2>1, <2>2, SMT
  <2>3. CASE ~(rest = {} /\ f \in Changes(reg, e0) /\ n > done[f]) BY <1>11, <2>1, <2>3, SMT
  <2> QED BY <2>2, <2>3
<1>14. ASSUME NEW s \in Session, NEW f \in Readable
       PROVE own'[s][f] \in Nat /\ own'[s][f] <= db[DatabaseOf(f)]
  <2>1. own[s][f] \in Nat /\ own[s][f] <= db[DatabaseOf(f)] /\ own \in [Session -> [Readable -> Nat]] BY DEF FInv, Numbers
  <2>2. own'[s][f] = IF s = b.session /\ rest = {} /\ f \in Changes(reg, e0) /\ n > own[s][f] THEN n ELSE own[s][f]
    BY <1>7, <1>8, <2>1
  <2>3. CASE s = b.session /\ rest = {} /\ f \in Changes(reg, e0) /\ n > own[s][f] BY <1>8, <1>12, <2>2, <2>3
  <2>4. CASE ~(s = b.session /\ rest = {} /\ f \in Changes(reg, e0) /\ n > own[s][f]) BY <2>1, <2>2, <2>4
  <2> QED BY <2>3, <2>4
<1>15. Numbers'
  <2>1. stamps' \in [Database -> Nat]
    <3>1. stamps \in [Database -> Nat] BY DEF FInv, Numbers
    <3>2. stamps' = [d \in Database |-> stamps'[d]] BY <1>5, <3>1
    <3>3. \A d \in Database : stamps'[d] \in Nat BY SMTT(20), Z3T(20), <1>10
    <3> QED BY <3>2, <3>3
  <2>2. cache' \in [Scope -> [Readable -> Nat]]
    <3>1. \A s \in Scope, e \in Readable : cache[s][e] \in Nat BY DEF FInv, Numbers
    <3> QED BY <1>5, <3>1
  <2>3. done' \in [Readable -> Nat] BY <1>6, <1>13
  <2>4. own' \in [Session -> [Readable -> Nat]]
    <3>1. own \in [Session -> [Readable -> Nat]] BY DEF FInv, Numbers
    <3>2. own' = [s \in Session |-> own'[s]] BY <1>7, <3>1
    <3>3. ASSUME NEW s \in Session PROVE own'[s] = [f \in Readable |-> own'[s][f]]
      <4>1. CASE s = b.session BY <1>7, <3>1, <4>1
      <4>2. CASE s # b.session BY <1>7, <3>1, <4>2
      <4> QED BY <4>1, <4>2
    <3>4. \A s \in Session : own'[s] \in [Readable -> Nat] BY <1>14, <3>3
    <3> QED BY <3>2, <3>4
  <2>5. rep' = rep BY <1>5 DEF data
  <2>6. reg \in Registries /\ replicated \in BOOLEAN /\ recent \subseteq Session /\ (~replicated => recent = {})
        /\ db \in [Database -> Nat] /\ rep \in [Database -> Nat]
    BY DEF FInv, Numbers
  <2> QED BY <1>9, <1>13, <1>14, <2>1, <2>2, <2>3, <2>4, <2>5, <2>6 DEF Numbers
<1>16. Grows
  <2>1. \A d \in Database : stamps[d] <= stamps'[d] BY SMTT(20), Z3T(20), <1>10
  <2>2. \A d \in Database : db[d] <= db'[d] BY <1>9 DEF FInv, Numbers
  <2> QED BY <1>9, <1>13, <2>1, <2>2 DEF Grows
<1>17. call'[c] = q /\ \A o \in Call : o # c => call'[o] = call[o] BY <1>5, OneCall
<1>18. rest # {} => q.pc = "invalidate" /\ q.session = b.session /\ q.entity = e0 /\ q.write = n /\ q.todo = rest
  BY <1>3, <1>4, <1>5, <1>8 DEF CallFields
<1>19. rest = {} => q.pc = "gone" BY <1>4 DEF Gone, Idle
<1>20. CallsOK'
  <2>1. ASSUME rest = {} PROVE CallOK(c)' BY <1>17, <1>19, <2>1 DEF CallOK, Writing
  <2>2. ASSUME rest # {} PROVE CallOK(c)'
    <3>1. rest \subseteq Compute(reg, e0) BY <1>3, <1>8
    <3> QED BY <1>8, <1>9, <1>17, <1>18, <2>2, <3>1 DEF CallOK, Writing
  <2>3. ASSUME NEW o \in Call, o # c PROVE CallOK(o)'
    <3>1. call[o].pc = "wait" => flight[call[o].leader].run # "none" BY DEF FInv, CallsOK, CallOK
    <3>2. CallOK(o) /\ Numbers BY DEF FInv, CallsOK
    <3> QED BY <1>9, <1>15, <1>16, <1>17, <2>3, <3>1, <3>2, CallKeeps
  <2> QED BY <2>1, <2>2, <2>3 DEF CallsOK
<1>21. FlightsOK'
  <2>1. ASSUME NEW l \in Call, flight'[l].run # "none" PROVE Aloft(flight[l])'
    <3>1. PICK f : f = flight[l] OBVIOUS
    <3>2. Aloft(f) /\ Alike(f, f) BY <1>9, <2>1, <3>1 DEF FInv, FlightsOK, FlightOK, Alike
    <3>3. Aloft(f)' BY <1>15, <1>16, <3>2, StaysAloft DEF FInv
    <3> QED BY <1>9, <3>1, <3>3 DEF Aloft
  <2> QED BY <2>1 DEF FlightsOK, FlightOK
<1>22. \A l \in Call : flight[l].run = "set" =>
          DatabaseOf(flight[l].key[2]) \in Database /\ flight[l].stamp \in Nat /\ flight[l].stamp <= stamps[DatabaseOf(flight[l].key[2])]
  BY KeyParts DEF FInv, FlightsOK, FlightOK, Aloft
<1>23. ASSUME NEW e \in Readable, NEW v, Drops(reg, t, e) PROVE NoneOlder(e, v)'
  <2>1. \A g \in Scope : cache'[g][e] = 0 BY <1>5, <1>23
  <2>2. DatabaseOf(e) = t.physical /\ DatabaseOf(e) \in Database BY <1>11, <1>23 DEF Drops, DatabaseOf
  <2>3. stamps'[DatabaseOf(e)] = stamps[DatabaseOf(e)] + 1 /\ stamps[DatabaseOf(e)] \in Nat BY <1>10, <2>2
  <2>4. ASSUME NEW l \in Call, flight[l].run = "set", flight[l].key[2] = e PROVE flight[l].stamp # stamps'[DatabaseOf(e)]
    <3>1. flight[l].stamp \in Nat /\ flight[l].stamp <= stamps[DatabaseOf(e)] BY <1>22, <2>4
    <3> QED BY <2>3, <3>1
  <2> QED BY <1>9, <2>1, <2>4 DEF NoneOlder
<1>24. ASSUME NEW e \in Readable, NEW v, NoneOlder(e, v) PROVE NoneOlder(e, v)'
  <2>1. CASE Drops(reg, t, e) BY <1>23, <2>1
  <2>2. CASE ~Drops(reg, t, e)
    <3>1. \A g \in Scope : cache'[g][e] = cache[g][e] BY <1>5, <2>2
    <3>2. ASSUME NEW l \in Call, flight[l].run = "set", flight[l].key[2] = e, flight[l].stamp = stamps'[DatabaseOf(e)]
          PROVE flight[l].stamp = stamps[DatabaseOf(e)]
      <4>1. flight[l].stamp \in Nat /\ flight[l].stamp <= stamps[DatabaseOf(e)] BY <1>22, <3>2
      <4>2. stamps[DatabaseOf(e)] \in Nat /\ stamps[DatabaseOf(e)] <= stamps'[DatabaseOf(e)] BY SMTT(20), Z3T(20), <1>10, <1>11
      <4> QED BY <3>2, <4>1, <4>2
    <3> QED BY <1>9, <1>24, <3>1, <3>2 DEF NoneOlder
  <2> QED BY <2>1, <2>2
<1>25. ASSUME ~replicated, NEW e \in Changes(reg, e0), NEW u \in Compute(reg, e0) \ rest, Drops(reg, u, e)
       PROVE NoneOlder(e, n)'
  <2>1. e \in Readable BY <1>12
  <2>2. CASE u = t BY <1>23, <1>25, <2>1, <2>2
  <2>3. CASE u # t
    <3>1. u \in Compute(reg, e0) \ b.todo BY <1>3, <2>3
    <3>2. NoneOlder(e, n) BY <1>1, <1>3, <1>5, <1>25, <3>1 DEF FInv, Fresh
    <3> QED BY <1>24, <2>1, <3>2
  <2> QED BY <2>2, <2>3
<1>26. ASSUME ~replicated, NEW e \in Readable PROVE NoneOlder(e, done[e])'
  <2>1. PICK v : v = done'[e] OBVIOUS
  <2>2. CASE v = done[e]
    <3>1. NoneOlder(e, v) BY <1>26, <2>2 DEF FInv, Fresh
    <3>2. NoneOlder(e, v)' BY <1>24, <3>1
    <3> QED BY <2>1, <3>2 DEF NoneOlder
  <2>3. CASE v # done[e]
    <3>1. v = n /\ rest = {} /\ e \in Changes(reg, e0) BY <1>6, <2>1, <2>3
    <3>2. PICK u \in Compute(reg, e0) : Drops(reg, u, e) BY <1>8, <3>1, Covered, Served DEF FInv, Entity
    <3>3. NoneOlder(e, v)' BY <1>25, <1>26, <3>1, <3>2
    <3> QED BY <2>1, <3>3 DEF NoneOlder
  <2> QED BY <2>2, <2>3
<1>27. ASSUME ~replicated, NEW o \in Call, call'[o].pc = "invalidate", NEW e \in Changes(reg, call'[o].entity),
              NEW u \in Compute(reg, call'[o].entity) \ call'[o].todo, Drops(reg, u, e)
       PROVE NoneOlder(e, call[o].write)'
  <2>1. CASE o = c
    <3>1. rest # {} BY <1>17, <1>19, <1>27, <2>1
    <3>2. call'[o].entity = e0 /\ call'[o].todo = rest /\ call'[o].write = n BY <1>17, <1>18, <2>1, <3>1
    <3>3. NoneOlder(e, n)' BY <1>25, <1>27, <3>2
    <3> QED BY <3>2, <3>3 DEF NoneOlder
  <2>2. CASE o # c
    <3>1. PICK v : v = call[o].write OBVIOUS
    <3>2. call'[o] = call[o] /\ call[o].entity \in Entity BY <1>17, <1>27, <2>2 DEF FInv, CallsOK, CallOK, Writing
    <3>3. e \in Readable BY <1>27, <3>2, ChangesAre
    <3>4. NoneOlder(e, v) BY <1>27, <3>1, <3>2 DEF FInv, Fresh
    <3>5. NoneOlder(e, v)' BY <1>24, <3>3, <3>4
    <3> QED BY <3>1, <3>2, <3>5 DEF NoneOlder
  <2> QED BY <2>1, <2>2
<1>28. Fresh' BY <1>9, <1>26, <1>27 DEF Fresh
<1> QED BY <1>15, <1>20, <1>21, <1>28 DEF FInv

\* The registry is chosen, the databases hold their rows and the cache is empty.
LEMMA InitFresh == ASSUME Init PROVE FInv
<1>1. /\ reg \in Registries /\ replicated \in BOOLEAN /\ db = [d \in Database |-> 1] /\ rep = db
      /\ stamps = [d \in Database |-> 0] /\ cache = [s \in Scope |-> [e \in Readable |-> 0]] /\ recent = {}
      /\ call = [c \in Call |-> Idle] /\ flight = [c \in Call |-> Grounded]
      /\ done = [e \in Readable |-> 1] /\ own = [s \in Session |-> done]
  BY CallsAssumption DEF Init
<1>2. Numbers
  <2>1. \A e \in Readable : DatabaseOf(e) \in Database BY DEF Readable, DatabaseOf, Database
  <2>2. \A e \in Readable : done[e] = 1 /\ db[DatabaseOf(e)] = 1 /\ \A s \in Session : own[s][e] = 1 BY <1>1, <2>1
  <2>3. /\ db \in [Database -> Nat] /\ stamps \in [Database -> Nat] /\ cache \in [Scope -> [Readable -> Nat]]
        /\ done \in [Readable -> Nat]
    BY <1>1
  <2>4. own \in [Session -> [Readable -> Nat]] BY <1>1, <2>3
  <2>5. \A e \in Readable : done[e] <= db[DatabaseOf(e)] /\ \A s \in Session : own[s][e] <= db[DatabaseOf(e)]
    BY <2>2
  <2> QED BY <1>1, <2>3, <2>4, <2>5 DEF Numbers
<1>3. Idle.pc = "none" /\ Grounded.run = "none" BY DEF Idle, Grounded
<1>4. CallsOK BY <1>1, <1>3 DEF CallsOK, CallOK, Writing
<1>5. FlightsOK BY <1>1, <1>3 DEF FlightsOK, FlightOK
<1>6. Fresh BY <1>1, <1>3 DEF Fresh, NoneOlder
<1> QED BY <1>2, <1>4, <1>5, <1>6 DEF FInv

\* A step in which nothing happens.
LEMMA RestFresh == ASSUME IInv, FInv, UNCHANGED vars PROVE FInv'
<1>1. UNCHANGED <<data, cache, stamps, recent, call, flight, history>> BY DEF vars
<1>2. cache' \in [Scope -> [Readable -> Nat]] BY <1>1 DEF FInv, Numbers
<1>3. Numbers' /\ Grows BY <1>1, <1>2, Quiet DEF FInv
<1>4. \A x \in Readable : \A v : NoneOlder(x, v) /\ Past(x, v) => NoneOlder(x, v)'
  BY <1>1 DEF NoneOlder, DatabaseOf, data
<1>5. \A l \in Call : flight'[l].run # "none" => Aloft(flight[l]) /\ Alike(flight[l], flight'[l])
  BY <1>1 DEF FInv, FlightsOK, FlightOK, Alike
<1>6. \A o \in Call : call'[o] = call[o] /\ (call[o].pc = "wait" => /\ flight'[call[o].leader].run # "none"
                                                                  /\ flight'[call[o].leader].key = flight[call[o].leader].key)
  BY <1>1 DEF FInv, CallsOK, CallOK
<1> QED BY <1>1, <1>3, <1>4, <1>5, <1>6, Moves DEF history

\* The freshness invariant holds throughout.
LEMMA Kept == Spec => [](IInv /\ FInv)
<1>1. Init => FInv BY InitFresh
<1>2. IInv /\ FInv /\ [Next]_vars => FInv'
  <2> SUFFICES ASSUME IInv, FInv, [Next]_vars PROVE FInv' OBVIOUS
  <2>1. ASSUME NEW c \in Call, CallStep(c) PROVE FInv'
    BY <2>1, JoinFresh, LeaveFresh, AnswerFresh, WriteExecFresh, WriteRecordFresh, WriteInvalidateFresh DEF CallStep
  <2>2. ASSUME NEW c \in Call, FlightStep(c) PROVE FInv'
    BY <2>2, RouteConnectionFresh, RouteFollowsFresh, StampFresh, GetFresh, QueryFresh, StoreFresh, LandFresh DEF FlightStep
  <2>3. ASSUME NEW c \in Reader, NEW s \in Session, NEW g \in Scope, NEW e \in Readable, ReadBegin(c, s, g, e) PROVE FInv'
    <3>1. c \in Call BY DEF Call
    <3> QED BY <2>3, <3>1, ReadBeginFresh
  <2>4. ASSUME NEW c \in Writer, NEW s \in Session, NEW e \in Entity, WriteBegin(c, s, e) PROVE FInv'
    <3>1. c \in Call BY DEF Call
    <3> QED BY <2>4, <3>1, WriteBeginFresh
  <2>5. CASE Rest \/ UNCHANGED vars BY <2>5, RestFresh DEF Rest
  <2> QED BY <2>1, <2>2, <2>3, <2>4, <2>5, EvictFresh, ReplicateFresh, WindowFresh DEF Next
<1> QED BY <1>1, <1>2, Shared, PTL DEF Spec

\* Without a replica, no entry of the cache is older than a write that returned,
\* for any registry, number of calls and order of their steps: a write drops all
\* it may have changed (Covered), and what was read before it is not stored.
THEOREM NoStaleEntry == Spec => []CacheFresh
<1>1. FInv => CacheFresh BY DEF FInv, Fresh, NoneOlder, CacheFresh
<1> QED BY <1>1, Kept, PTL

\* What a flight brings to those who wait.
LEMMA Landed ==
    ASSUME IInv, FInv, NEW c \in Call, Answered(c)
    PROVE Aloft(flight[call[c].leader]) /\ flight[call[c].leader].key = call[c].key /\ flight[call[c].leader].got # 0
          /\ CallOK(c) /\ call[c].pc = "wait"
<1>1. call[c].pc = "wait" /\ flight[call[c].leader].run = "done" /\ flight[call[c].leader].got # 0 /\ CallOK(c)
  BY DEF Answered, Answer, FInv, CallsOK
<1>2. call[c].leader \in Call BY <1>1 DEF IInv, Led
<1>3. flight[call[c].leader].key = call[c].key BY <1>1 DEF CallOK
<1>4. Aloft(flight[call[c].leader]) BY <1>1, <1>2 DEF FInv, FlightsOK, FlightOK
<1> QED BY <1>1, <1>3, <1>4

\* Without a replica, a read shows all writes that returned before its flight
\* began, whether it led the flight, joined it or was served from the cache.
THEOREM FlightsShowWrites == Spec => FlightsFresh
<1>1. IInv /\ FInv /\ [Next]_vars
      => [\A c \in Call : Answered(c) /\ ~replicated
             => flight[call[c].leader].got >= flight[call[c].leader].fresh]_vars
  BY Landed DEF Aloft
<1> QED BY <1>1, Kept, PTL DEF Spec, FlightsFresh

\* With a replica, a read of a session that wrote a short while ago shows what it
\* wrote before the flight began, however far the replica is behind: the session
\* is part of the key, and its flights go past the cache to the primary.
THEOREM SessionsSeeTheirWrites == Spec => OwnWritesSeen
<1>1. ASSUME IInv, FInv, NEW c \in Call, Answered(c), call[c].after
      PROVE flight[call[c].leader].got >= flight[call[c].leader].owed[call[c].session]
  <2>1. PICK f, b : f = flight[call[c].leader] /\ b = call[c] OBVIOUS
  <2>2. Aloft(f) /\ f.key = b.key /\ f.got # 0 BY <1>1, <2>1, Landed
  <2>3. b.session \in Session /\ b.key[3] = b.session BY <1>1, <2>1, Landed DEF CallOK
  <2>4. f.key[3] \in {f.session, None} BY <2>2, KeyParts DEF Aloft
  <2>5. f.session = b.session BY <2>2, <2>3, <2>4, NoneAssumption
  <2>6. f.got >= f.owed[f.session] BY <2>2, <2>3, <2>5 DEF Aloft
  <2> QED BY <2>1, <2>5, <2>6
<1>2. IInv /\ FInv /\ [Next]_vars
      => [\A c \in Call : Answered(c) /\ call[c].after
             => flight[call[c].leader].got >= flight[call[c].leader].owed[call[c].session]]_vars
  BY <1>1
<1> QED BY <1>2, Kept, PTL DEF Spec, OwnWritesSeen
=============================================================================
