----------------------------- MODULE BusProofs ------------------------------
(***************************************************************************)
(* Theorems about the execution bus, for any works, jobs and limits:       *)
(* nobody is left waiting for a free slot and none is taken past the size; *)
(* every slot in use is somebody's; a job lives once; and the Scan lane    *)
(* gives out no more places than it has.                                   *)
(***************************************************************************)
EXTENDS Bus, Integers, FiniteSetTheorems, TLAPS

USE ZenonT(20), SMTT(10), Z3T(10)

-----------------------------------------------------------------------------
(* One semaphore.                                                          *)

\* used is an integer: that it is not negative is no matter here.
ASemaphore == [size : Nat, used : Int, waiters : Seq(Work)]

\* Nobody waits while a slot is free.
Busy(a) == a.waiters # <<>> => a.used >= a.size

\* Slots are taken only below the size.
Within(a, b) == b.used > a.used => b.used <= b.size

\* The calls of a semaphore, from a to b.
Moves(a, b) ==
    \/ b = a
    \/ Free(a) /\ b = Taken(a)
    \/ ~Free(a) /\ \E w \in Work : b = Joined(a, w)
    \/ b = Release(a)
    \/ \E w \in Work : b = GiveUp(a, w)
    \/ \E n \in Nat : b = Resize(a, n)

\* grantLocked leaves no one waiting while a slot is free, and grants slots up
\* to the size only, whatever the semaphore was before.
LEMMA GrantFills ==
    ASSUME NEW a \in ASemaphore
    PROVE /\ Grant(a) \in ASemaphore /\ Busy(Grant(a)) /\ Within(a, Grant(a))
          /\ Grant(a).size = a.size /\ Grant(a).used >= a.used
          /\ Grant(a).used > a.used => Grant(a).used <= a.size
<1> DEFINE free == IF a.used < a.size THEN a.size - a.used ELSE 0
           n == IF free < Len(a.waiters) THEN free ELSE Len(a.waiters)
<1>1. a.size \in Nat /\ a.used \in Int /\ a.waiters \in Seq(Work) /\ Len(a.waiters) \in Nat
  BY DEF ASemaphore
<1>2. free \in Nat /\ n \in Nat /\ n <= Len(a.waiters) /\ n <= free
  BY <1>1
<1>3. /\ Grant(a) = [a EXCEPT !.used = @ + n, !.waiters = SubSeq(@, n + 1, Len(@))]
  BY DEF Grant
<1>4. /\ Grant(a).size = a.size /\ Grant(a).used = a.used + n
      /\ Grant(a).waiters = SubSeq(a.waiters, n + 1, Len(a.waiters))
      /\ Grant(a) = [size |-> a.size, used |-> a.used + n, waiters |-> SubSeq(a.waiters, n + 1, Len(a.waiters))]
  BY <1>3 DEF ASemaphore
<1>5. SubSeq(a.waiters, n + 1, Len(a.waiters)) \in Seq(Work)
  BY <1>1, <1>2
<1>6. Grant(a) \in ASemaphore
  BY SMTT(20), Z3T(20), <1>1, <1>2, <1>4, <1>5 DEF ASemaphore
<1>7. n = Len(a.waiters) => SubSeq(a.waiters, n + 1, Len(a.waiters)) = <<>>
  BY <1>1
<1>8. n # Len(a.waiters) => n = free
  OBVIOUS
<1>9. n = free => a.used + n >= a.size
  BY <1>1, <1>2
<1>10. n > 0 => a.used + n <= a.size
  BY <1>1, <1>2
<1> HIDE DEF free, n
<1> QED BY <1>1, <1>2, <1>4, <1>6, <1>7, <1>8, <1>9, <1>10 DEF Busy, Within

\* A waiter that leaves the queue leaves a queue.
LEMMA WithoutIsShorter ==
    ASSUME NEW q \in Seq(Work), NEW p, \E i \in 1..Len(q) : q[i] = p
    PROVE Without(q, p) \in Seq(Work) /\ q # <<>>
<1> DEFINE i == CHOOSE k \in 1..Len(q) : q[k] = p
<1>1. i \in 1..Len(q)
  OBVIOUS
<1>2. Without(q, p) = SubSeq(q, 1, i - 1) \o SubSeq(q, i + 1, Len(q))
  BY DEF Without
<1>3. SubSeq(q, 1, i - 1) \in Seq(Work) /\ SubSeq(q, i + 1, Len(q)) \in Seq(Work)
  BY <1>1
<1>4. q # <<>>
  BY <1>1
<1> HIDE DEF i
<1> QED BY <1>2, <1>3, <1>4

\* No call of a semaphore leaves a waiter beside a free slot, or takes a slot
\* past the size.
LEMMA MovesFill ==
    ASSUME NEW a \in ASemaphore, Busy(a), NEW b, Moves(a, b)
    PROVE b \in ASemaphore /\ Busy(b) /\ Within(a, b)
<1>1. a.size \in Nat /\ a.used \in Int /\ a.waiters \in Seq(Work)
  BY DEF ASemaphore
<1>2. CASE b = a
  BY <1>1, <1>2 DEF Within
<1>3. CASE Free(a) /\ b = Taken(a)
  <2>1. b = [size |-> a.size, used |-> a.used + 1, waiters |-> a.waiters]
    BY <1>3 DEF Taken, ASemaphore
  <2> QED BY <1>1, <1>3, <2>1 DEF Free, ASemaphore, Busy, Within
<1>4. ASSUME ~Free(a), NEW w \in Work, b = Joined(a, w) PROVE b \in ASemaphore /\ Busy(b) /\ Within(a, b)
  <2>1. b = [size |-> a.size, used |-> a.used, waiters |-> Append(a.waiters, w)]
    BY <1>4 DEF Joined, ASemaphore
  <2>2. Append(a.waiters, w) \in Seq(Work)
    BY <1>1
  <2>3. a.used >= a.size
    BY <1>1, <1>4 DEF Free, Busy
  <2> QED BY <1>1, <2>1, <2>2, <2>3 DEF ASemaphore, Busy, Within
<1>5. ASSUME b = Release(a) PROVE b \in ASemaphore /\ Busy(b) /\ Within(a, b)
  <2> DEFINE d == [a EXCEPT !.used = @ - 1]
  <2>1. d = [size |-> a.size, used |-> a.used - 1, waiters |-> a.waiters]
    BY DEF ASemaphore
  <2>2. d \in ASemaphore /\ d.used = a.used - 1 /\ d.size = a.size
    BY SMTT(20), Z3T(20), <1>1, <2>1 DEF ASemaphore
  <2>3. b = Grant(d)
    BY <1>5 DEF Release
  <2> HIDE DEF d
  <2>4. b \in ASemaphore /\ Busy(b) /\ b.size = a.size /\ (b.used > d.used => b.used <= d.size)
    BY <2>2, <2>3, GrantFills
  <2>5. b.used \in Int
    BY <2>4 DEF ASemaphore
  <2> QED BY <1>1, <2>2, <2>4, <2>5 DEF Within
<1>6. ASSUME NEW w \in Work, b = GiveUp(a, w) PROVE b \in ASemaphore /\ Busy(b) /\ Within(a, b)
  <2>1. CASE Waits(a, w)
    <3>1. b = [size |-> a.size, used |-> a.used, waiters |-> Without(a.waiters, w)]
      BY <1>6, <2>1 DEF GiveUp, ASemaphore
    <3>2. Without(a.waiters, w) \in Seq(Work) /\ a.waiters # <<>>
      BY <1>1, <2>1, WithoutIsShorter DEF Waits
    <3> QED BY <1>1, <3>1, <3>2 DEF ASemaphore, Busy, Within
  <2>2. CASE ~Waits(a, w)
    BY <1>5, <1>6, <2>2 DEF GiveUp
  <2> QED BY <2>1, <2>2
<1>7. ASSUME NEW m \in Nat, b = Resize(a, m) PROVE b \in ASemaphore /\ Busy(b) /\ Within(a, b)
  <2> DEFINE d == [a EXCEPT !.size = m]
  <2>1. d = [size |-> m, used |-> a.used, waiters |-> a.waiters]
    BY DEF ASemaphore
  <2>2. d \in ASemaphore /\ d.used = a.used /\ d.size = m
    BY <1>1, <2>1 DEF ASemaphore
  <2>3. b = Grant(d)
    BY <1>7 DEF Resize
  <2> HIDE DEF d
  <2> QED BY <2>2, <2>3, GrantFills DEF Within
<1> QED BY <1>2, <1>3, <1>4, <1>5, <1>6, <1>7 DEF Moves

-----------------------------------------------------------------------------
(* Who has the slots of one semaphore: D wait for a slot of it, or were    *)
(* granted one they have yet to notice, and H hold one.                    *)

InLine(a) == {a.waiters[i] : i \in 1..Len(a.waiters)}
Served(a, D, H) == H \cup (D \ InLine(a))
Exact(a, D, H) ==
    /\ a \in ASemaphore /\ D \cap H = {} /\ InLine(a) \subseteq D
    /\ \A i, k \in 1..Len(a.waiters) : i # k => a.waiters[i] # a.waiters[k]
    /\ IsFiniteSet(Served(a, D, H)) /\ a.used = Cardinality(Served(a, D, H))

\* The first n of a queue without repetition are n.
LEMMA FirstAreMany ==
    ASSUME NEW q \in Seq(Work), NEW n \in 0..Len(q), \A i, k \in 1..Len(q) : i # k => q[i] # q[k]
    PROVE IsFiniteSet({q[i] : i \in 1..n}) /\ Cardinality({q[i] : i \in 1..n}) = n
<1> DEFINE F == {q[i] : i \in 1..n}
           f == [i \in 1..n |-> q[i]]
<1>1. n \in Nat /\ n <= Len(q) /\ Len(q) \in Nat
  BY SMTT(20), Z3T(20)
<1>2. \A i \in 1..n : i \in 1..Len(q)
  BY SMTT(20), Z3T(20), <1>1
<1>3. f \in [1..n -> F] /\ \A y \in F : \E x \in 1..n : f[x] = y
  OBVIOUS
<1>4. \A x, y \in 1..n : f[x] = f[y] => x = y
  BY <1>2
<1>5. f \in Injection(1..n, F) /\ f \in Surjection(1..n, F)
  <2>1. DOMAIN f = 1..n OBVIOUS
  <2> HIDE DEF f, F
  <2> QED BY <1>3, <1>4, <2>1 DEF Injection, Surjection, IsInjective
<1>6. ExistsBijection(1..n, F)
  BY <1>5 DEF ExistsBijection, Bijection
<1>7. IsFiniteSet(F) BY <1>1, <1>6, FS_NatBijection
<1>8. Cardinality(F) = n BY <1>1, <1>6, FS_CountingElements
<1> QED BY <1>7, <1>8

\* grantLocked grants a slot to those who leave the queue, and to no one else.
LEMMA GrantExact ==
    ASSUME NEW a, NEW D, NEW H, Exact(a, D, H)
    PROVE Exact(Grant(a), D, H)
<1> DEFINE free == IF a.used < a.size THEN a.size - a.used ELSE 0
           n == IF free < Len(a.waiters) THEN free ELSE Len(a.waiters)
           q == a.waiters
           b == Grant(a)
           first == {q[i] : i \in 1..n}
<1>1. a.size \in Nat /\ a.used \in Int /\ q \in Seq(Work) /\ Len(q) \in Nat
  BY SMTT(20), Z3T(20) DEF ASemaphore, Exact
<1>2. free \in Nat /\ n \in 0..Len(q)
  BY <1>1
<1>3. b = [a EXCEPT !.used = @ + n, !.waiters = SubSeq(@, n + 1, Len(@))]
  BY DEF Grant
<1>4. b.used = a.used + n /\ b.waiters = SubSeq(q, n + 1, Len(q))
  BY <1>3 DEF ASemaphore, Exact
<1>5. b \in ASemaphore
  BY GrantFills DEF Exact
<1> HIDE DEF free, n, b
<1>6. Len(b.waiters) = Len(q) - n /\ \A i \in 1..(Len(q) - n) : b.waiters[i] = q[i + n]
  BY <1>1, <1>2, <1>4
<1>7. \A i \in 1..Len(b.waiters) : i + n \in 1..Len(q) /\ b.waiters[i] = q[i + n]
  BY <1>1, <1>2, <1>6
<1>8. \A i, k \in 1..Len(b.waiters) : i # k => b.waiters[i] # b.waiters[k]
  <2> SUFFICES ASSUME NEW i \in 1..Len(b.waiters), NEW k \in 1..Len(b.waiters), i # k
               PROVE b.waiters[i] # b.waiters[k]
    OBVIOUS
  <2>1. i + n # k + n BY <1>1, <1>2, <1>6
  <2> QED BY <1>7, <2>1 DEF Exact
<1>9. InLine(b) \subseteq InLine(a)
  BY <1>7 DEF InLine
<1>10. \A i \in 1..Len(q) : i \in 1..n \/ (i - n \in 1..Len(b.waiters) /\ q[i] = b.waiters[i - n])
  BY <1>1, <1>2, <1>6
<1>11. InLine(a) = first \cup InLine(b)
  <2>1. first \subseteq InLine(a) BY SMTT(20), Z3T(20), <1>1, <1>2 DEF InLine
  <2>2. \A x \in InLine(a) : x \in first \/ x \in InLine(b) BY <1>10 DEF InLine
  <2> QED BY <2>1, <2>2, <1>9
<1>12. first \cap InLine(b) = {}
  <2> SUFFICES ASSUME NEW i \in 1..n, NEW k \in 1..Len(b.waiters), q[i] = b.waiters[k] PROVE FALSE
    BY DEF InLine
  <2>1. i \in 1..Len(q) /\ i # k + n BY <1>1, <1>2, <1>6
  <2> QED BY <1>7, <2>1 DEF Exact
<1>13. IsFiniteSet(first) /\ Cardinality(first) = n
  BY <1>1, <1>2, FirstAreMany DEF Exact
<1>14. Served(b, D, H) = Served(a, D, H) \cup first /\ Served(a, D, H) \cap first = {}
  <2>1. first \subseteq D /\ D \cap H = {} /\ first \subseteq InLine(a)
    BY <1>11 DEF Exact
  <2> HIDE DEF first
  <2> QED BY <1>11, <1>12, <2>1 DEF Served
<1> HIDE DEF first
<1>15. IsFiniteSet(Served(b, D, H))
       /\ Cardinality(Served(b, D, H)) = Cardinality(Served(a, D, H)) + n - Cardinality(Served(a, D, H) \cap first)
  BY SMTT(20), Z3T(20), <1>13, <1>14, FS_Union DEF Exact
<1>16. Cardinality(Served(b, D, H)) = a.used + n
  <2>1. Cardinality(Served(a, D, H) \cap first) = 0 BY <1>14, FS_EmptySet
  <2>2. Cardinality(Served(a, D, H)) = a.used BY DEF Exact
  <2> QED BY <1>1, <1>2, <1>15, <2>1, <2>2
<1> QED BY <1>4, <1>5, <1>8, <1>9, <1>15, <1>16 DEF Exact, b

\* One who takes a free slot holds it.
LEMMA TakenExact ==
    ASSUME NEW a, NEW D, NEW H, Exact(a, D, H), NEW w, w \notin D, w \notin H
    PROVE Exact(Taken(a), D, H \cup {w})
<1> DEFINE b == Taken(a)
<1>1. a.size \in Nat /\ a.used \in Int /\ a.waiters \in Seq(Work)
  BY DEF ASemaphore, Exact
<1>2. b = [size |-> a.size, used |-> a.used + 1, waiters |-> a.waiters]
  BY SMTT(20), Z3T(20) DEF Taken, ASemaphore, Exact
<1>3. b \in ASemaphore /\ b.used = a.used + 1 /\ b.waiters = a.waiters
  BY <1>1, <1>2 DEF ASemaphore
<1> HIDE DEF b
<1>4. InLine(b) = InLine(a) BY <1>3 DEF InLine
<1>5. Served(b, D, H \cup {w}) = Served(a, D, H) \cup {w} /\ w \notin Served(a, D, H)
  BY <1>4 DEF Served
<1>6. IsFiniteSet(Served(b, D, H \cup {w})) /\ Cardinality(Served(b, D, H \cup {w})) = a.used + 1
  <2>1. IsFiniteSet(Served(a, D, H)) /\ Cardinality(Served(a, D, H)) = a.used BY DEF Exact
  <2> QED BY <1>5, <2>1, FS_AddElement
<1>7. D \cap (H \cup {w}) = {} BY DEF Exact
<1> QED BY <1>3, <1>4, <1>6, <1>7 DEF Exact, b

\* What joining makes of a semaphore.
LEMMA JoinedIs ==
    ASSUME NEW a \in ASemaphore, NEW w \in Work, NEW b, b = Joined(a, w)
    PROVE b = [size |-> a.size, used |-> a.used, waiters |-> Append(a.waiters, w)]
  BY DEF Joined, ASemaphore

\* One who joins the queue waits.
LEMMA JoinedExact ==
    ASSUME NEW a, NEW D, NEW H, Exact(a, D, H), NEW w \in Work, w \notin D, w \notin H
    PROVE Exact(Joined(a, w), D \cup {w}, H)
<1> DEFINE b == Joined(a, w)
           q == a.waiters
<1>1. a.size \in Nat /\ a.used \in Int /\ q \in Seq(Work) /\ Len(q) \in Nat
  BY SMTT(20), Z3T(20) DEF ASemaphore, Exact
<1>2. b = [size |-> a.size, used |-> a.used, waiters |-> Append(q, w)]
  BY JoinedIs DEF Exact
<1>3. b \in ASemaphore /\ b.used = a.used /\ b.waiters = Append(q, w)
  BY <1>1, <1>2 DEF ASemaphore
<1> HIDE DEF b
<1>4. Len(b.waiters) = Len(q) + 1 /\ b.waiters[Len(q) + 1] = w /\ \A i \in 1..Len(q) : b.waiters[i] = q[i]
  BY <1>1, <1>3
<1>5. 1..Len(b.waiters) = 1..Len(q) \cup {Len(q) + 1}
  BY <1>1, <1>4
<1>6. InLine(b) = InLine(a) \cup {w}
  BY SMTT(20), Z3T(20), <1>4, <1>5 DEF InLine
<1>7. \A i \in 1..Len(q) : q[i] # w
  BY DEF Exact, InLine
<1>8. \A i, k \in 1..Len(b.waiters) : i # k => b.waiters[i] # b.waiters[k]
  BY <1>4, <1>5, <1>7 DEF Exact
<1>9. Served(b, D \cup {w}, H) = Served(a, D, H)
  BY <1>6 DEF Served
<1>10. (D \cup {w}) \cap H = {} /\ InLine(b) \subseteq D \cup {w}
  BY <1>6 DEF Exact
<1> QED BY <1>3, <1>8, <1>9, <1>10 DEF Exact, b

\* One who notices that it was granted a slot holds it.
LEMMA NoticedExact ==
    ASSUME NEW a, NEW D, NEW H, Exact(a, D, H), NEW w \in D, ~Waits(a, w)
    PROVE Exact(a, D \ {w}, H \cup {w})
<1>1. w \notin InLine(a)
  BY DEF Waits, InLine
<1>2. Served(a, D \ {w}, H \cup {w}) = Served(a, D, H)
  BY <1>1 DEF Served
<1>3. (D \ {w}) \cap (H \cup {w}) = {} /\ InLine(a) \subseteq D \ {w}
  BY <1>1 DEF Exact
<1> QED BY <1>2, <1>3 DEF Exact

\* A slot given back goes to those who wait.
LEMMA ReleaseExact ==
    ASSUME NEW a, NEW D, NEW H, Exact(a, D, H), NEW w, NEW E, NEW G,
           w \in Served(a, D, H), E \cap G = {}, InLine(a) \subseteq E,
           Served(a, E, G) = Served(a, D, H) \ {w}
    PROVE Exact(Release(a), E, G)
<1> DEFINE d == [a EXCEPT !.used = @ - 1]
<1>1. a.size \in Nat /\ a.used \in Int /\ a.waiters \in Seq(Work)
  BY DEF ASemaphore, Exact
<1>2. d = [size |-> a.size, used |-> a.used - 1, waiters |-> a.waiters]
  BY SMTT(20), Z3T(20) DEF ASemaphore, Exact
<1>3. d \in ASemaphore /\ d.used = a.used - 1 /\ d.waiters = a.waiters
  BY SMTT(20), Z3T(20), <1>1, <1>2 DEF ASemaphore
<1> HIDE DEF d
<1>4. InLine(d) = InLine(a) BY <1>3 DEF InLine
<1>5. Served(d, E, G) = Served(a, D, H) \ {w} BY <1>4 DEF Served
<1>6. IsFiniteSet(Served(d, E, G)) /\ Cardinality(Served(d, E, G)) = a.used - 1
  <2>1. IsFiniteSet(Served(a, D, H)) /\ Cardinality(Served(a, D, H)) = a.used BY DEF Exact
  <2> QED BY <1>5, <2>1, FS_RemoveElement
<1>7. Exact(d, E, G) BY <1>3, <1>4, <1>6 DEF Exact
<1>8. Release(a) = Grant(d) BY DEF Release, d
<1> QED BY <1>7, <1>8, GrantExact

\* Two queues, one behind the other.
LEMMA OneBehind ==
    ASSUME NEW s \in Seq(Work), NEW t \in Seq(Work)
    PROVE /\ s \o t \in Seq(Work) /\ Len(s \o t) = Len(s) + Len(t)
          /\ \A k \in 1..(Len(s) + Len(t)) : (s \o t)[k] = IF k <= Len(s) THEN s[k] ELSE t[k - Len(s)]
  OBVIOUS

\* One who leaves the queue leaves no trace in it.
LEMMA WithoutOne ==
    ASSUME NEW q \in Seq(Work), NEW p, \E i \in 1..Len(q) : q[i] = p,
           \A i, k \in 1..Len(q) : i # k => q[i] # q[k]
    PROVE LET r == Without(q, p) IN
          /\ r \in Seq(Work)
          /\ {r[i] : i \in 1..Len(r)} = {q[i] : i \in 1..Len(q)} \ {p}
          /\ \A i, k \in 1..Len(r) : i # k => r[i] # r[k]
<1> DEFINE i == CHOOSE k \in 1..Len(q) : q[k] = p
           s == SubSeq(q, 1, i - 1)
           t == SubSeq(q, i + 1, Len(q))
           r == Without(q, p)
<1>1. i \in 1..Len(q) /\ q[i] = p /\ Len(q) \in Nat
  BY SMTT(20), Z3T(20)
<1>2. r = s \o t
  BY DEF Without
<1> HIDE DEF i, r
<1>3. s \in Seq(Work) /\ t \in Seq(Work)
  BY SMTT(20), Z3T(20), <1>1
<1>4. /\ Len(s) = i - 1 /\ Len(t) = Len(q) - i
      /\ \A k \in 1..(i - 1) : s[k] = q[k]
      /\ \A k \in 1..(Len(q) - i) : t[k] = q[k + i]
  BY SMTT(20), Z3T(20), <1>1
<1> HIDE DEF s, t
<1>4a. /\ r \in Seq(Work) /\ Len(r) = Len(s) + Len(t)
       /\ \A k \in 1..(Len(s) + Len(t)) : r[k] = IF k <= Len(s) THEN s[k] ELSE t[k - Len(s)]
  BY <1>2, <1>3, OneBehind, Zenon
<1>5. Len(r) = Len(q) - 1 /\ r \in Seq(Work)
  BY SMTT(20), Z3T(20), <1>1, <1>4, <1>4a
<1>6. \A k \in 1..Len(r) : r[k] = IF k < i THEN q[k] ELSE q[k + 1]
  <2> SUFFICES ASSUME NEW k \in 1..Len(r) PROVE r[k] = IF k < i THEN q[k] ELSE q[k + 1]
    OBVIOUS
  <2>1. r[k] = IF k <= i - 1 THEN s[k] ELSE t[k - (i - 1)]
    BY <1>1, <1>4, <1>5, <1>4a
  <2>2. CASE k < i BY SMTT(20), Z3T(20), <1>1, <1>4, <1>5, <2>1, <2>2
  <2>3. CASE ~(k < i)
    <3>1. k - (i - 1) \in 1..(Len(q) - i) /\ k - (i - 1) + i = k + 1 BY SMTT(20), Z3T(20), <1>1, <1>5, <2>3
    <3> QED BY SMTT(20), Z3T(20), <1>1, <1>4, <1>5, <2>1, <2>3, <3>1
  <2> QED BY <2>2, <2>3
<1>7. \A k \in 1..Len(r) : LET m == IF k < i THEN k ELSE k + 1 IN m \in 1..Len(q) /\ m # i /\ r[k] = q[m]
  BY SMTT(20), Z3T(20), <1>1, <1>5, <1>6
<1>8. \A m \in 1..Len(q) : m # i => LET k == IF m < i THEN m ELSE m - 1 IN k \in 1..Len(r) /\ r[k] = q[m]
  BY SMTT(20), Z3T(20), <1>1, <1>5, <1>6
<1>9. {r[k] : k \in 1..Len(r)} = {q[k] : k \in 1..Len(q)} \ {p}
  <2>1. ASSUME NEW k \in 1..Len(r) PROVE r[k] \in {q[m] : m \in 1..Len(q)} \ {p}
    BY <1>1, <1>7
  <2>2. ASSUME NEW m \in 1..Len(q), q[m] # p PROVE q[m] \in {r[k] : k \in 1..Len(r)}
    BY <1>1, <1>8, <2>2
  <2> QED BY <2>1, <2>2
<1>10. ASSUME NEW k \in 1..Len(r), NEW l \in 1..Len(r), k # l PROVE r[k] # r[l]
  <2> DEFINE m == IF k < i THEN k ELSE k + 1
             n == IF l < i THEN l ELSE l + 1
  <2>1. m \in 1..Len(q) /\ n \in 1..Len(q) /\ r[k] = q[m] /\ r[l] = q[n]
    BY <1>7
  <2>2. m # n BY SMTT(20), Z3T(20), <1>1, <1>5, <1>10
  <2> QED BY <2>1, <2>2
<1> QED BY <1>5, <1>9, <1>10 DEF r

\* One who gives up waits no longer; what it was granted goes on to the next.
LEMMA GiveUpExact ==
    ASSUME NEW a, NEW D, NEW H, Exact(a, D, H), NEW w \in D
    PROVE Exact(GiveUp(a, w), D \ {w}, H)
<1>1. CASE Waits(a, w)
  <2> DEFINE b == GiveUp(a, w)
             r == Without(a.waiters, w)
  <2>1. a.size \in Nat /\ a.used \in Int /\ a.waiters \in Seq(Work)
    BY DEF ASemaphore, Exact
  <2>2. b = [size |-> a.size, used |-> a.used, waiters |-> r]
    BY <1>1 DEF GiveUp, ASemaphore, Exact
  <2>3. /\ r \in Seq(Work) /\ {r[i] : i \in 1..Len(r)} = {a.waiters[i] : i \in 1..Len(a.waiters)} \ {w}
        /\ \A i, k \in 1..Len(r) : i # k => r[i] # r[k]
    BY <1>1, <2>1, WithoutOne DEF Waits, Exact
  <2> HIDE DEF r
  <2>4. b \in ASemaphore /\ b.used = a.used /\ b.waiters = r
    BY SMTT(20), Z3T(20), <2>1, <2>2, <2>3 DEF ASemaphore
  <2> HIDE DEF b
  <2>5. InLine(b) = InLine(a) \ {w}
    BY <2>3, <2>4 DEF InLine
  <2>6. w \in InLine(a) BY <1>1 DEF Waits, InLine
  <2>7. Served(b, D \ {w}, H) = Served(a, D, H)
    BY <2>5, <2>6 DEF Served
  <2>8. (D \ {w}) \cap H = {} /\ InLine(b) \subseteq D \ {w}
    BY <2>5 DEF Exact
  <2> QED BY <2>3, <2>4, <2>7, <2>8 DEF Exact, b
<1>2. CASE ~Waits(a, w)
  <2>1. w \notin InLine(a) BY <1>2 DEF Waits, InLine
  <2>2. w \in Served(a, D, H) /\ w \notin H BY <2>1 DEF Served, Exact
  <2>3. Served(a, D \ {w}, H) = Served(a, D, H) \ {w} BY <2>2 DEF Served
  <2>4. (D \ {w}) \cap H = {} /\ InLine(a) \subseteq D \ {w} BY <2>1 DEF Exact
  <2> QED BY <1>2, <2>2, <2>3, <2>4, ReleaseExact DEF GiveUp
<1> QED BY <1>1, <1>2

\* A resize gives the slots added to those who wait.
LEMMA ResizeExact ==
    ASSUME NEW a, NEW D, NEW H, Exact(a, D, H), NEW m \in Nat
    PROVE Exact(Resize(a, m), D, H)
<1> DEFINE d == [a EXCEPT !.size = m]
<1>1. a.size \in Nat /\ a.used \in Int /\ a.waiters \in Seq(Work)
  BY DEF ASemaphore, Exact
<1>2. d = [size |-> m, used |-> a.used, waiters |-> a.waiters]
  BY SMTT(20), Z3T(20) DEF ASemaphore, Exact
<1>3. d \in ASemaphore /\ d.used = a.used /\ d.waiters = a.waiters
  BY <1>1, <1>2 DEF ASemaphore
<1> HIDE DEF d
<1>4. Exact(d, D, H) BY <1>3 DEF Exact, Served, InLine
<1> QED BY <1>4, GrantExact DEF Resize, d
-----------------------------------------------------------------------------
(* The bus.                                                                *)

\* A reload under way has sizes to give.
Sizes == upd \in [io : Nat, lane : Nat, next : {"none", "io", "aux", "lanes"}]

\* The sizes of a configuration.
LEMMA SizesAreNat == ASSUME Sizes, NEW s PROVE SizeOf(s, upd.io, upd.lane) \in Nat
<1>1. upd.io \div 2 \in Nat
  BY SMTT(20), Z3T(20) DEF Sizes
<1>2. CASE s = "io" BY <1>2 DEF SizeOf, Sizes
<1>3. CASE s = "aux" BY <1>1, <1>3 DEF SizeOf
<1>4. CASE s # "io" /\ s # "aux" BY <1>4 DEF SizeOf, Sizes
<1> QED BY <1>2, <1>3, <1>4

-----------------------------------------------------------------------------
(* Where works may be, and the slots they hold and wait for there.         *)

Starting == {"queue", "ioWait?", "inflight?"}
AtCall == {"none", "io", "io?", "run", "undo", "back", "gone"}
AtAdmin == AtCall \cup {"lane", "lane?", "aux", "aux?"}
AtJob == AtAdmin \cup Starting \cup Final
    \cup {"pending", "ticket", "enter", "leave", "admitted", "counted", "forked", "failed"}

\* What a work of lane l may have to give back.
Debts(l) == {<<l>>, <<"aux", l>>, <<"io", l>>, <<"io", "aux", l>>}

\* A work at place l, that has to give back o.
PlaceOK(w, l, o) ==
    /\ l \in AtJob /\ o \in Seq(Sem)
    /\ w \in Call => l \in AtCall
    /\ w \in Admin => l \in AtAdmin
    /\ l \in {"undo", "back"} => o \in Debts(LaneOf(w))
    /\ l = "undo" /\ w \in Job => o \in {<<"scan">>, <<"aux", "scan">>}
Places ==
    /\ DOMAIN pc = Work /\ DOMAIN owes = Work
    /\ \A w \in Work : PlaceOK(w, pc[w], owes[w])

\* The slots a work holds at place l, and those it waits for there.
Below(w) == IF w \in Call THEN {"serve"} ELSE {"aux", LaneOf(w)}
InOrder(o) == {o[i] : i \in 1..Len(o)}
HoldsAt(w, l, o) ==
    CASE l \in {"enter", "leave"} -> {"scan"}
      [] l \in {"aux", "aux?"} -> {LaneOf(w)}
      [] l \in {"io", "io?"} -> Below(w)
      [] l \in {"run", "admitted", "counted", "forked"} \cup Final -> Below(w) \cup {"io"}
      [] l \in {"undo", "back"} -> InOrder(o)
      [] OTHER -> {}
Wants(w, l, s) == (l = "lane?" /\ s = LaneOf(w)) \/ (l = "aux?" /\ s = "aux") \/ (l = "io?" /\ s = "io")

Demand(s) == {w \in Work : Wants(w, pc[w], s)}
Held(s) == {w \in Work : s \in HoldsAt(w, pc[w], owes[w])}
Exacts == DOMAIN sem = Sem /\ \A s \in Sem : Exact(sem[s], Demand(s), Held(s))

\* The stages of a work, one by one.
LEMMA StageIs ==
    ASSUME NEW w
    PROVE /\ Stage(w, "lane") = [sem |-> LaneOf(w), then |-> IF w \in Job THEN "enter" ELSE "aux", owes |-> <<>>]
          /\ Stage(w, "aux") = [sem |-> "aux", then |-> "io", owes |-> <<LaneOf(w)>>]
          /\ Stage(w, "io") = [sem |-> "io", then |-> IF w \in Job THEN "admitted" ELSE "run",
                               owes |-> IF w \in Call THEN <<"serve">> ELSE <<"aux", LaneOf(w)>>]
          /\ WaitAt["lane"] = "lane?" /\ WaitAt["aux"] = "aux?" /\ WaitAt["io"] = "io?"
<1>1. Stage(w, "lane") = [sem |-> LaneOf(w), then |-> IF w \in Job THEN "enter" ELSE "aux", owes |-> <<>>]
  BY DEF Stage
<1>2. Stage(w, "aux") = [sem |-> "aux", then |-> "io", owes |-> <<LaneOf(w)>>]
  BY DEF Stage
<1>3. Stage(w, "io") = [sem |-> "io", then |-> IF w \in Job THEN "admitted" ELSE "run",
                        owes |-> IF w \in Call THEN <<"serve">> ELSE <<"aux", LaneOf(w)>>]
  BY DEF Stage
<1>4. WaitAt["lane"] = "lane?" /\ WaitAt["aux"] = "aux?" /\ WaitAt["io"] = "io?"
  BY DEF WaitAt
<1> QED BY <1>1, <1>2, <1>3, <1>4

\* The lanes of works.
LEMMA Lanes ==
    /\ \A w \in Call : LaneOf(w) = "serve" /\ w \notin Job /\ w \notin Admin
    /\ \A w \in Admin : LaneOf(w) = "admin" /\ w \notin Job /\ w \notin Call
    /\ \A w \in Job : LaneOf(w) = "scan" /\ w \notin Call /\ w \notin Admin
    /\ \A w \in Work : LaneOf(w) \in Lane /\ LaneOf(w) \in Sem /\ LaneOf(w) # "aux" /\ LaneOf(w) # "io"
  BY WorkAssumption DEF LaneOf, Work, Lane, Sem

\* A work at a stage is of a kind that gets there.
LEMMA Kinds ==
    ASSUME NEW w \in Work, NEW l, NEW o, PlaceOK(w, l, o)
    PROVE /\ l \in {"lane", "lane?", "aux", "aux?"} => w \notin Call
          /\ l \notin AtAdmin => w \in Job
          /\ l \notin AtCall => w \notin Call
<1>1. w \in Call \/ w \in Admin \/ w \in Job BY DEF Work
<1> QED BY <1>1 DEF PlaceOK, AtCall, AtAdmin

\* A work that moves, and what it has to give back, where all others stay.
Goes(w, m, o) ==
    /\ DOMAIN pc' = Work /\ DOMAIN owes' = Work
    /\ pc'[w] = m /\ owes'[w] = o
    /\ \A v \in Work : v # w => pc'[v] = pc[v] /\ owes'[v] = owes[v]

\* A work that goes on moves alone, with its debts or with others.
LEMMA GoesOn ==
    ASSUME Places, NEW w \in Work, NEW m, Goto(w, m)
    PROVE /\ UNCHANGED owes => Goes(w, m, owes[w])
          /\ \A o : owes' = [owes EXCEPT ![w] = o] => Goes(w, m, o)
  BY DEF Places, Goto, Goes

\* A work that moves to a right place leaves all in right places.
LEMMA PlacesGo ==
    ASSUME Places, NEW w \in Work, NEW m, NEW o, Goes(w, m, o), PlaceOK(w, m, o)
    PROVE Places'
  BY DEF Places, Goes

\* Debts are sequences of semaphores.
LEMMA DebtsAre ==
    ASSUME NEW w \in Work, NEW o \in Debts(LaneOf(w)) \cup {<<>>, <<"scan">>, <<"aux", "scan">>}
    PROVE o \in Seq(Sem)
<1>1. LaneOf(w) \in Sem /\ "aux" \in Sem /\ "io" \in Sem /\ "scan" \in Sem
  BY Lanes DEF Sem, Lane
<1>2. ASSUME NEW l \in Sem
      PROVE <<l>> \in Seq(Sem) /\ <<"aux", l>> \in Seq(Sem) /\ <<"io", l>> \in Seq(Sem) /\ <<"io", "aux", l>> \in Seq(Sem)
  <2>1. <<l>> \in Seq(Sem) OBVIOUS
  <2>2. <<"aux", l>> \in Seq(Sem) BY <1>1
  <2>3. <<"io", l>> \in Seq(Sem) BY <1>1
  <2>4. <<"io", "aux", l>> \in Seq(Sem) BY <1>1
  <2> QED BY <2>1, <2>2, <2>3, <2>4
<1>3. <<>> \in Seq(Sem) OBVIOUS
<1>4. o = <<>> \/ o \in Debts(LaneOf(w)) \/ o \in Debts("scan") BY DEF Debts
<1> QED BY <1>1, <1>2, <1>3, <1>4 DEF Debts

\* What is left to give back after a slot.
LEMMA Debtor ==
    ASSUME NEW l, NEW o \in Debts(l)
    PROVE /\ o # <<>> /\ Head(o) \in {l, "aux", "io"}
          /\ Tail(o) # <<>> => Tail(o) \in Debts(l)
          /\ Tail(o) = <<>> <=> o = <<l>>
          /\ o \in {<<l>>, <<"aux", l>>} => Tail(o) \in {<<>>, <<l>>}
          /\ o = <<l>> => Head(o) = l /\ Tail(o) = <<>>
          /\ o = <<"aux", l>> => Head(o) = "aux" /\ Tail(o) = <<l>>
          /\ o = <<"io", l>> => Head(o) = "io" /\ Tail(o) = <<l>>
          /\ o = <<"io", "aux", l>> => Head(o) = "io" /\ Tail(o) = <<"aux", l>>
<1>1. Head(<<l>>) = l /\ Tail(<<l>>) = <<>> OBVIOUS
<1>2. Head(<<"aux", l>>) = "aux" /\ Tail(<<"aux", l>>) = <<l>> OBVIOUS
<1>3. Head(<<"io", l>>) = "io" /\ Tail(<<"io", l>>) = <<l>> OBVIOUS
<1>4. Head(<<"io", "aux", l>>) = "io" /\ Tail(<<"io", "aux", l>>) = <<"aux", l>> OBVIOUS
<1>5. /\ <<l>> # <<>> /\ <<"aux", l>> # <<>> /\ <<"io", l>> # <<>> /\ <<"io", "aux", l>> # <<>>
      /\ <<l>> # <<"aux", l>> /\ <<l>> # <<"io", l>> /\ <<l>> # <<"io", "aux", l>>
      /\ <<"aux", l>> # <<"io", l>> /\ <<"aux", l>> # <<"io", "aux", l>> /\ <<"io", l>> # <<"io", "aux", l>>
  OBVIOUS
<1>6. o = <<l>> \/ o = <<"aux", l>> \/ o = <<"io", l>> \/ o = <<"io", "aux", l>> BY DEF Debts
<1>7. CASE o = <<l>> BY <1>1, <1>5, <1>7, Zenon DEF Debts
<1>8. CASE o = <<"aux", l>> BY <1>2, <1>5, <1>8, Zenon DEF Debts
<1>9. CASE o = <<"io", l>> BY <1>3, <1>5, <1>9, Zenon DEF Debts
<1>10. CASE o = <<"io", "aux", l>> BY <1>4, <1>5, <1>10, Zenon DEF Debts
<1> QED BY <1>6, <1>7, <1>8, <1>9, <1>10, Zenon

\* A work takes its stages in the order of its kind.
LEMMA StagesOK ==
    ASSUME NEW w \in Work, NEW at \in {"lane", "aux", "io"}, NEW o,
           PlaceOK(w, at, o) \/ PlaceOK(w, WaitAt[at], o)
    PROVE PlaceOK(w, Stage(w, at).then, o) /\ PlaceOK(w, WaitAt[at], o)
<1>1. w \in Call \/ w \in Admin \/ w \in Job BY DEF Work
<1>2. CASE at = "lane" BY SMTT(20), Z3T(20), <1>1, <1>2, StageIs, Lanes DEF PlaceOK, AtCall, AtAdmin, AtJob
<1>3. CASE at = "aux" BY SMTT(20), Z3T(20), <1>1, <1>3, StageIs, Lanes DEF PlaceOK, AtCall, AtAdmin, AtJob
<1>4. CASE at = "io" BY SMTT(20), Z3T(20), <1>1, <1>4, StageIs, Lanes DEF PlaceOK, AtCall, AtAdmin, AtJob
<1> QED BY <1>2, <1>3, <1>4

\* What a work gives back when it gives up.
LEMMA GivesUpOwing ==
    ASSUME NEW w \in Work, NEW at \in {"lane", "aux", "io"}, NEW d, PlaceOK(w, WaitAt[at], d)
    PROVE LET o == Stage(w, at).owes IN
          /\ PlaceOK(w, IF o # <<>> THEN "undo" ELSE IF w \in Job THEN "failed" ELSE "gone", o)
          /\ at = "lane" <=> o = <<>>
<1>1. w \in Call \/ w \in Admin \/ w \in Job BY DEF Work
<1>2. <<LaneOf(w)>> # <<>> /\ <<"serve">> # <<>> /\ <<"aux", LaneOf(w)>> # <<>> OBVIOUS
<1>3. CASE at = "lane"
  <2>1. Stage(w, at).owes = <<>> BY <1>3, StageIs
  <2>2. <<>> \in Seq(Sem) BY DebtsAre
  <2> QED BY <1>1, <1>3, <2>1, <2>2, Lanes DEF PlaceOK, AtCall, AtAdmin, AtJob
<1>4. CASE at = "aux"
  <2>1. Stage(w, at).owes = <<LaneOf(w)>> BY <1>4, StageIs
  <2>2. <<LaneOf(w)>> \in Debts(LaneOf(w)) BY DEF Debts
  <2>3. <<LaneOf(w)>> \in Seq(Sem) BY <2>2, DebtsAre
  <2> QED BY <1>1, <1>2, <1>4, <2>1, <2>2, <2>3, Lanes, StageIs DEF PlaceOK, AtCall, AtAdmin, AtJob
<1>5. CASE at = "io"
  <2>1. Stage(w, at).owes = IF w \in Call THEN <<"serve">> ELSE <<"aux", LaneOf(w)>> BY <1>5, StageIs
  <2>2. Stage(w, at).owes \in Debts(LaneOf(w)) BY <2>1, Lanes DEF Debts
  <2>3. Stage(w, at).owes \in Seq(Sem) BY <2>2, DebtsAre
  <2>4. Stage(w, at).owes # <<>> BY <1>2, <2>1
  <2>5. w \in Job => Stage(w, at).owes = <<"aux", "scan">> BY <2>1, Lanes
  <2> QED BY <1>1, <1>5, <2>2, <2>3, <2>4, <2>5, Lanes DEF PlaceOK, AtCall, AtAdmin, AtJob
<1> QED BY <1>3, <1>4, <1>5

\* Short sequences, one behind the other.
LEMMA OneAndOne ==
    ASSUME NEW S, NEW a \in S, NEW b \in S
    PROVE <<a>> \o <<b>> = <<a, b>>
<1> DEFINE s == <<a>> \o <<b>>
           t == <<a, b>>
<1>1. s \in Seq(S) /\ t \in Seq(S) OBVIOUS
<1>2. Len(s) = 2 /\ Len(t) = 2 OBVIOUS
<1>3. s[1] = a /\ s[2] = b /\ t[1] = a /\ t[2] = b OBVIOUS
<1>4. 1..2 = {1, 2} OBVIOUS
<1>5. s = [i \in 1..2 |-> s[i]] BY <1>1, <1>2
<1>6. t = [i \in 1..2 |-> t[i]] BY <1>1, <1>2
<1>7. \A i \in 1..2 : s[i] = t[i] BY <1>3, <1>4
<1> HIDE DEF s, t
<1>8. s = t BY <1>5, <1>6, <1>7
<1> QED BY <1>8 DEF s, t

\* A debt put before two others.
LEMMA OneAndTwo ==
    ASSUME NEW S, NEW a \in S, NEW b \in S, NEW c \in S
    PROVE <<a>> \o <<b, c>> = <<a, b, c>>
<1> DEFINE s == <<a>> \o <<b, c>>
           t == <<a, b, c>>
<1>1. s \in Seq(S) /\ t \in Seq(S) OBVIOUS
<1>2. Len(s) = 3 /\ Len(t) = 3 OBVIOUS
<1>3. s[1] = a /\ s[2] = b /\ t[1] = a /\ t[2] = b /\ s[3] = c /\ t[3] = c OBVIOUS
<1>4. 1..3 = {1, 2, 3} OBVIOUS
<1>5. s = [i \in 1..3 |-> s[i]] BY <1>1, <1>2
<1>6. t = [i \in 1..3 |-> t[i]] BY <1>1, <1>2
<1>7. \A i \in 1..3 : s[i] = t[i] BY <1>3, <1>4
<1> HIDE DEF s, t
<1>8. s = t BY <1>5, <1>6, <1>7
<1> QED BY <1>8 DEF s, t

\* All slots of a work that ends.
LEMMA AllSlots ==
    ASSUME NEW w \in Work
    PROVE /\ <<"io">> \o Stage(w, "io").owes = IF w \in Call THEN <<"io", "serve">> ELSE <<"io", "aux", LaneOf(w)>>
          /\ <<"io">> \o Stage(w, "io").owes \in Debts(LaneOf(w))
          /\ w \in Job => <<"io", "aux", "scan">> \in Debts(LaneOf(w))
<1>1. <<"io">> \o <<"serve">> = <<"io", "serve">>
  <2>1. "io" \in Sem /\ "serve" \in Sem BY DEF Sem, Lane
  <2> QED BY <2>1, OneAndOne
<1>2. <<"io">> \o <<"aux", LaneOf(w)>> = <<"io", "aux", LaneOf(w)>>
  <2>1. "io" \in Sem /\ "aux" \in Sem /\ LaneOf(w) \in Sem BY Lanes DEF Sem, Lane
  <2> QED BY <2>1, OneAndTwo
<1>3. Stage(w, "io").owes = IF w \in Call THEN <<"serve">> ELSE <<"aux", LaneOf(w)>> BY StageIs
<1> QED BY <1>1, <1>2, <1>3, Lanes DEF Debts

\* The jobs to dispatch have been started and are in line once.
Pendings ==
    /\ pending \in Seq(Job)
    /\ \A i \in 1..Len(pending) : pc[pending[i]] = "pending"
    /\ \A i, k \in 1..Len(pending) : i # k => pending[i] # pending[k]

\* A step moves one work, a tool call moves as one and a job as a job.
LEMMA PlacesKept == ASSUME Places, Pendings, [Next]_vars PROVE Places'
<1>1. ASSUME UNCHANGED <<pc, owes>> PROVE Places'
  BY <1>1 DEF Places
<1>2. ASSUME NEW w \in Work, NEW m, Goto(w, m), UNCHANGED owes, PlaceOK(w, m, owes[w]) PROVE Places'
  BY <1>2, GoesOn, PlacesGo
<1>3. ASSUME NEW w \in Work, NEW m, NEW o, Goto(w, m), owes' = [owes EXCEPT ![w] = o], PlaceOK(w, m, o) PROVE Places'
  BY <1>3, GoesOn, PlacesGo
<1>4. \A w \in Work : PlaceOK(w, pc[w], owes[w]) BY DEF Places
<1>5. ASSUME NEW w \in Work, NEW at \in {"lane", "aux", "io"}, Acquire(w, at) PROVE Places'
  <2>1. PlaceOK(w, Stage(w, at).then, owes[w]) /\ PlaceOK(w, WaitAt[at], owes[w])
    BY <1>4, <1>5, StagesOK DEF Acquire
  <2>2. UNCHANGED owes /\ (Goto(w, Stage(w, at).then) \/ Goto(w, WaitAt[at])) BY <1>5 DEF Acquire
  <2> QED BY <1>2, <2>1, <2>2
<1>6. ASSUME NEW w \in Work, NEW at \in {"lane", "aux", "io"}, Granted(w, at) PROVE Places'
  <2>1. PlaceOK(w, Stage(w, at).then, owes[w]) BY <1>4, <1>6, StagesOK DEF Granted
  <2>2. UNCHANGED owes /\ Goto(w, Stage(w, at).then) BY <1>6 DEF Granted
  <2> QED BY <1>2, <2>1, <2>2
<1>7. ASSUME NEW w \in Work, NEW at \in {"lane", "aux", "io"}, GivesUp(w, at) PROVE Places'
  <2> DEFINE o == Stage(w, at).owes
             m == IF o # <<>> THEN "undo" ELSE IF w \in Job THEN "failed" ELSE "gone"
  <2>1. PlaceOK(w, m, o) BY <1>4, <1>7, GivesUpOwing DEF GivesUp
  <2>2. owes' = [owes EXCEPT ![w] = o] /\ Goto(w, m) BY <1>7 DEF GivesUp
  <2> QED BY <1>3, <2>1, <2>2
<1>8. ASSUME NEW w \in Work, GiveBack(w) PROVE Places'
  <2> DEFINE rest == Tail(owes[w])
             m == IF rest # <<>> THEN pc[w] ELSE IF pc[w] = "undo" /\ w \in Job THEN "failed" ELSE "gone"
  <2>1. owes' = [owes EXCEPT ![w] = rest] /\ Goto(w, m) /\ pc[w] \in {"undo", "back"} BY <1>8 DEF GiveBack
  <2>2. PlaceOK(w, pc[w], owes[w]) /\ owes[w] \in Debts(LaneOf(w)) BY <1>4, <2>1 DEF PlaceOK
  <2>3. CASE rest # <<>>
    <3>1. rest \in Debts(LaneOf(w)) BY <2>2, <2>3, Debtor
    <3>2. rest \in Seq(Sem) BY <3>1, DebtsAre
    <3>3. pc[w] = "undo" /\ w \in Job => rest = <<"scan">>
      <4> SUFFICES ASSUME pc[w] = "undo", w \in Job PROVE rest = <<"scan">> OBVIOUS
      <4>1. LaneOf(w) = "scan" /\ owes[w] \in {<<"scan">>, <<"aux", "scan">>} BY <2>2, Lanes DEF PlaceOK
      <4>2. rest \in {<<>>, <<"scan">>} BY <2>2, <4>1, Debtor
      <4> QED BY <2>3, <4>2
    <3>4. PlaceOK(w, pc[w], rest) BY <2>1, <2>2, <3>1, <3>2, <3>3 DEF PlaceOK
    <3> QED BY <1>3, <2>1, <2>3, <3>4
  <2>4. CASE rest = <<>>
    <3>1. rest \in Seq(Sem) BY <2>4, DebtsAre
    <3>2. w \in Call \/ w \in Admin \/ w \in Job BY DEF Work
    <3>3. PlaceOK(w, m, rest)
      BY <2>1, <2>2, <2>4, <3>1, <3>2, Lanes DEF PlaceOK, AtCall, AtAdmin, AtJob
    <3> QED BY <1>3, <2>1, <3>3
  <2> QED BY <2>3, <2>4
<1>9. ASSUME NEW w \in Work, Finish(w) \/ Refused(w) \/ Leave(w) PROVE Places'
  <2>1. CASE Leave(w) BY <1>1, <2>1 DEF Leave
  <2>2. CASE Finish(w)
    <3> DEFINE o == <<"io">> \o Stage(w, "io").owes
    <3>1. Goto(w, "back") /\ owes' = [owes EXCEPT ![w] = o] /\ w \in Call \cup Admin BY <2>2 DEF Finish
    <3>2. o \in Debts(LaneOf(w)) /\ o \in Seq(Sem) BY AllSlots, DebtsAre
    <3>3. PlaceOK(w, "back", o) BY <3>1, <3>2, Lanes DEF PlaceOK, AtCall, AtAdmin, AtJob
    <3> QED BY <1>3, <3>1, <3>3
  <2>3. CASE Refused(w)
    <3>1. /\ Goto(w, "undo") /\ owes' = [owes EXCEPT ![w] = Stage(w, "io").owes]
          /\ w \in Call /\ Stage(w, "io").owes = <<"serve">>
      BY <2>3, StageIs DEF Refused
    <3>2. <<"serve">> \in Debts(LaneOf(w)) BY <3>1, Lanes DEF Debts
    <3>3. <<"serve">> \in Seq(Sem) BY <3>2, DebtsAre
    <3>4. PlaceOK(w, "undo", <<"serve">>) BY <3>1, <3>2, <3>3, Lanes DEF PlaceOK, AtCall, AtAdmin, AtJob
    <3> QED BY <1>3, <3>1, <3>4
  <2> QED BY <1>9, <2>1, <2>2, <2>3
<1>10. ASSUME NEW c \in Call, Submit(c) PROVE Places'
  <2>1. UNCHANGED owes /\ (Goto(c, "io") \/ Goto(c, "gone")) /\ c \in Work BY <1>10 DEF Submit, Work
  <2>2. PlaceOK(c, "io", owes[c]) /\ PlaceOK(c, "gone", owes[c])
    BY <1>4, <2>1, Lanes DEF PlaceOK, AtCall, AtAdmin, AtJob
  <2> QED BY <1>2, <2>1, <2>2
<1>11. ASSUME NEW a \in Admin, Enter(a) PROVE Places'
  <2>1. UNCHANGED owes /\ (Goto(a, "aux") \/ Goto(a, "lane") \/ Goto(a, "gone")) /\ a \in Work BY <1>11 DEF Enter, Work
  <2>2. PlaceOK(a, "aux", owes[a]) /\ PlaceOK(a, "lane", owes[a]) /\ PlaceOK(a, "gone", owes[a])
    BY <1>4, <2>1, Lanes DEF PlaceOK, AtCall, AtAdmin, AtJob
  <2> QED BY <1>2, <2>1, <2>2
<1>12. ASSUME NEW j \in Job, NEW m \in AtJob \ {"undo", "back"}, Goto(j, m), UNCHANGED owes PROVE Places'
  <2>1. PlaceOK(j, m, owes[j]) /\ j \in Work BY <1>4, Lanes DEF PlaceOK, Work
  <2> QED BY <1>2, <1>12, <2>1
<1>13. ASSUME NEW j \in Job, StartBegin(j) \/ Cancel(j) \/ JobStep(j) PROVE Places'
  <2>1. CASE Cancel(j) BY <1>1, <2>1 DEF Cancel
  <2>2. CASE StartBegin(j) \/ QueueAdd(j) \/ QueueIoWait(j) \/ StartEnd(j) \/ TicketCheck(j) \/ TicketEnter(j)
    BY <1>12, <2>2
    DEF StartBegin, QueueAdd, QueueIoWait, StartEnd, TicketCheck, TicketEnter, AtJob, AtAdmin, AtCall, Starting
  <2>3. CASE Admit(j) \/ Fork(j) \/ RunJob(j) \/ RunEnds(j)
    BY <1>12, <2>3 DEF Admit, Fork, RunJob, RunEnds, AtJob, AtAdmin, AtCall, Final
  <2>4. CASE TicketLeave(j)
    <3>1. CASE j \notin left
      BY <1>12, <2>4, <3>1 DEF TicketLeave, AtJob, AtAdmin
    <3>2. CASE j \in left
      <4>1. owes' = [owes EXCEPT ![j] = <<"scan">>] /\ Goto(j, "undo") /\ j \in Work
        BY <2>4, <3>2 DEF TicketLeave, Work
      <4>2. <<"scan">> \in Debts(LaneOf(j)) /\ <<"scan">> \in Seq(Sem) BY <4>1, DebtsAre, Lanes DEF Debts
      <4>3. PlaceOK(j, "undo", <<"scan">>) BY <4>2, Lanes DEF PlaceOK, AtJob, AtAdmin, AtCall
      <4> QED BY <1>3, <4>1, <4>3
    <3> QED BY <3>1, <3>2
  <2>5. CASE End(j)
    <3>1. CASE pc[j] = "failed"
      BY <1>12, <2>5, <3>1 DEF End, AtJob, AtAdmin, AtCall
    <3>2. CASE pc[j] # "failed"
      <4>1. owes' = [owes EXCEPT ![j] = <<"io", "aux", "scan">>] /\ Goto(j, "back") /\ j \in Work
        BY <2>5, <3>2 DEF End, Work
      <4>2. <<"io", "aux", "scan">> \in Debts(LaneOf(j)) BY <4>1, AllSlots
      <4>3. <<"io", "aux", "scan">> \in Seq(Sem) BY <4>1, <4>2, DebtsAre
      <4>4. PlaceOK(j, "back", <<"io", "aux", "scan">>) BY <4>2, <4>3, Lanes DEF PlaceOK, AtJob, AtAdmin, AtCall
      <4> QED BY <1>3, <4>1, <4>4
    <3> QED BY <3>1, <3>2
  <2> QED BY <1>13, <2>1, <2>2, <2>3, <2>4, <2>5 DEF JobStep
<1>14. CASE DispatchNext
  <2>1. CASE pending = <<>> BY <1>1, <1>14, <2>1 DEF DispatchNext
  <2>2. CASE pending # <<>>
    <3>1. Goto(Head(pending), "ticket") /\ UNCHANGED owes BY <1>14, <2>2 DEF DispatchNext
    <3>2. Head(pending) \in Job BY SMTT(20), Z3T(20), <2>2 DEF Pendings
    <3> QED BY <1>12, <3>1, <3>2 DEF AtJob
  <2> QED BY <2>1, <2>2
<1>15. CASE DispatchWake \/ DropPending \/ DispatchStop \/ PoolClose \/ BusClose \/ BusStops
  BY <1>1, <1>15 DEF DispatchWake, DropPending, DispatchStop, PoolClose, BusClose, BusStops
<1>16. CASE UpdateNext \/ Rest \/ UNCHANGED vars \/ \E io \in IoSizes, n \in LaneSizes : UpdateBegin(io, n)
  BY <1>1, <1>16 DEF UpdateNext, UpdateBegin, Rest, vars
<1> QED BY <1>5, <1>6, <1>7, <1>8, <1>9, <1>10, <1>11, <1>13, <1>14, <1>15, <1>16 DEF Next, Advance, Dispatch

-----------------------------------------------------------------------------
(* The life of a job.                                                      *)

\* Past the queue of the lane.
Admitted == {"aux", "aux?", "io", "io?", "admitted", "counted", "forked", "run", "back", "undo"} \cup Final

\* A job at place l in state st; lf: its ticket left the queue; cur: its Start
\* holds the pool's mutex.
JobOK(l, st, lf, cur) ==
    /\ st \in {"NONE", "PENDING", "RUNNING"} \cup Final
    /\ l \in {"none"} \cup Starting => st = "NONE" /\ ~lf
    /\ l \notin {"none", "gone"} \cup Starting => st # "NONE"
    /\ l = "run" => st = "RUNNING"
    /\ l \in Final => st # "PENDING"
    /\ l \notin {"run"} \cup Final => st # "RUNNING"
    /\ l \in Admitted => lf
    /\ l \in Starting <=> cur
Lives ==
    /\ DOMAIN state = Job /\ left \subseteq Job
    /\ start \in [job : Job \cup {None}, capacity : Int, sum : Int]
    /\ \A j \in Job : JobOK(pc[j], state[j], j \in left, start.job = j)

\* The counters and the size of the lane are numbers.
Numbers ==
    /\ sem["scan"].size \in Nat /\ DOMAIN queued = {"admin", "scan"}
    /\ queued["scan"] \in Int /\ ioWait \in Int /\ inflight \in Int

\* Numbers of jobs are not None.
LEMMA JobsAre == None \notin Job /\ Job \subseteq Work
  BY LimitAssumption DEF None, Job, Work

\* A work other than a job leaves the jobs alone.
LEMMA LivesOthers ==
    ASSUME Lives, Pendings, Places, NEW w \in Work, w \notin Job, NEW m, Goto(w, m), UNCHANGED <<state, left, start, pending>>
    PROVE Lives' /\ Pendings'
<1>1. \A j \in Job : pc'[j] = pc[j] BY JobsAre DEF Goto, Places
<1>2. Lives' BY <1>1 DEF Lives
<1>3. \A i \in 1..Len(pending) : pending[i] \in Job BY SMTT(20), Z3T(20) DEF Pendings
<1> QED BY <1>1, <1>2, <1>3 DEF Pendings

\* A job that is not waiting to be dispatched moves.
LEMMA LivesGo ==
    ASSUME Lives, Pendings, Places, NEW j \in Job, pc[j] # "pending", NEW m, Goto(j, m), UNCHANGED pending,
           DOMAIN state' = Job, left' \subseteq Job, start' \in [job : Job \cup {None}, capacity : Int, sum : Int],
           \A k \in Job : k # j => state'[k] = state[k] /\ (k \in left' <=> k \in left) /\ (start'.job = k <=> start.job = k),
           JobOK(m, state'[j], j \in left', start'.job = j)
    PROVE Lives' /\ Pendings'
<1>1. pc'[j] = m /\ \A k \in Job : k # j => pc'[k] = pc[k] BY JobsAre DEF Goto, Places
<1>2. ASSUME NEW k \in Job PROVE JobOK(pc'[k], state'[k], k \in left', start'.job = k)
  <2>1. CASE k = j BY <1>1, <2>1
  <2>2. CASE k # j
    <3>1. JobOK(pc[k], state[k], k \in left, start.job = k) BY DEF Lives
    <3> QED BY <1>1, <2>2, <3>1 DEF JobOK
  <2> QED BY <2>1, <2>2
<1>3. \A i \in 1..Len(pending) : pending[i] \in Job /\ pending[i] # j BY SMTT(20), Z3T(20) DEF Pendings
<1>4. Pendings' BY SMTT(20), Z3T(20), <1>1, <1>3 DEF Pendings
<1> QED BY <1>2, <1>4 DEF Lives

\* Such a move leaves what is not the job's alone.
LEMMA LivesGoOnly ==
    ASSUME Lives, Pendings, Places, NEW j \in Job, pc[j] # "pending", NEW m, Goto(j, m), UNCHANGED <<pending, state, left, start>>,
           JobOK(m, state[j], j \in left, start.job = j)
    PROVE Lives' /\ Pendings'
<1>1. DOMAIN state' = Job /\ left' \subseteq Job /\ start' \in [job : Job \cup {None}, capacity : Int, sum : Int]
  BY DEF Lives
<1>2. \A k \in Job : k # j => state'[k] = state[k] /\ (k \in left' <=> k \in left) /\ (start'.job = k <=> start.job = k)
  OBVIOUS
<1>3. JobOK(m, state'[j], j \in left', start'.job = j) OBVIOUS
<1> QED BY <1>1, <1>2, <1>3, LivesGo

\* A job has the states of JobsLiveOnce in their order, its place tells which,
\* and the dispatcher has in line only jobs that wait for it.
LEMMA LivesKept == ASSUME Numbers, Places, Lives, Pendings, [Next]_vars PROVE Lives' /\ Pendings'
<1> DEFINE Goal == Lives' /\ Pendings'
           Here(j) == JobOK(pc[j], state[j], j \in left, start.job = j)
<1>1. ASSUME UNCHANGED <<pc, state, left, start, pending>> PROVE Goal
  BY <1>1 DEF Lives, Pendings
<1>2. \A j \in Job : Here(j) BY DEF Lives
<1>3. \A w \in Work : PlaceOK(w, pc[w], owes[w]) BY DEF Places
<1> SUFFICES Goal OBVIOUS
<1> HIDE DEF Goal
<1>4. ASSUME NEW w \in Work, w \notin Job, NEW m, Goto(w, m), UNCHANGED <<state, left, start, pending>> PROVE Goal
  BY <1>4, LivesOthers DEF Goal
<1>5. ASSUME NEW j \in Job, pc[j] # "pending", NEW m, Goto(j, m), UNCHANGED <<pending, state, left, start>>,
             JobOK(m, state[j], j \in left, start.job = j)
      PROVE Goal
  BY <1>5, LivesGoOnly DEF Goal
<1>6. ASSUME NEW w \in Work, NEW at \in {"lane", "aux", "io"}, Acquire(w, at) \/ Granted(w, at) PROVE Goal
  <2>1. PICK m : Goto(w, m) /\ m \in {Stage(w, at).then, WaitAt[at]} BY <1>6 DEF Acquire, Granted
  <2>2. UNCHANGED <<state, left, start, pending>> BY <1>6 DEF Acquire, Granted, pool
  <2>3. pc[w] = at \/ pc[w] = WaitAt[at] BY <1>6 DEF Acquire, Granted
  <2>4. CASE w \notin Job BY <1>4, <2>1, <2>2, <2>4
  <2>5. CASE w \in Job
    <3>1. Here(w) BY <1>2, <2>5
    <3>2. JobOK(m, state[w], w \in left, start.job = w) /\ pc[w] # "pending"
      <4>1. CASE at = "lane" BY SMTT(20), Z3T(20), <2>1, <2>3, <2>5, <3>1, <4>1, StageIs DEF JobOK, Admitted, Starting, Final
      <4>2. CASE at = "aux" BY SMTT(20), Z3T(20), <2>1, <2>3, <2>5, <3>1, <4>2, StageIs DEF JobOK, Admitted, Starting, Final
      <4>3. CASE at = "io" BY SMTT(20), Z3T(20), <2>1, <2>3, <2>5, <3>1, <4>3, StageIs DEF JobOK, Admitted, Starting, Final
      <4> QED BY <4>1, <4>2, <4>3
    <3> QED BY <1>5, <2>1, <2>2, <2>5, <3>2
  <2> QED BY <2>4, <2>5
<1>7. ASSUME NEW w \in Work, NEW at \in {"lane", "aux", "io"}, GivesUp(w, at) PROVE Goal
  <2> DEFINE o == Stage(w, at).owes
             m == IF o # <<>> THEN "undo" ELSE IF w \in Job THEN "failed" ELSE "gone"
             leaves == Leaves(w, at) \/ (at = "lane" /\ w \in Job /\ w \notin left)
  <2>1. Goto(w, m) /\ pc[w] = WaitAt[at] /\ UNCHANGED <<state, start, pending>> BY <1>7 DEF GivesUp
  <2>2. left' = IF leaves /\ w \in Job THEN left \cup {w} ELSE left BY <1>7 DEF GivesUp
  <2>3. CASE w \notin Job BY <1>4, <2>1, <2>2, <2>3
  <2>4. CASE w \in Job
    <3>1. Here(w) /\ PlaceOK(w, pc[w], owes[w]) BY <1>2, <1>3, <2>4
    <3>2. m = IF at = "lane" THEN "failed" ELSE "undo" BY <2>1, <2>4, <3>1, GivesUpOwing
    <3>3. left \subseteq left' /\ left' \subseteq Job /\ \A k \in Job : k # w => (k \in left' <=> k \in left)
      BY <2>2, <2>4 DEF Lives
    <3>4. JobOK(m, state[w], w \in left', start.job = w) /\ pc[w] # "pending"
      <4>1. CASE at = "lane" BY <2>1, <2>4, <3>1, <3>2, <4>1, StageIs DEF JobOK, Admitted, Starting, Final
      <4>2. CASE at = "aux" BY <2>1, <2>4, <3>1, <3>2, <3>3, <4>2, StageIs DEF JobOK, Admitted, Starting, Final
      <4>3. CASE at = "io" BY <2>1, <2>4, <3>1, <3>2, <3>3, <4>3, StageIs DEF JobOK, Admitted, Starting, Final
      <4> QED BY <4>1, <4>2, <4>3
    <3> HIDE DEF m
    <3>5. DOMAIN state' = Job /\ start' \in [job : Job \cup {None}, capacity : Int, sum : Int] BY <2>1 DEF Lives
    <3> QED BY <2>1, <2>4, <3>3, <3>4, <3>5, LivesGo DEF Goal
  <2> QED BY <2>3, <2>4
<1>8. ASSUME NEW w \in Work, GiveBack(w) PROVE Goal
  <2>1. PICK m : Goto(w, m) /\ m \in {pc[w], "gone"} \cup IF w \in Job THEN {"failed"} ELSE {} BY <1>8 DEF GiveBack
  <2>2. UNCHANGED <<state, left, start, pending>> /\ pc[w] \in {"undo", "back"} BY <1>8 DEF GiveBack, pool
  <2>3. CASE w \notin Job BY <1>4, <2>1, <2>2, <2>3
  <2>4. CASE w \in Job
    <3>1. Here(w) BY <1>2, <2>4
    <3>2. JobOK(m, state[w], w \in left, start.job = w)
      BY <2>1, <2>2, <2>4, <3>1 DEF JobOK, Admitted, Starting, Final
    <3> QED BY <1>5, <2>1, <2>2, <2>4, <3>2
  <2> QED BY <2>3, <2>4
<1>9. ASSUME NEW w \in Work, Finish(w) \/ Refused(w) \/ Leave(w) PROVE Goal
  <2>1. CASE Leave(w) BY <1>1, <2>1 DEF Leave, pool
  <2>2. CASE Finish(w)
    <3>1. Goto(w, "back") /\ w \notin Job BY <2>2, Lanes DEF Finish
    <3>2. UNCHANGED <<state, left, start, pending>> BY <2>2 DEF Finish, pool
    <3> QED BY <1>4, <3>1, <3>2
  <2>3. CASE Refused(w)
    <3>1. Goto(w, "undo") /\ w \notin Job BY <2>3, Lanes DEF Refused
    <3>2. UNCHANGED <<state, left, start, pending>> BY <2>3 DEF Refused, pool
    <3> QED BY <1>4, <3>1, <3>2
  <2> QED BY <1>9, <2>1, <2>2, <2>3
<1>10. ASSUME NEW c \in Call \cup Admin, Submit(c) \/ Enter(c) PROVE Goal
  <2>1. PICK m : Goto(c, m) BY <1>10 DEF Submit, Enter
  <2>2. UNCHANGED <<state, left, start, pending>> BY <1>10 DEF Submit, Enter, pool
  <2>3. c \in Work /\ c \notin Job BY Lanes DEF Work
  <2> QED BY <1>4, <2>1, <2>2, <2>3
<1>11. ASSUME NEW j \in Job, Cancel(j) PROVE Goal
  <2>1. UNCHANGED <<pc, start, pending>> /\ state[j] \in {"PENDING", "RUNNING"} BY <1>11 DEF Cancel
  <2>2. CASE state[j] # "PENDING" BY <1>1, <1>11, <2>1, <2>2 DEF Cancel
  <2>3. CASE state[j] = "PENDING"
    <3>1. state' = [state EXCEPT ![j] = "CANCELED"] /\ left' = left \cup {j} BY <1>11, <2>3 DEF Cancel
    <3>2. Here(j) BY <1>2
    <3>3. ASSUME NEW k \in Job PROVE JobOK(pc'[k], state'[k], k \in left', start'.job = k)
      <4>1. CASE k = j BY <2>1, <2>3, <3>1, <3>2, <4>1 DEF JobOK, Final, Lives
      <4>2. CASE k # j BY SMTT(20), Z3T(20), <1>2, <2>1, <3>1, <4>2 DEF Lives
      <4> QED BY <4>1, <4>2
    <3>4. Lives' BY <2>1, <3>1, <3>3 DEF Lives
    <3> QED BY <2>1, <3>4 DEF Goal, Pendings
  <2> QED BY <2>2, <2>3
<1>12. ASSUME NEW j \in Job, StartBegin(j) PROVE Goal
  <2>1. pc[j] = "none" /\ Here(j) /\ UNCHANGED <<state, left, pending>> BY <1>2, <1>12 DEF StartBegin
  <2>2. CASE stopped \/ closed
    <3>1. Goto(j, "gone") /\ UNCHANGED start BY <1>12, <2>2 DEF StartBegin
    <3>2. JobOK("gone", state[j], j \in left, start.job = j) BY <2>1 DEF JobOK, Admitted, Starting, Final
    <3> QED BY <1>5, <2>1, <3>1, <3>2
  <2>3. CASE ~(stopped \/ closed)
    <3> DEFINE s == [Idle EXCEPT !.job = j, !.capacity = sem["scan"].size + MaxQueue]
    <3>1. Goto(j, "queue") /\ start' = s BY <1>12, <2>3 DEF StartBegin
    <3>2. sem["scan"].size + MaxQueue \in Int BY SMTT(20), Z3T(20), LimitAssumption DEF Numbers
    <3>3. start' = [job |-> j, capacity |-> sem["scan"].size + MaxQueue, sum |-> 0] BY <3>1, <3>2 DEF Idle
    <3>4. start' \in [job : Job \cup {None}, capacity : Int, sum : Int] /\ start'.job = j BY <3>2, <3>3
    <3>5. start.job = None BY <1>12 DEF StartBegin, Locked
    <3>6. JobOK("queue", state'[j], j \in left', start'.job = j)
      BY <2>1, <3>4 DEF JobOK, Admitted, Starting, Final
    <3>7. DOMAIN state' = Job /\ left' \subseteq Job BY <2>1 DEF Lives
    <3>8. \A k \in Job : k # j => state'[k] = state[k] /\ (k \in left' <=> k \in left) /\ (start'.job = k <=> start.job = k)
      BY <2>1, <3>4, <3>5, JobsAre
    <3> QED BY <2>1, <3>1, <3>4, <3>6, <3>7, <3>8, LivesGo DEF Goal
  <2> QED BY <2>2, <2>3
<1>13. ASSUME NEW j \in Job, QueueAdd(j) \/ QueueIoWait(j) PROVE Goal
  <2>1. PICK n : start' = [start EXCEPT !.sum = n] /\ n \in Int BY SMTT(20), Z3T(20), <1>13 DEF QueueAdd, QueueIoWait, Numbers, Lives
  <2>2. PICK m : Goto(j, m) /\ m \in Starting /\ pc[j] \in Starting BY <1>13 DEF QueueAdd, QueueIoWait, Starting
  <2>3. UNCHANGED <<state, left, pending>> /\ Here(j) BY <1>2, <1>13 DEF QueueAdd, QueueIoWait
  <2>4. start' \in [job : Job \cup {None}, capacity : Int, sum : Int] /\ start'.job = start.job
    BY <2>1 DEF Lives
  <2>5. JobOK(m, state'[j], j \in left', start'.job = j) /\ pc[j] # "pending"
    BY <2>2, <2>3, <2>4 DEF JobOK, Admitted, Starting, Final
  <2>6. DOMAIN state' = Job /\ left' \subseteq Job BY <2>3 DEF Lives
  <2>7. \A k \in Job : k # j => state'[k] = state[k] /\ (k \in left' <=> k \in left) /\ (start'.job = k <=> start.job = k)
    BY <2>3, <2>4
  <2> QED BY <2>2, <2>3, <2>4, <2>5, <2>6, <2>7, LivesGo DEF Goal
<1>14. ASSUME NEW j \in Job, StartEnd(j) PROVE Goal
  <2>1. pc[j] = "inflight?" /\ start' = Idle /\ UNCHANGED left /\ Here(j) BY <1>2, <1>14 DEF StartEnd
  <2>2. start' \in [job : Job \cup {None}, capacity : Int, sum : Int] /\ start'.job = None BY <2>1 DEF Idle
  <2>3. start.job = j /\ j # None BY <2>1, JobsAre DEF JobOK, Starting
  <2>4. CASE start.sum + inflight > start.capacity
    <3>1. Goto(j, "gone") /\ UNCHANGED <<state, pending>> BY <1>14, <2>4 DEF StartEnd
    <3>2. JobOK("gone", state'[j], j \in left', start'.job = j)
      BY <2>1, <2>2, <2>3, <3>1 DEF JobOK, Admitted, Starting, Final
    <3>3. DOMAIN state' = Job /\ left' \subseteq Job BY <2>1, <3>1 DEF Lives
    <3>4. \A k \in Job : k # j => state'[k] = state[k] /\ (k \in left' <=> k \in left) /\ (start'.job = k <=> start.job = k)
      BY <2>1, <2>2, <2>3, <3>1, JobsAre
    <3> QED BY <2>1, <2>2, <3>1, <3>2, <3>3, <3>4, LivesGo DEF Goal
  <2>5. CASE ~(start.sum + inflight > start.capacity)
    <3>1. Goto(j, "pending") /\ state' = [state EXCEPT ![j] = "PENDING"] /\ pending' = Append(pending, j)
      BY <1>14, <2>5 DEF StartEnd
    <3>2. pc'[j] = "pending" /\ \A k \in Job : k # j => pc'[k] = pc[k] BY <3>1, JobsAre DEF Goto, Places
    <3>3. ASSUME NEW k \in Job PROVE JobOK(pc'[k], state'[k], k \in left', start'.job = k)
      <4>1. CASE k = j
        BY <2>1, <2>2, <2>3, <3>1, <3>2, <4>1 DEF JobOK, Admitted, Starting, Final, Lives
      <4>2. CASE k # j
        <5>1. state'[k] = state[k] /\ start'.job # k /\ start.job # k BY <2>2, <2>3, <3>1, <4>2, JobsAre DEF Lives
        <5>2. Here(k) BY <1>2
        <5> QED BY <2>1, <3>2, <4>2, <5>1, <5>2 DEF JobOK
      <4> QED BY <4>1, <4>2
    <3>4. Lives' BY <2>1, <2>2, <3>1, <3>3 DEF Lives
    <3>5. /\ pending' \in Seq(Job) /\ Len(pending') = Len(pending) + 1 /\ pending'[Len(pending) + 1] = j
          /\ Len(pending) \in Nat /\ \A i \in 1..Len(pending) : pending'[i] = pending[i]
      BY SMTT(20), Z3T(20), <3>1 DEF Pendings
    <3>6. 1..Len(pending') = 1..Len(pending) \cup {Len(pending) + 1} BY <3>5
    <3>7. \A i \in 1..Len(pending) : pending[i] \in Job /\ pending[i] # j BY SMTT(20), Z3T(20), <2>1 DEF Pendings
    <3>8. Pendings' BY SMTT(20), Z3T(20), <3>2, <3>5, <3>6, <3>7 DEF Pendings
    <3> QED BY <3>4, <3>8 DEF Goal
  <2> QED BY <2>4, <2>5
<1>15. ASSUME NEW j \in Job, TicketCheck(j) \/ TicketEnter(j) \/ Admit(j) \/ Fork(j) \/ RunEnds(j) PROVE Goal
  <2>1. UNCHANGED <<pending, state, left, start>> /\ Here(j)
    BY <1>2, <1>15 DEF TicketCheck, TicketEnter, Admit, Fork, RunEnds, pool
  <2>2. CASE TicketCheck(j) \/ TicketEnter(j)
    <3>1. PICK m : Goto(j, m) /\ m \in {"failed", "lane", "leave"} /\ pc[j] \in {"ticket", "enter"}
      BY <2>2 DEF TicketCheck, TicketEnter
    <3>2. JobOK(m, state[j], j \in left, start.job = j) BY <2>1, <3>1 DEF JobOK, Admitted, Starting, Final
    <3> QED BY <1>5, <2>1, <3>1, <3>2
  <2>3. CASE Admit(j) \/ Fork(j)
    <3>1. PICK m : Goto(j, m) /\ m \in {"counted", "forked"} /\ pc[j] \in {"admitted", "counted"}
      BY <2>3 DEF Admit, Fork
    <3>2. JobOK(m, state[j], j \in left, start.job = j) BY <2>1, <3>1 DEF JobOK, Admitted, Starting, Final
    <3> QED BY <1>5, <2>1, <3>1, <3>2
  <2>4. CASE RunEnds(j)
    <3>1. PICK m : Goto(j, m) /\ m \in Final /\ pc[j] = "run" BY <2>4 DEF RunEnds, Final
    <3>2. JobOK(m, state[j], j \in left, start.job = j) BY <2>1, <3>1 DEF JobOK, Admitted, Starting, Final
    <3> QED BY <1>5, <2>1, <3>1, <3>2
  <2> QED BY <1>15, <2>2, <2>3, <2>4
<1>16. ASSUME NEW j \in Job, TicketLeave(j) PROVE Goal
  <2>1. UNCHANGED <<pending, state, start>> /\ pc[j] = "leave" /\ Here(j) BY <1>2, <1>16 DEF TicketLeave
  <2>2. left' = left \cup {j} /\ \E m \in {"undo", "aux"} : Goto(j, m) BY <1>16 DEF TicketLeave
  <2>3. PICK m : Goto(j, m) /\ m \in {"undo", "aux"} BY <2>2
  <2>4. JobOK(m, state'[j], j \in left', start'.job = j)
    BY <2>1, <2>2, <2>3 DEF JobOK, Admitted, Starting, Final
  <2>5. DOMAIN state' = Job /\ left' \subseteq Job /\ start' \in [job : Job \cup {None}, capacity : Int, sum : Int]
    BY <2>1, <2>2 DEF Lives
  <2>6. \A k \in Job : k # j => state'[k] = state[k] /\ (k \in left' <=> k \in left) /\ (start'.job = k <=> start.job = k)
    BY <2>1, <2>2
  <2> QED BY <2>1, <2>3, <2>4, <2>5, <2>6, LivesGo DEF Goal
<1>17. ASSUME NEW j \in Job, RunJob(j) PROVE Goal
  <2>1. UNCHANGED <<pending, left, start>> /\ pc[j] = "forked" /\ Here(j) BY <1>2, <1>17 DEF RunJob
  <2>2. CASE state[j] # "PENDING"
    <3>1. UNCHANGED state /\ Goto(j, "DONE") BY <1>17, <2>2 DEF RunJob
    <3>2. JobOK("DONE", state[j], j \in left, start.job = j) BY <2>1, <2>2 DEF JobOK, Admitted, Starting, Final
    <3> QED BY <1>5, <2>1, <3>1, <3>2
  <2>3. CASE state[j] = "PENDING"
    <3>1. state' = [state EXCEPT ![j] = "RUNNING"] /\ Goto(j, "run") BY <1>17, <2>3 DEF RunJob
    <3>2. state'[j] = "RUNNING" /\ DOMAIN state' = Job /\ \A k \in Job : k # j => state'[k] = state[k]
      BY <3>1 DEF Lives
    <3>3. JobOK("run", state'[j], j \in left', start'.job = j)
      BY <2>1, <3>2 DEF JobOK, Admitted, Starting, Final
    <3>4. left' \subseteq Job /\ start' \in [job : Job \cup {None}, capacity : Int, sum : Int] BY <2>1 DEF Lives
    <3>5. \A k \in Job : k # j => state'[k] = state[k] /\ (k \in left' <=> k \in left) /\ (start'.job = k <=> start.job = k)
      BY <2>1, <3>2
    <3> QED BY <2>1, <3>1, <3>2, <3>3, <3>4, <3>5, LivesGo DEF Goal
  <2> QED BY <2>2, <2>3
<1>18. ASSUME NEW j \in Job, End(j) PROVE Goal
  <2> DEFINE outcome == IF pc[j] = "failed" THEN "CANCELED" ELSE pc[j]
             m == IF pc[j] = "failed" THEN "gone" ELSE "back"
  <2>1. UNCHANGED <<pending, left, start>> /\ pc[j] \in Final \cup {"failed"} /\ Here(j) BY <1>2, <1>18 DEF End
  <2>2. Goto(j, m) BY <1>18 DEF End
  <2>3. state' = IF state[j] \in {"PENDING", "RUNNING"} THEN [state EXCEPT ![j] = outcome] ELSE state
    BY <1>18 DEF End
  <2>4. /\ state'[j] = IF state[j] \in {"PENDING", "RUNNING"} THEN outcome ELSE state[j]
        /\ DOMAIN state' = Job /\ \A k \in Job : k # j => state'[k] = state[k]
    BY <2>3 DEF Lives
  <2>5. JobOK(m, state'[j], j \in left', start'.job = j) /\ pc[j] # "pending"
    BY <2>1, <2>4 DEF JobOK, Admitted, Starting, Final
  <2> HIDE DEF m
  <2>6. left' \subseteq Job /\ start' \in [job : Job \cup {None}, capacity : Int, sum : Int] BY <2>1 DEF Lives
  <2>7. \A k \in Job : k # j => state'[k] = state[k] /\ (k \in left' <=> k \in left) /\ (start'.job = k <=> start.job = k)
    BY <2>1, <2>4
  <2> QED BY <2>1, <2>2, <2>4, <2>5, <2>6, <2>7, LivesGo DEF Goal
<1>19. CASE DispatchNext
  <2>1. UNCHANGED <<state, left, start>> BY <1>19 DEF DispatchNext
  <2>2. CASE pending = <<>> BY <1>1, <1>19, <2>1, <2>2 DEF DispatchNext
  <2>3. CASE pending # <<>>
    <3> DEFINE j == Head(pending)
    <3>1. Goto(j, "ticket") /\ pending' = Tail(pending) BY <1>19, <2>3 DEF DispatchNext
    <3>2. j \in Job /\ j = pending[1] /\ 1 \in 1..Len(pending) BY SMTT(20), Z3T(20), <2>3 DEF Pendings
    <3>3. pc[j] = "pending" /\ Here(j) BY <1>2, <3>2 DEF Pendings
    <3>4. /\ pending' \in Seq(Job) /\ Len(pending') = Len(pending) - 1 /\ Len(pending) \in Nat
          /\ \A i \in 1..(Len(pending) - 1) : pending'[i] = pending[i + 1]
      BY SMTT(20), Z3T(20), <2>3, <3>1 DEF Pendings
    <3>5. \A i \in 1..Len(pending') : i + 1 \in 1..Len(pending) /\ i + 1 # 1 /\ pending'[i] = pending[i + 1]
      BY <3>4
    <3> HIDE DEF j
    <3>6. pc'[j] = "ticket" /\ \A k \in Job : k # j => pc'[k] = pc[k] BY <3>1, <3>2, JobsAre DEF Goto, Places
    <3>7. \A i \in 1..Len(pending') : pending'[i] # j /\ pending'[i] \in Job /\ pc[pending'[i]] = "pending"
      BY SMTT(20), Z3T(20), <3>2, <3>5 DEF Pendings
    <3>8. \A i, k \in 1..Len(pending') : i # k => pending'[i] # pending'[k]
      <4> SUFFICES ASSUME NEW i \in 1..Len(pending'), NEW k \in 1..Len(pending'), i # k
                   PROVE pending'[i] # pending'[k]
        OBVIOUS
      <4>1. i + 1 # k + 1 BY <3>4
      <4> QED BY SMTT(20), Z3T(20), <3>5, <4>1 DEF Pendings
    <3>9. Pendings' BY <3>4, <3>6, <3>7, <3>8 DEF Pendings
    <3>10. ASSUME NEW k \in Job PROVE JobOK(pc'[k], state'[k], k \in left', start'.job = k)
      <4>1. CASE k = j BY <2>1, <3>3, <3>6, <4>1 DEF JobOK, Admitted, Starting, Final
      <4>2. CASE k # j BY <1>2, <2>1, <3>6, <4>2
      <4> QED BY <4>1, <4>2
    <3>11. Lives' BY <2>1, <3>10 DEF Lives
    <3> QED BY <3>9, <3>11 DEF Goal
  <2> QED BY <2>2, <2>3
<1>20. CASE DropPending
  <2> DEFINE waiting == {pending[i] : i \in 1..Len(pending)}
  <2>1. left' = left \cup waiting /\ pending' = <<>> /\ UNCHANGED <<pc, state, start>> BY <1>20 DEF DropPending
  <2>2. waiting \subseteq Job /\ \A j \in waiting : pc[j] = "pending" BY SMTT(20), Z3T(20) DEF Pendings
  <2> HIDE DEF waiting
  <2>3. ASSUME NEW k \in Job PROVE JobOK(pc'[k], state'[k], k \in left', start'.job = k)
    <3>1. Here(k) BY <1>2
    <3>2. CASE k \in waiting BY <2>1, <2>2, <3>1, <3>2 DEF JobOK, Admitted, Starting, Final
    <3>3. CASE k \notin waiting BY <2>1, <3>1, <3>3 DEF JobOK
    <3> QED BY <3>2, <3>3
  <2>4. Lives' BY <2>1, <2>2, <2>3 DEF Lives
  <2>5. Pendings' BY SMTT(20), Z3T(20), <2>1 DEF Pendings
  <2> QED BY <2>4, <2>5 DEF Goal
<1>21. CASE DispatchWake \/ DispatchStop \/ PoolClose \/ BusClose \/ BusStops
  BY <1>1, <1>21 DEF DispatchWake, DispatchStop, PoolClose, BusClose, BusStops, pool
<1>22. CASE UpdateNext \/ Rest \/ UNCHANGED vars \/ \E io \in IoSizes, n \in LaneSizes : UpdateBegin(io, n)
  BY <1>1, <1>22 DEF UpdateNext, UpdateBegin, Rest, vars, pool
<1>23. ASSUME NEW j \in Job, JobStep(j) PROVE Goal
  BY <1>13, <1>14, <1>15, <1>16, <1>17, <1>18, <1>23 DEF JobStep
<1> QED
  BY <1>6, <1>7, <1>8, <1>9, <1>10, <1>11, <1>12, <1>19, <1>20, <1>21, <1>22, <1>23 DEF Next, Advance, Dispatch

-----------------------------------------------------------------------------
(* Every slot in use is somebody's.                                        *)

\* What is held at each place.
LEMMA HoldsIs ==
    ASSUME NEW w, NEW o
    PROVE /\ \A l \in {"none", "gone", "lane", "lane?", "pending", "ticket", "failed"} \cup Starting : HoldsAt(w, l, o) = {}
          /\ \A l \in {"enter", "leave"} : HoldsAt(w, l, o) = {"scan"}
          /\ \A l \in {"aux", "aux?"} : HoldsAt(w, l, o) = {LaneOf(w)}
          /\ \A l \in {"io", "io?"} : HoldsAt(w, l, o) = Below(w)
          /\ \A l \in {"run", "admitted", "counted", "forked"} \cup Final : HoldsAt(w, l, o) = Below(w) \cup {"io"}
          /\ \A l \in {"undo", "back"} : HoldsAt(w, l, o) = InOrder(o)
<1>1. \A l \in {"none", "gone", "lane", "lane?", "pending", "ticket", "failed"} \cup Starting : HoldsAt(w, l, o) = {}
  BY DEF HoldsAt, Starting, Final
<1>2. \A l \in {"enter", "leave"} : HoldsAt(w, l, o) = {"scan"}
  BY DEF HoldsAt, Final
<1>3. \A l \in {"aux", "aux?"} : HoldsAt(w, l, o) = {LaneOf(w)}
  BY DEF HoldsAt, Final
<1>4. \A l \in {"io", "io?"} : HoldsAt(w, l, o) = Below(w)
  BY DEF HoldsAt, Final
<1>5. \A l \in {"run", "admitted", "counted", "forked"} \cup Final : HoldsAt(w, l, o) = Below(w) \cup {"io"}
  BY DEF HoldsAt, Final
<1>6. \A l \in {"undo", "back"} : HoldsAt(w, l, o) = InOrder(o)
  BY DEF HoldsAt, Final
<1> QED BY <1>1, <1>2, <1>3, <1>4, <1>5, <1>6

\* What is in a debt.
LEMMA DebtHolds ==
    ASSUME NEW l
    PROVE /\ InOrder(<<>>) = {} /\ InOrder(<<l>>) = {l} /\ InOrder(<<"aux", l>>) = {"aux", l}
          /\ InOrder(<<"io", l>>) = {"io", l} /\ InOrder(<<"io", "aux", l>>) = {"io", "aux", l}
<1>1. InOrder(<<>>) = {} BY DEF InOrder
<1>2. InOrder(<<l>>) = {l} BY DEF InOrder
<1>3. ASSUME NEW a, NEW b PROVE InOrder(<<a, b>>) = {a, b}
  <2>1. 1..Len(<<a, b>>) = {1, 2} OBVIOUS
  <2> QED BY SMTT(20), Z3T(20), <2>1 DEF InOrder
<1>4. ASSUME NEW a, NEW b, NEW c PROVE InOrder(<<a, b, c>>) = {a, b, c}
  <2>1. 1..Len(<<a, b, c>>) = {1, 2, 3} OBVIOUS
  <2> QED BY SMTT(20), Z3T(20), <2>1 DEF InOrder
<1> QED BY SMTT(20), Z3T(20), <1>1, <1>2, <1>3, <1>4

\* Who waits and who holds after one work moved.
LEMMA SetsGo ==
    ASSUME Places, NEW w \in Work, NEW m, NEW o, Goes(w, m, o), NEW s
    PROVE /\ Demand(s)' = IF Wants(w, m, s) THEN Demand(s) \cup {w} ELSE Demand(s) \ {w}
          /\ Held(s)' = IF s \in HoldsAt(w, m, o) THEN Held(s) \cup {w} ELSE Held(s) \ {w}
          /\ w \in Demand(s) <=> Wants(w, pc[w], s)
          /\ w \in Held(s) <=> s \in HoldsAt(w, pc[w], owes[w])
<1>1. pc'[w] = m /\ owes'[w] = o /\ \A v \in Work : v # w => pc'[v] = pc[v] /\ owes'[v] = owes[v]
  BY DEF Goes
<1>2. Demand(s)' = {v \in Work : Wants(v, pc'[v], s)} BY DEF Demand
<1>3. Held(s)' = {v \in Work : s \in HoldsAt(v, pc'[v], owes'[v])} BY DEF Held
<1>4. Demand(s)' = IF Wants(w, m, s) THEN Demand(s) \cup {w} ELSE Demand(s) \ {w}
  BY <1>1, <1>2 DEF Demand
<1>5. Held(s)' = IF s \in HoldsAt(w, m, o) THEN Held(s) \cup {w} ELSE Held(s) \ {w}
  BY <1>1, <1>3 DEF Held
<1>6. w \in Demand(s) <=> Wants(w, pc[w], s) BY DEF Demand
<1>7. w \in Held(s) <=> s \in HoldsAt(w, pc[w], owes[w]) BY DEF Held
<1> QED BY <1>4, <1>5, <1>6, <1>7

\* A work that keeps what it holds and waits for leaves a semaphore exact.
LEMMA ExactStays ==
    ASSUME Places, NEW s \in Sem, Exact(sem[s], Demand(s), Held(s)), NEW w \in Work, NEW m, NEW o, Goes(w, m, o), sem'[s] = sem[s],
           Wants(w, m, s) <=> Wants(w, pc[w], s), s \in HoldsAt(w, m, o) <=> s \in HoldsAt(w, pc[w], owes[w])
    PROVE Exact(sem[s], Demand(s), Held(s))'
<1>1. Demand(s)' = Demand(s) /\ Held(s)' = Held(s)
  <2>1. /\ Demand(s)' = IF Wants(w, m, s) THEN Demand(s) \cup {w} ELSE Demand(s) \ {w}
        /\ Held(s)' = IF s \in HoldsAt(w, m, o) THEN Held(s) \cup {w} ELSE Held(s) \ {w}
        /\ w \in Demand(s) <=> Wants(w, pc[w], s)
        /\ w \in Held(s) <=> s \in HoldsAt(w, pc[w], owes[w])
    BY SetsGo
  <2> QED BY <2>1
<1>2. Exact(sem[s], Demand(s), Held(s))' <=> Exact(sem'[s], Demand(s)', Held(s)') BY DEF Exact, Served, InLine, ASemaphore
<1> QED BY <1>1, <1>2

\* The ways in which a work comes to and loses the slot of a semaphore.
Exchanges(w, a, b, wants, holds, wants1, holds1) ==
    \/ b = Taken(a) /\ ~wants /\ ~holds /\ ~wants1 /\ holds1
    \/ b = Joined(a, w) /\ ~wants /\ ~holds /\ wants1 /\ ~holds1
    \/ b = a /\ ~Waits(a, w) /\ wants /\ ~wants1 /\ holds1
    \/ b = Release(a) /\ ~wants /\ holds /\ ~wants1 /\ ~holds1
    \/ b = GiveUp(a, w) /\ wants /\ ~wants1 /\ ~holds1

\* A semaphore stays exact when one work exchanges its place with it.
LEMMA ExactGoes ==
    ASSUME Places, NEW s \in Sem, Exact(sem[s], Demand(s), Held(s)), NEW w \in Work, NEW m, NEW o, Goes(w, m, o),
           Exchanges(w, sem[s], sem'[s], Wants(w, pc[w], s), s \in HoldsAt(w, pc[w], owes[w]), Wants(w, m, s), s \in HoldsAt(w, m, o))
    PROVE Exact(sem[s], Demand(s), Held(s))'
<1> DEFINE a == sem[s]
           b == sem'[s]
           D == Demand(s)
           H == Held(s)
           E == Demand(s)'
           G == Held(s)'
<1>1. /\ E = IF Wants(w, m, s) THEN D \cup {w} ELSE D \ {w}
      /\ G = IF s \in HoldsAt(w, m, o) THEN H \cup {w} ELSE H \ {w}
      /\ w \in D <=> Wants(w, pc[w], s)
      /\ w \in H <=> s \in HoldsAt(w, pc[w], owes[w])
  BY SetsGo
<1>2. Exact(a, D, H) /\ D \cap H = {} /\ InLine(a) \subseteq D BY DEF Exact
<1>3. Exact(sem[s], Demand(s), Held(s))' <=> Exact(b, E, G) BY DEF Exact, Served, InLine, ASemaphore
<1>4. Exchanges(w, a, b, w \in D, w \in H, w \in E, w \in G) BY <1>1 DEF Exchanges
<1>5. (w \notin E => E = D \ {w}) /\ (w \in E => E = D \cup {w}) /\ (w \notin G => G = H \ {w}) /\ (w \in G => G = H \cup {w})
  BY <1>1
<1> SUFFICES Exact(b, E, G) BY <1>3
<1> HIDE DEF a, b, D, H, E, G
<1>6. CASE b = Taken(a) /\ w \notin D /\ w \notin H /\ w \notin E /\ w \in G
  <2>1. E = D /\ G = H \cup {w} BY <1>5, <1>6
  <2> QED BY <1>2, <1>6, <2>1, TakenExact
<1>7. CASE b = Joined(a, w) /\ w \notin D /\ w \notin H /\ w \in E /\ w \notin G
  <2>1. E = D \cup {w} /\ G = H BY <1>5, <1>7
  <2> QED BY <1>2, <1>7, <2>1, JoinedExact
<1>8. CASE b = a /\ ~Waits(a, w) /\ w \in D /\ w \notin E /\ w \in G
  <2>1. E = D \ {w} /\ G = H \cup {w} BY <1>5, <1>8
  <2> QED BY <1>2, <1>8, <2>1, NoticedExact
<1>9. CASE b = Release(a) /\ w \notin D /\ w \in H /\ w \notin E /\ w \notin G
  <2>1. E = D /\ G = H \ {w} BY <1>5, <1>9
  <2>2. w \in Served(a, D, H) /\ Served(a, E, G) = Served(a, D, H) \ {w} BY <1>9, <2>1 DEF Served
  <2>3. E \cap G = {} /\ InLine(a) \subseteq E BY <1>2, <2>1
  <2> QED BY <1>2, <1>9, <2>2, <2>3, ReleaseExact
<1>10. CASE b = GiveUp(a, w) /\ w \in D /\ w \notin E /\ w \notin G
  <2>1. E = D \ {w} /\ G = H BY <1>2, <1>5, <1>10
  <2> QED BY <1>2, <1>10, <2>1, GiveUpExact
<1> QED BY <1>4, <1>6, <1>7, <1>8, <1>9, <1>10 DEF Exchanges

\* One semaphore moves.
Sets(x, b) == DOMAIN sem' = Sem /\ sem'[x] = b /\ \A s \in Sem \ {x} : sem'[s] = sem[s]

\* A step sets one semaphore, or none.
LEMMA SemSets ==
    ASSUME Exacts, NEW x \in Sem
    PROVE /\ \A b : sem' = [sem EXCEPT ![x] = b] => Sets(x, b)
          /\ UNCHANGED sem => Sets(x, sem[x])
  BY DEF Exacts, Sets

\* One work moves, and with it one semaphore.
LEMMA ExactsGo ==
    ASSUME Places, Exacts, NEW w \in Work, NEW m, NEW o, Goes(w, m, o), NEW x \in Sem, NEW b, Sets(x, b),
           \A s \in Sem \ {x} : /\ Wants(w, m, s) <=> Wants(w, pc[w], s)
                                /\ s \in HoldsAt(w, m, o) <=> s \in HoldsAt(w, pc[w], owes[w]),
           Exchanges(w, sem[x], b, Wants(w, pc[w], x), x \in HoldsAt(w, pc[w], owes[w]), Wants(w, m, x), x \in HoldsAt(w, m, o))
    PROVE Exacts'
<1>1. sem'[x] = b /\ DOMAIN sem' = Sem /\ \A s \in Sem \ {x} : sem'[s] = sem[s] BY DEF Sets
<1>2. ASSUME NEW s \in Sem PROVE Exact(sem[s], Demand(s), Held(s))'
  <2>1. Exact(sem[s], Demand(s), Held(s)) BY DEF Exacts
  <2>2. CASE s = x BY <1>1, <2>1, <2>2, ExactGoes
  <2>3. CASE s # x BY <1>1, <2>1, <2>3, ExactStays
  <2> QED BY <2>2, <2>3
<1> QED BY <1>1, <1>2 DEF Exacts

\* One work moves, and no semaphore.
LEMMA ExactsStay ==
    ASSUME Places, Exacts, NEW w \in Work, NEW m, NEW o, Goes(w, m, o), UNCHANGED sem,
           \A s \in Sem : /\ Wants(w, m, s) <=> Wants(w, pc[w], s)
                          /\ s \in HoldsAt(w, m, o) <=> s \in HoldsAt(w, pc[w], owes[w])
    PROVE Exacts'
<1>1. ASSUME NEW s \in Sem PROVE Exact(sem[s], Demand(s), Held(s))'
  <2>1. Exact(sem[s], Demand(s), Held(s)) BY DEF Exacts
  <2> QED BY <2>1, ExactStays
<1> QED BY <1>1 DEF Exacts

\* Works get, wait for and give back the slots of their stages.
LEMMA ExactsAcquire ==
    ASSUME Places, Exacts, NEW w \in Work, NEW at \in {"lane", "aux", "io"}, Acquire(w, at) \/ Granted(w, at) \/ GivesUp(w, at)
    PROVE Exacts'
<1> DEFINE x == Stage(w, at).sem
           o == Stage(w, at).owes
           b == Below(w)
           l == LaneOf(w)
<1>1. PlaceOK(w, pc[w], owes[w]) BY DEF Places
<1>2. pc[w] = at \/ pc[w] = WaitAt[at] BY DEF Acquire, Granted, GivesUp
<1>3. x \in Sem BY SMTT(20), Z3T(20), StageIs, Lanes DEF Sem, Lane
<1>4. l \in Sem /\ l # "aux" /\ l # "io" /\ (w \in Job => l = "scan") /\ (w \in Call => l = "serve") BY Lanes
<1>5. at # "io" => w \notin Call BY <1>1, <1>2, StageIs, Kinds
<1>6. b = IF w \in Call THEN {"serve"} ELSE {"aux", l} BY DEF Below
<1>7. ASSUME NEW d PROVE
        /\ \A s \in Sem \ {x} : /\ ~Wants(w, at, s) /\ ~Wants(w, WaitAt[at], s) /\ ~Wants(w, Stage(w, at).then, s)
                                /\ s \in HoldsAt(w, at, d) <=> s \in HoldsAt(w, WaitAt[at], d)
                                /\ s \in HoldsAt(w, at, d) <=> s \in HoldsAt(w, Stage(w, at).then, d)
        /\ ~Wants(w, at, x) /\ Wants(w, WaitAt[at], x) /\ ~Wants(w, Stage(w, at).then, x)
        /\ x \notin HoldsAt(w, at, d) /\ x \notin HoldsAt(w, WaitAt[at], d) /\ x \in HoldsAt(w, Stage(w, at).then, d)
  <2>1. CASE at = "lane"
    <3>1. x = l /\ Stage(w, at).then = (IF w \in Job THEN "enter" ELSE "aux") /\ WaitAt[at] = "lane?" BY <2>1, StageIs
    <3>2. HoldsAt(w, at, d) = {} /\ HoldsAt(w, WaitAt[at], d) = {} BY <2>1, <3>1, HoldsIs
    <3>3. HoldsAt(w, Stage(w, at).then, d) = {l} BY <1>4, <3>1, HoldsIs
    <3> QED BY <2>1, <3>1, <3>2, <3>3 DEF Wants
  <2>2. CASE at = "aux"
    <3>1. x = "aux" /\ Stage(w, at).then = "io" /\ WaitAt[at] = "aux?" BY <2>2, StageIs
    <3>2. HoldsAt(w, at, d) = {l} /\ HoldsAt(w, WaitAt[at], d) = {l} BY <2>2, <3>1, HoldsIs
    <3>3. HoldsAt(w, Stage(w, at).then, d) = {"aux", l} BY <1>5, <1>6, <2>2, <3>1, HoldsIs
    <3> QED BY <1>4, <2>2, <3>1, <3>2, <3>3 DEF Wants
  <2>3. CASE at = "io"
    <3>1. x = "io" /\ Stage(w, at).then = (IF w \in Job THEN "admitted" ELSE "run") /\ WaitAt[at] = "io?" BY <2>3, StageIs
    <3>2. HoldsAt(w, at, d) = b /\ HoldsAt(w, WaitAt[at], d) = b BY SMTT(20), Z3T(20), <2>3, <3>1, HoldsIs
    <3>3. HoldsAt(w, Stage(w, at).then, d) = b \cup {"io"} BY <3>1, HoldsIs
    <3>4. "io" \notin b BY <1>4, <1>6
    <3> QED BY <2>3, <3>1, <3>2, <3>3, <3>4 DEF Wants
  <2> QED BY <2>1, <2>2, <2>3
<1> HIDE DEF x, b, l
<1>8. CASE Acquire(w, at)
  <2>1. pc[w] = at /\ UNCHANGED owes BY <1>8 DEF Acquire
  <2>2. CASE Free(sem[x])
    <3>1. sem' = [sem EXCEPT ![x] = Taken(sem[x])] /\ Goto(w, Stage(w, at).then) BY <1>8, <2>2 DEF Acquire, x
    <3>2. Goes(w, Stage(w, at).then, owes[w]) BY <2>1, <3>1, GoesOn
    <3>3. Exchanges(w, sem[x], Taken(sem[x]), Wants(w, pc[w], x), x \in HoldsAt(w, pc[w], owes[w]),
                    Wants(w, Stage(w, at).then, x), x \in HoldsAt(w, Stage(w, at).then, owes[w]))
      BY <1>7, <2>1 DEF Exchanges
    <3>4. Sets(x, Taken(sem[x])) BY <1>3, <3>1, SemSets
    <3> QED BY <1>3, <1>7, <2>1, <3>2, <3>3, <3>4, ExactsGo
  <2>3. CASE ~Free(sem[x])
    <3>1. sem' = [sem EXCEPT ![x] = Joined(sem[x], w)] /\ Goto(w, WaitAt[at]) BY <1>8, <2>3 DEF Acquire, x
    <3>2. Goes(w, WaitAt[at], owes[w]) BY <2>1, <3>1, GoesOn
    <3>3. Exchanges(w, sem[x], Joined(sem[x], w), Wants(w, pc[w], x), x \in HoldsAt(w, pc[w], owes[w]),
                    Wants(w, WaitAt[at], x), x \in HoldsAt(w, WaitAt[at], owes[w]))
      BY <1>7, <2>1 DEF Exchanges
    <3>4. Sets(x, Joined(sem[x], w)) BY <1>3, <3>1, SemSets
    <3> QED BY <1>3, <1>7, <2>1, <3>2, <3>3, <3>4, ExactsGo
  <2> QED BY <2>2, <2>3
<1>9. CASE Granted(w, at)
  <2>1. pc[w] = WaitAt[at] /\ ~Waits(sem[x], w) /\ Goto(w, Stage(w, at).then) /\ UNCHANGED <<sem, owes>> BY <1>9 DEF Granted, x
  <2>2. Goes(w, Stage(w, at).then, owes[w]) BY <2>1, GoesOn
  <2>3. Sets(x, sem[x]) BY <1>3, <2>1, SemSets
  <2>4. Exchanges(w, sem[x], sem[x], Wants(w, pc[w], x), x \in HoldsAt(w, pc[w], owes[w]),
                  Wants(w, Stage(w, at).then, x), x \in HoldsAt(w, Stage(w, at).then, owes[w]))
    BY <1>7, <2>1 DEF Exchanges
  <2>5. \A s \in Sem \ {x} : /\ Wants(w, Stage(w, at).then, s) <=> Wants(w, pc[w], s)
                             /\ s \in HoldsAt(w, Stage(w, at).then, owes[w]) <=> s \in HoldsAt(w, pc[w], owes[w])
    BY <1>7, <2>1
  <2> QED BY <1>3, <2>2, <2>3, <2>4, <2>5, ExactsGo
<1>10. CASE GivesUp(w, at)
  <2> DEFINE m == IF o # <<>> THEN "undo" ELSE IF w \in Job THEN "failed" ELSE "gone"
  <2>1. pc[w] = WaitAt[at] /\ sem' = [sem EXCEPT ![x] = GiveUp(sem[x], w)] BY <1>10 DEF GivesUp, x
  <2>2. owes' = [owes EXCEPT ![w] = o] /\ Goto(w, m) BY <1>10 DEF GivesUp
  <2>3. Goes(w, m, o) BY <2>2, GoesOn
  <2>4. at = "lane" <=> o = <<>> BY <1>1, <2>1, GivesUpOwing
  <2>5. /\ at = "lane" => m \in {"failed", "gone"} /\ WaitAt[at] = "lane?"
        /\ at = "aux" => m = "undo" /\ WaitAt[at] = "aux?" /\ o = <<l>>
        /\ at = "io" => m = "undo" /\ WaitAt[at] = "io?" /\ o = IF w \in Call THEN <<"serve">> ELSE <<"aux", l>>
    BY <2>4, StageIs DEF l
  <2> HIDE DEF m, o
  <2>6. m \in {"undo", "failed", "gone"} /\ HoldsAt(w, m, o) = HoldsAt(w, WaitAt[at], owes[w])
    <3>1. CASE at = "lane"
      <4>1. HoldsAt(w, m, o) = {} BY <2>5, <3>1, HoldsIs
      <4>2. HoldsAt(w, "lane?", owes[w]) = {} BY HoldsIs
      <4> QED BY <2>5, <3>1, <4>1, <4>2
    <3>2. CASE at = "aux"
      <4>1. HoldsAt(w, m, o) = InOrder(<<l>>) /\ HoldsAt(w, WaitAt[at], owes[w]) = {l} BY SMTT(20), Z3T(20), <2>5, <3>2, HoldsIs DEF l
      <4> QED BY <2>5, <3>2, <4>1, DebtHolds
    <3>3. CASE at = "io"
      <4>1. HoldsAt(w, m, o) = InOrder(o) /\ HoldsAt(w, WaitAt[at], owes[w]) = b BY SMTT(20), Z3T(20), <2>5, <3>3, HoldsIs DEF b
      <4>2. InOrder(<<"serve">>) = {"serve"} /\ InOrder(<<"aux", l>>) = {"aux", l} BY DebtHolds
      <4> QED BY <1>6, <2>5, <3>3, <4>1, <4>2
    <3> QED BY <3>1, <3>2, <3>3
  <2>7. \A s : ~Wants(w, m, s) BY <2>6 DEF Wants
  <2>8. Exchanges(w, sem[x], GiveUp(sem[x], w), Wants(w, pc[w], x), x \in HoldsAt(w, pc[w], owes[w]), Wants(w, m, x), x \in HoldsAt(w, m, o))
    BY <1>7, <2>1, <2>6, <2>7 DEF Exchanges
  <2>9. \A s \in Sem \ {x} : /\ Wants(w, m, s) <=> Wants(w, pc[w], s)
                             /\ s \in HoldsAt(w, m, o) <=> s \in HoldsAt(w, pc[w], owes[w])
    BY <1>7, <2>1, <2>6, <2>7
  <2>10. Sets(x, GiveUp(sem[x], w)) BY <1>3, <2>1, SemSets
  <2> QED BY <1>3, <2>3, <2>8, <2>9, <2>10, ExactsGo
<1> QED BY <1>8, <1>9, <1>10

\* A work that ends gives back what it holds, one slot after the other.
LEMMA ExactsGiveBack == ASSUME Places, Exacts, NEW w \in Work, GiveBack(w) PROVE Exacts'
<1> DEFINE o == owes[w]
           x == Head(o)
           rest == Tail(o)
           l == LaneOf(w)
           m == IF rest # <<>> THEN pc[w] ELSE IF pc[w] = "undo" /\ w \in Job THEN "failed" ELSE "gone"
<1>1. PlaceOK(w, pc[w], o) BY DEF Places
<1>2. pc[w] \in {"undo", "back"} /\ sem' = [sem EXCEPT ![x] = Release(sem[x])] BY DEF GiveBack
<1>3. owes' = [owes EXCEPT ![w] = rest] /\ Goto(w, m) BY DEF GiveBack
<1>4. Goes(w, m, rest) BY <1>3, GoesOn
<1>5. o \in Debts(l) BY <1>1, <1>2 DEF PlaceOK
<1>6. l \in Sem /\ l # "aux" /\ l # "io" /\ "aux" \in Sem /\ "io" \in Sem BY Lanes DEF Sem
<1>7. HoldsAt(w, pc[w], o) = InOrder(o) BY SMTT(20), Z3T(20), <1>2, HoldsIs
<1>8. (m = pc[w] /\ rest # <<>>) \/ (m \in {"failed", "gone"} /\ rest = <<>>)
  <2> HIDE DEF rest
  <2> QED OBVIOUS
<1>9. HoldsAt(w, m, rest) = InOrder(rest)
  <2>1. InOrder(<<>>) = {} BY DebtHolds
  <2> HIDE DEF m, rest
  <2>2. CASE rest = <<>>
    <3>1. HoldsAt(w, m, rest) = {} BY <1>2, <1>8, <2>2, HoldsIs
    <3> QED BY <2>1, <2>2, <3>1
  <2>3. CASE rest # <<>> BY SMTT(20), Z3T(20), <1>2, <1>8, <2>3, HoldsIs
  <2> QED BY <2>2, <2>3
<1>10. \A s : ~Wants(w, m, s) /\ ~Wants(w, pc[w], s) BY <1>2, <1>8 DEF Wants
<1>11. x \in Sem /\ InOrder(rest) = InOrder(o) \ {x} /\ x \in InOrder(o)
  <2>1. o = <<l>> \/ o = <<"aux", l>> \/ o = <<"io", l>> \/ o = <<"io", "aux", l>> BY <1>5 DEF Debts
  <2> HIDE DEF o, l
  <2>2. CASE o = <<l>>
    <3>1. x = l /\ rest = <<>> BY <1>5, <2>2, Debtor
    <3>2. InOrder(o) = {l} /\ InOrder(rest) = {} BY <2>2, <3>1, DebtHolds
    <3> QED BY <1>6, <3>1, <3>2
  <2>3. CASE o = <<"aux", l>>
    <3>1. x = "aux" /\ rest = <<l>> BY <1>5, <2>3, Debtor
    <3>2. InOrder(o) = {"aux", l} /\ InOrder(rest) = {l} BY <2>3, <3>1, DebtHolds
    <3> QED BY <1>6, <3>1, <3>2
  <2>4. CASE o = <<"io", l>>
    <3>1. x = "io" /\ rest = <<l>> BY <1>5, <2>4, Debtor
    <3>2. InOrder(o) = {"io", l} /\ InOrder(rest) = {l} BY <2>4, <3>1, DebtHolds
    <3> QED BY <1>6, <3>1, <3>2
  <2>5. CASE o = <<"io", "aux", l>>
    <3>1. x = "io" /\ rest = <<"aux", l>> BY <1>5, <2>5, Debtor
    <3>2. InOrder(o) = {"io", "aux", l} /\ InOrder(rest) = {"aux", l} BY <2>5, <3>1, DebtHolds
    <3> QED BY <1>6, <3>1, <3>2
  <2> QED BY <2>1, <2>2, <2>3, <2>4, <2>5
<1> HIDE DEF x, rest, m, l
<1>12. Exchanges(w, sem[x], Release(sem[x]), Wants(w, pc[w], x), x \in HoldsAt(w, pc[w], owes[w]), Wants(w, m, x), x \in HoldsAt(w, m, rest))
  BY <1>7, <1>9, <1>10, <1>11 DEF Exchanges
<1>13. \A s \in Sem \ {x} : /\ Wants(w, m, s) <=> Wants(w, pc[w], s)
                            /\ s \in HoldsAt(w, m, rest) <=> s \in HoldsAt(w, pc[w], owes[w])
  BY <1>7, <1>9, <1>10, <1>11
<1>14. Sets(x, Release(sem[x])) BY <1>2, <1>11, SemSets
<1> QED BY <1>4, <1>11, <1>12, <1>13, <1>14, ExactsGo

\* Nothing else touches a slot: every slot in use stays somebody's.
LEMMA ExactsKept == ASSUME Sizes, Places, Pendings, Exacts, [Next]_vars PROVE Exacts'
<1>1. ASSUME UNCHANGED <<sem, pc, owes>> PROVE Exacts'
  <2>1. ASSUME NEW s PROVE Demand(s)' = Demand(s) /\ Held(s)' = Held(s) BY <1>1 DEF Demand, Held
  <2>2. ASSUME NEW s \in Sem PROVE Exact(sem[s], Demand(s), Held(s))'
    <3>1. Exact(sem[s], Demand(s), Held(s)) BY DEF Exacts
    <3>2. Exact(sem[s], Demand(s), Held(s))' <=> Exact(sem'[s], Demand(s)', Held(s)') BY DEF Exact, Served, InLine, ASemaphore
    <3> QED BY <1>1, <2>1, <3>1, <3>2
  <2> QED BY <1>1, <2>2 DEF Exacts
<1>2. ASSUME NEW w \in Work, NEW m, NEW o, Goes(w, m, o), UNCHANGED sem, HoldsAt(w, m, o) = HoldsAt(w, pc[w], owes[w]),
             m \notin {"lane?", "aux?", "io?"}, pc[w] \notin {"lane?", "aux?", "io?"}
      PROVE Exacts'
  <2>1. \A s : ~Wants(w, m, s) /\ ~Wants(w, pc[w], s) BY <1>2 DEF Wants
  <2> QED BY <1>2, <2>1, ExactsStay
<1>3. \A w \in Work : PlaceOK(w, pc[w], owes[w]) BY DEF Places
<1>4. ASSUME NEW w \in Work, NEW m, Goto(w, m), UNCHANGED <<sem, owes>>, HoldsAt(w, m, owes[w]) = HoldsAt(w, pc[w], owes[w]),
             m \notin {"lane?", "aux?", "io?"}, pc[w] \notin {"lane?", "aux?", "io?"}
      PROVE Exacts'
  BY <1>2, <1>4, GoesOn
<1>5. ASSUME NEW w \in Work, NEW m, NEW x \in Sem, Goto(w, m), UNCHANGED owes, sem' = [sem EXCEPT ![x] = Taken(sem[x])],
             pc[w] = "none", HoldsAt(w, m, owes[w]) = {x}, m \notin {"lane?", "aux?", "io?"}
      PROVE Exacts'
  <2>1. HoldsAt(w, pc[w], owes[w]) = {} BY <1>5, HoldsIs
  <2>2. \A s : ~Wants(w, m, s) /\ ~Wants(w, pc[w], s) BY <1>5 DEF Wants
  <2>3. Goes(w, m, owes[w]) BY <1>5, GoesOn
  <2>4. Sets(x, Taken(sem[x])) BY <1>5, SemSets
  <2>5. Exchanges(w, sem[x], Taken(sem[x]), Wants(w, pc[w], x), x \in HoldsAt(w, pc[w], owes[w]), Wants(w, m, x), x \in HoldsAt(w, m, owes[w]))
    BY <1>5, <2>1, <2>2 DEF Exchanges
  <2>6. \A s \in Sem \ {x} : /\ Wants(w, m, s) <=> Wants(w, pc[w], s)
                             /\ s \in HoldsAt(w, m, owes[w]) <=> s \in HoldsAt(w, pc[w], owes[w])
    BY <1>5, <2>1, <2>2
  <2> QED BY <2>3, <2>4, <2>5, <2>6, ExactsGo
<1>6. ASSUME NEW w \in Work, Finish(w) \/ Refused(w) \/ Leave(w) PROVE Exacts'
  <2>1. CASE Leave(w) BY <1>1, <2>1 DEF Leave
  <2>2. CASE Finish(w)
    <3> DEFINE o == <<"io">> \o Stage(w, "io").owes
    <3>1. Goto(w, "back") /\ owes' = [owes EXCEPT ![w] = o] /\ UNCHANGED sem /\ pc[w] = "run" BY <2>2 DEF Finish
    <3>2. Goes(w, "back", o) BY <3>1, GoesOn
    <3>3. o = IF w \in Call THEN <<"io", "serve">> ELSE <<"io", "aux", LaneOf(w)>> BY AllSlots
    <3> HIDE DEF o
    <3>4. HoldsAt(w, "back", o) = InOrder(o) /\ HoldsAt(w, pc[w], owes[w]) = Below(w) \cup {"io"} BY <3>1, HoldsIs
    <3>5. InOrder(<<"io", "serve">>) = {"io", "serve"} /\ InOrder(<<"io", "aux", LaneOf(w)>>) = {"io", "aux", LaneOf(w)}
      BY DebtHolds
    <3>6. InOrder(o) = Below(w) \cup {"io"} BY <3>3, <3>5 DEF Below
    <3> QED BY <1>2, <3>1, <3>2, <3>4, <3>6
  <2>3. CASE Refused(w)
    <3> DEFINE o == Stage(w, "io").owes
    <3>1. Goto(w, "undo") /\ owes' = [owes EXCEPT ![w] = o] /\ UNCHANGED sem /\ pc[w] = "io" /\ w \in Call BY <2>3 DEF Refused
    <3>2. Goes(w, "undo", o) BY <3>1, GoesOn
    <3>3. o = <<"serve">> BY <3>1, StageIs
    <3> HIDE DEF o
    <3>4. HoldsAt(w, "undo", o) = InOrder(o) /\ HoldsAt(w, pc[w], owes[w]) = Below(w) BY <3>1, HoldsIs
    <3>5. InOrder(<<"serve">>) = {"serve"} BY DebtHolds
    <3>6. InOrder(o) = Below(w) BY <3>1, <3>3, <3>5 DEF Below
    <3> QED BY <1>2, <3>1, <3>2, <3>4, <3>6
  <2> QED BY <1>6, <2>1, <2>2, <2>3
<1>7. ASSUME NEW c \in Call, Submit(c) PROVE Exacts'
  <2>1. c \in Work /\ pc[c] = "none" /\ UNCHANGED owes BY <1>7 DEF Submit, Work
  <2>2. CASE ~closed /\ Free(sem["serve"])
    <3>1. Goto(c, "io") /\ sem' = [sem EXCEPT !["serve"] = Taken(sem["serve"])] BY <1>7, <2>2 DEF Submit
    <3>2. HoldsAt(c, "io", owes[c]) = {"serve"} BY HoldsIs DEF Below
    <3> QED BY <1>5, <2>1, <3>1, <3>2 DEF Sem, Lane
  <2>3. CASE ~(~closed /\ Free(sem["serve"]))
    <3>1. Goto(c, "gone") /\ UNCHANGED sem BY <1>7, <2>3 DEF Submit
    <3> QED BY <1>4, <2>1, <3>1, HoldsIs
  <2> QED BY <2>2, <2>3
<1>8. ASSUME NEW a \in Admin, Enter(a) PROVE Exacts'
  <2>1. a \in Work /\ pc[a] = "none" /\ UNCHANGED owes BY <1>8 DEF Enter, Work
  <2>2. CASE ~closed /\ Free(sem["admin"])
    <3>1. Goto(a, "aux") /\ sem' = [sem EXCEPT !["admin"] = Taken(sem["admin"])] BY <1>8, <2>2 DEF Enter
    <3>2. HoldsAt(a, "aux", owes[a]) = {"admin"} BY HoldsIs, Lanes
    <3> QED BY <1>5, <2>1, <3>1, <3>2 DEF Sem, Lane
  <2>3. CASE ~(~closed /\ Free(sem["admin"]))
    <3>1. (Goto(a, "gone") \/ Goto(a, "lane")) /\ UNCHANGED sem BY <1>8, <2>3 DEF Enter
    <3> QED BY <1>4, <2>1, <3>1, HoldsIs
  <2> QED BY <2>2, <2>3
<1>9. ASSUME NEW j \in Job, NEW m, Goto(j, m), UNCHANGED <<sem, owes>>,
             \/ {pc[j], m} \subseteq {"none", "gone", "lane", "pending", "ticket", "failed"} \cup Starting
             \/ {pc[j], m} \subseteq {"run", "admitted", "counted", "forked"} \cup Final
             \/ {pc[j], m} \subseteq {"enter", "leave"}
      PROVE Exacts'
  <2>1. HoldsAt(j, m, owes[j]) = HoldsAt(j, pc[j], owes[j])
    <3>1. ASSUME NEW h, NEW S, \A l \in S : HoldsAt(j, l, owes[j]) = h, {pc[j], m} \subseteq S
          PROVE HoldsAt(j, m, owes[j]) = HoldsAt(j, pc[j], owes[j])
      <4>1. pc[j] \in S /\ m \in S BY <3>1
      <4> QED BY <3>1, <4>1
    <3>2. CASE {pc[j], m} \subseteq {"none", "gone", "lane", "pending", "ticket", "failed"} \cup Starting
      <4>1. \A l \in {"none", "gone", "lane", "pending", "ticket", "failed"} \cup Starting : HoldsAt(j, l, owes[j]) = {}
        BY HoldsIs
      <4> QED BY <3>1, <3>2, <4>1
    <3>3. CASE {pc[j], m} \subseteq {"run", "admitted", "counted", "forked"} \cup Final
      <4>1. \A l \in {"run", "admitted", "counted", "forked"} \cup Final : HoldsAt(j, l, owes[j]) = Below(j) \cup {"io"}
        BY HoldsIs
      <4> QED BY <3>1, <3>3, <4>1
    <3>4. CASE {pc[j], m} \subseteq {"enter", "leave"}
      <4>1. \A l \in {"enter", "leave"} : HoldsAt(j, l, owes[j]) = {"scan"} BY HoldsIs
      <4> QED BY <3>1, <3>4, <4>1
    <3> QED BY <1>9, <3>2, <3>3, <3>4
  <2>2. m \notin {"lane?", "aux?", "io?"} /\ pc[j] \notin {"lane?", "aux?", "io?"} BY <1>9 DEF Starting, Final
  <2> QED BY <1>4, <1>9, <2>1, <2>2, JobsAre
<1>10. ASSUME NEW j \in Job, StartBegin(j) \/ Cancel(j) \/ JobStep(j) PROVE Exacts'
  <2>1. CASE Cancel(j) BY <1>1, <2>1 DEF Cancel
  <2>2. CASE StartBegin(j) \/ QueueAdd(j) \/ QueueIoWait(j) \/ StartEnd(j) \/ TicketCheck(j) \/ TicketEnter(j)
    BY <1>9, <2>2 DEF StartBegin, QueueAdd, QueueIoWait, StartEnd, TicketCheck, TicketEnter, Starting
  <2>3. CASE Admit(j) \/ Fork(j) \/ RunJob(j) \/ RunEnds(j)
    BY <1>9, <2>3 DEF Admit, Fork, RunJob, RunEnds, Final
  <2>4. CASE TicketLeave(j)
    <3>1. j \in Work /\ LaneOf(j) = "scan" /\ pc[j] = "leave" /\ UNCHANGED sem BY <2>4, JobsAre, Lanes DEF TicketLeave
    <3>2. HoldsAt(j, pc[j], owes[j]) = {"scan"} BY <3>1, HoldsIs
    <3>3. CASE j \notin left
      <4>1. Goto(j, "aux") /\ UNCHANGED owes BY <2>4, <3>3 DEF TicketLeave
      <4>2. HoldsAt(j, "aux", owes[j]) = {"scan"} BY <3>1, HoldsIs
      <4> QED BY <1>4, <3>1, <3>2, <4>1, <4>2
    <3>4. CASE j \in left
      <4>1. Goto(j, "undo") /\ owes' = [owes EXCEPT ![j] = <<"scan">>] BY <2>4, <3>4 DEF TicketLeave
      <4>2. Goes(j, "undo", <<"scan">>) BY <3>1, <4>1, GoesOn
      <4>3. HoldsAt(j, "undo", <<"scan">>) = {"scan"} BY HoldsIs, DebtHolds
      <4> QED BY <1>2, <3>1, <3>2, <4>2, <4>3
    <3> QED BY <3>3, <3>4
  <2>5. CASE End(j)
    <3>1. j \in Work /\ UNCHANGED sem /\ pc[j] \in Final \cup {"failed"} BY <2>5, JobsAre DEF End
    <3>2. CASE pc[j] = "failed" BY <1>9, <2>5, <3>2 DEF End
    <3>3. CASE pc[j] # "failed"
      <4>1. owes' = [owes EXCEPT ![j] = <<"io", "aux", "scan">>] /\ Goto(j, "back") BY <2>5, <3>3 DEF End
      <4>2. Goes(j, "back", <<"io", "aux", "scan">>) BY <3>1, <4>1, GoesOn
      <4>3. HoldsAt(j, "back", <<"io", "aux", "scan">>) = {"io", "aux", "scan"} BY HoldsIs, DebtHolds
      <4>4. HoldsAt(j, pc[j], owes[j]) = {"io", "aux", "scan"} 
        <5>1. HoldsAt(j, pc[j], owes[j]) = Below(j) \cup {"io"} BY <3>1, <3>3, HoldsIs
        <5>2. Below(j) = {"aux", "scan"} BY Lanes DEF Below
        <5> QED BY <5>1, <5>2
      <4> QED BY SMTT(20), Z3T(20), <1>2, <3>1, <3>3, <4>2, <4>3, <4>4 DEF Final
    <3> QED BY <3>2, <3>3
  <2> QED BY <1>10, <2>1, <2>2, <2>3, <2>4, <2>5 DEF JobStep
<1>11. CASE DispatchNext
  <2>1. CASE pending = <<>> BY <1>1, <1>11, <2>1 DEF DispatchNext
  <2>2. CASE pending # <<>>
    <3>1. Goto(Head(pending), "ticket") /\ UNCHANGED <<sem, owes>> BY <1>11, <2>2 DEF DispatchNext
    <3>2. Head(pending) \in Job /\ Head(pending) = pending[1] /\ 1 \in 1..Len(pending) BY SMTT(20), Z3T(20), <2>2 DEF Pendings
    <3>3. pc[Head(pending)] = "pending" BY <3>2 DEF Pendings
    <3> QED BY <1>9, <3>1, <3>2, <3>3
  <2> QED BY <2>1, <2>2
<1>12. CASE DispatchWake \/ DropPending \/ DispatchStop \/ PoolClose \/ BusClose \/ BusStops
  BY <1>1, <1>12 DEF DispatchWake, DropPending, DispatchStop, PoolClose, BusClose, BusStops
<1>13. CASE Rest \/ UNCHANGED vars \/ \E io \in IoSizes, n \in LaneSizes : UpdateBegin(io, n)
  BY <1>1, <1>13 DEF UpdateBegin, Rest, vars
<1>14. CASE UpdateNext
  <2> DEFINE resized == IF upd.next = "lanes" THEN Lane ELSE {upd.next}
  <2>1. /\ sem' = [s \in Sem |-> IF s \in resized THEN Resize(sem[s], SizeOf(s, upd.io, upd.lane)) ELSE sem[s]]
        /\ UNCHANGED <<pc, owes>>
    BY <1>14 DEF UpdateNext
  <2> HIDE DEF resized
  <2>2. ASSUME NEW s \in Sem PROVE Exact(sem[s], Demand(s), Held(s))'
    <3>1. Exact(sem[s], Demand(s), Held(s)) /\ Demand(s)' = Demand(s) /\ Held(s)' = Held(s)
      BY <2>1 DEF Exacts, Demand, Held
    <3>2. Exact(sem'[s], Demand(s), Held(s))
      <4>1. CASE s \in resized
        <5>1. sem'[s] = Resize(sem[s], SizeOf(s, upd.io, upd.lane)) BY <2>1, <4>1
        <5> QED BY <3>1, <5>1, SizesAreNat, ResizeExact
      <4>2. CASE s \notin resized BY <2>1, <3>1, <4>2
      <4> QED BY <4>1, <4>2
    <3>3. Exact(sem[s], Demand(s), Held(s))' <=> Exact(sem'[s], Demand(s)', Held(s)') BY DEF Exact, Served, InLine, ASemaphore
    <3> QED BY <3>1, <3>2, <3>3
  <2> QED BY <2>1, <2>2 DEF Exacts
<1> QED
  BY <1>6, <1>7, <1>8, <1>10, <1>11, <1>12, <1>13, <1>14, ExactsAcquire, ExactsGiveBack DEF Next, Advance, Dispatch

-----------------------------------------------------------------------------
(* The counters of the Scan lane, and the places Queue gives out.          *)

InQueue(l, st, lf) == ~lf /\ (st # "NONE" \/ l \in {"ioWait?", "inflight?"})
InIoWait(l) == l \in {"leave", "aux", "aux?", "io", "io?", "admitted", "counted", "undo"}
InFlight(l) == l \in {"counted", "forked", "run", "back"} \cup Final
InLane(l, st, lf) ==
    \/ st # "NONE" /\ ~lf
    \/ l \in {"aux", "aux?", "io", "io?", "admitted", "counted", "forked", "run", "back"} \cup Final

Queued == {j \in Job : InQueue(pc[j], state[j], j \in left)}
IoWaiting == {j \in Job : InIoWait(pc[j])}
Running == {j \in Job : InFlight(pc[j])}

\* Each counter counts its jobs.
Counts ==
    /\ DOMAIN queued = {"admin", "scan"}
    /\ queued["scan"] = Cardinality(Queued) /\ ioWait = Cardinality(IoWaiting) /\ inflight = Cardinality(Running)

\* What Queue added up so far is at least the number of some jobs (X) that
\* have, with those it has yet to count, every place on the lane.
Summed(j) ==
    /\ pc[j] = "ioWait?" => \E X \in SUBSET Job :
          Cardinality(X) <= start.sum /\ j \in X /\ OnLane \subseteq X \cup IoWaiting \cup Running
    /\ pc[j] = "inflight?" => \E X \in SUBSET Job :
          Cardinality(X) <= start.sum /\ j \in X /\ OnLane \subseteq X \cup Running

\* There are finitely many jobs.
LEMMA JobsFinite == ASSUME NEW S \in SUBSET Job PROVE IsFiniteSet(S) /\ Cardinality(S) \in Nat
<1>1. IsFiniteSet(1..MaxJobs) BY LimitAssumption, FS_Interval
<1>2. IsFiniteSet(S) BY <1>1, FS_Subset DEF Job
<1> QED BY <1>2, FS_CardinalityType

\* A set that one job may enter or leave.
One(b) == IF b THEN 1 ELSE 0

\* Two sets of jobs that differ in one job differ by one in size.
LEMMA OneMore ==
    ASSUME NEW S \in SUBSET Job, NEW T \in SUBSET Job, NEW j \in Job, \A k \in Job : k # j => (k \in S <=> k \in T)
    PROVE Cardinality(T) = Cardinality(S) + One(j \in T) - One(j \in S)
<1>1. IsFiniteSet(S) /\ Cardinality(S) \in Nat BY JobsFinite
<1>2. CASE j \in T /\ j \notin S
  <2>1. T = S \cup {j} BY <1>2
  <2> QED BY SMTT(20), Z3T(20), <1>1, <1>2, <2>1, FS_AddElement DEF One
<1>3. CASE j \notin T /\ j \in S
  <2>1. T = S \ {j} BY <1>3
  <2> QED BY SMTT(20), Z3T(20), <1>1, <1>3, <2>1, FS_RemoveElement DEF One
<1>4. CASE j \in T <=> j \in S
  <2>1. T = S BY <1>4
  <2> QED BY <1>1, <1>4, <2>1 DEF One
<1> QED BY <1>2, <1>3, <1>4

\* A job that moves from place l, state st to place m, state tt, and the
\* counters with it.
Carried(l, st, lf, m, tt, lg) ==
    /\ queued'["scan"] = queued["scan"] + One(InQueue(m, tt, lg)) - One(InQueue(l, st, lf))
    /\ ioWait' = ioWait + One(InIoWait(m)) - One(InIoWait(l))
    /\ inflight' = inflight + One(InFlight(m)) - One(InFlight(l))

Alone(j) ==
    \A k \in Job : k # j => pc'[k] = pc[k] /\ state'[k] = state[k] /\ (k \in left' <=> k \in left)

\* The counts stay right when one job is carried on with them (Bus.queued).
LEMMA CountsGo ==
    ASSUME Counts, NEW j \in Job, Alone(j), DOMAIN queued' = {"admin", "scan"},
           Carried(pc[j], state[j], j \in left, pc'[j], state'[j], j \in left')
    PROVE Counts'
<1>1. Queued' = {k \in Job : InQueue(pc'[k], state'[k], k \in left')} BY DEF Queued
<1>2. IoWaiting' = {k \in Job : InIoWait(pc'[k])} BY DEF IoWaiting
<1>3. Running' = {k \in Job : InFlight(pc'[k])} BY DEF Running
<1>4. Cardinality(Queued') = Cardinality(Queued) + One(j \in Queued') - One(j \in Queued)
  <2>1. \A k \in Job : k # j => (k \in Queued <=> k \in Queued') BY <1>1 DEF Alone, Queued, InQueue
  <2>2. Queued \subseteq Job /\ Queued' \subseteq Job BY <1>1 DEF Queued
  <2> QED BY <2>1, <2>2, OneMore
<1>5. Cardinality(IoWaiting') = Cardinality(IoWaiting) + One(j \in IoWaiting') - One(j \in IoWaiting)
  <2>1. \A k \in Job : k # j => (k \in IoWaiting <=> k \in IoWaiting') BY <1>2 DEF Alone, IoWaiting
  <2>2. IoWaiting \subseteq Job /\ IoWaiting' \subseteq Job BY <1>2 DEF IoWaiting
  <2> QED BY <2>1, <2>2, OneMore
<1>6. Cardinality(Running') = Cardinality(Running) + One(j \in Running') - One(j \in Running)
  <2>1. \A k \in Job : k # j => (k \in Running <=> k \in Running') BY <1>3 DEF Alone, Running
  <2>2. Running \subseteq Job /\ Running' \subseteq Job BY <1>3 DEF Running
  <2> QED BY <2>1, <2>2, OneMore
<1>7. One(j \in Queued) = One(InQueue(pc[j], state[j], j \in left)) BY DEF One, Queued
<1>8. One(j \in Queued') = One(InQueue(pc'[j], state'[j], j \in left')) BY <1>1 DEF One
<1>9. One(j \in IoWaiting) = One(InIoWait(pc[j])) /\ One(j \in Running) = One(InFlight(pc[j])) BY DEF One, IoWaiting, Running
<1>10. One(j \in IoWaiting') = One(InIoWait(pc'[j])) /\ One(j \in Running') = One(InFlight(pc'[j])) BY <1>2, <1>3 DEF One
<1> QED BY <1>4, <1>5, <1>6, <1>7, <1>8, <1>9, <1>10 DEF Counts, Carried

\* No job comes to the lane, and those there stay counted.
Follows(l, st, lf, m, tt, lg) ==
    InLane(m, tt, lg) => /\ InLane(l, st, lf)
                         /\ InIoWait(l) => InIoWait(m) \/ InFlight(m)
                         /\ InFlight(l) => InFlight(m)

\* What one start summed up stays right while another job follows (Bus.Start).
LEMMA SummedGo ==
    ASSUME NEW i \in Job, Summed(i), NEW j \in Job, Alone(j), UNCHANGED start,
           pc'[j] \in {"ioWait?", "inflight?"} => pc'[j] = pc[j],
           Follows(pc[j], state[j], j \in left, pc'[j], state'[j], j \in left')
    PROVE Summed(i)'
<1>1. pc'[i] \in {"ioWait?", "inflight?"} => pc'[i] = pc[i] BY DEF Alone
<1>2. OnLane = {k \in Job : InLane(pc[k], state[k], k \in left)} BY DEF OnLane, InLane
<1>3. OnLane' = {k \in Job : InLane(pc'[k], state'[k], k \in left')} BY DEF OnLane, InLane
<1>4. IoWaiting' = {k \in Job : InIoWait(pc'[k])} /\ Running' = {k \in Job : InFlight(pc'[k])} BY DEF IoWaiting, Running
<1>5. ASSUME NEW k \in OnLane' PROVE k \in OnLane /\ (k \in IoWaiting => k \in IoWaiting' \cup Running') /\ (k \in Running => k \in Running')
  <2>1. k \in Job /\ InLane(pc'[k], state'[k], k \in left') BY <1>3, <1>5
  <2>2. CASE k = j BY <1>2, <1>4, <2>1, <2>2 DEF Follows, IoWaiting, Running
  <2>3. CASE k # j
    <3>1. InLane(pc[k], state[k], k \in left) BY <2>1, <2>3 DEF Alone, InLane
    <3> QED BY <1>2, <1>4, <2>1, <2>3, <3>1 DEF Alone, IoWaiting, Running
  <2> QED BY <2>2, <2>3
<1>6. CASE pc'[i] = "ioWait?"
  <2>1. PICK X \in SUBSET Job : Cardinality(X) <= start.sum /\ i \in X /\ OnLane \subseteq X \cup IoWaiting \cup Running
    BY <1>1, <1>6 DEF Summed
  <2>2. OnLane' \subseteq X \cup IoWaiting' \cup Running' BY <1>5, <2>1
  <2> QED BY <1>6, <2>1, <2>2 DEF Summed
<1>7. CASE pc'[i] = "inflight?"
  <2>1. PICK X \in SUBSET Job : Cardinality(X) <= start.sum /\ i \in X /\ OnLane \subseteq X \cup Running
    BY <1>1, <1>7 DEF Summed
  <2>2. OnLane' \subseteq X \cup Running' BY <1>5, <2>1
  <2> QED BY <1>7, <2>1, <2>2 DEF Summed
<1> QED BY <1>6, <1>7 DEF Summed

Tally == Counts /\ \A i \in Job : Summed(i)

\* Both stay right when one job moves alone.
LEMMA TallyGo ==
    ASSUME Tally, NEW j \in Job, Alone(j), UNCHANGED start, DOMAIN queued' = {"admin", "scan"},
           pc'[j] \in {"ioWait?", "inflight?"} => pc'[j] = pc[j],
           Carried(pc[j], state[j], j \in left, pc'[j], state'[j], j \in left'),
           Follows(pc[j], state[j], j \in left, pc'[j], state'[j], j \in left')
    PROVE Tally'
<1>1. Counts' BY CountsGo DEF Tally
<1>2. ASSUME NEW i \in Job PROVE Summed(i)' BY SummedGo DEF Tally
<1> QED BY <1>1, <1>2 DEF Tally

\* A job that moves and nothing else of it.
LEMMA AloneGoes ==
    ASSUME Places, NEW j \in Job, NEW m, Goto(j, m), \A k \in Job : k # j => state'[k] = state[k] /\ (k \in left' <=> k \in left)
    PROVE Alone(j) /\ pc'[j] = m
  BY JobsAre DEF Alone, Goto, Places

\* The counters are numbers.
LEMMA CountsAre == ASSUME Counts, Exacts PROVE Numbers /\ queued["scan"] \in Nat /\ ioWait \in Nat /\ inflight \in Nat
<1>1. Queued \in SUBSET Job /\ IoWaiting \in SUBSET Job /\ Running \in SUBSET Job BY DEF Queued, IoWaiting, Running
<1>2. sem["scan"].size \in Nat BY DEF Exacts, Exact, ASemaphore, Sem, Lane
<1> QED BY <1>1, <1>2, JobsFinite DEF Counts, Numbers

\* Nobody but jobs is counted.
LEMMA TallySame ==
    ASSUME Tally, \A k \in Job : pc'[k] = pc[k], UNCHANGED <<state, left, start, ioWait, inflight>>,
           DOMAIN queued' = {"admin", "scan"}, queued'["scan"] = queued["scan"]
    PROVE Tally'
<1>1. Queued' = Queued /\ IoWaiting' = IoWaiting /\ Running' = Running /\ OnLane' = OnLane
  BY DEF Queued, IoWaiting, Running, OnLane
<1>2. Counts' BY <1>1 DEF Tally, Counts
<1>3. ASSUME NEW i \in Job PROVE Summed(i)'
  <2>1. Summed(i) BY DEF Tally
  <2> QED BY <1>1, <2>1 DEF Summed
<1> QED BY <1>2, <1>3 DEF Tally

\* A work on its way through the stages keeps the count of its lane.
LEMMA TallyAdvance ==
    ASSUME Places, Lives, Exacts, Tally, NEW w \in Work, Advance(w)
    PROVE Tally'
<1>1. DOMAIN queued = {"admin", "scan"} /\ queued["scan"] \in Nat /\ ioWait \in Nat /\ inflight \in Nat
  BY CountsAre DEF Tally, Counts
<1>2. UNCHANGED <<state, start>> /\ \E m : Goto(w, m)
  BY DEF Advance, Acquire, Granted, GivesUp, GiveBack, pool
<1>3. PlaceOK(w, pc[w], owes[w]) BY DEF Places
<1>4. w \in Job => JobOK(pc[w], state[w], w \in left, start.job = w) BY DEF Lives
<1>5. ASSUME w \notin Job, UNCHANGED <<left, ioWait, inflight>>, DOMAIN queued' = {"admin", "scan"}, queued'["scan"] = queued["scan"]
      PROVE Tally'
  <2>1. \A k \in Job : pc'[k] = pc[k] BY <1>2, <1>5, JobsAre DEF Goto, Places
  <2> QED BY <1>2, <1>5, <2>1, TallySame
<1>6. ASSUME NEW at \in {"lane", "aux", "io"}, Acquire(w, at) \/ Granted(w, at) PROVE Tally'
  <2>1. UNCHANGED <<left, ioWait, inflight>> /\ (pc[w] = at \/ pc[w] = WaitAt[at]) BY <1>6 DEF Acquire, Granted, pool
  <2>2. PICK m : Goto(w, m) /\ m \in {Stage(w, at).then, WaitAt[at]} BY <1>6 DEF Acquire, Granted
  <2>3. queued' = queued \/ (Leaves(w, at) /\ queued' = [queued EXCEPT !["admin"] = @ - 1]) BY <1>6 DEF Acquire, Granted
  <2>4. DOMAIN queued' = {"admin", "scan"} /\ queued'["scan"] = queued["scan"] BY <1>1, <2>3
  <2>5. CASE w \notin Job BY <1>5, <2>1, <2>4, <2>5
  <2>6. CASE w \in Job
    <3>1. Alone(w) /\ pc'[w] = m BY <1>2, <2>1, <2>2, <2>6, AloneGoes
    <3>2. \/ at = "lane" /\ pc[w] \in {"lane", "lane?"} /\ m \in {"lane?", "enter"}
          \/ at = "aux" /\ pc[w] \in {"aux", "aux?"} /\ m \in {"aux?", "io"}
          \/ at = "io" /\ pc[w] \in {"io", "io?"} /\ m \in {"io?", "admitted"}
      BY SMTT(20), Z3T(20), <2>1, <2>2, <2>6, StageIs
    <3>3. state[w] # "NONE" BY <1>4, <2>6, <3>2 DEF JobOK, Starting
    <3>4. Carried(pc[w], state[w], w \in left, pc'[w], state'[w], w \in left')
      BY SMTT(20), Z3T(20), <1>1, <1>2, <2>1, <2>4, <3>1, <3>2, <3>3 DEF Carried, InQueue, InIoWait, InFlight, Final, One
    <3>5. Follows(pc[w], state[w], w \in left, pc'[w], state'[w], w \in left')
      BY <1>2, <2>1, <3>1, <3>2, <3>3 DEF Follows, InLane, InIoWait, InFlight, Final
    <3>6. pc'[w] \notin {"ioWait?", "inflight?"} BY <3>1, <3>2
    <3> QED BY <1>2, <2>4, <2>6, <3>1, <3>4, <3>5, <3>6, TallyGo
  <2> QED BY <2>5, <2>6
<1>7. ASSUME NEW at \in {"lane", "aux", "io"}, GivesUp(w, at) PROVE Tally'
  <2> DEFINE o == Stage(w, at).owes
             m == IF o # <<>> THEN "undo" ELSE IF w \in Job THEN "failed" ELSE "gone"
             leaves == Leaves(w, at) \/ (at = "lane" /\ w \in Job /\ w \notin left)
  <2>1. UNCHANGED <<ioWait, inflight>> /\ pc[w] = WaitAt[at] /\ Goto(w, m) BY <1>7 DEF GivesUp
  <2>2. left' = IF leaves /\ w \in Job THEN left \cup {w} ELSE left BY <1>7 DEF GivesUp
  <2>3. queued' = IF leaves THEN [queued EXCEPT ![LaneOf(w)] = @ - 1] ELSE queued BY <1>7 DEF GivesUp
  <2>4. DOMAIN queued' = {"admin", "scan"} BY <1>1, <2>3
  <2>5. CASE w \notin Job
    <3>1. leaves => w \in Admin /\ LaneOf(w) = "admin" BY <2>5, Lanes DEF Leaves
    <3>2. queued'["scan"] = queued["scan"] BY <1>1, <2>3, <3>1
    <3> QED BY <1>5, <2>1, <2>2, <2>4, <2>5, <3>2
  <2>6. CASE w \in Job
    <3>1. m = IF at = "lane" THEN "failed" ELSE "undo" BY <1>3, <2>1, <2>6, GivesUpOwing
    <3>2. leaves <=> at = "lane" /\ w \notin left BY <2>6, Lanes DEF Leaves
    <3> HIDE DEF m, leaves
    <3>3. Alone(w) /\ pc'[w] = m BY <1>2, <2>1, <2>2, <2>6, AloneGoes
    <3>4. queued'["scan"] = IF at = "lane" /\ w \notin left THEN queued["scan"] - 1 ELSE queued["scan"]
      BY <1>1, <2>3, <2>6, <3>2, Lanes
    <3>5. w \in left' <=> (w \in left \/ at = "lane") BY <2>2, <2>6, <3>2
    <3>6. \/ at = "lane" /\ pc[w] = "lane?" /\ m = "failed"
          \/ at = "aux" /\ pc[w] = "aux?" /\ m = "undo" /\ w \in left
          \/ at = "io" /\ pc[w] = "io?" /\ m = "undo" /\ w \in left
      BY <1>4, <2>1, <2>6, <3>1, StageIs DEF JobOK, Admitted
    <3>7. state[w] # "NONE" BY <1>4, <2>6, <3>6 DEF JobOK, Starting
    <3>8. Carried(pc[w], state[w], w \in left, pc'[w], state'[w], w \in left')
      BY SMTT(20), Z3T(20), <1>1, <1>2, <2>1, <3>3, <3>4, <3>5, <3>6, <3>7 DEF Carried, InQueue, InIoWait, InFlight, Final, One
    <3>9. Follows(pc[w], state[w], w \in left, pc'[w], state'[w], w \in left')
      BY <1>2, <3>3, <3>5, <3>6, <3>7 DEF Follows, InLane, InIoWait, InFlight, Final
    <3>10. pc'[w] \notin {"ioWait?", "inflight?"} BY <3>3, <3>6
    <3> QED BY <1>2, <2>4, <2>6, <3>3, <3>8, <3>9, <3>10, TallyGo
  <2> QED BY <2>5, <2>6
<1>8. ASSUME GiveBack(w) PROVE Tally'
  <2> DEFINE s == Head(owes[w])
             rest == Tail(owes[w])
             m == IF rest # <<>> THEN pc[w] ELSE IF pc[w] = "undo" /\ w \in Job THEN "failed" ELSE "gone"
  <2>1. UNCHANGED <<queued, left>> /\ pc[w] \in {"undo", "back"} /\ Goto(w, m) BY <1>8 DEF GiveBack, pool
  <2>2. ioWait' = IF s = "scan" /\ pc[w] = "undo" THEN ioWait - 1 ELSE ioWait BY <1>8 DEF GiveBack
  <2>3. inflight' = IF s = "scan" /\ pc[w] = "back" THEN inflight - 1 ELSE inflight BY <1>8 DEF GiveBack
  <2>4. owes[w] \in Debts(LaneOf(w)) BY <1>3, <2>1 DEF PlaceOK
  <2>5. s \in {LaneOf(w), "aux", "io"} /\ (rest = <<>> <=> s = LaneOf(w))
    <3>1. LaneOf(w) # "aux" /\ LaneOf(w) # "io" BY Lanes
    <3>2. owes[w] = <<LaneOf(w)>> \/ owes[w] = <<"aux", LaneOf(w)>> \/ owes[w] = <<"io", LaneOf(w)>> \/ owes[w] = <<"io", "aux", LaneOf(w)>>
      BY <2>4 DEF Debts
    <3>3. /\ s \in {LaneOf(w), "aux", "io"} /\ rest = <<>> <=> owes[w] = <<LaneOf(w)>>
          /\ owes[w] = <<LaneOf(w)>> => s = LaneOf(w)
          /\ owes[w] = <<"aux", LaneOf(w)>> => s = "aux"
          /\ owes[w] = <<"io", LaneOf(w)>> => s = "io"
          /\ owes[w] = <<"io", "aux", LaneOf(w)>> => s = "io"
      BY <2>4, Debtor
    <3> QED BY <3>1, <3>2, <3>3
  <2>6. DOMAIN queued' = {"admin", "scan"} /\ queued'["scan"] = queued["scan"] BY <1>1, <2>1
  <2>7. CASE w \notin Job
    <3>1. LaneOf(w) # "scan" BY <2>7, Lanes DEF Work
    <3>2. s # "scan" BY <2>5, <3>1
    <3> QED BY <1>5, <2>1, <2>2, <2>3, <2>6, <2>7, <3>2
  <2>8. CASE w \in Job
    <3>1. rest = <<>> <=> s = "scan" BY <2>5, <2>8, Lanes
    <3>2. \/ pc[w] \in {"undo", "back"} /\ m = pc[w] /\ s # "scan"
          \/ pc[w] = "undo" /\ m = "failed" /\ s = "scan"
          \/ pc[w] = "back" /\ m = "gone" /\ s = "scan"
      BY <2>1, <2>8, <3>1
    <3> HIDE DEF m, s, rest
    <3>3. Alone(w) /\ pc'[w] = m BY <1>2, <2>1, <2>8, AloneGoes
    <3>4. w \in left BY <1>4, <2>1, <2>8 DEF JobOK, Admitted
    <3>5. Carried(pc[w], state[w], w \in left, pc'[w], state'[w], w \in left')
      BY SMTT(20), Z3T(20), <1>1, <1>2, <2>1, <2>2, <2>3, <2>6, <3>2, <3>3, <3>4 DEF Carried, InQueue, InIoWait, InFlight, Final, One
    <3>6. Follows(pc[w], state[w], w \in left, pc'[w], state'[w], w \in left')
      BY <1>2, <2>1, <3>2, <3>3, <3>4 DEF Follows, InLane, InIoWait, InFlight, Final
    <3>7. pc'[w] \notin {"ioWait?", "inflight?"} BY <3>2, <3>3
    <3> QED BY <1>2, <2>6, <2>8, <3>3, <3>5, <3>6, <3>7, TallyGo
  <2> QED BY <2>7, <2>8
<1> QED BY <1>6, <1>7, <1>8 DEF Advance

\* What one move of a job does to its place, and to the counters.
LEMMA TallyJob ==
    ASSUME Places, Lives, Exacts, Tally, NEW j \in Job, JobStep(j)
    PROVE Tally' \/ QueueAdd(j) \/ QueueIoWait(j) \/ StartEnd(j)
<1>1. DOMAIN queued = {"admin", "scan"} /\ queued["scan"] \in Nat /\ ioWait \in Nat /\ inflight \in Nat
  BY CountsAre DEF Tally, Counts
<1>2. JobOK(pc[j], state[j], j \in left, start.job = j) /\ DOMAIN state = Job BY DEF Lives
<1>3. ASSUME NEW m, Goto(j, m), \A k \in Job : k # j => state'[k] = state[k] /\ (k \in left' <=> k \in left),
             UNCHANGED start, DOMAIN queued' = {"admin", "scan"}, m \notin {"ioWait?", "inflight?"},
             Carried(pc[j], state[j], j \in left, m, state'[j], j \in left'),
             Follows(pc[j], state[j], j \in left, m, state'[j], j \in left')
      PROVE Tally'
  <2>1. Alone(j) /\ pc'[j] = m BY <1>3, AloneGoes
  <2> QED BY <1>3, <2>1, TallyGo
<1>4. CASE TicketCheck(j)
  <2>1. PICK m : Goto(j, m) /\ m \in {"failed", "lane"} /\ pc[j] = "ticket" BY <1>4 DEF TicketCheck
  <2>2. UNCHANGED <<state, left, start, queued, ioWait, inflight>> BY <1>4 DEF TicketCheck, pool, counters
  <2>3. state[j] # "NONE" BY <1>2, <2>1 DEF JobOK, Starting
  <2>4. Carried(pc[j], state[j], j \in left, m, state'[j], j \in left')
    BY SMTT(20), Z3T(20), <1>1, <2>1, <2>2, <2>3 DEF Carried, InQueue, InIoWait, InFlight, Final, One
  <2>5. Follows(pc[j], state[j], j \in left, m, state'[j], j \in left')
    BY <2>1, <2>2, <2>3 DEF Follows, InLane, InIoWait, InFlight, Final
  <2> QED BY <1>1, <1>3, <2>1, <2>2, <2>4, <2>5
<1>5. CASE TicketEnter(j)
  <2>1. Goto(j, "leave") /\ pc[j] = "enter" /\ ioWait' = ioWait + 1 BY <1>5 DEF TicketEnter
  <2>2. UNCHANGED <<state, left, start, queued, inflight>> BY <1>5 DEF TicketEnter, pool
  <2>3. state[j] # "NONE" BY <1>2, <2>1 DEF JobOK, Starting
  <2>4. Carried(pc[j], state[j], j \in left, "leave", state'[j], j \in left')
    BY <1>1, <2>1, <2>2, <2>3 DEF Carried, InQueue, InIoWait, InFlight, Final, One
  <2>5. Follows(pc[j], state[j], j \in left, "leave", state'[j], j \in left')
    BY <2>1, <2>2, <2>3 DEF Follows, InLane, InIoWait, InFlight, Final
  <2> QED BY <1>1, <1>3, <2>1, <2>2, <2>4, <2>5
<1>6. CASE TicketLeave(j)
  <2>1. UNCHANGED <<state, start, ioWait, inflight>> /\ pc[j] = "leave" BY <1>6 DEF TicketLeave
  <2>2. left' = left \cup {j} BY <1>6 DEF TicketLeave
  <2>3. queued' = IF j \in left THEN queued ELSE [queued EXCEPT !["scan"] = @ - 1] BY <1>6 DEF TicketLeave
  <2>4. PICK m : Goto(j, m) /\ (m = IF j \in left THEN "undo" ELSE "aux") BY <1>6 DEF TicketLeave
  <2>5. DOMAIN queued' = {"admin", "scan"} /\ queued'["scan"] = IF j \in left THEN queued["scan"] ELSE queued["scan"] - 1
    BY <1>1, <2>3
  <2>6. state[j] # "NONE" BY <1>2, <2>1 DEF JobOK, Starting
  <2>7. Carried(pc[j], state[j], j \in left, m, state'[j], j \in left')
    BY <1>1, <2>1, <2>2, <2>4, <2>5, <2>6 DEF Carried, InQueue, InIoWait, InFlight, Final, One
  <2>8. Follows(pc[j], state[j], j \in left, m, state'[j], j \in left')
    BY <2>1, <2>2, <2>4, <2>6 DEF Follows, InLane, InIoWait, InFlight, Final
  <2>9. \A k \in Job : k # j => state'[k] = state[k] /\ (k \in left' <=> k \in left) BY <2>1, <2>2
  <2> QED BY <1>3, <2>1, <2>4, <2>5, <2>7, <2>8, <2>9
<1>7. CASE Admit(j)
  <2>1. Goto(j, "counted") /\ pc[j] = "admitted" /\ inflight' = inflight + 1 BY <1>7 DEF Admit
  <2>2. UNCHANGED <<state, left, start, queued, ioWait>> BY <1>7 DEF Admit, pool
  <2>3. state[j] # "NONE" BY <1>2, <2>1 DEF JobOK, Starting
  <2>4. Carried(pc[j], state[j], j \in left, "counted", state'[j], j \in left')
    BY <1>1, <2>1, <2>2, <2>3 DEF Carried, InQueue, InIoWait, InFlight, Final, One
  <2>5. Follows(pc[j], state[j], j \in left, "counted", state'[j], j \in left')
    BY <2>1, <2>2, <2>3 DEF Follows, InLane, InIoWait, InFlight, Final
  <2> QED BY <1>1, <1>3, <2>1, <2>2, <2>4, <2>5
<1>8. CASE Fork(j)
  <2>1. Goto(j, "forked") /\ pc[j] = "counted" /\ ioWait' = ioWait - 1 BY <1>8 DEF Fork
  <2>2. UNCHANGED <<state, left, start, queued, inflight>> BY <1>8 DEF Fork
  <2>3. state[j] # "NONE" BY <1>2, <2>1 DEF JobOK, Starting
  <2>4. Carried(pc[j], state[j], j \in left, "forked", state'[j], j \in left')
    BY <1>1, <2>1, <2>2, <2>3 DEF Carried, InQueue, InIoWait, InFlight, Final, One
  <2>5. Follows(pc[j], state[j], j \in left, "forked", state'[j], j \in left')
    BY <2>1, <2>2, <2>3 DEF Follows, InLane, InIoWait, InFlight, Final
  <2> QED BY <1>1, <1>3, <2>1, <2>2, <2>4, <2>5
<1>9. CASE RunJob(j) \/ RunEnds(j)
  <2>1. PICK m : Goto(j, m) /\ m \in {"run"} \cup Final /\ pc[j] \in {"forked", "run"} BY <1>9 DEF RunJob, RunEnds, Final
  <2>2. UNCHANGED <<left, start, queued, ioWait, inflight>> BY <1>9 DEF RunJob, RunEnds, pool, counters
  <2>3. state' = state \/ state' = [state EXCEPT ![j] = "RUNNING"] BY <1>9 DEF RunJob, RunEnds, pool
  <2>4. \A k \in Job : k # j => state'[k] = state[k] BY <1>2, <2>3
  <2>5. state[j] # "NONE" /\ state'[j] # "NONE" BY <1>2, <2>1, <2>3 DEF JobOK, Starting
  <2>6. Carried(pc[j], state[j], j \in left, m, state'[j], j \in left')
    BY SMTT(20), Z3T(20), <1>1, <2>1, <2>2, <2>5 DEF Carried, InQueue, InIoWait, InFlight, Final, One
  <2>7. Follows(pc[j], state[j], j \in left, m, state'[j], j \in left')
    BY <2>1, <2>2, <2>5 DEF Follows, InLane, InIoWait, InFlight, Final
  <2> QED BY <1>1, <1>3, <2>1, <2>2, <2>4, <2>6, <2>7 DEF Final
<1>10. CASE End(j)
  <2> DEFINE outcome == IF pc[j] = "failed" THEN "CANCELED" ELSE pc[j]
             m == IF pc[j] = "failed" THEN "gone" ELSE "back"
  <2>1. Goto(j, m) /\ pc[j] \in Final \cup {"failed"} BY <1>10 DEF End
  <2>2. UNCHANGED <<left, start, queued, ioWait, inflight>> BY <1>10 DEF End, counters
  <2>3. state' = IF state[j] \in {"PENDING", "RUNNING"} THEN [state EXCEPT ![j] = outcome] ELSE state BY <1>10 DEF End
  <2>4. \A k \in Job : k # j => state'[k] = state[k] BY <1>2, <2>3
  <2>5. state[j] # "NONE" /\ state'[j] # "NONE" BY <1>2, <2>1, <2>3 DEF JobOK, Starting, Final
  <2>6. Carried(pc[j], state[j], j \in left, m, state'[j], j \in left')
    BY SMTT(20), Z3T(20), <1>1, <2>1, <2>2, <2>5 DEF Carried, InQueue, InIoWait, InFlight, Final, One
  <2>7. Follows(pc[j], state[j], j \in left, m, state'[j], j \in left')
    BY <2>1, <2>2, <2>5 DEF Follows, InLane, InIoWait, InFlight, Final
  <2>8. m \notin {"ioWait?", "inflight?"} OBVIOUS
  <2> HIDE DEF m
  <2> QED BY <1>1, <1>3, <2>1, <2>2, <2>4, <2>6, <2>7, <2>8
<1> QED BY <1>4, <1>5, <1>6, <1>7, <1>8, <1>9, <1>10 DEF JobStep

\* The Start that holds the mutex is the only one to add up counters.
LEMMA OneStart ==
    ASSUME Lives, NEW j \in Job, pc[j] \in Starting, NEW k \in Job, pc[k] \in Starting
    PROVE k = j
  BY DEF Lives, JobOK

\* Nothing is being started while the lock is free (Bus.mu).
LEMMA NoneStarts == ASSUME Lives, ~Locked, NEW i \in Job PROVE pc[i] \notin Starting
<1>1. start.job # i BY JobsAre DEF Locked
<1>2. JobOK(pc[i], state[i], i \in left, start.job = i) BY DEF Lives
<1> QED BY <1>1, <1>2 DEF JobOK

\* Queue adds up what every place on the lane is counted by.
LEMMA TallyStart ==
    ASSUME Places, Lives, Exacts, Tally, NEW j \in Job, StartBegin(j) \/ QueueAdd(j) \/ QueueIoWait(j) \/ StartEnd(j)
    PROVE Tally'
<1>1. DOMAIN queued = {"admin", "scan"} /\ queued["scan"] \in Nat /\ ioWait \in Nat /\ inflight \in Nat
  BY CountsAre DEF Tally, Counts
<1>2. JobOK(pc[j], state[j], j \in left, start.job = j) /\ DOMAIN state = Job BY DEF Lives
<1>3. UNCHANGED <<left, ioWait, inflight>>
  BY DEF StartBegin, QueueAdd, QueueIoWait, StartEnd, counters
<1>4. \E m : Goto(j, m) BY DEF StartBegin, QueueAdd, QueueIoWait, StartEnd
<1>5. state' = state \/ state' = [state EXCEPT ![j] = "PENDING"] BY DEF StartBegin, QueueAdd, QueueIoWait, StartEnd
<1>6. \A k \in Job : k # j => state'[k] = state[k] BY <1>2, <1>5
<1>7. Alone(j) /\ (\A m : Goto(j, m) => pc'[j] = m) BY <1>3, <1>4, <1>6, AloneGoes
<1>8. pc[j] \in {"none"} \cup Starting BY DEF StartBegin, QueueAdd, QueueIoWait, StartEnd, Starting
<1>9. state[j] = "NONE" /\ j \notin left BY <1>2, <1>8 DEF JobOK
<1>10. CASE StartBegin(j)
  <2>1. pc[j] = "none" /\ ~Locked /\ UNCHANGED <<queued, state>> /\ \E m \in {"gone", "queue"} : Goto(j, m)
    BY <1>10 DEF StartBegin, counters
  <2>2. pc'[j] \in {"gone", "queue"} BY <1>7, <2>1
  <2>3. Carried(pc[j], state[j], j \in left, pc'[j], state'[j], j \in left')
    BY SMTT(20), Z3T(20), <1>1, <1>3, <1>9, <2>1, <2>2 DEF Carried, InQueue, InIoWait, InFlight, Final, One
  <2>4. Counts' BY <1>1, <1>7, <2>1, <2>3, CountsGo DEF Tally
  <2>5. ASSUME NEW i \in Job PROVE Summed(i)'
    <3>1. pc[i] \notin Starting BY <2>1, NoneStarts
    <3>2. pc'[i] \notin {"ioWait?", "inflight?"} BY <1>7, <2>2, <3>1 DEF Alone, Starting
    <3> QED BY <3>2 DEF Summed
  <2> QED BY <2>4, <2>5 DEF Tally
<1>11. CASE QueueAdd(j)
  <2>1. /\ pc[j] = "queue" /\ Goto(j, "ioWait?") /\ queued' = [queued EXCEPT !["scan"] = @ + 1]
        /\ start' = [start EXCEPT !.sum = queued'["scan"]] /\ UNCHANGED state
    BY <1>11 DEF QueueAdd
  <2>2. pc'[j] = "ioWait?" BY <1>7, <2>1
  <2>3. DOMAIN queued' = {"admin", "scan"} /\ queued'["scan"] = queued["scan"] + 1 BY <1>1, <2>1
  <2>4. Carried(pc[j], state[j], j \in left, pc'[j], state'[j], j \in left')
    BY SMTT(20), Z3T(20), <1>1, <1>3, <1>9, <2>1, <2>2, <2>3 DEF Carried, InQueue, InIoWait, InFlight, Final, One
  <2>5. Counts' BY <1>7, <2>3, <2>4, CountsGo DEF Tally
  <2>6. start'.sum = Cardinality(Queued') BY <2>1, <2>5 DEF Lives, Counts
  <2>7. Queued' = {k \in Job : InQueue(pc'[k], state'[k], k \in left')} BY DEF Queued
  <2>8. OnLane' = {k \in Job : InLane(pc'[k], state'[k], k \in left')} BY DEF OnLane, InLane
  <2>9. IoWaiting' = {k \in Job : InIoWait(pc'[k])} /\ Running' = {k \in Job : InFlight(pc'[k])} BY DEF IoWaiting, Running
  <2>10. OnLane' \subseteq Queued' \cup IoWaiting' \cup Running'
    BY <2>7, <2>8, <2>9 DEF InLane, InQueue, InIoWait, InFlight
  <2>11. j \in Queued' /\ Queued' \in SUBSET Job BY <1>3, <1>9, <2>2, <2>7 DEF InQueue
  <2>12. Cardinality(Queued') \in Nat BY <2>11, JobsFinite
  <2>13. ASSUME NEW i \in Job PROVE Summed(i)'
    <3>1. CASE i = j BY SMTT(20), Z3T(20), <2>2, <2>6, <2>10, <2>11, <2>12, <3>1 DEF Summed
    <3>2. CASE i # j
      <4>1. pc[i] \notin Starting BY <2>1, <3>2, OneStart DEF Starting
      <4> QED BY <1>7, <3>2, <4>1 DEF Summed, Alone, Starting
    <3> QED BY <3>1, <3>2
  <2> QED BY <2>5, <2>13 DEF Tally
<1>12. CASE QueueIoWait(j)
  <2>1. pc[j] = "ioWait?" /\ Goto(j, "inflight?") /\ start' = [start EXCEPT !.sum = @ + ioWait] /\ UNCHANGED <<queued, state>>
    BY <1>12 DEF QueueIoWait, counters
  <2>2. pc'[j] = "inflight?" BY <1>7, <2>1
  <2>3. Carried(pc[j], state[j], j \in left, pc'[j], state'[j], j \in left')
    BY SMTT(20), Z3T(20), <1>1, <1>3, <1>9, <2>1, <2>2 DEF Carried, InQueue, InIoWait, InFlight, Final, One
  <2>4. Counts' BY <1>1, <1>7, <2>1, <2>3, CountsGo DEF Tally
  <2>5. PICK X \in SUBSET Job : Cardinality(X) <= start.sum /\ j \in X /\ OnLane \subseteq X \cup IoWaiting \cup Running
    BY <2>1 DEF Tally, Summed
  <2> DEFINE Y == X \cup IoWaiting
  <2>6. IoWaiting \in SUBSET Job /\ Y \in SUBSET Job /\ X \cap IoWaiting \in SUBSET Job BY DEF IoWaiting
  <2>7. /\ Cardinality(Y) = Cardinality(X) + Cardinality(IoWaiting) - Cardinality(X \cap IoWaiting)
        /\ Cardinality(X) \in Nat /\ Cardinality(IoWaiting) \in Nat /\ Cardinality(X \cap IoWaiting) \in Nat
    BY <2>6, JobsFinite, FS_Union
  <2>8. start.sum \in Int /\ start'.sum = start.sum + ioWait /\ ioWait = Cardinality(IoWaiting) BY <2>1 DEF Lives, Tally, Counts
  <2>9. Cardinality(Y) <= start'.sum BY <2>5, <2>7, <2>8
  <2>10. OnLane' = OnLane /\ Running' = Running
    <3>1. \A k \in Job : k # j => pc'[k] = pc[k] BY <1>7 DEF Alone
    <3>2. OnLane' = {k \in Job : InLane(pc'[k], state'[k], k \in left')} BY DEF OnLane, InLane
    <3>3. OnLane = {k \in Job : InLane(pc[k], state[k], k \in left)} BY DEF OnLane, InLane
    <3>4. InLane(pc'[j], state'[j], j \in left') <=> InLane(pc[j], state[j], j \in left)
      BY <1>3, <2>1, <2>2 DEF InLane, Final
    <3>5. InFlight(pc'[j]) <=> InFlight(pc[j]) BY <2>1, <2>2 DEF InFlight, Final
    <3>6. OnLane' = OnLane BY <1>3, <2>1, <3>1, <3>2, <3>3, <3>4 DEF InLane
    <3>7. Running' = {k \in Job : InFlight(pc'[k])} BY DEF Running
    <3>8. Running' = Running BY <3>1, <3>5, <3>7 DEF Running
    <3> QED BY <3>6, <3>8
  <2>11. OnLane' \subseteq Y \cup Running' /\ j \in Y BY <2>5, <2>10
  <2> HIDE DEF Y
  <2>12. ASSUME NEW i \in Job PROVE Summed(i)'
    <3>1. CASE i = j BY <2>2, <2>6, <2>9, <2>11, <3>1 DEF Summed
    <3>2. CASE i # j
      <4>1. pc[i] \notin Starting BY <2>1, <3>2, OneStart DEF Starting
      <4> QED BY <1>7, <3>2, <4>1 DEF Summed, Alone, Starting
    <3> QED BY <3>1, <3>2
  <2> QED BY <2>4, <2>12 DEF Tally
<1>13. CASE StartEnd(j)
  <2>1. pc[j] = "inflight?" BY <1>13 DEF StartEnd
  <2>2. pc'[j] \in {"gone", "pending"} /\ DOMAIN queued' = {"admin", "scan"}
        /\ Carried(pc[j], state[j], j \in left, pc'[j], state'[j], j \in left')
    <3>1. CASE start.sum + inflight > start.capacity
      <4>1. queued' = [queued EXCEPT !["scan"] = @ - 1] /\ Goto(j, "gone") /\ UNCHANGED state BY <1>13, <3>1 DEF StartEnd
      <4>2. pc'[j] = "gone" /\ DOMAIN queued' = {"admin", "scan"} /\ queued'["scan"] = queued["scan"] - 1 BY <1>1, <1>7, <4>1
      <4> QED BY SMTT(20), Z3T(20), <1>1, <1>3, <1>9, <2>1, <4>1, <4>2 DEF Carried, InQueue, InIoWait, InFlight, Final, One
    <3>2. CASE ~(start.sum + inflight > start.capacity)
      <4>1. UNCHANGED queued /\ Goto(j, "pending") /\ state' = [state EXCEPT ![j] = "PENDING"] BY <1>13, <3>2 DEF StartEnd
      <4>2. pc'[j] = "pending" /\ state'[j] = "PENDING" BY <1>2, <1>7, <4>1
      <4> QED BY SMTT(20), Z3T(20), <1>1, <1>3, <1>9, <2>1, <4>1, <4>2 DEF Carried, InQueue, InIoWait, InFlight, Final, One
    <3> QED BY <3>1, <3>2
  <2>3. Counts' BY <1>7, <2>2, CountsGo DEF Tally
  <2>4. ASSUME NEW i \in Job PROVE Summed(i)'
    <3>1. CASE i = j BY <2>2, <3>1 DEF Summed
    <3>2. CASE i # j
      <4>1. pc[i] \notin Starting BY <2>1, <3>2, OneStart DEF Starting
      <4> QED BY <1>7, <3>2, <4>1 DEF Summed, Alone, Starting
    <3> QED BY <3>1, <3>2
  <2> QED BY <2>3, <2>4 DEF Tally
<1> QED BY <1>10, <1>11, <1>12, <1>13

\* Each counter counts its jobs, and Queue sees every place, after each step.
LEMMA TallyKept ==
    ASSUME Places, Pendings, Lives, Exacts, Tally, [Next]_vars
    PROVE Tally'
<1>1. DOMAIN queued = {"admin", "scan"} /\ queued["scan"] \in Nat /\ ioWait \in Nat /\ inflight \in Nat
  BY CountsAre DEF Tally, Counts
<1>2. ASSUME UNCHANGED <<pc, state, left, start, counters>> PROVE Tally'
  BY <1>1, <1>2, TallySame DEF counters
<1>3. ASSUME NEW w \in Work, w \notin Job, NEW m, Goto(w, m), UNCHANGED <<state, left, start, ioWait, inflight>>,
             DOMAIN queued' = {"admin", "scan"}, queued'["scan"] = queued["scan"] PROVE Tally'
  <2>1. \A k \in Job : pc'[k] = pc[k] BY <1>3, JobsAre DEF Goto, Places
  <2> QED BY <1>3, <2>1, TallySame
<1>4. ASSUME NEW w \in Work, Finish(w) \/ Refused(w) \/ Leave(w) PROVE Tally'
  <2>1. CASE Finish(w)
    <3>1. w \notin Job /\ Goto(w, "back") /\ UNCHANGED <<state, left, start, counters>>
      BY <2>1, Lanes DEF Finish, pool
    <3> QED BY <1>1, <1>3, <3>1 DEF counters
  <2>2. CASE Leave(w) BY <1>2, <2>2 DEF Leave, pool
  <2>3. CASE Refused(w)
    <3>1. w \notin Job /\ Goto(w, "undo") /\ UNCHANGED <<state, left, start, counters>>
      BY <2>3, Lanes DEF Refused, pool
    <3> QED BY <1>1, <1>3, <3>1 DEF counters
  <2> QED BY <1>4, <2>1, <2>2, <2>3
<1>5. ASSUME NEW c \in Call, Submit(c) PROVE Tally'
  <2>1. c \in Work /\ c \notin Job /\ (\E m : Goto(c, m)) /\ UNCHANGED <<state, left, start, counters>>
    BY <1>5, Lanes DEF Submit, pool, Work
  <2> QED BY <1>1, <1>3, <2>1 DEF counters
<1>6. ASSUME NEW a \in Admin, Enter(a) PROVE Tally'
  <2>1. a \in Work /\ a \notin Job /\ (\E m : Goto(a, m)) /\ UNCHANGED <<state, left, start, ioWait, inflight>>
    BY <1>6, Lanes DEF Enter, pool, Work
  <2>2. queued' = queued \/ queued' = [queued EXCEPT !["admin"] = @ + 1] BY <1>6 DEF Enter
  <2>3. DOMAIN queued' = {"admin", "scan"} /\ queued'["scan"] = queued["scan"] BY <1>1, <2>2
  <2> QED BY <1>3, <2>1, <2>3
<1>7. ASSUME NEW j \in Job, Cancel(j) PROVE Tally'
  <2>1. UNCHANGED <<pc, start, ioWait, inflight>> /\ ~Locked BY <1>7 DEF Cancel
  <2>2. CASE state[j] = "PENDING"
    <3>1. /\ state' = [state EXCEPT ![j] = "CANCELED"] /\ left' = left \cup {j}
          /\ queued' = IF j \in left THEN queued ELSE [queued EXCEPT !["scan"] = @ - 1]
      BY <1>7, <2>2 DEF Cancel
    <3>2. DOMAIN queued' = {"admin", "scan"} /\ queued'["scan"] = IF j \in left THEN queued["scan"] ELSE queued["scan"] - 1
      BY <1>1, <3>1
    <3>3. Alone(j) /\ state'[j] = "CANCELED" /\ j \in left' /\ pc'[j] = pc[j] BY <2>1, <3>1 DEF Alone, Lives
    <3>4. Carried(pc[j], state[j], j \in left, pc'[j], state'[j], j \in left')
      BY SMTT(20), Z3T(20), <1>1, <2>1, <2>2, <3>2, <3>3 DEF Carried, InQueue, One
    <3>5. Follows(pc[j], state[j], j \in left, pc'[j], state'[j], j \in left') BY <3>3 DEF Follows, InLane
    <3> QED BY <2>1, <3>2, <3>3, <3>4, <3>5, TallyGo
  <2>3. CASE state[j] # "PENDING" BY <1>2, <1>7, <2>1, <2>3 DEF Cancel, counters
  <2> QED BY <2>2, <2>3
<1>8. CASE DispatchNext
  <2>1. UNCHANGED <<state, left, start, counters>> BY <1>8 DEF DispatchNext
  <2>2. CASE pending = <<>> BY <1>2, <1>8, <2>1, <2>2 DEF DispatchNext
  <2>3. CASE pending # <<>>
    <3> DEFINE j == Head(pending)
    <3>1. Goto(j, "ticket") BY <1>8, <2>3 DEF DispatchNext
    <3>2. j \in Job /\ j = pending[1] /\ 1 \in 1..Len(pending) BY SMTT(20), Z3T(20), <2>3 DEF Pendings
    <3>3. pc[j] = "pending" BY <3>2 DEF Pendings
    <3> HIDE DEF j
    <3>4. state[j] # "NONE" BY <3>2, <3>3 DEF Lives, JobOK, Starting
    <3>5. Alone(j) /\ pc'[j] = "ticket" BY <2>1, <3>1, <3>2, AloneGoes
    <3>6. Carried(pc[j], state[j], j \in left, pc'[j], state'[j], j \in left')
      BY <1>1, <2>1, <3>3, <3>4, <3>5 DEF Carried, InQueue, InIoWait, InFlight, Final, One, counters
    <3>7. Follows(pc[j], state[j], j \in left, pc'[j], state'[j], j \in left')
      BY <2>1, <3>3, <3>4, <3>5 DEF Follows, InLane, InIoWait, InFlight, Final
    <3> QED BY <1>1, <2>1, <3>2, <3>5, <3>6, <3>7, TallyGo DEF counters
  <2> QED BY <2>2, <2>3
<1>9. CASE DropPending
  <2> DEFINE waiting == {pending[i] : i \in 1..Len(pending)}
             gone == waiting \ left
  <2>1. /\ ~Locked /\ left' = left \cup waiting /\ queued' = [queued EXCEPT !["scan"] = @ - Cardinality(gone)]
        /\ UNCHANGED <<pc, state, ioWait, inflight>>
    BY <1>9 DEF DropPending
  <2>2. ASSUME NEW k \in waiting PROVE k \in Job /\ state[k] # "NONE"
    <3>1. PICK i \in 1..Len(pending) : k = pending[i] OBVIOUS
    <3>2. k \in Job /\ pc[k] = "pending" BY SMTT(20), Z3T(20), <3>1 DEF Pendings
    <3> QED BY <3>2 DEF Lives, JobOK, Starting
  <2> HIDE DEF waiting
  <2>3. gone \subseteq Queued BY <2>2 DEF Queued, InQueue
  <2>4. Queued' = {k \in Job : InQueue(pc'[k], state'[k], k \in left')} BY DEF Queued
  <2>5. Queued' = Queued \ gone BY <2>1, <2>4 DEF Queued, InQueue
  <2>6. Cardinality(Queued') = Cardinality(Queued) - Cardinality(gone)
    <3>1. Queued \in SUBSET Job BY DEF Queued
    <3>2. IsFiniteSet(Queued) BY <3>1, JobsFinite
    <3>3. Queued \cap gone = gone BY <2>3
    <3> HIDE DEF gone
    <3> QED BY SMTT(20), Z3T(20), <2>5, <3>2, <3>3, FS_Difference
  <2>7. IoWaiting' = IoWaiting /\ Running' = Running BY <2>1 DEF IoWaiting, Running
  <2>8. Counts' BY <1>1, <2>1, <2>6, <2>7 DEF Tally, Counts
  <2>9. ASSUME NEW i \in Job PROVE Summed(i)'
    <3>1. pc[i] \notin Starting BY <2>1, NoneStarts
    <3> QED BY <2>1, <3>1 DEF Summed, Starting
  <2> QED BY <2>8, <2>9 DEF Tally
<1>10. CASE DispatchWake \/ DispatchStop \/ PoolClose \/ BusClose \/ BusStops
  BY <1>2, <1>10 DEF DispatchWake, DispatchStop, PoolClose, BusClose, BusStops, pool
<1>11. CASE Rest \/ UNCHANGED vars \/ UpdateNext \/ \E io \in IoSizes, n \in LaneSizes : UpdateBegin(io, n)
  BY <1>2, <1>11 DEF UpdateBegin, UpdateNext, Rest, vars, pool
<1>12. ASSUME NEW j \in Job, StartBegin(j) \/ JobStep(j) PROVE Tally'
  BY <1>12, TallyStart, TallyJob
<1> QED
  BY <1>4, <1>5, <1>6, <1>7, <1>8, <1>9, <1>10, <1>11, <1>12, TallyAdvance DEF Next, Dispatch

\* What one step of the bus does to its semaphores: each has one call, or none.
LEMMA OnlyMoves ==
    ASSUME Sizes, DOMAIN sem = Sem, sem = [s \in Sem |-> sem[s]], [Next]_vars
    PROVE sem' = [s \in Sem |-> sem'[s]] /\ \A s \in Sem : Moves(sem[s], sem'[s])
<1> DEFINE Goal == sem' = [s \in Sem |-> sem'[s]] /\ \A s \in Sem : Moves(sem[s], sem'[s])
<1> SUFFICES Goal OBVIOUS
<1>1. ASSUME sem' = sem PROVE Goal
  BY <1>1 DEF Moves
<1>2. ASSUME NEW x, NEW b, sem' = [sem EXCEPT ![x] = b], Moves(sem[x], b) PROVE Goal
  <2>1. \A s \in Sem : sem'[s] = IF s = x THEN b ELSE sem[s]
    BY <1>2
  <2>2. sem' = [s \in Sem |-> sem'[s]]
    BY <1>2
  <2> QED BY <1>2, <2>1, <2>2 DEF Moves
<1> HIDE DEF Goal
<1>3. ASSUME NEW w \in Work, NEW at, Acquire(w, at) PROVE Goal
  <2> DEFINE s == Stage(w, at).sem
  <2>1. CASE Free(sem[s])
    <3>1. sem' = [sem EXCEPT ![s] = Taken(sem[s])]
      BY <1>3, <2>1 DEF Acquire
    <3>2. Moves(sem[s], Taken(sem[s]))
      BY <2>1 DEF Moves
    <3> QED BY <1>2, <3>1, <3>2
  <2>2. CASE ~Free(sem[s])
    <3>1. sem' = [sem EXCEPT ![s] = Joined(sem[s], w)]
      BY <1>3, <2>2 DEF Acquire
    <3>2. Moves(sem[s], Joined(sem[s], w))
      BY <2>2 DEF Moves
    <3> QED BY <1>2, <3>1, <3>2
  <2> QED BY <2>1, <2>2
<1>4. ASSUME NEW w \in Work, NEW at, GivesUp(w, at) PROVE Goal
  <2> DEFINE s == Stage(w, at).sem
  <2>1. sem' = [sem EXCEPT ![s] = GiveUp(sem[s], w)]
    BY <1>4 DEF GivesUp
  <2>2. Moves(sem[s], GiveUp(sem[s], w))
    BY DEF Moves
  <2> QED BY <1>2, <2>1, <2>2
<1>5. ASSUME NEW w \in Work, GiveBack(w) PROVE Goal
  <2> DEFINE s == Head(owes[w])
  <2>1. sem' = [sem EXCEPT ![s] = Release(sem[s])]
    BY <1>5 DEF GiveBack
  <2>2. Moves(sem[s], Release(sem[s]))
    BY DEF Moves
  <2> QED BY <1>2, <2>1, <2>2
<1>6. ASSUME NEW x, Free(sem[x]), sem' = [sem EXCEPT ![x] = Taken(sem[x])] PROVE Goal
  BY <1>2, <1>6 DEF Moves
<1>7. ASSUME NEW c \in Call, Submit(c) PROVE Goal
  <2>1. CASE ~closed /\ Free(sem["serve"]) BY <1>6, <1>7, <2>1 DEF Submit
  <2>2. CASE ~(~closed /\ Free(sem["serve"])) BY <1>1, <1>7, <2>2 DEF Submit
  <2> QED BY <2>1, <2>2
<1>8. ASSUME NEW a \in Admin, Enter(a) PROVE Goal
  <2>1. CASE ~closed /\ Free(sem["admin"]) BY <1>6, <1>8, <2>1 DEF Enter
  <2>2. CASE ~(~closed /\ Free(sem["admin"])) BY <1>1, <1>8, <2>2 DEF Enter
  <2> QED BY <2>1, <2>2
<1>9. CASE UpdateNext
  <2> DEFINE resized == IF upd.next = "lanes" THEN Lane ELSE {upd.next}
  <2>1. sem' = [s \in Sem |-> IF s \in resized THEN Resize(sem[s], SizeOf(s, upd.io, upd.lane)) ELSE sem[s]]
    BY <1>9 DEF UpdateNext
  <2> HIDE DEF resized
  <2>2. ASSUME NEW s \in Sem PROVE Moves(sem[s], sem'[s])
    <3>1. CASE s \in resized
      <4>1. sem'[s] = Resize(sem[s], SizeOf(s, upd.io, upd.lane)) BY <2>1, <3>1
      <4> QED BY <4>1, SizesAreNat DEF Moves
    <3>2. CASE s \notin resized BY <2>1, <3>2 DEF Moves
    <3> QED BY <3>1, <3>2
  <2> QED BY <2>1, <2>2 DEF Goal
<1>10. ASSUME NEW w \in Work, Advance(w) \/ Finish(w) \/ Refused(w) \/ Leave(w) PROVE Goal
  <2>1. ASSUME NEW at, Granted(w, at) PROVE Goal BY <1>1, <2>1 DEF Granted
  <2>2. CASE Finish(w) \/ Refused(w) \/ Leave(w) BY <1>1, <2>2 DEF Finish, Refused, Leave
  <2> QED BY <1>3, <1>4, <1>5, <1>10, <2>1, <2>2 DEF Advance
<1>11. ASSUME NEW j \in Job, StartBegin(j) \/ Cancel(j) \/ JobStep(j) PROVE Goal
  BY <1>1, <1>11
  DEF StartBegin, Cancel, JobStep, QueueAdd, QueueIoWait, StartEnd, TicketCheck, TicketEnter, TicketLeave, Admit,
      Fork, RunJob, RunEnds, End
<1>12. CASE Dispatch \/ DispatchStop \/ PoolClose \/ BusClose \/ BusStops
  BY <1>1, <1>12 DEF Dispatch, DispatchNext, DispatchWake, DropPending, DispatchStop, PoolClose, BusClose, BusStops
<1>13. CASE \E io \in IoSizes, n \in LaneSizes : UpdateBegin(io, n)
  BY <1>1, <1>13 DEF UpdateBegin
<1>14. CASE Rest \/ UNCHANGED vars
  BY <1>1, <1>14 DEF Rest, vars
<1> QED BY <1>7, <1>8, <1>9, <1>10, <1>11, <1>12, <1>13, <1>14 DEF Next

\* Whatever the works, jobs and reloads do, nobody waits while a slot is free.
SlotsBusy == sem \in [Sem -> ASemaphore] /\ \A s \in Sem : Busy(sem[s])
IInv == Sizes /\ SlotsBusy

\* A reload takes its sizes from the configurations.
LEMMA SizesKept == ASSUME Sizes, [Next]_vars PROVE Sizes'
<1>1. ASSUME upd' = upd PROVE Sizes' BY <1>1 DEF Sizes
<1>2. ASSUME NEW io \in IoSizes, NEW n \in LaneSizes, UpdateBegin(io, n) PROVE Sizes'
  BY <1>2, LimitAssumption DEF UpdateBegin, Sizes
<1>3. CASE UpdateNext
  <2>1. CASE upd' = Settled BY <2>1 DEF Settled, Sizes
  <2>2. CASE upd' = [upd EXCEPT !.next = "aux"] \/ upd' = [upd EXCEPT !.next = "lanes"]
    BY <2>2 DEF Sizes
  <2> QED BY <1>3, <2>1, <2>2 DEF UpdateNext
<1>4. ASSUME NEW w \in Work, Advance(w) \/ Finish(w) \/ Refused(w) \/ Leave(w) PROVE Sizes'
  BY <1>1, <1>4 DEF Advance, Acquire, Granted, GivesUp, GiveBack, Finish, Refused, Leave, limits
<1>5. ASSUME NEW c, Submit(c) \/ Enter(c) PROVE Sizes'
  BY <1>1, <1>5 DEF Submit, Enter, limits
<1>6. ASSUME NEW j \in Job, StartBegin(j) \/ Cancel(j) \/ JobStep(j) PROVE Sizes'
  BY <1>1, <1>6
  DEF StartBegin, Cancel, JobStep, QueueAdd, QueueIoWait, StartEnd, TicketCheck, TicketEnter, TicketLeave, Admit,
      Fork, RunJob, RunEnds, End, limits
<1>7. CASE Dispatch \/ DispatchStop \/ PoolClose \/ BusClose \/ BusStops
  BY <1>1, <1>7
  DEF Dispatch, DispatchNext, DispatchWake, DropPending, DispatchStop, PoolClose, BusClose, BusStops, limits
<1>8. CASE Rest \/ UNCHANGED vars
  BY <1>1, <1>8 DEF Rest, vars, limits
<1> QED BY <1>2, <1>3, <1>4, <1>5, <1>6, <1>7, <1>8 DEF Next

\* The slots of the lanes, of the auxiliary pool and of IO go to those who wait
\* as soon as they are free, and are never taken past the size a configuration
\* gives, whatever is canceled, given up or reloaded.
THEOREM SlotsFollow == Spec => SlotsFollowSize
<1>1. Init => IInv
  <2> SUFFICES ASSUME Init PROVE IInv OBVIOUS
  <2>1. Sizes BY DEF Init, Settled, Sizes
  <2>2. PICK io \in IoSizes, n \in LaneSizes : sem = [s \in Sem |-> NewSemaphore(SizeOf(s, io, n))]
    BY DEF Init
  <2>3. io \in Nat /\ n \in Nat /\ io \div 2 \in Nat
    BY LimitAssumption
  <2>4. ASSUME NEW s \in Sem PROVE SizeOf(s, io, n) \in Nat
    BY <2>3 DEF SizeOf
  <2>5. ASSUME NEW m \in Nat PROVE NewSemaphore(m) \in ASemaphore /\ Busy(NewSemaphore(m))
    BY DEF NewSemaphore, ASemaphore, Busy
  <2> QED BY <2>1, <2>2, <2>4, <2>5 DEF IInv, SlotsBusy
<1>2. ASSUME IInv, [Next]_vars PROVE IInv' /\ \A s \in Sem : Within(sem[s], sem'[s])
  <2>1. sem' = [s \in Sem |-> sem'[s]] /\ \A s \in Sem : Moves(sem[s], sem'[s])
    BY <1>2, OnlyMoves DEF IInv, SlotsBusy
  <2>2. ASSUME NEW s \in Sem PROVE sem'[s] \in ASemaphore /\ Busy(sem'[s]) /\ Within(sem[s], sem'[s])
    BY <1>2, <2>1, MovesFill DEF IInv, SlotsBusy
  <2>3. Sizes' BY <1>2, SizesKept DEF IInv
  <2> QED BY <2>1, <2>2, <2>3 DEF IInv, SlotsBusy, ASemaphore, Busy
<1>3. IInv /\ IInv' /\ (\A s \in Sem : Within(sem[s], sem'[s])) =>
        \A s \in Sem : /\ sem'[s].waiters # <<>> => sem'[s].used >= sem'[s].size
                       /\ sem'[s].used > sem[s].used => sem'[s].used <= sem'[s].size
  BY DEF IInv, SlotsBusy, Busy, Within
<1>4. IInv /\ [Next]_vars => IInv' BY <1>2
<1>5. IInv /\ [Next]_vars =>
        [\A s \in Sem : /\ sem'[s].waiters # <<>> => sem'[s].used >= sem'[s].size
                        /\ sem'[s].used > sem[s].used => sem'[s].used <= sem'[s].size]_vars
  BY <1>2, <1>3
<1> QED BY <1>1, <1>4, <1>5, PTL DEF Spec, SlotsFollowSize

-----------------------------------------------------------------------------
(* The inductive invariant of the bus, and what follows from it.           *)

BusInv == Sizes /\ Places /\ Pendings /\ Lives /\ Exacts /\ Tally

\* The bus at rest.
LEMMA BusInvInit == Init => BusInv
<1> SUFFICES ASSUME Init PROVE BusInv OBVIOUS
<1>1. /\ pc = [w \in Work |-> "none"] /\ owes = [w \in Work |-> <<>>] /\ state = [j \in Job |-> "NONE"]
      /\ queued = [l \in {"admin", "scan"} |-> 0] /\ ioWait = 0 /\ inflight = 0
      /\ start = Idle /\ left = {} /\ pending = <<>> /\ upd = Settled
  BY DEF Init
<1>2. Sizes BY <1>1 DEF Settled, Sizes
<1>3. Places
  <2>1. <<>> \in Seq(Sem) /\ "none" \in AtCall /\ "none" \in AtAdmin /\ "none" \in AtJob
    BY DEF AtCall, AtAdmin, AtJob
  <2> QED BY <1>1, <2>1 DEF Places, PlaceOK
<1>4. Pendings BY SMTT(20), Z3T(20), <1>1 DEF Pendings
<1>5. Lives
  <2>1. start \in [job : Job \cup {None}, capacity : Int, sum : Int] /\ start.job = None BY <1>1 DEF Idle
  <2>2. ASSUME NEW j \in Job PROVE JobOK(pc[j], state[j], j \in left, start.job = j)
    BY <1>1, <2>1, JobsAre DEF JobOK, Starting, Admitted, Final
  <2> QED BY <1>1, <2>1, <2>2 DEF Lives
<1>6. Exacts
  <2>1. PICK io \in IoSizes, n \in LaneSizes : sem = [s \in Sem |-> NewSemaphore(SizeOf(s, io, n))] BY DEF Init
  <2>2. io \in Nat /\ n \in Nat /\ io \div 2 \in Nat BY LimitAssumption
  <2>3. ASSUME NEW s \in Sem PROVE SizeOf(s, io, n) \in Nat BY <2>2 DEF SizeOf
  <2>4. ASSUME NEW m \in Nat PROVE Exact(NewSemaphore(m), {}, {})
    <3> DEFINE a == NewSemaphore(m)
    <3>1. a \in ASemaphore /\ a.used = 0 /\ a.waiters = <<>> BY DEF NewSemaphore, ASemaphore
    <3>2. InLine(a) = {} /\ Served(a, {}, {}) = {} BY <3>1 DEF InLine, Served
    <3> QED BY SMTT(20), Z3T(20), <3>1, <3>2, FS_EmptySet DEF Exact
  <2>5. ASSUME NEW s PROVE Demand(s) = {} /\ Held(s) = {}
    <3>1. \A w \in Work : HoldsAt(w, pc[w], owes[w]) = {} BY <1>1, HoldsIs
    <3> QED BY <1>1, <3>1 DEF Demand, Held, Wants
  <2> QED BY <2>1, <2>3, <2>4, <2>5 DEF Exacts
<1>7. Tally
  <2>1. \A j \in Job : pc[j] = "none" /\ state[j] = "NONE" BY <1>1, JobsAre
  <2>2. Queued = {} /\ IoWaiting = {} /\ Running = {}
    BY <2>1 DEF Queued, IoWaiting, Running, InQueue, InIoWait, InFlight, Final
  <2>3. Counts BY <1>1, <2>2, FS_EmptySet DEF Counts
  <2>4. \A j \in Job : Summed(j) BY <2>1 DEF Summed
  <2> QED BY <2>3, <2>4 DEF Tally
<1> QED BY <1>2, <1>3, <1>4, <1>5, <1>6, <1>7 DEF BusInv

\* Every step keeps the invariant.
LEMMA BusInvKept == BusInv /\ [Next]_vars => BusInv'
<1> SUFFICES ASSUME BusInv, [Next]_vars PROVE BusInv' OBVIOUS
<1>1. Sizes /\ Places /\ Pendings /\ Lives /\ Exacts /\ Tally BY DEF BusInv
<1>2. Numbers BY <1>1, CountsAre DEF Tally
<1>3. Sizes' BY <1>1, SizesKept
<1>4. Places' BY <1>1, PlacesKept
<1>5. Lives' /\ Pendings' BY <1>1, <1>2, LivesKept
<1>6. Exacts' BY <1>1, ExactsKept
<1>7. Tally' BY <1>1, TallyKept
<1> QED BY <1>3, <1>4, <1>5, <1>6, <1>7 DEF BusInv

\* The slots of the lanes, the auxiliary slots and those of IO: each that is in
\* use belongs to one work, which holds it or was granted it, and each work in a
\* semaphore's queue waits for it (semaphore.go, lane.go), however many works
\* there are and however they are canceled, refused or cut short by a reload.
THEOREM SlotsAreExact == Spec => []SlotsExact
<1>1. BusInv => SlotsExact
  <2> SUFFICES ASSUME BusInv, NEW s \in Sem
               PROVE /\ sem[s].used = Cardinality({w \in Work : s \in Holds(w) \/ IsGranted(w, s)})
                     /\ \A i, k \in 1..Len(sem[s].waiters) :
                           /\ i # k => sem[s].waiters[i] # sem[s].waiters[k]
                           /\ \E at \in {"lane", "aux", "io"} :
                                 /\ pc[sem[s].waiters[i]] = WaitAt[at]
                                 /\ Stage(sem[s].waiters[i], at).sem = s
    BY DEF SlotsExact
  <2>1. Exact(sem[s], Demand(s), Held(s)) BY DEF BusInv, Exacts
  <2>2. ASSUME NEW w PROVE Wants(w, pc[w], s) <=> \E at \in {"lane", "aux", "io"} : pc[w] = WaitAt[at] /\ Stage(w, at).sem = s
    BY StageIs DEF Wants
  <2>3. ASSUME NEW w \in Work PROVE Holds(w) = HoldsAt(w, pc[w], owes[w])
    <3>1. pc[w] \in AtJob BY DEF BusInv, Places, PlaceOK
    <3> DEFINE l == pc[w]
    <3>2. CASE l \in {"enter", "leave"} BY <3>2 DEF Holds, HoldsAt, Final
    <3>3. CASE l \in {"aux", "aux?"} BY <3>3 DEF Holds, HoldsAt, Final
    <3>4. CASE l \in {"io", "io?"} BY <3>4 DEF Holds, HoldsAt, Below, Final
    <3>5. CASE l \in {"run", "admitted", "counted", "forked"} \cup Final BY <3>5 DEF Holds, HoldsAt, Below, Final
    <3>6. CASE l \in {"undo", "back"} BY <3>6 DEF Holds, HoldsAt, InOrder, Final
    <3>7. CASE l \notin {"enter", "leave", "aux", "aux?", "io", "io?", "run", "admitted", "counted", "forked", "undo", "back"} \cup Final
      BY <3>7 DEF Holds, HoldsAt, Final
    <3> QED BY <3>2, <3>3, <3>4, <3>5, <3>6, <3>7
  <2>4. ASSUME NEW w PROVE Waits(sem[s], w) <=> w \in InLine(sem[s]) BY DEF Waits, InLine
  <2>5. ASSUME NEW w \in Work PROVE w \in Served(sem[s], Demand(s), Held(s)) <=> s \in Holds(w) \/ IsGranted(w, s)
    <3>1. w \in Held(s) <=> s \in Holds(w) BY <2>3 DEF Held
    <3>2. w \in Demand(s) /\ w \notin InLine(sem[s]) <=> IsGranted(w, s) BY <2>2, <2>4 DEF Demand, IsGranted
    <3> QED BY <3>1, <3>2 DEF Served
  <2>6. Served(sem[s], Demand(s), Held(s)) \subseteq Work BY DEF Served, Demand, Held
  <2>7. Served(sem[s], Demand(s), Held(s)) = {w \in Work : s \in Holds(w) \/ IsGranted(w, s)} BY <2>5, <2>6
  <2>8. ASSUME NEW i \in 1..Len(sem[s].waiters) PROVE Wants(sem[s].waiters[i], pc[sem[s].waiters[i]], s)
    <3>1. sem[s].waiters[i] \in Demand(s) BY <2>1 DEF Exact, InLine
    <3> QED BY <3>1 DEF Demand
  <2>9. sem[s].used = Cardinality({w \in Work : s \in Holds(w) \/ IsGranted(w, s)}) BY <2>1, <2>7 DEF Exact
  <2>10. \A i, k \in 1..Len(sem[s].waiters) : i # k => sem[s].waiters[i] # sem[s].waiters[k] BY <2>1 DEF Exact
  <2> QED BY <2>2, <2>8, <2>9, <2>10
<1> QED BY <1>1, BusInvInit, BusInvKept, PTL DEF Spec

\* What a step does to the states of jobs: only the end of a Start that was
\* accepted makes one pending.
LEMMA StatesMove ==
    ASSUME BusInv, [Next]_vars, NEW j \in Job, state'[j] # state[j]
    PROVE \/ state[j] = "NONE" /\ state'[j] = "PENDING" /\ StartEnd(j)
          \/ state[j] = "PENDING" /\ state'[j] \in {"RUNNING", "CANCELED"}
          \/ state[j] = "RUNNING" /\ state'[j] \in Final
<1>1. DOMAIN state = Job /\ JobOK(pc[j], state[j], j \in left, start.job = j) BY DEF BusInv, Lives
<1>2. ASSUME NEW i \in Job, NEW v, state' = [state EXCEPT ![i] = v] PROVE i = j /\ state'[j] = v
  BY <1>1, <1>2
<1>3. PICK i \in Job : StartEnd(i) \/ Cancel(i) \/ RunJob(i) \/ End(i)
  <2>1. ASSUME NEW w, Advance(w) \/ Finish(w) \/ Refused(w) \/ Leave(w) \/ Submit(w) \/ Enter(w) PROVE FALSE
    BY <2>1 DEF Advance, Acquire, Granted, GivesUp, GiveBack, Finish, Refused, Leave, Submit, Enter, pool
  <2>2. ASSUME NEW i \in Job, StartBegin(i) \/ QueueAdd(i) \/ QueueIoWait(i) PROVE FALSE
    BY <2>2 DEF StartBegin, QueueAdd, QueueIoWait
  <2>3. ASSUME NEW i \in Job, TicketCheck(i) \/ TicketEnter(i) \/ TicketLeave(i) \/ Admit(i) \/ Fork(i) \/ RunEnds(i) PROVE FALSE
    BY <2>3 DEF TicketCheck, TicketEnter, TicketLeave, Admit, Fork, RunEnds, pool
  <2>4. ASSUME Dispatch \/ DispatchStop \/ PoolClose \/ BusClose \/ BusStops PROVE FALSE
    BY <2>4 DEF Dispatch, DispatchNext, DispatchWake, DropPending, DispatchStop, PoolClose, BusClose, BusStops, pool
  <2>5. ASSUME Rest \/ UNCHANGED vars \/ UpdateNext \/ \E io \in IoSizes, n \in LaneSizes : UpdateBegin(io, n) PROVE FALSE
    BY <2>5 DEF Rest, vars, UpdateNext, UpdateBegin, pool
  <2> QED BY <2>1, <2>2, <2>3, <2>4, <2>5 DEF Next, JobStep
<1>4. CASE StartEnd(i)
  <2>1. state' = [state EXCEPT ![i] = "PENDING"] /\ pc[i] = "inflight?" BY <1>4 DEF StartEnd
  <2>2. i = j /\ state'[j] = "PENDING" BY <1>2, <2>1
  <2> QED BY <1>1, <1>4, <2>1, <2>2 DEF JobOK, Starting
<1>5. CASE Cancel(i)
  <2>1. state' = [state EXCEPT ![i] = "CANCELED"] /\ state[i] = "PENDING" BY <1>5 DEF Cancel
  <2> QED BY SMTT(20), Z3T(20), <1>2, <2>1
<1>6. CASE RunJob(i)
  <2>1. state' = [state EXCEPT ![i] = "RUNNING"] /\ state[i] = "PENDING" BY <1>6 DEF RunJob
  <2> QED BY SMTT(20), Z3T(20), <1>2, <2>1
<1>7. CASE End(i)
  <2> DEFINE outcome == IF pc[i] = "failed" THEN "CANCELED" ELSE pc[i]
  <2>1. state' = [state EXCEPT ![i] = outcome] /\ state[i] \in {"PENDING", "RUNNING"} /\ pc[i] \in Final \cup {"failed"}
    BY <1>7 DEF End
  <2>2. outcome \in Final /\ (pc[i] # "failed" \/ outcome = "CANCELED") BY <2>1 DEF Final
  <2> HIDE DEF outcome
  <2>3. i = j /\ state'[j] = outcome BY <1>2, <2>1
  <2>4. state[j] = "PENDING" => pc[j] = "failed" BY <1>1, <2>1, <2>3 DEF JobOK
  <2> QED BY <2>1, <2>2, <2>3, <2>4
<1> QED BY <1>3, <1>4, <1>5, <1>6, <1>7

\* A job runs at most once and has one outcome, and one canceled while it was
\* pending never runs, whatever the dispatcher, Cancel and Close do.
THEOREM JobsRunOnce == Spec => JobsLiveOnce
<1>1. BusInv /\ [Next]_vars =>
        [\A j \in Job : state'[j] # state[j] =>
          \/ state[j] = "NONE" /\ state'[j] = "PENDING"
          \/ state[j] = "PENDING" /\ state'[j] \in {"RUNNING", "CANCELED"}
          \/ state[j] = "RUNNING" /\ state'[j] \in Final]_vars
  BY StatesMove
<1> QED BY <1>1, BusInvInit, BusInvKept, PTL DEF Spec, JobsLiveOnce

\* The Scan lane never has more jobs than its slots and its queue when it takes
\* one in, though Queue reads its three counters one after the other while jobs
\* move between them (lane.go:190).
THEOREM QueueHasRoom == Spec => QueueRespectsCapacity
<1>1. ASSUME BusInv, [Next]_vars, NEW j \in Job, state[j] = "NONE", state'[j] = "PENDING"
      PROVE Cardinality(OnLane') <= start.capacity
  <2>1. StartEnd(j) BY <1>1, StatesMove
  <2>2. pc[j] = "inflight?" /\ UNCHANGED left BY <2>1 DEF StartEnd
  <2>3. ~(start.sum + inflight > start.capacity) BY <1>1, <2>1 DEF StartEnd
  <2>4. Goto(j, "pending") /\ state' = [state EXCEPT ![j] = "PENDING"] BY <2>1, <2>3 DEF StartEnd
  <2>5. PICK X \in SUBSET Job : Cardinality(X) <= start.sum /\ j \in X /\ OnLane \subseteq X \cup Running
    BY <1>1, <2>2 DEF BusInv, Tally, Summed
  <2>6. OnLane' \subseteq X \cup Running
    <3>1. \A k \in Job : k # j => pc'[k] = pc[k] /\ state'[k] = state[k]
      BY <1>1, <2>4, JobsAre DEF BusInv, Places, Lives, Goto
    <3>2. OnLane' \subseteq OnLane \cup {j} BY <2>2, <3>1 DEF OnLane
    <3> QED BY <2>5, <3>2
  <2>7. Running \in SUBSET Job /\ X \cup Running \in SUBSET Job /\ X \cap Running \in SUBSET Job BY DEF Running
  <2>8. /\ Cardinality(X \cup Running) = Cardinality(X) + Cardinality(Running) - Cardinality(X \cap Running)
        /\ Cardinality(X) \in Nat /\ Cardinality(Running) \in Nat /\ Cardinality(X \cap Running) \in Nat
    BY <2>7, JobsFinite, FS_Union
  <2>9. IsFiniteSet(X \cup Running) /\ Cardinality(OnLane') <= Cardinality(X \cup Running)
    BY <2>6, <2>7, JobsFinite, FS_Subset
  <2>10. inflight = Cardinality(Running) BY <1>1 DEF BusInv, Tally, Counts
  <2>11. start.sum \in Int /\ start.capacity \in Int BY <1>1 DEF BusInv, Lives
  <2>12. OnLane' \in SUBSET Job BY <2>6, <2>7
  <2>13. Cardinality(OnLane') \in Nat BY <2>12, JobsFinite
  <2> QED BY SMTT(20), Z3T(20), <2>3, <2>5, <2>8, <2>9, <2>10, <2>11, <2>13
<1>2. BusInv /\ [Next]_vars =>
        [\A j \in Job : state[j] = "NONE" /\ state'[j] = "PENDING" => Cardinality(OnLane') <= start.capacity]_vars
  BY <1>1
<1> QED BY <1>2, BusInvInit, BusInvKept, PTL DEF Spec, QueueRespectsCapacity
=============================================================================
