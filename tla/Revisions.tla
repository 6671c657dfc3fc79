----------------------------- MODULE Revisions ------------------------------
(***************************************************************************)
(* The store of configuration revisions (core/revision): a revision is     *)
(* created as a draft, published or discarded, and leaves being published  *)
(* when another one is published (superseded) or restored (rolled back).   *)
(* Every write of the store is one step: MemoryStore holds its mutex, and  *)
(* SQLStore the lock row of its database, for the whole of it.             *)
(*                                                                         *)
(* A payload stands for its content hash too: Verify compares the two, and *)
(* no step changes either.                                                 *)
(***************************************************************************)
EXTENDS Naturals, FiniteSets

CONSTANTS
    Payload,   \* the contents of configurations
    Author,    \* who creates revisions
    History,   \* the histories migrate --history may import
    MaxId      \* bound of the model: the largest number of a revision

VARIABLES
    revs,      \* the revisions, by number
    nextID     \* the number of the next one

store == <<revs, nextID>>

-----------------------------------------------------------------------------
State == {"draft", "published", "superseded", "rolled-back", "discarded"}
Unpublished == {"draft", "discarded"}

\* A revision; parent 0 is none, at is when it was published (0: never).
Revision == [parent : Nat, payload : Payload, state : State, at : Nat, by : Author]
Ids == DOMAIN revs

ASSUME HistoryAssumption ==
    \A h \in History : DOMAIN h \subseteq Nat /\ h \in [DOMAIN h -> Revision]

InState(s) == {i \in Ids : revs[i].state = s}
OncePublished == {i \in Ids : revs[i].state \notin Unpublished}

\* The time of a publication: later than those before it.
Now == Cardinality(OncePublished) + 1

\* The number of the published revision, 0 for none.
Published == IF InState("published") = {} THEN 0 ELSE CHOOSE i \in InState("published") : TRUE

\* The published revision that id builds on: the nearest of id and its
\* ancestors that was published, 0 when there is none (or the chain loops).
BasedOn(id) ==
    LET up[n \in 0..Cardinality(Ids)] ==
            IF n = 0 THEN id
            ELSE IF up[n - 1] \in OncePublished \cup {0} THEN up[n - 1] ELSE revs[up[n - 1]].parent
        top == up[Cardinality(Ids)]
    IN IF top \in OncePublished THEN top ELSE 0

\* What a rollback restores: the target named, which must have been
\* published, else the last published of the superseded revisions whose
\* content differs from the published one.
Earlier(current) ==
    {i \in InState("superseded") : revs[i].payload # revs[current].payload}
RollbackTarget(current, target) ==
    IF target # 0 THEN {target} \cap OncePublished
    ELSE {i \in Earlier(current) :
            \A j \in Earlier(current) \ {i} :
                revs[j].at < revs[i].at \/ (revs[j].at = revs[i].at /\ j < i)}

-----------------------------------------------------------------------------
Draft(parent, payload, by) ==
    [parent |-> parent, payload |-> payload, state |-> "draft", at |-> 0, by |-> by]
With(id, rev) == [i \in Ids \cup {id} |-> IF i = id THEN rev ELSE revs[i]]

Create(parent, payload, by) ==
    /\ nextID <= MaxId
    /\ revs' = With(nextID, Draft(parent, payload, by))
    /\ nextID' = nextID + 1

\* Replaced(s): the published revision, if any, in state s.
Replaced(s) == [i \in Ids |-> IF i = Published THEN [revs[i] EXCEPT !.state = s] ELSE revs[i]]

\* Mutant: the revision published before stays published.
PublishKeepsCurrent(id, expected) ==
    /\ id \in InState("draft") /\ Published = expected
    /\ revs' = With(id, [revs[id] EXCEPT !.state = "published", !.at = Now])
    /\ UNCHANGED nextID

\* Mutant: the expectation of the caller is not checked.
PublishUnchecked(id, expected) ==
    /\ id \in InState("draft")
    /\ revs' = [Replaced("superseded") EXCEPT ![id] = [@ EXCEPT !.state = "published", !.at = Now]]
    /\ UNCHANGED nextID

\* Publish draft id over expected, the caller's view of what is published.
Publish(id, expected) ==
    /\ id \in InState("draft") /\ Published = expected
    /\ revs' = [Replaced("superseded") EXCEPT ![id] = [@ EXCEPT !.state = "published", !.at = Now]]
    /\ UNCHANGED nextID

Discard(id) ==
    /\ id \in InState("draft")
    /\ revs' = [revs EXCEPT ![id].state = "discarded"]
    /\ UNCHANGED nextID

\* Publish the content of target again, as a new revision.
Rollback(expected, target, by) ==
    /\ expected # 0 /\ Published = expected /\ nextID <= MaxId
    /\ \E source \in RollbackTarget(expected, target) :
         revs' = [i \in Ids \cup {nextID} |->
                    IF i = nextID
                    THEN [Draft(source, revs[source].payload, by) EXCEPT !.state = "published", !.at = Now]
                    ELSE Replaced("rolled-back")[i]]
    /\ nextID' = nextID + 1

\* A history is a set of revisions with their numbers, at most one published.
ValidateHistory(h) ==
    /\ 0 \notin DOMAIN h
    /\ \A i, j \in DOMAIN h : h[i].state = "published" /\ h[j].state = "published" => i = j

\* Mutant: the number of the next revision stays.
ImportKeepsNext(h) ==
    /\ ValidateHistory(h) /\ Ids = {}
    /\ revs' = h /\ UNCHANGED nextID

ImportHistory(h) ==
    /\ ValidateHistory(h) /\ Ids = {}
    /\ revs' = h
    /\ nextID' \in {nextID} \cup {i + 1 : i \in DOMAIN h}
    /\ nextID' >= nextID /\ \A i \in DOMAIN h : nextID' > i

Init == revs = [i \in {} |-> 0] /\ nextID = 1

Next ==
    \/ \E parent \in Ids \cup {0}, payload \in Payload, by \in Author : Create(parent, payload, by)
    \/ \E id \in Ids, expected \in Ids \cup {0} : Publish(id, expected)
    \/ \E id \in Ids : Discard(id)
    \/ \E expected, target \in Ids \cup {0}, by \in Author : Rollback(expected, target, by)
    \/ \E h \in History : ImportHistory(h)

Spec == Init /\ [][Next]_store

-----------------------------------------------------------------------------
\* The store's rows are revisions numbered below nextID.
StoreTypeOK ==
    /\ nextID \in Nat \ {0} /\ Ids \subseteq 1..(nextID - 1)
    /\ revs \in [Ids -> Revision]

\* At most one revision is published at a time (the promise of package
\* revision), whoever publishes, restores and imports at once.
OnePublished == \A i, j \in InState("published") : i = j

\* A revision holds what it held, and its state changed in order if at all.
Alive(i) ==
    /\ i \in DOMAIN revs' /\ revs'[i].payload = revs[i].payload
    /\ revs'[i].parent = revs[i].parent /\ revs'[i].by = revs[i].by
    /\ revs'[i].state # revs[i].state =>
         <<revs[i].state, revs'[i].state>> \in
           {<<"draft", "published">>, <<"draft", "discarded">>,
            <<"published", "superseded">>, <<"published", "rolled-back">>}

\* What a revision holds never changes and it never comes back from a final
\* state: a draft is published or discarded, a published revision is
\* superseded or rolled back, and that is all.
Lifecycle == [][\A i \in Ids : Alive(i)]_store
=============================================================================
