---------------------------- MODULE Invalidation ----------------------------
(***************************************************************************)
(* What a write through an entity invalidates (core/tool/invalidation.go), *)
(* worked out from the registry of a configuration, next to what the write *)
(* may change in the database.                                             *)
(*                                                                         *)
(* A registry is a function from the names of the entities to records:     *)
(* database the physical database, derived (a view or the like: its reads  *)
(* have no relation of their own), procedure, sideEffects (triggers or     *)
(* rules), cascades the entities its foreign keys rewrite, affects what a  *)
(* procedure declares it writes.  A cascade or a declaration may name an   *)
(* entity the registry does not hold; the entities it does hold are of the *)
(* same database (affects names entities of the datasource of a procedure, *)
(* foreign keys stay in theirs), so that whole(e) is the same for all.     *)
(***************************************************************************)
EXTENDS Naturals, FiniteSets

\* Finite; where rows cascade to and what a procedure affects is of its database.
IsRegistry(reg) ==
    /\ IsFiniteSet(DOMAIN reg)
    /\ \A e, f \in DOMAIN reg : f \in reg[e].cascades \cup reg[e].affects => reg[f].database = reg[e].database

Whole == "*"  \* the empty relation of the code: all of the database

\* cacheRelation
CacheRelation(reg, e) == IF reg[e].derived THEN Whole ELSE e
WholeOf(reg, e) == {[physical |-> reg[e].database, relation |-> Whole]}

\* The entities the worklist of compute visits from the set s: one round per
\* entity of the registry is enough.
Visited(reg, s) ==
    LET Names == DOMAIN reg
        round[n \in 0..Cardinality(Names)] ==
            IF n = 0 THEN s \cap Names
            ELSE round[n - 1] \cup (Names \cap UNION {reg[e].cascades : e \in round[n - 1]})
    IN round[Cardinality(Names)]

\* compactTargets: a target of a whole database stands for its relations.
CompactTargets(targets) ==
    {[t EXCEPT !.relation = IF [t EXCEPT !.relation = Whole] \in targets THEN Whole ELSE @] : t \in targets}

\* Mutant: foreign keys are followed one level only.
ComputeOneLevel(reg, e) ==
    LET writes == IF reg[e].procedure THEN reg[e].affects ELSE {e}
        visited == (writes \cup UNION {reg[w].cascades : w \in writes \cap DOMAIN reg}) \cap DOMAIN reg
    IN IF \/ reg[e].procedure /\ (writes = {} \/ ~(writes \subseteq DOMAIN reg))
          \/ \E v \in visited : reg[v].sideEffects \/ ~(reg[v].cascades \subseteq DOMAIN reg)
       THEN WholeOf(reg, e)
       ELSE CompactTargets({[physical |-> reg[v].database, relation |-> CacheRelation(reg, v)] : v \in visited})

\* compute: the relation written and those its foreign keys rewrite, through
\* any number of them; all of the database for triggers, for a procedure that
\* declares nothing, and once an entity is unknown.
Compute(reg, e) ==
    LET writes == IF reg[e].procedure THEN reg[e].affects ELSE {e}
        visited == Visited(reg, writes)
    IN IF \/ reg[e].procedure /\ (writes = {} \/ ~(writes \subseteq DOMAIN reg))
          \/ \E v \in visited : reg[v].sideEffects \/ ~(reg[v].cascades \subseteq DOMAIN reg)
       THEN WholeOf(reg, e)
       ELSE CompactTargets({[physical |-> reg[v].database, relation |-> CacheRelation(reg, v)] : v \in visited})

\* Invalidate drops the entries of the relation and the derived ones.
Drops(reg, target, e) ==
    /\ reg[e].database = target.physical
    /\ target.relation = Whole \/ target.relation = e \/ reg[e].derived

-----------------------------------------------------------------------------
(* The database, external: a write changes the rows of its table, those    *)
(* that foreign keys reach from it, whatever a trigger, an undeclared      *)
(* procedure, an unknown table or the table under a view reaches, and what *)
(* is derived from any of them.                                            *)

\* f is in every set that holds s and all that its members cascade to.
Reaches(reg, s, f) ==
    \A r \in SUBSET DOMAIN reg :
        s \cap DOMAIN reg \subseteq r /\ (\A v \in r : reg[v].cascades \cap DOMAIN reg \subseteq r) => f \in r

Changes(reg, e) ==
    LET writes == IF reg[e].procedure THEN reg[e].affects ELSE {e}
        open(v) == reg[v].sideEffects \/ reg[v].derived \/ ~(reg[v].cascades \subseteq DOMAIN reg)
        anything == \/ reg[e].procedure /\ (writes = {} \/ ~(writes \subseteq DOMAIN reg))
                    \/ \E v \in DOMAIN reg : Reaches(reg, writes, v) /\ open(v)
    IN {f \in DOMAIN reg : /\ ~reg[f].procedure /\ reg[f].database = reg[e].database
                           /\ anything \/ reg[f].derived \/ Reaches(reg, writes, f)}
=============================================================================
