------------------------------ MODULE Queries ------------------------------
(***************************************************************************)
(* Queries of the tag store: related, get_children and query, which puts   *)
(* the answers for single predicates together with merge_containing_tags.  *)
(* They read the tables and change nothing.  Left out are comparisons of   *)
(* modifiers by number, search terms and queries of referents.             *)
(***************************************************************************)
EXTENDS Tagdb

CONSTANT
    Questions       \* [super, predicates]: what is asked; None is a wildcard

ASSUME QuestionsAssumption ==
    \A q \in Questions :
        /\ q.super \in Term \cup {None}
        /\ IsFiniteSet(q.predicates)
        /\ q.predicates \subseteq [relator : Term \cup {None}, object : Term \cup {None},
                                   modifier : Term \cup {None}]

\* SELECT tag FROM tags WHERE rank GLOB (SELECT rank ...) || '*': the rank of
\* _entity is NULL, which makes no pattern and matches none.
Subtree(x) == IF x \in Tags \ {Entity} THEN {y \in Tags \ {Entity} : Glob(rank[x], rank[y])} ELSE {}

\* (? IS NULL OR column IN (subtree))
Under(x, y) == x = None \/ y \in Subtree(x)

\* Mutant: the super object has to be that of the subject itself.
Related_Direct(p, super) ==
    {r.subject : r \in {q \in relations :
        /\ Decode(super) = None \/ super_object[q.subject] = Decode(super)
        /\ Under(Decode(p.relator), q.relator)
        /\ Under(Decode(p.object), q.object)
        /\ p.modifier = None \/ q.modifier = Decode(p.modifier)}}

\* related(): the subjects of the relations that match a predicate.
Related(p, super) ==
    {r.subject : r \in {q \in relations :
        /\ Under(Decode(super), q.subject)
        /\ Under(Decode(p.relator), q.relator)
        /\ Under(Decode(p.object), q.object)
        /\ p.modifier = None \/ q.modifier = Decode(p.modifier)}}

\* get_children()
Children(super) == {x \in Tags : super_object[x] = super}

\* rank::contains: an empty rank contains nothing and is in nothing.
RankContains(x, y) ==
    /\ Load(rank[x]) # <<>> /\ Load(rank[y]) # <<>>
    /\ IsPrefix(Load(rank[x]), Load(rank[y]))

\* Mutant: only tags of both sets are kept.
MergeContainingTags_Both(A, B) == IF B = {} THEN A ELSE IF A = {} THEN B ELSE A \cap B

\* merge_containing_tags(A, B), what becomes of A: the tags of each that a tag
\* of the other contains.  An empty set is taken for no set at all.
MergeContainingTags(A, B) ==
    IF B = {} THEN A
    ELSE IF A = {} THEN B
    ELSE {a \in A : \E b \in B : RankContains(b, a)} \cup {b \in B : \E a \in A : RankContains(a, b)}

\* query() of relations, in an order of the set: the answer after n of them.
\* The names are decoded once before and once by related().
RelatedByAll(order, super) ==
    LET answer[n \in 0 .. Len(order)] ==
          IF n = 0 THEN {} ELSE MergeContainingTags(answer[n - 1], Related(order[n], super))
    IN  answer[Len(order)]

\* query(): there is an answer if one predicate or the other has one.
Query(q, order) ==
    LET super == Decode(q.super)
        found == IF order = <<>> THEN Children(super) # {}
                 ELSE \E i \in DOMAIN order : Related(order[i], super) # {}
    IN  IF order = <<>> /\ super = None THEN [code |-> "TS_MISUSE", tags |-> {}]
        ELSE [code |-> IF found THEN "TAGD_OK" ELSE "TS_NOT_FOUND",
              tags |-> IF order = <<>> THEN Children(super) ELSE RelatedByAll(order, super)]

\* The orders in which the decoded predicates may come.
Orders(q) == SetToSeqs(DecodePredicates(q.predicates))

-----------------------------------------------------------------------------
(* What a question means, by the tree of super objects. *)

Below(x, y) == x = None \/ Tree!Above(x, y)

\* The tags that have a relation which the predicate describes.
Answering(p, super) ==
    {r.subject : r \in {q \in relations :
        /\ Below(super, q.subject) /\ Below(p.relator, q.relator) /\ Below(p.object, q.object)
        /\ p.modifier \in {None, q.modifier}}}

\* A tag has what the tags above it have: it answers if it has all that is asked
\* for, and something of it by itself.
Described(q) ==
    LET sets == {Answering(p, q.super) : p \in q.predicates}
    IN  {x \in UNION sets : \A S \in sets : \E y \in S : Tree!Above(y, x)}

\* What a session asks for: the contexts on its stack give the names a meaning.
Decoded(q) == [super |-> Decode(q.super), predicates |-> DecodePredicates(q.predicates)]

NamesOf(q) == {q.super} \cup UNION {{p.relator, p.object, p.modifier} : p \in q.predicates}

\* A name that query() has decoded is not an alias again, and none stands for
\* _entity: its rank is NULL and begins no other.
Plain(q) == \A x \in NamesOf(q) : Decode(Decode(x)) = Decode(x) /\ Decode(x) # Entity

\* Where some tag answers a question, the answer of query() is the set of
\* all that do, in whatever order the predicates are looked at; rank
\* patterns and prefixes stand in for the tree, one set at a time for them all.
QuerySelects ==
    call.stage = "idle" =>
        \A q \in {question \in Questions : Plain(question)} :
            LET described == Described(Decoded(q)) IN
                described # {} =>
                    \A order \in Orders(q) :
                        Query(q, order) = [code |-> "TAGD_OK", tags |-> described]

\* README.md: "Tags (subjects) can be retrieved according to matching predicates":
\* what does not match is not retrieved.
QueryExact ==
    call.stage = "idle" =>
        \A q \in Questions : \A order \in Orders(q) : Query(q, order).tags = Described(q)

=============================================================================
