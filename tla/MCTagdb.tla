------------------------------ MODULE MCTagdb ------------------------------
(***************************************************************************)
(* Instances of Tagdb for TLC.  The seed of every instance is a cut of the *)
(* real hard tags: _entity, its children _sub and _rel (ranks 1 and 2 of   *)
(* the generated table), and the user tags that a configuration starts     *)
(* with.                                                                   *)
(***************************************************************************)
EXTENDS Tagdb

CONSTANTS _sub, _rel, a, b, c, d

\* Only the hard tags.
BareSuper == [x \in Term |-> IF x \in UserTerms THEN None ELSE Entity]
BareSub == [x \in Term |-> IF x \in UserTerms THEN None ELSE _sub]
BareRank == [x \in Term |-> IF x = _sub THEN <<1>> ELSE IF x = _rel THEN <<2>> ELSE <<>>]

NoRelations == {{}}

\* A predicate whose modifier is the name of no tag.
OneRelation == {{}, {[relator |-> _sub, object |-> b, modifier |-> c]}}

\* Predicates with the same key and different modifiers, a user tag as relator.
SmallRelations ==
    LET p(r, o, m) == [relator |-> r, object |-> o, modifier |-> m]
    IN  {{}, {p(_rel, b, None)}, {p(_rel, b, c), p(c, _sub, None)}}

\* A tag a and a tag b under it.
NestedSuper == [BareSuper EXCEPT ![a] = Entity, ![b] = a]
NestedSub == [BareSub EXCEPT ![a] = _sub, ![b] = _sub]
NestedRank == [BareRank EXCEPT ![a] = <<3>>, ![b] = <<3, 1>>]

\* A tag a, and a context d with a narrower context c under it.
ContextSuper == [x \in Term |-> IF x = c THEN d ELSE IF x = b THEN None ELSE Entity]
ContextSub == [x \in Term |-> IF x = b THEN None ELSE _sub]
ContextRank == [x \in Term |-> CASE x = _sub -> <<1>> [] x = d -> <<2>>
                              [] x = c -> <<2, 1>> [] x = a -> <<3>>
                              [] OTHER -> <<>>]

=============================================================================
