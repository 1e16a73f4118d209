----------------------------- MODULE MCQueries -----------------------------
(***************************************************************************)
(* Instances of Queries: questions of one and of two predicates with every *)
(* kind of wildcard, asked in every state of an instance of Tagdb.         *)
(***************************************************************************)
EXTENDS Queries, MCTagdb

Asked == {[relator |-> _rel, object |-> b, modifier |-> None],
          [relator |-> None, object |-> a, modifier |-> None],
          [relator |-> _rel, object |-> None, modifier |-> c],
          [relator |-> _sub, object |-> None, modifier |-> None]}

\* Nothing has the last predicate of Asked, it is for QueryExact.
SmallQuestions ==
    [super : {None, a}, predicates : {P \in SUBSET Asked : Cardinality(P) \in 1 .. 2}]

=============================================================================
