------------------------------- MODULE Tagdb -------------------------------
(***************************************************************************)
(* The tag store (tagdb/sqlite/src/sqlite.cc): the tables of a tagdb, the  *)
(* context stack of the session that uses it and the public operations     *)
(* put, del and push_context.  One process has the store open; what        *)
(* interrupts an operation is the end of the process.                      *)
(*                                                                         *)
(* put() runs outside a transaction: every statement it executes commits   *)
(* on its own.  It is modelled as the sequence of those statements, with   *)
(* the control state of the handler in the variable call.  del() of a tag  *)
(* or of relations runs in a transaction and is one action.                *)
(***************************************************************************)
EXTENDS Ranks

CONSTANTS
    Entity,         \* _entity, the root
    HardTags,       \* the other hard tags of the store ("_sub", "_rel", ...)
    UserTerms,      \* every other name: a tag, an alias, or unknown
    None,           \* the empty string, NULL, a missing row
    SeedSub, SeedSuper, SeedRank,   \* the tags table when the model starts
    Names,          \* names of the tags that clients put and delete
    SubRelators,    \* sub relators that clients put tags with
    Supers,         \* super objects that clients put tags under
    RelationSets,   \* sets of predicates that clients put or delete
    Aliases, AliasTargets, Contexts,    \* what clients put in referents
    Hazards,        \* what may go wrong, a subset of the names below
    MaxOrdinal,     \* bound of the model: the last ordinal of a new rank
    MaxDepth,       \* bound of the model: the levels of a rank
    MaxContext      \* bound of the model: the height of the context stack

Term == {Entity} \cup HardTags \cup UserTerms

\* "crash":           the process ends between two statements
\* "ownSubtree":      a client puts a tag under one of its own descendants
\* "unknownRelator":  a client puts a tag with a sub relator that is no tag
HazardNames == {"crash", "ownSubtree", "unknownRelator"}

Predicate == [relator : Term, object : Term, modifier : Term \cup {None}]

ASSUME NamesAssumption ==
    /\ Entity \notin HardTags \cup UserTerms
    /\ HardTags \cap UserTerms = {}
    /\ None \notin Term
    /\ None \notin [sub : Term, super : Term, relations : SUBSET Predicate]

ASSUME ClientsAssumption ==
    /\ Names \subseteq UserTerms
    /\ SubRelators \subseteq Term
    /\ Supers \subseteq Term \cup {None}
    /\ RelationSets \subseteq SUBSET Predicate
    /\ {} \in RelationSets
    /\ Aliases \subseteq UserTerms
    /\ AliasTargets \subseteq Term
    /\ Contexts \subseteq Term
    /\ Hazards \subseteq HazardNames
    /\ MaxOrdinal \in Nat /\ MaxDepth \in Nat /\ MaxContext \in Nat

\* The seed is a tag tree the program can be in: init() inserts the hard
\* tags with their compiled-in ranks, put() adds the others.
SeedTags == {x \in Term : SeedSuper[x] # None}

ASSUME SeedAssumption ==
    /\ SeedSuper \in [Term -> Term \cup {None}]
    /\ SeedSub \in [Term -> Term \cup {None}]
    /\ SeedRank \in [Term -> Seq(Nat)]
    /\ {Entity} \cup HardTags \subseteq SeedTags
    /\ \A x \in SeedTags : SeedSuper[x] \in SeedTags /\ SeedSub[x] \in SeedTags
    /\ \A x \in Term \ SeedTags : SeedSub[x] = None
    /\ SeedSuper[Entity] = Entity
    /\ \A x \in (Term \ SeedTags) \cup {Entity} : SeedRank[x] = <<>>
    /\ \A x \in SeedTags \ {Entity} : IsLevelBelow(SeedRank[x], SeedRank[SeedSuper[x]])
    /\ \A x, y \in SeedTags : SeedRank[x] = SeedRank[y] => x = y

VARIABLES
    sub_relator, super_object, rank,    \* table tags
    terms,          \* table terms: the parts of speech of each name
    relations,      \* table relations
    referents,      \* table referents
    fts,            \* table fts_tags
    context,        \* the session's context stack
    call,           \* the put() that is being executed
    code            \* what the last finished operation returned

tables == <<sub_relator, super_object, rank, terms, relations, referents, fts>>
vars == <<tables, context, call, code>>

Tags == {x \in Term : super_object[x] # None}

\* The tags, seen as a tree by super object.
Tree == INSTANCE TagTree WITH Node <- Term, Root <- Entity, parent <- super_object

Parts == {"TAG", "SUB_RELATOR", "SUB_OBJECT", "SUBJECT", "RELATED", "OBJECT",
          "MODIFIER", "REFERS", "REFERS_TO", "CONTEXT"}

Relation == [subject : Term, relator : Term, object : Term,
             modifier : Term \cup {None}]
Referent == [refers : Term, refers_to : Term, context : Term]
Content == [sub : Term, super : Term, relations : SUBSET Predicate]

\* The tag of a put request, after decode_referents: super = None where the
\* request names no super object.
Request == [id : Term, sub : Term, super : Term \cup {None},
            relations : SUBSET Predicate]

Codes == {"TAGD_OK", "TS_NOT_FOUND", "TS_DUPLICATE", "TS_SUB_UNK",
          "TS_RELATOR_UNK", "TS_OBJECT_UNK", "TS_REFERS_TO_UNK",
          "TS_CONTEXT_UNK", "TS_AMBIGUOUS", "TS_RELATION_DEPENDENCY",
          "TS_MISUSE", "TS_INTERNAL_ERR"}

\* stage: the statement that put() executes next; tag: the request; todo: the
\* relations not yet inserted; inserted: whether one was; isNew: put() found
\* no tag with this id; rc: what put() will return.
Call == [stage : {"idle", "tag", "relations", "fts"}, tag : Request,
         todo : SUBSET Predicate, inserted : BOOLEAN, isNew : BOOLEAN,
         rc : Codes]

Idle == [stage |-> "idle",
         tag |-> [id |-> Entity, sub |-> Entity, super |-> None, relations |-> {}],
         todo |-> {}, inserted |-> FALSE, isNew |-> FALSE, rc |-> "TAGD_OK"]

----------------------------------------------------------------------------
(* Reading the tables. *)

\* term_pos_occurence: the parts of speech in which a name occurs in the
\* columns of the tables.
Occurrence(x) ==
    (IF x \in Tags THEN {"TAG"} ELSE {})
      \cup (IF \E y \in Tags : sub_relator[y] = x THEN {"SUB_RELATOR"} ELSE {})
      \cup (IF \E y \in Tags : super_object[y] = x THEN {"SUB_OBJECT"} ELSE {})
      \cup (IF \E r \in relations : r.subject = x THEN {"SUBJECT"} ELSE {})
      \cup (IF \E r \in relations : r.relator = x THEN {"RELATED"} ELSE {})
      \cup (IF \E r \in relations : r.object = x THEN {"OBJECT"} ELSE {})
      \cup (IF \E r \in relations : r.modifier = x THEN {"MODIFIER"} ELSE {})
      \cup (IF \E r \in referents : r.refers = x THEN {"REFERS"} ELSE {})
      \cup (IF \E r \in referents : r.refers_to = x THEN {"REFERS_TO"} ELSE {})
      \cup (IF \E r \in referents : r.context = x THEN {"CONTEXT"} ELSE {})

\* get() without a context: a name whose parts of speech include REFERS is
\* ambiguous where it is not a tag.  The rows of hard tags in terms are never
\* deleted, and the model leaves their parts of speech out.
Get(x) ==
    IF x \notin UserTerms THEN "TAGD_OK"
    ELSE IF terms[x] = {} THEN "TS_NOT_FOUND"
    ELSE IF x \in Tags THEN "TAGD_OK"
    ELSE IF "REFERS" \in terms[x] THEN "TS_AMBIGUOUS"
    ELSE "TS_NOT_FOUND"

Predicates(x) == {[relator |-> r.relator, object |-> r.object, modifier |-> r.modifier] :
                    r \in {q \in relations : q.subject = x}}

\* refers_to(): the referents of a name whose context lies in the subtree of
\* the i-th context of the stack; a context that is no tag any more has none.
Hits(x, i) ==
    {r \in referents : /\ r.refers = x
                       /\ context[i] \in Tags
                       /\ Glob(rank[context[i]], rank[r.context])}

\* The topmost context of the stack that has referents of x decides, and
\* among these the one with the greatest rank.
Visible(x) == UNION {Hits(x, i) : i \in {j \in DOMAIN context :
                                    \A k \in DOMAIN context : k > j => Hits(x, k) = {}}}
Winners(x) == {r \in Visible(x) : \A q \in Visible(x) :
                                    ~ LexLess(rank[r.context], rank[q.context])}

\* decode_referent: hard tags are not looked up, and neither are empty names.
Decode(x) ==
    IF x \notin UserTerms \/ Winners(x) = {} THEN x
    ELSE (CHOOSE r \in Winners(x) : TRUE).refers_to

DecodePredicates(P) ==
    {[relator |-> Decode(p.relator), object |-> Decode(p.object),
      modifier |-> Decode(p.modifier)] : p \in P}

\* Mutant: a name that has a row in terms keeps it as it is.
PutTermsOnce(uses) ==
    [x \in UserTerms |-> IF terms[x] # {} THEN terms[x]
                        ELSE {u[2] : u \in {v \in uses : v[1] = x}}]

\* put_term of several names: each gains the part of speech it is used as.
PutTerms(uses) ==
    [x \in UserTerms |-> terms[x] \cup {u[2] : u \in {v \in uses : v[1] = x}}]

\* format_fts(get(x)): what the search table holds of a tag.
ContentOf(x) == [sub |-> sub_relator[x], super |-> super_object[x],
                 relations |-> Predicates(x)]

----------------------------------------------------------------------------
(* next_rank, max_child_rank *)

ChildRanks(d) == {rank[x] : x \in {y \in Tags \ {Entity} : super_object[y] = d}}

\* The ranks that next_rank may return: one, as the ranks of a table are
\* ordered.  The destination's own rank has been loaded by get().
NextRanks(d) ==
    IF ChildRanks(d) = {} THEN {PushBack(Load(rank[d]), 1)}
    ELSE {Increment(r) : r \in MaxRanks(ChildRanks(d))}

\* max_child_rank cannot read the greatest rank, or the next one does not fit.
NextRankFails(d) ==
    \/ \E r \in MaxRanks(ChildRanks(d)) : ~ Validates(r)
    \/ \E r \in NextRanks(d) : ~ Fits(r)

\* next_rank asserts that the destination has a rank, or is the root.
NextRankAborts(d) == d # Entity /\ Load(rank[d]) = <<>>

----------------------------------------------------------------------------
(* put(tag): the checks, then insert() or update(), then insert_relations, *)
(* then the search table.                                                  *)

Finish(c) == code' = c /\ call' = Idle

\* What is left to do once the row of the tag is in its place.
Continue(t, new) ==
    call' = [stage |-> IF t.relations = {} THEN "fts" ELSE "relations",
             tag |-> t, todo |-> t.relations, inserted |-> FALSE,
             isNew |-> new, rc |-> "TAGD_OK"]

SamePlace(t) == sub_relator[t.id] = t.sub /\ super_object[t.id] = t.super

\* Mutant: no check that a tag is not its own super object.
RejectionUnchecked(t) ==
    IF Get(t.id) = "TS_AMBIGUOUS" THEN "TS_AMBIGUOUS"
    ELSE IF t.super = None
         THEN IF Get(t.id) = "TS_NOT_FOUND" THEN "TS_SUB_UNK"
              ELSE IF t.relations = {} THEN "TS_MISUSE" ELSE "TAGD_OK"
    ELSE IF Get(t.super) = "TS_NOT_FOUND" THEN "TS_SUB_UNK"
    ELSE IF Get(t.super) = "TS_AMBIGUOUS" THEN "TS_AMBIGUOUS"
    ELSE IF Get(t.id) = "TAGD_OK" /\ SamePlace(t) /\ t.relations = {} THEN "TS_DUPLICATE"
    ELSE "TAGD_OK"

\* The early returns of put() in their order; TAGD_OK where there is none.
Rejection(t) ==
    IF t.id = t.super /\ t.id # Entity THEN "TS_MISUSE"
    ELSE IF Get(t.id) = "TS_AMBIGUOUS" THEN "TS_AMBIGUOUS"
    ELSE IF t.super = None
         THEN IF Get(t.id) = "TS_NOT_FOUND" THEN "TS_SUB_UNK"
              ELSE IF t.relations = {} THEN "TS_MISUSE" ELSE "TAGD_OK"
    ELSE IF Get(t.super) = "TS_NOT_FOUND" THEN "TS_SUB_UNK"
    ELSE IF Get(t.super) = "TS_AMBIGUOUS" THEN "TS_AMBIGUOUS"
    ELSE IF Get(t.id) = "TAGD_OK" /\ SamePlace(t) /\ t.relations = {} THEN "TS_DUPLICATE"
    ELSE "TAGD_OK"

PutRejected(t) ==
    /\ Rejection(t) # "TAGD_OK"
    /\ Finish(Rejection(t))
    /\ UNCHANGED <<tables, context>>

\* An existing tag, named without a super object or where it already is.
PutRelations(t) ==
    /\ Rejection(t) = "TAGD_OK"
    /\ Get(t.id) = "TAGD_OK"
    /\ t.super = None \/ SamePlace(t)
    /\ Continue(t, FALSE)
    /\ UNCHANGED <<tables, context, code>>

IsInsert(t) == /\ Rejection(t) = "TAGD_OK"
               /\ Get(t.id) = "TS_NOT_FOUND"
IsMove(t) == /\ Rejection(t) = "TAGD_OK"
             /\ Get(t.id) = "TAGD_OK"
             /\ t.super # None
             /\ ~ SamePlace(t)

\* Mutant: a tag that is anywhere below its destination keeps its rank.
NewRankUnderOther(t) == IsInsert(t) \/ (IsMove(t) /\ ~ IsPrefix(rank[t.super], rank[t.id]))

\* update() leaves the ranks alone where the two loaded ranks are the same.
NewRankNeeded(t) == IsInsert(t) \/ (IsMove(t) /\ Load(rank[t.id]) # Load(rank[t.super]))

\* next_rank has an error: insert() and update() return before any statement.
PutRankError(t) ==
    /\ NewRankNeeded(t)
    /\ ~ NextRankAborts(t.super)
    /\ NextRankFails(t.super)
    /\ Finish("TS_INTERNAL_ERR")
    /\ UNCHANGED <<tables, context>>

\* The assertion in next_rank ends the process.
PutAborts(t) ==
    /\ NewRankNeeded(t)
    /\ NextRankAborts(t.super)
    /\ call' = Idle
    /\ context' = <<>>
    /\ UNCHANGED <<tables, code>>

NewRank(t, r) ==
    /\ NewRankNeeded(t)
    /\ ~ NextRankAborts(t.super)
    /\ ~ NextRankFails(t.super)
    /\ r \in NextRanks(t.super)
    /\ Last(r) <= MaxOrdinal /\ Len(r) <= MaxDepth

\* insert(): the names of the row are put in terms, then the row in tags.
\* The row may name itself as its sub relator.
InsertTag(t) ==
    /\ IsInsert(t)
    /\ \E r \in NextRanks(t.super) :
          /\ NewRank(t, r)
          /\ t.sub \in Tags \cup {t.id}
          /\ \A x \in Tags : rank[x] # r
          /\ rank' = [rank EXCEPT ![t.id] = r]
    /\ sub_relator' = [sub_relator EXCEPT ![t.id] = t.sub]
    /\ super_object' = [super_object EXCEPT ![t.id] = t.super]
    /\ terms' = PutTerms({<<t.id, "TAG">>, <<t.sub, "SUB_RELATOR">>, <<t.super, "SUB_OBJECT">>})
    /\ Continue(t, TRUE)
    /\ UNCHANGED <<relations, referents, fts, context, code>>

\* The row breaks a constraint (an unknown sub relator, a rank that is taken):
\* the names stay in terms.
InsertTagFails(t) ==
    /\ IsInsert(t)
    /\ \E r \in NextRanks(t.super) :
          /\ NewRank(t, r)
          /\ t.sub \notin Tags \cup {t.id} \/ \E x \in Tags : rank[x] = r
    /\ t.sub \in Tags \cup {t.id} \/ "unknownRelator" \in Hazards
    /\ terms' = PutTerms({<<t.id, "TAG">>, <<t.sub, "SUB_RELATOR">>, <<t.super, "SUB_OBJECT">>})
    /\ Finish("TS_INTERNAL_ERR")
    /\ UNCHANGED <<sub_relator, super_object, rank, relations, referents, fts, context>>

\* What clients are expected not to do, unless the instance says so.
Disciplined(t) ==
    /\ \/ "ownSubtree" \in Hazards
       \/ t.id = t.super
       \/ ~ Tree!Above(t.id, t.super)
    /\ t.sub \in Tags \/ "unknownRelator" \in Hazards

\* Mutant: only the rank of the tag itself is rewritten.
ShiftedAlone(old, r) == [x \in Term |-> IF x \in Tags \ {Entity} /\ rank[x] = old THEN r ELSE rank[x]]

\* The statement SET rank = r || substr(rank, size + 1) WHERE rank GLOB old || '*':
\* size counts bytes, substr() counts characters.
Shifted(old, r) ==
    [x \in Term |-> IF x \in Tags \ {Entity} /\ Glob(old, rank[x])
                    THEN r \o SubSeq(rank[x], ByteLen(old) + 1, Len(rank[x]))
                    ELSE rank[x]]

\* UNIQUE(rank): the rows after the statement differ in rank; while it runs,
\* a row may also meet one that it has not reached yet.
Distinct(ranks) == \A x, y \in Tags : ranks[x] = ranks[y] => x = y
MayClash(ranks) == \E x, y \in Tags : /\ x # y /\ ranks[x] # rank[x]
                                       /\ ranks[x] \in {rank[y], ranks[y]}

UpdateRanks(t) ==
    /\ IsMove(t) /\ Disciplined(t)
    /\ \E r \in NextRanks(t.super) :
          LET ranks == Shifted(Load(rank[t.id]), r)
          IN  /\ NewRank(t, r)
              /\ \A x \in Tags : Len(ranks[x]) <= MaxDepth
              /\ Distinct(ranks)
              /\ rank' = ranks
    /\ call' = [Idle EXCEPT !.stage = "tag", !.tag = t]
    /\ UNCHANGED <<sub_relator, super_object, terms, relations, referents, fts, context, code>>

UpdateRanksFails(t) ==
    /\ IsMove(t) /\ Disciplined(t)
    /\ \E r \in NextRanks(t.super) :
          /\ NewRank(t, r)
          /\ MayClash(Shifted(Load(rank[t.id]), r))
    /\ Finish("TS_INTERNAL_ERR")
    /\ UNCHANGED <<tables, context>>

SkipRanks(t) ==
    /\ IsMove(t) /\ Disciplined(t)
    /\ ~ NewRankNeeded(t)
    /\ call' = [Idle EXCEPT !.stage = "tag", !.tag = t]
    /\ UNCHANGED <<tables, context, code>>

\* The second statement of update().  Only the root may be its own super
\* object, and it must be.
RowAllowed(t) == t.sub \in Tags /\ (t.id = Entity => t.super = Entity)

UpdateTag ==
    LET t == call.tag
    IN  /\ call.stage = "tag"
        /\ RowAllowed(t)
        /\ sub_relator' = [sub_relator EXCEPT ![t.id] = t.sub]
        /\ super_object' = [super_object EXCEPT ![t.id] = t.super]
        /\ Continue(t, FALSE)
        /\ UNCHANGED <<rank, terms, relations, referents, fts, context, code>>

UpdateTagFails ==
    /\ call.stage = "tag"
    /\ ~ RowAllowed(call.tag)
    /\ Finish("TS_INTERNAL_ERR")
    /\ UNCHANGED <<tables, context>>

\* Mutant: insert_relations puts no names in terms.
NoRelationTerms(p) == terms

\* insert_relations, one predicate: the names are put in terms, then the row
\* in relations.  The set is in the order of its predicates, which the model
\* leaves open.  A row with the same key stays as it is, its modifier too.
RelationTerms(p) ==
    PutTerms({<<call.tag.id, "SUBJECT">>, <<p.relator, "RELATED">>,
              <<p.object, "OBJECT">>, <<p.modifier, "MODIFIER">>})

Stored(p) == \E r \in relations : /\ r.subject = call.tag.id
                                  /\ r.relator = p.relator /\ r.object = p.object

\* After the last predicate: a duplicate if none has been inserted.
RelationDone(p, inserted) ==
    LET todo == call.todo \ {p}
    IN  call' = [call EXCEPT !.todo = todo,
                             !.inserted = inserted,
                             !.stage = IF todo = {} THEN "fts" ELSE "relations",
                             !.rc = IF todo = {} /\ ~ inserted THEN "TS_DUPLICATE" ELSE @]

InsertRelation(p) ==
    /\ call.stage = "relations" /\ p \in call.todo
    /\ ~ Stored(p)
    /\ p.relator \in Tags /\ p.object \in Tags
    /\ relations' = relations \cup {[subject |-> call.tag.id, relator |-> p.relator,
                                    object |-> p.object, modifier |-> p.modifier]}
    /\ terms' = RelationTerms(p)
    /\ RelationDone(p, TRUE)
    /\ UNCHANGED <<sub_relator, super_object, rank, referents, fts, context, code>>

SkipDuplicate(p) ==
    /\ call.stage = "relations" /\ p \in call.todo
    /\ Stored(p)
    /\ terms' = RelationTerms(p)
    /\ RelationDone(p, call.inserted)
    /\ UNCHANGED <<sub_relator, super_object, rank, relations, referents, fts, context, code>>

\* An unknown relator or object ends the loop; the rows before it stay, and
\* the search table is still written.
RelationUnknown(p) ==
    /\ call.stage = "relations" /\ p \in call.todo
    /\ p.relator \notin Tags \/ p.object \notin Tags
    /\ terms' = RelationTerms(p)
    /\ call' = [call EXCEPT !.stage = "fts", !.todo = {},
                            !.rc = IF p.relator \notin Tags THEN "TS_RELATOR_UNK"
                                   ELSE "TS_OBJECT_UNK"]
    /\ UNCHANGED <<sub_relator, super_object, rank, relations, referents, fts, context, code>>

\* Mutant: the search table is written only when put() succeeds.
PutFtsOnSuccess ==
    LET x == call.tag.id
    IN  /\ call.stage = "fts"
        /\ fts' = IF call.rc = "TAGD_OK" /\ x \in UserTerms /\ (call.isNew \/ fts[x] # None)
                  THEN [fts EXCEPT ![x] = ContentOf(x)] ELSE fts
        /\ Finish(call.rc)
        /\ UNCHANGED <<sub_relator, super_object, rank, terms, relations, referents, context>>

\* Mutant: what was asked for is written, not what the store has now.
PutFtsOfRequest ==
    LET x == call.tag.id
    IN  /\ call.stage = "fts"
        /\ fts' = IF x \in UserTerms /\ (call.isNew \/ fts[x] # None)
                  THEN [fts EXCEPT ![x] = [ContentOf(x) EXCEPT !.relations = call.tag.relations]] ELSE fts
        /\ Finish(call.rc)
        /\ UNCHANGED <<sub_relator, super_object, rank, terms, relations, referents, context>>

\* f_fts_passthru: insert_fts_tag for a new tag, update_fts_tag for a known
\* one, which changes nothing where the table has no row for it.
PutFts ==
    LET x == call.tag.id
    IN  /\ call.stage = "fts"
        /\ fts' = IF x \in UserTerms /\ (call.isNew \/ fts[x] # None)
                  THEN [fts EXCEPT ![x] = ContentOf(x)] ELSE fts
        /\ Finish(call.rc)
        /\ UNCHANGED <<sub_relator, super_object, rank, terms, relations, referents, context>>

PutTag(t) ==
    /\ call.stage = "idle"
    /\ \/ PutRejected(t) \/ PutRelations(t) \/ PutRankError(t) \/ PutAborts(t)
       \/ InsertTag(t) \/ InsertTagFails(t)
       \/ UpdateRanks(t) \/ UpdateRanksFails(t) \/ SkipRanks(t)

\* Hard tags cannot be put by name; decoded, a request may name one.
Put == \E x \in Names, sub \in SubRelators, super \in Supers, P \in RelationSets :
          PutTag([id |-> Decode(x), sub |-> Decode(sub), super |-> Decode(super),
                  relations |-> DecodePredicates(P)])

PutStatement ==
    \/ UpdateTag \/ UpdateTagFails
    \/ \E p \in call.todo : InsertRelation(p) \/ SkipDuplicate(p) \/ RelationUnknown(p)
    \/ PutFts

----------------------------------------------------------------------------
(* del(tag) *)

\* Mutants: every affected name is deleted; the other names are lost.
RecomputeTermsDeletes(affected) ==
    terms' = [x \in UserTerms |-> IF x \in affected THEN {} ELSE terms[x]]
RecomputeTermsOnly(affected) ==
    terms' = [x \in UserTerms \cap affected |-> Occurrence(x)']

\* update_pos_occurence of the affected names, in the tables after the rows
\* have gone: a name that occurs nowhere leaves terms.
RecomputeTerms(affected) ==
    terms' = [x \in UserTerms |-> IF x \in affected THEN Occurrence(x)' ELSE terms[x]]

\* Mutants: no foreign key on super_object; none on the columns of relations.
HasDependentsNoSuper(x) ==
    \/ \E y \in Tags \ {x} : sub_relator[y] = x
    \/ \E r \in relations : r.subject # x /\ (r.relator = x \/ r.object = x)
    \/ \E r \in referents : r.refers_to # x /\ r.context = x
HasDependentsNoRelations(x) ==
    \/ \E y \in Tags \ {x} : sub_relator[y] = x \/ super_object[y] = x
    \/ \E r \in referents : r.refers_to # x /\ r.context = x

\* Foreign keys that keep the row of a tag after its own rows have gone.
HasDependents(x) ==
    \/ \E y \in Tags \ {x} : sub_relator[y] = x \/ super_object[y] = x
    \/ \E r \in relations : r.subject # x /\ (r.relator = x \/ r.object = x)
    \/ \E r \in referents : r.refers_to # x /\ r.context = x

\* The early returns of del(), the tag named name having been decoded to x.
DelTagRejection(name, x) ==
    IF Get(x) # "TAGD_OK" THEN Get(x)
    ELSE IF x # name THEN "TS_MISUSE"
    ELSE IF HasDependents(x) THEN "TS_RELATION_DEPENDENCY"
    ELSE "TAGD_OK"

DelTagRejected(name) ==
    /\ call.stage = "idle"
    /\ DelTagRejection(name, Decode(name)) # "TAGD_OK"
    /\ Finish(DelTagRejection(name, Decode(name)))
    /\ UNCHANGED <<tables, context>>

\* The referents of the tag are looked up after they have been deleted, so
\* the names affected are those of its own row and relations.
DelTag(x) ==
    /\ call.stage = "idle"
    /\ DelTagRejection(x, Decode(x)) = "TAGD_OK"
    /\ sub_relator' = [sub_relator EXCEPT ![x] = None]
    /\ super_object' = [super_object EXCEPT ![x] = None]
    /\ rank' = [rank EXCEPT ![x] = <<>>]
    /\ relations' = {r \in relations : r.subject # x}
    /\ referents' = {r \in referents : r.refers_to # x}
    /\ fts' = [fts EXCEPT ![x] = None]
    /\ RecomputeTerms({x, sub_relator[x], super_object[x]}
                        \cup UNION {{p.relator, p.object, p.modifier} : p \in Predicates(x)})
    /\ Finish("TAGD_OK")
    /\ UNCHANGED context

\* del(tag with relations): all of them must be there, modifiers included.
DelRelations(name, P) ==
    LET x == Decode(name)
        D == DecodePredicates(P)
    IN  /\ call.stage = "idle" /\ P # {}
        /\ Get(x) = "TAGD_OK" /\ D \subseteq Predicates(x)
        /\ relations' = {r \in relations : ~ (r.subject = x /\ \E p \in D :
                                       p.relator = r.relator /\ p.object = r.object)}
        /\ UNCHANGED <<sub_relator, super_object, rank, referents, fts, context>>
        /\ RecomputeTerms({x} \cup UNION {{p.relator, p.object, p.modifier} : p \in D})
        /\ Finish("TAGD_OK")

DelRelationsRejected(name, P) ==
    LET x == Decode(name)
    IN  /\ call.stage = "idle" /\ P # {}
        /\ Get(x) # "TAGD_OK" \/ ~ DecodePredicates(P) \subseteq Predicates(x)
        /\ Finish(IF Get(x) # "TAGD_OK" THEN Get(x) ELSE "TS_NOT_FOUND")
        /\ UNCHANGED <<tables, context>>

----------------------------------------------------------------------------
(* put(referent), del(referent) *)

\* insert_referent: refers_to and context are decoded, refers is not.
PutReferentMisuse(r) == r.refers = r.refers_to \/ r.context = Entity

\* Mutant: no UNIQUE(refers, context).
ReferentTakenByKey(r) == \E q \in referents : q.refers = r.refers /\ q.refers_to = r.refers_to

ReferentTaken(r) == \E q \in referents : /\ q.refers = r.refers
                                         /\ q.refers_to = r.refers_to \/ q.context = r.context

\* Mutant: no foreign key on context.
PutReferentCodeNoContext(r) ==
    IF PutReferentMisuse(r) THEN "TS_MISUSE"
    ELSE IF ReferentTaken(r) THEN "TS_DUPLICATE"
    ELSE IF r.refers_to \notin Tags THEN "TS_REFERS_TO_UNK"
    ELSE "TAGD_OK"

PutReferentCode(r) ==
    IF PutReferentMisuse(r) THEN "TS_MISUSE"
    ELSE IF ReferentTaken(r) THEN "TS_DUPLICATE"
    ELSE IF r.refers_to \notin Tags THEN "TS_REFERS_TO_UNK"
    ELSE IF r.context \notin Tags THEN "TS_CONTEXT_UNK"
    ELSE "TAGD_OK"

\* The names are put in terms before the row is inserted, also where the
\* insertion then fails.
PutReferent(r) ==
    /\ call.stage = "idle"
    /\ terms' = IF PutReferentMisuse(r) THEN terms
                ELSE PutTerms({<<r.refers, "REFERS">>, <<r.refers_to, "REFERS_TO">>,
                               <<r.context, "CONTEXT">>})
    /\ referents' = IF PutReferentCode(r) = "TAGD_OK" THEN referents \cup {r} ELSE referents
    /\ Finish(PutReferentCode(r))
    /\ UNCHANGED <<sub_relator, super_object, rank, relations, fts, context>>

\* An empty field of the request matches every referent; the request itself
\* is not decoded, and only the names it gives are recomputed.
Matching(q) == {r \in referents : /\ q.refers \in {None, r.refers}
                                  /\ q.refers_to \in {None, r.refers_to}
                                  /\ q.context \in {None, r.context}}

DelReferent(q) ==
    /\ call.stage = "idle"
    /\ <<q.refers, q.refers_to, q.context>> # <<None, None, None>>
    /\ Matching(q) # {}
    /\ referents' = referents \ Matching(q)
    /\ UNCHANGED <<sub_relator, super_object, rank, relations, fts, context>>
    /\ RecomputeTerms({q.refers, q.refers_to, q.context})
    /\ Finish("TAGD_OK")

DelReferentRejected(q) ==
    /\ call.stage = "idle"
    /\ Matching(q) = {} \/ <<q.refers, q.refers_to, q.context>> = <<None, None, None>>
    /\ Finish(IF <<q.refers, q.refers_to, q.context>> = <<None, None, None>>
              THEN "TS_MISUSE" ELSE "TS_NOT_FOUND")
    /\ UNCHANGED <<tables, context>>

----------------------------------------------------------------------------
(* The session's context stack (tagdb/src/tagdb.cc). *)

PushContext(c) ==
    /\ call.stage = "idle"
    /\ Len(context) < MaxContext
    /\ context' = IF c # Entity /\ c \in Tags THEN Append(context, c) ELSE context
    /\ Finish(IF c = Entity THEN "TS_MISUSE"
              ELSE IF c \in Tags THEN "TAGD_OK" ELSE "TS_INTERNAL_ERR")
    /\ UNCHANGED tables

\* Callers pop what they pushed.
PopContext ==
    /\ call.stage = "idle"
    /\ context # <<>>
    /\ context' = Front(context)
    /\ Finish("TAGD_OK")
    /\ UNCHANGED tables

ClearContext ==
    /\ call.stage = "idle"
    /\ context # <<>>
    /\ context' = <<>>
    /\ Finish("TAGD_OK")
    /\ UNCHANGED tables

\* The end of the process between two statements: what has been executed is
\* in the store, the rest of the operation and the session are lost.
Crash ==
    /\ "crash" \in Hazards
    /\ call.stage # "idle"
    /\ call' = Idle
    /\ context' = <<>>
    /\ UNCHANGED <<tables, code>>

----------------------------------------------------------------------------

Init ==
    /\ sub_relator = SeedSub
    /\ super_object = SeedSuper
    /\ rank = SeedRank
    /\ relations = {}
    /\ referents = {}
    /\ terms = [x \in UserTerms |-> Occurrence(x)]
    /\ fts = [x \in UserTerms |-> IF x \in Tags THEN ContentOf(x) ELSE None]
    /\ context = <<>>
    /\ call = Idle
    /\ code = "TAGD_OK"

Del == \E x \in Names :
          \/ DelTagRejected(x) \/ DelTag(x)
          \/ \E P \in RelationSets : DelRelationsRejected(x, P) \/ DelRelations(x, P)

PutReferents == \E a \in Aliases, x \in AliasTargets, c \in Contexts :
                   PutReferent([refers |-> a, refers_to |-> Decode(x), context |-> Decode(c)])

DelReferents == \E a \in Aliases \cup {None}, x \in AliasTargets \cup {None}, c \in Contexts \cup {None} :
                   LET q == [refers |-> a, refers_to |-> x, context |-> c]
                   IN  DelReferent(q) \/ DelReferentRejected(q)

Sessions == (\E c \in Contexts : PushContext(c)) \/ PopContext \/ ClearContext

Next == Put \/ PutStatement \/ Del \/ PutReferents \/ DelReferents \/ Sessions \/ Crash

Spec == Init /\ [][Next]_vars

----------------------------------------------------------------------------
(* Properties *)

\* Every table holds rows of its own kind, and put() is at one of its stages.
TypeOK ==
    /\ sub_relator \in [Term -> Term \cup {None}]
    /\ super_object \in [Term -> Term \cup {None}]
    /\ rank \in [Term -> Seq(Nat)]
    /\ terms \in [UserTerms -> SUBSET Parts]
    /\ relations \subseteq Relation
    /\ referents \subseteq Referent
    /\ fts \in [UserTerms -> {None} \cup Content]
    /\ context \in Seq(Term)
    /\ call \in Call
    /\ code \in Codes

\* Between operations the rank of a tag is the rank of its super object with
\* one more level, and no two tags have the same rank (rank.h: children are
\* prefixed by the parent node): update() rewrites the ranks of a whole
\* subtree in one statement and the super object in another.
RankExtendsSuper ==
    call.stage = "idle" =>
      /\ \A x \in Tags \ {Entity} :
            /\ super_object[x] \in Tags
            /\ IsLevelBelow(rank[x], rank[super_object[x]])
      /\ \A x, y \in Tags : rank[x] = rank[y] => x = y

\* Queries take the subtree of a tag to be the tags whose rank matches its
\* own followed by '*' (related, get_children, refers_to).  Between operations
\* that selects the tag and its descendants by super object, and nothing else.
RanksSelectSubtrees ==
    call.stage = "idle" =>
      \A x, y \in Tags \ {Entity} : Glob(Load(rank[x]), rank[y]) <=> Tree!Above(x, y)

\* Every tag is below _entity, also between the statements of a put().
Rooted == Tree!Rooted

\* The tags table implements the tree: a put() moves a tag together with its
\* descendants and never under itself, a del() removes only a tag that has
\* none (the foreign key on super_object).
TreeSpec == Tree!Spec

\* No operation of a client that keeps to the interface ends in an internal
\* error (codes.h: "error not due to caller input").
NoInternalError == code # "TS_INTERNAL_ERR"

\* No row refers to a tag that is gone: del() of a tag takes the rows that it
\* owns along, and is refused while others name it.
ReferencesExist ==
    /\ \A x \in Tags : sub_relator[x] \in Tags /\ super_object[x] \in Tags
    /\ \A r \in relations : {r.subject, r.relator, r.object} \subseteq Tags
    /\ \A r \in referents : {r.refers_to, r.context} \subseteq Tags

\* Every name that occurs in a table can be looked up: put and del maintain
\* the table terms apart from the rows, get() reports a tag that is missing
\* there as not found and resolves an alias only if terms has it as REFERS.
NamesKnown ==
    \A x \in UserTerms :
      /\ Occurrence(x) # {} => terms[x] # {}
      /\ "REFERS" \in Occurrence(x) => "REFERS" \in terms[x]

\* An alias resolves to one tag: at most one referent has the context that
\* the stack of contexts selects.
AliasesResolve == \A x \in UserTerms : Cardinality(Winners(x)) <= 1

\* A search misses nothing that is in the store: between operations the search
\* table has every tag, with its place and all its relations.
SearchComplete ==
    call.stage = "idle" =>
      \A x \in Tags \cap UserTerms :
        /\ fts[x] # None
        /\ fts[x].sub = sub_relator[x] /\ fts[x].super = super_object[x]
        /\ Predicates(x) \subseteq fts[x].relations

\* The search table has something of a tag that is not in the store.
Stale(x) == fts[x] # None /\ (x \notin Tags \/ ~ fts[x].relations \subseteq Predicates(x))

\* ... and it comes to find what is not there any more in one way only: relations
\* of a tag are deleted, and the tag stays.  What put() adds, refuses or finds to
\* be there with another modifier, and the deletion of tags, never do it.
SearchFollows ==
    [][\A x \in UserTerms :
         Stale(x)' /\ ~ Stale(x) =>
            Tags' = Tags /\ relations' \subseteq relations /\ relations' # relations]_vars

=============================================================================
