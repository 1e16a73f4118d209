---------------------------- MODULE TagdbProofs ----------------------------
(***************************************************************************)
(* What every step of the tag store preserves: the kinds of the tables'    *)
(* rows, the references between them, the names in terms, the tree of      *)
(* super objects, and what the search table holds of a tag.  For every set *)
(* of names, every seed that is a tag tree and every bound.                *)
(***************************************************************************)
EXTENDS Tagdb, RanksProofs

USE NamesAssumption, ClientsAssumption

\* Where a put() is, seen from the tables: its tag is there as soon as the
\* row has been written, and so is the super object that update() will write.
Control ==
    /\ {Entity} \cup HardTags \subseteq Tags
    /\ super_object[Entity] = Entity
    /\ call.stage # "idle" => call.tag.id \in Tags
    /\ call.stage = "tag" => call.tag.super \in Tags

\* The inductive invariant.
StoreInv == TypeOK /\ Control /\ ReferencesExist /\ NamesKnown

----------------------------------------------------------------------------
(* What the helpers return. *)

\* next_rank returns a rank.
LEMMA NextRanksType ==
    ASSUME rank \in [Term -> Seq(Nat)], NEW d \in Term
    PROVE  NextRanks(d) \subseteq Seq(Nat)
<1>1. ChildRanks(d) \subseteq Seq(Nat)
      BY DEF ChildRanks, Tags
<1>2. MaxRanks(ChildRanks(d)) \subseteq Seq(Nat)
      BY <1>1 DEF MaxRanks
<1>3. PushBack(Load(rank[d]), 1) \in Seq(Nat)
      BY LoadType, PushBackType
<1>4. {Increment(r) : r \in MaxRanks(ChildRanks(d))} \subseteq Seq(Nat)
      BY <1>2, IncrementType
<1> QED BY <1>3, <1>4 DEF NextRanks

\* The statement of update() writes a rank into every row.
LEMMA ShiftedType ==
    ASSUME rank \in [Term -> Seq(Nat)], NEW old \in Seq(Nat), NEW r \in Seq(Nat)
    PROVE  Shifted(old, r) \in [Term -> Seq(Nat)]
<1>1. ByteLen(old) \in Nat
      BY ByteLenType
<1>2. ASSUME NEW x \in Term
      PROVE  r \o SubSeq(rank[x], ByteLen(old) + 1, Len(rank[x])) \in Seq(Nat)
  <2>1. rank[x] \in Seq(Nat) /\ Len(rank[x]) \in Nat
        OBVIOUS
  <2>2. \A i \in ByteLen(old) + 1 .. Len(rank[x]) : rank[x][i] \in Nat
        BY <1>1, <2>1
  <2>3. SubSeq(rank[x], ByteLen(old) + 1, Len(rank[x])) \in Seq(Nat)
        BY <1>1, <2>1, <2>2, SubSeqProperties
  <2> QED BY <2>3
<1> QED BY <1>2 DEF Shifted

\* A name is decoded to a name, and the empty name to itself.
LEMMA DecodeType ==
    ASSUME TypeOK
    PROVE  /\ \A x \in Term : Decode(x) \in Term
           /\ Decode(None) = None
<1>1. ASSUME NEW x \in Term
      PROVE  Decode(x) \in Term
  <2>1. Winners(x) \subseteq Visible(x) /\ Visible(x) \subseteq referents
        BY DEF Winners, Visible, Hits
  <2>2. referents \subseteq Referent
        BY DEF TypeOK
  <2>3. CASE x \notin UserTerms \/ Winners(x) = {}
        BY <2>3 DEF Decode
  <2>4. CASE x \in UserTerms /\ Winners(x) # {}
    <3>1. (CHOOSE r \in Winners(x) : TRUE) \in Winners(x)
          BY <2>4
    <3>2. (CHOOSE r \in Winners(x) : TRUE).refers_to \in Term
          BY <2>1, <2>2, <3>1 DEF Referent
    <3> QED BY <2>4, <3>2 DEF Decode
  <2> QED BY <2>3, <2>4
<1>2. None \notin UserTerms
      BY DEF Term
<1> QED BY <1>1, <1>2 DEF Decode

\* So are the names of predicates ...
LEMMA DecodePredicatesType ==
    ASSUME TypeOK, NEW P \in SUBSET Predicate
    PROVE  DecodePredicates(P) \subseteq Predicate
BY DecodeType DEF DecodePredicates, Predicate

\* ... and of the requests that put() works on.
LEMMA RequestType ==
    ASSUME TypeOK, NEW x \in Names, NEW sub \in SubRelators, NEW super \in Supers,
           NEW P \in RelationSets
    PROVE  [id |-> Decode(x), sub |-> Decode(sub), super |-> Decode(super),
            relations |-> DecodePredicates(P)] \in Request
<1>1. x \in Term /\ sub \in Term /\ super \in Term \cup {None} /\ P \subseteq Predicate
      BY DEF Term
<1>2. DecodePredicates(P) \subseteq Predicate
      BY <1>1, DecodePredicatesType
<1> QED BY <1>1, <1>2, DecodeType DEF Request

\* Names only gain parts of speech, those that they are used as.
LEMMA PutTermsAdds ==
    ASSUME TypeOK, NEW uses \in SUBSET ((Term \cup {None}) \X Parts)
    PROVE  /\ PutTerms(uses) \in [UserTerms -> SUBSET Parts]
           /\ \A x \in UserTerms : terms[x] \subseteq PutTerms(uses)[x]
           /\ \A x \in UserTerms, u \in Parts : <<x, u>> \in uses => u \in PutTerms(uses)[x]
<1>1. terms \in [UserTerms -> SUBSET Parts]
      BY DEF TypeOK
<1>2. ASSUME NEW x \in UserTerms, NEW u \in Parts, <<x, u>> \in uses
      PROVE  u \in {v[2] : v \in {w \in uses : w[1] = x}}
  <2>1. <<x, u>>[1] = x /\ <<x, u>>[2] = u
        OBVIOUS
  <2> QED BY <1>2, <2>1
<1>3. \A v \in uses : v[2] \in Parts
      OBVIOUS
<1> QED BY <1>1, <1>2, <1>3 DEF PutTerms

----------------------------------------------------------------------------
(* Where names occur. *)

IsAlias(x) == \E r \in referents : r.refers = x
InUse(x) == x \in Tags \/ (\E r \in relations : r.modifier = x) \/ IsAlias(x)

\* Every place where a name may occur is one that names a tag, but for the
\* modifiers of relations and the aliases.
LEMMA OccurrenceInUse ==
    /\ \A x \in Term : Occurrence(x) \subseteq Parts
    /\ \A x \in Term : "REFERS" \in Occurrence(x) <=> IsAlias(x)
    /\ ReferencesExist => \A x \in Term : Occurrence(x) # {} <=> InUse(x)
<1>1. ASSUME NEW x \in Term
      PROVE  Occurrence(x) \subseteq Parts
      BY DEF Occurrence, Parts
<1>2. ASSUME NEW x \in Term
      PROVE  "REFERS" \in Occurrence(x) <=> IsAlias(x)
      BY DEF Occurrence, IsAlias
<1>3. ASSUME ReferencesExist, NEW x \in Term
      PROVE  Occurrence(x) # {} <=> InUse(x)
  <2>1. CASE InUse(x)
    <3>1. CASE x \in Tags
          BY <2>1, <3>1 DEF Occurrence
    <3>2. CASE \E r \in relations : r.modifier = x
          BY <2>1, <3>2 DEF Occurrence
    <3>3. CASE IsAlias(x)
          BY <2>1, <3>3 DEF Occurrence, IsAlias
    <3> QED BY <2>1, <3>1, <3>2, <3>3 DEF InUse
  <2>2. CASE ~ InUse(x)
    <3>1. /\ x \notin Tags
          /\ \A y \in Tags : sub_relator[y] # x /\ super_object[y] # x
          /\ \A r \in relations : r.subject # x /\ r.relator # x /\ r.object # x /\ r.modifier # x
          /\ \A r \in referents : r.refers # x /\ r.refers_to # x /\ r.context # x
          BY <1>3, <2>2 DEF InUse, IsAlias, ReferencesExist
    <3>2. Occurrence(x) = {}
          BY <3>1 DEF Occurrence
    <3> QED BY <2>2, <3>2
  <2> QED BY <2>1, <2>2
<1> QED BY <1>1, <1>2, <1>3

\* NamesKnown, in these terms.
LEMMA NamesKnownInUse ==
    ReferencesExist =>
      (NamesKnown <=> \A x \in UserTerms : /\ InUse(x) => terms[x] # {}
                                           /\ IsAlias(x) => "REFERS" \in terms[x])
BY OccurrenceInUse DEF NamesKnown, Term

\* The same of the next state.
LEMMA NextNamesKnown ==
    /\ \A x \in Term : Occurrence(x)' \subseteq Parts
    /\ ReferencesExist' => \A x \in Term : Occurrence(x)' # {} <=> InUse(x)'
    /\ \A x \in Term : "REFERS" \in Occurrence(x)' <=> IsAlias(x)'
    /\ ReferencesExist' =>
          (NamesKnown' <=> \A x \in UserTerms : /\ InUse(x)' => terms'[x] # {}
                                                /\ IsAlias(x)' => "REFERS" \in terms'[x])
<1>1. (/\ \A x \in Term : Occurrence(x) \subseteq Parts
       /\ \A x \in Term : "REFERS" \in Occurrence(x) <=> IsAlias(x)
       /\ ReferencesExist => \A x \in Term : Occurrence(x) # {} <=> InUse(x))'
      BY OccurrenceInUse, PTL
<1>2. (ReferencesExist =>
        (NamesKnown <=> \A x \in UserTerms : /\ InUse(x) => terms[x] # {}
                                             /\ IsAlias(x) => "REFERS" \in terms[x]))'
      BY NamesKnownInUse, PTL
<1> QED BY <1>1, <1>2

----------------------------------------------------------------------------
(* What get() and the checks of put() establish. *)

\* get() of a name that is not a tag does not succeed, and "not found" is
\* said only of names that no tag has: terms has the names of all tags.
LEMMA GetMeaning ==
    ASSUME StoreInv, NEW x \in Term
    PROVE  /\ Get(x) = "TAGD_OK" => x \in Tags
           /\ Get(x) = "TS_NOT_FOUND" => x \in UserTerms \ Tags
           /\ Get(x) \in Codes
<1>1. {Entity} \cup HardTags \subseteq Tags
      BY DEF StoreInv, Control
<1>2. x \in UserTerms /\ x \in Tags => terms[x] # {}
      BY NamesKnownInUse DEF StoreInv, InUse
<1> QED BY <1>1, <1>2 DEF Get, Term, Codes

\* What put() inserts is new, and goes under a tag.
LEMMA InsertMeaning ==
    ASSUME StoreInv, NEW t \in Request, IsInsert(t)
    PROVE  t.id \in UserTerms \ Tags /\ t.super \in Tags
<1>1. t.id \in Term /\ t.super \in Term \cup {None}
      BY DEF Request
<1>2. t.id \in UserTerms \ Tags
      BY <1>1, GetMeaning DEF IsInsert
<1>3. t.super # None /\ Get(t.super) # "TS_NOT_FOUND" /\ Get(t.super) # "TS_AMBIGUOUS"
      BY DEF IsInsert, Rejection
<1>4. Get(t.super) = "TAGD_OK"
      BY <1>3 DEF Get
<1> QED BY <1>1, <1>2, <1>3, <1>4, GetMeaning

\* What update() moves is a tag, and goes under another one.
LEMMA MoveMeaning ==
    ASSUME StoreInv, NEW t \in Request, IsMove(t)
    PROVE  t.id \in Tags /\ t.super \in Tags /\ (t.id = t.super => t.id = Entity)
<1>1. t.id \in Term /\ t.super \in Term \cup {None}
      BY DEF Request
<1>2. t.id \in Tags
      BY <1>1, GetMeaning DEF IsMove
<1>3. t.super # None /\ Get(t.super) # "TS_NOT_FOUND" /\ Get(t.super) # "TS_AMBIGUOUS"
      BY DEF IsMove, Rejection
<1>4. Get(t.super) = "TAGD_OK"
      BY <1>3 DEF Get
<1>5. t.id = t.super => t.id = Entity
      BY DEF IsMove, Rejection
<1> QED BY <1>1, <1>2, <1>3, <1>4, <1>5, GetMeaning

\* The code of an early return is a code.
LEMMA RejectionType ==
    ASSUME StoreInv, NEW t
    PROVE  Rejection(t) \in Codes
BY DEF Rejection, Codes

\* put() is at a stage of its own after each step.
LEMMA FinishType ==
    ASSUME NEW c \in Codes, Finish(c)
    PROVE  call' \in Call /\ call'.stage = "idle" /\ code' \in Codes
BY DEF Finish, Idle, Call, Request, Codes, Term

LEMMA IdleType == Idle \in Call /\ Idle.stage = "idle"
BY DEF Idle, Call, Request, Codes, Term

LEMMA ContinueType ==
    ASSUME NEW t \in Request, NEW new \in BOOLEAN, Continue(t, new)
    PROVE  call' \in Call /\ call'.tag = t /\ call'.stage # "tag"
BY DEF Continue, Call, Request, Codes

----------------------------------------------------------------------------
(* Steps that leave the tables as they are. *)

LEMMA KeepTables ==
    ASSUME StoreInv, UNCHANGED tables,
           context' \in Seq(Term), call' \in Call, code' \in Codes,
           call'.stage # "idle" => call'.tag.id \in Tags,
           call'.stage = "tag" => call'.tag.super \in Tags
    PROVE  StoreInv'
<1>1. Tags' = Tags
      BY DEF Tags, tables
<1>2. TypeOK'
      BY DEF StoreInv, TypeOK, tables
<1>3. Control'
      BY <1>1 DEF StoreInv, Control, tables
<1>4. ReferencesExist'
      BY <1>1 DEF StoreInv, ReferencesExist, tables
<1>5. NamesKnown'
  <2>1. \A x \in Term : Occurrence(x)' = Occurrence(x)
        BY <1>1 DEF Occurrence, tables
  <2> QED BY <2>1 DEF StoreInv, NamesKnown, Term, tables
<1> QED BY <1>2, <1>3, <1>4, <1>5 DEF StoreInv

\* put() that returns early, or that has only relations to insert.
LEMMA PutChecks ==
    ASSUME StoreInv, NEW t \in Request,
           PutRejected(t) \/ PutRelations(t) \/ PutRankError(t) \/ PutAborts(t)
             \/ UpdateRanksFails(t) \/ SkipRanks(t)
    PROVE  StoreInv'
<1>0. context \in Seq(Term) /\ code \in Codes
      BY DEF StoreInv, TypeOK
<1>1. CASE PutRejected(t)
      BY <1>0, <1>1, RejectionType, FinishType, KeepTables DEF PutRejected
<1>2. CASE PutRelations(t)
  <2>1. t.id \in Tags
        BY <1>2, GetMeaning DEF PutRelations, Request
  <2>2. call' \in Call /\ call'.tag = t /\ call'.stage # "tag"
        BY <1>2, ContinueType DEF PutRelations
  <2> QED BY <1>0, <1>2, <2>1, <2>2, KeepTables DEF PutRelations
<1>3. CASE PutRankError(t)
      BY <1>0, <1>3, FinishType, KeepTables DEF PutRankError, Codes
<1>4. CASE PutAborts(t)
  <2>1. <<>> \in Seq(Term)
        OBVIOUS
  <2>2. context' = <<>> /\ call' = Idle /\ code' = code /\ UNCHANGED tables
        BY <1>4 DEF PutAborts
  <2> QED BY <1>0, <2>1, <2>2, IdleType, KeepTables
<1>5. CASE UpdateRanksFails(t)
      BY <1>0, <1>5, FinishType, KeepTables DEF UpdateRanksFails, Codes
<1>6. CASE SkipRanks(t)
  <2>1. t.id \in Tags /\ t.super \in Tags
        BY <1>6, MoveMeaning DEF SkipRanks
  <2>2. call' = [Idle EXCEPT !.stage = "tag", !.tag = t]
        BY <1>6 DEF SkipRanks
  <2>3. call' \in Call /\ call'.tag = t
        BY <2>2 DEF Idle, Call, Codes
  <2> QED BY <1>0, <1>6, <2>1, <2>3, KeepTables DEF SkipRanks
<1> QED BY <1>1, <1>2, <1>3, <1>4, <1>5, <1>6

\* The second statement of update() is refused; the process ends; del()
\* returns early; contexts come and go.
LEMMA OtherKeeps ==
    ASSUME StoreInv,
           UpdateTagFails \/ Crash \/ Sessions
    PROVE  StoreInv'
<1>0. context \in Seq(Term) /\ code \in Codes
      BY DEF StoreInv, TypeOK
<1>1. CASE UpdateTagFails
      BY <1>0, <1>1, FinishType, KeepTables DEF UpdateTagFails, Codes
<1>2. CASE Crash
  <2>1. <<>> \in Seq(Term)
        OBVIOUS
  <2>2. context' = <<>> /\ call' = Idle /\ code' = code /\ UNCHANGED tables
        BY <1>2 DEF Crash
  <2> QED BY <1>0, <2>1, <2>2, IdleType, KeepTables
<1>3. ASSUME NEW c \in Contexts, PushContext(c)
      PROVE  StoreInv'
  <2>1. c \in Term
        OBVIOUS
  <2>2. context' \in Seq(Term)
        BY <1>0, <1>3, <2>1 DEF PushContext
  <2>3. PICK k \in Codes : Finish(k)
        BY <1>3 DEF PushContext, Codes
  <2> QED BY <1>3, <2>2, <2>3, FinishType, KeepTables DEF PushContext
<1>4. CASE PopContext
  <2>1. Len(context) \in Nat /\ context # <<>>
        BY <1>0, <1>4 DEF PopContext
  <2>2. context' \in Seq(Term)
        BY <1>0, <1>4, <2>1 DEF PopContext, Front
  <2> QED BY <1>4, <2>2, FinishType, KeepTables DEF PopContext, Codes
<1>5. CASE ClearContext
  <2>1. context' \in Seq(Term)
        BY <1>5 DEF ClearContext
  <2> QED BY <1>5, <2>1, FinishType, KeepTables DEF ClearContext, Codes
<1> QED BY <1>1, <1>2, <1>3, <1>4, <1>5 DEF Sessions

\* del() that returns early.
LEMMA DelChecks ==
    ASSUME StoreInv, NEW name \in Names, NEW P \in RelationSets,
           DelTagRejected(name) \/ DelRelationsRejected(name, P)
    PROVE  StoreInv'
<1>0. context \in Seq(Term)
      BY DEF StoreInv, TypeOK
<1>1. Decode(name) \in Term
      BY DecodeType DEF StoreInv, Term
<1>2. Get(Decode(name)) \in Codes
      BY <1>1, GetMeaning
<1>3. CASE DelTagRejected(name)
  <2>1. DelTagRejection(name, Decode(name)) \in Codes
        BY <1>2 DEF DelTagRejection, Codes
  <2> QED BY <1>0, <1>3, <2>1, FinishType, KeepTables DEF DelTagRejected
<1>4. CASE DelRelationsRejected(name, P)
  <2>1. PICK k \in Codes : Finish(k)
        BY <1>2, <1>4 DEF DelRelationsRejected, Codes
  <2> QED BY <1>0, <1>4, <2>1, FinishType, KeepTables DEF DelRelationsRejected
<1> QED BY <1>3, <1>4

LEMMA DelReferentRejectedKeeps ==
    ASSUME StoreInv, NEW q, DelReferentRejected(q)
    PROVE  StoreInv'
<1>1. context \in Seq(Term)
      BY DEF StoreInv, TypeOK
<1>2. PICK k \in Codes : Finish(k)
      BY DEF DelReferentRejected, Codes
<1> QED BY <1>1, <1>2, FinishType, KeepTables DEF DelReferentRejected

----------------------------------------------------------------------------
(* The two ways in which terms changes. *)

\* A step after which more names occur puts them in terms.
LEMMA TermsGrow ==
    ASSUME StoreInv, ReferencesExist',
           NEW uses \in SUBSET ((Term \cup {None}) \X Parts), terms' = PutTerms(uses),
           \A x \in UserTerms : InUse(x)' => InUse(x) \/ \E u \in Parts : <<x, u>> \in uses,
           \A x \in UserTerms : IsAlias(x)' => IsAlias(x) \/ <<x, "REFERS">> \in uses
    PROVE  NamesKnown' /\ terms' \in [UserTerms -> SUBSET Parts]
<1>1. /\ terms' \in [UserTerms -> SUBSET Parts]
      /\ \A x \in UserTerms : terms[x] \subseteq terms'[x]
      /\ \A x \in UserTerms, u \in Parts : <<x, u>> \in uses => u \in terms'[x]
      BY PutTermsAdds DEF StoreInv
<1>2. \A x \in UserTerms : /\ InUse(x) => terms[x] # {}
                           /\ IsAlias(x) => "REFERS" \in terms[x]
      BY NamesKnownInUse DEF StoreInv
<1>3. "REFERS" \in Parts
      BY DEF Parts
<1>4. \A x \in UserTerms : /\ InUse(x)' => terms'[x] # {}
                           /\ IsAlias(x)' => "REFERS" \in terms'[x]
  <2>1. SUFFICES ASSUME NEW x \in UserTerms
                 PROVE  /\ InUse(x)' => terms'[x] # {}
                        /\ IsAlias(x)' => "REFERS" \in terms'[x]
        OBVIOUS
  <2>2. /\ terms[x] \subseteq terms'[x]
        /\ \A u \in Parts : <<x, u>> \in uses => u \in terms'[x]
        BY <1>1
  <2>3. InUse(x)' => terms[x] # {} \/ \E u \in Parts : <<x, u>> \in uses
        BY <1>2
  <2>4. IsAlias(x)' => "REFERS" \in terms[x] \/ <<x, "REFERS">> \in uses
        BY <1>2
  <2> QED BY ONLY <1>3, <2>2, <2>3, <2>4
<1>5. NamesKnown'
      BY ONLY <1>4, ReferencesExist', NextNamesKnown
<1> QED BY <1>1, <1>5

\* A step after which fewer names occur counts again those of some names.
LEMMA TermsRecomputed ==
    ASSUME StoreInv, ReferencesExist', NEW affected, RecomputeTerms(affected),
           \A x \in UserTerms : (InUse(x)' => InUse(x)) /\ (IsAlias(x)' => IsAlias(x))
    PROVE  NamesKnown' /\ terms' \in [UserTerms -> SUBSET Parts]
<1>1. \A x \in UserTerms : terms'[x] = IF x \in affected THEN Occurrence(x)' ELSE terms[x]
      BY DEF RecomputeTerms
<1>2. \A x \in UserTerms : /\ InUse(x) => terms[x] # {}
                           /\ IsAlias(x) => "REFERS" \in terms[x]
      BY NamesKnownInUse DEF StoreInv
<1>3. terms' \in [UserTerms -> SUBSET Parts]
  <2>1. \A x \in UserTerms : terms[x] \subseteq Parts /\ Occurrence(x)' \subseteq Parts
        BY NextNamesKnown DEF StoreInv, TypeOK, Term
  <2> QED BY <2>1 DEF RecomputeTerms
<1>4. \A x \in UserTerms : /\ InUse(x)' => terms'[x] # {}
                           /\ IsAlias(x)' => "REFERS" \in terms'[x]
      BY <1>1, <1>2, NextNamesKnown DEF Term
<1> QED BY <1>3, <1>4, NextNamesKnown

----------------------------------------------------------------------------
(* The statements of put(). *)

LEMMA InsertKeeps ==
    ASSUME StoreInv, NEW t \in Request, InsertTag(t)
    PROVE  StoreInv'
<1> DEFINE uses == {<<t.id, "TAG">>, <<t.sub, "SUB_RELATOR">>, <<t.super, "SUB_OBJECT">>}
<1>1. t.id \in UserTerms \ Tags /\ t.super \in Tags /\ t.sub \in Tags \cup {t.id} /\ t.sub \in Term
      BY InsertMeaning DEF InsertTag, Request
<1>2. PICK r \in NextRanks(t.super) : rank' = [rank EXCEPT ![t.id] = r]
      BY DEF InsertTag
<1>3. /\ sub_relator' = [sub_relator EXCEPT ![t.id] = t.sub]
      /\ super_object' = [super_object EXCEPT ![t.id] = t.super]
      /\ UNCHANGED <<relations, referents, fts, context, code>>
      /\ terms' = PutTerms(uses)
      BY DEF InsertTag
<1>4. Tags' = Tags \cup {t.id}
      BY <1>1, <1>3 DEF StoreInv, TypeOK, Tags, Term
<1>5. ReferencesExist'
  <2>1. ASSUME NEW x \in Tags'
        PROVE  sub_relator'[x] \in Tags' /\ super_object'[x] \in Tags'
    <3>1. CASE x = t.id
          BY <1>1, <1>3, <1>4, <3>1 DEF StoreInv, TypeOK, Term
    <3>2. CASE x # t.id
      <4>1. x \in Tags /\ sub_relator'[x] = sub_relator[x] /\ super_object'[x] = super_object[x]
            BY <1>3, <1>4, <3>2 DEF StoreInv, TypeOK, Tags
      <4> QED BY <1>4, <4>1 DEF StoreInv, ReferencesExist
    <3> QED BY <3>1, <3>2
  <2> QED BY <1>3, <1>4, <2>1 DEF StoreInv, ReferencesExist
<1>6. uses \in SUBSET ((Term \cup {None}) \X Parts)
      BY <1>1 DEF Parts, Tags, Term
<1>7. \A x \in UserTerms : /\ InUse(x)' => InUse(x) \/ \E u \in Parts : <<x, u>> \in uses
                           /\ IsAlias(x)' => IsAlias(x) \/ <<x, "REFERS">> \in uses
      BY <1>3, <1>4 DEF InUse, IsAlias, Parts
<1>8. NamesKnown' /\ terms' \in [UserTerms -> SUBSET Parts]
      BY <1>3, <1>5, <1>6, <1>7, TermsGrow
<1>9. call' \in Call /\ call'.tag = t /\ call'.stage # "tag"
      BY ContinueType DEF InsertTag
<1>10. TypeOK'
  <2>1. r \in Seq(Nat)
        BY <1>1, <1>2, NextRanksType DEF StoreInv, TypeOK, Tags
  <2>2. rank' \in [Term -> Seq(Nat)]
        BY <1>2, <2>1 DEF StoreInv, TypeOK
  <2> QED BY <1>1, <1>3, <1>8, <1>9, <2>2 DEF StoreInv, TypeOK, Tags
<1>11. Control'
      BY <1>1, <1>3, <1>4, <1>9 DEF StoreInv, Control, TypeOK
<1> QED BY <1>5, <1>8, <1>10, <1>11 DEF StoreInv

LEMMA InsertFailsKeeps ==
    ASSUME StoreInv, NEW t \in Request, InsertTagFails(t)
    PROVE  StoreInv'
<1> DEFINE uses == {<<t.id, "TAG">>, <<t.sub, "SUB_RELATOR">>, <<t.super, "SUB_OBJECT">>}
<1>1. /\ UNCHANGED <<sub_relator, super_object, rank, relations, referents, fts, context>>
      /\ terms' = PutTerms(uses)
      BY DEF InsertTagFails
<1>2. Tags' = Tags
      BY <1>1 DEF Tags
<1>3. ReferencesExist'
      BY <1>1, <1>2 DEF StoreInv, ReferencesExist
<1>4. uses \in SUBSET ((Term \cup {None}) \X Parts)
      BY DEF Parts, Request
<1>5. \A x \in UserTerms : (InUse(x)' => InUse(x)) /\ (IsAlias(x)' => IsAlias(x))
      BY <1>1, <1>2 DEF InUse, IsAlias
<1>6. NamesKnown' /\ terms' \in [UserTerms -> SUBSET Parts]
      BY <1>1, <1>3, <1>4, <1>5, TermsGrow
<1>7. call' \in Call /\ call'.stage = "idle" /\ code' \in Codes
      BY FinishType DEF InsertTagFails, Codes
<1>8. TypeOK' /\ Control'
      BY <1>1, <1>2, <1>6, <1>7 DEF StoreInv, TypeOK, Control
<1> QED BY <1>3, <1>6, <1>8 DEF StoreInv

LEMMA UpdateRanksKeeps ==
    ASSUME StoreInv, NEW t \in Request, UpdateRanks(t)
    PROVE  StoreInv'
<1>1. t.id \in Tags /\ t.super \in Tags
      BY MoveMeaning DEF UpdateRanks
<1>2. PICK r \in NextRanks(t.super) : rank' = Shifted(Load(rank[t.id]), r)
      BY DEF UpdateRanks
<1>3. rank' \in [Term -> Seq(Nat)]
  <2>1. r \in Seq(Nat) /\ Load(rank[t.id]) \in Seq(Nat)
        BY <1>1, <1>2, NextRanksType, LoadType DEF StoreInv, TypeOK, Tags
  <2> QED BY <1>2, <2>1, ShiftedType DEF StoreInv, TypeOK
<1>4. /\ UNCHANGED <<sub_relator, super_object, terms, relations, referents, fts, context, code>>
      /\ call' = [Idle EXCEPT !.stage = "tag", !.tag = t]
      BY DEF UpdateRanks
<1>5. call' \in Call /\ call'.tag = t
      BY <1>4 DEF Idle, Call, Codes
<1>6. Tags' = Tags
      BY <1>4 DEF Tags
<1>7. TypeOK' /\ Control'
      BY <1>1, <1>3, <1>4, <1>5, <1>6 DEF StoreInv, TypeOK, Control
<1>8. ReferencesExist'
      BY <1>4, <1>6 DEF StoreInv, ReferencesExist
<1>9. NamesKnown'
  <2>1. \A x \in Term : Occurrence(x)' = Occurrence(x)
        BY <1>4, <1>6 DEF Occurrence
  <2> QED BY <1>4, <2>1 DEF StoreInv, NamesKnown, Term
<1> QED BY <1>7, <1>8, <1>9 DEF StoreInv

LEMMA UpdateTagKeeps ==
    ASSUME StoreInv, UpdateTag
    PROVE  StoreInv'
<1> DEFINE t == call.tag
<1>1. t \in Request /\ t.id \in Tags /\ t.super \in Tags /\ t.sub \in Tags
      BY DEF UpdateTag, StoreInv, TypeOK, Control, Call, RowAllowed
<1>2. /\ sub_relator' = [sub_relator EXCEPT ![t.id] = t.sub]
      /\ super_object' = [super_object EXCEPT ![t.id] = t.super]
      /\ UNCHANGED <<rank, terms, relations, referents, fts, context, code>>
      /\ t.id = Entity => t.super = Entity
      BY DEF UpdateTag, RowAllowed
<1>3. Tags' = Tags
      BY <1>1, <1>2 DEF StoreInv, TypeOK, Tags
<1>4. ReferencesExist'
  <2>1. ASSUME NEW x \in Tags
        PROVE  sub_relator'[x] \in Tags /\ super_object'[x] \in Tags
    <3>1. CASE x = t.id
          BY <1>1, <1>2, <3>1 DEF StoreInv, TypeOK, Tags
    <3>2. CASE x # t.id
      <4>1. sub_relator'[x] = sub_relator[x] /\ super_object'[x] = super_object[x]
            BY <1>2, <3>2 DEF StoreInv, TypeOK, Tags
      <4> QED BY <4>1 DEF StoreInv, ReferencesExist
    <3> QED BY <3>1, <3>2
  <2> QED BY <1>2, <1>3, <2>1 DEF StoreInv, ReferencesExist
<1>5. NamesKnown'
  <2>1. \A x \in UserTerms : (InUse(x)' => InUse(x)) /\ (IsAlias(x)' => IsAlias(x))
        BY <1>2, <1>3 DEF InUse, IsAlias
  <2> QED BY <1>2, <1>4, <2>1, NamesKnownInUse, NextNamesKnown DEF StoreInv
<1>6. call' \in Call /\ call'.tag = t /\ call'.stage # "tag"
      BY <1>1, ContinueType DEF UpdateTag
<1>7. TypeOK'
      BY <1>1, <1>2, <1>6 DEF StoreInv, TypeOK, Tags
<1>8. Control'
      BY <1>1, <1>2, <1>3, <1>6 DEF StoreInv, Control, TypeOK
<1> QED BY <1>4, <1>5, <1>7, <1>8 DEF StoreInv

\* The names of a relation, in the order of put_term.
LEMMA RelationTermsUses ==
    ASSUME StoreInv, NEW p \in call.todo
    PROVE  /\ p \in Predicate /\ call.tag.id \in Term
           /\ {<<call.tag.id, "SUBJECT">>, <<p.relator, "RELATED">>,
               <<p.object, "OBJECT">>, <<p.modifier, "MODIFIER">>}
                \in SUBSET ((Term \cup {None}) \X Parts)
<1>1. p \in Predicate /\ call.tag.id \in Term
      BY DEF StoreInv, TypeOK, Call, Request
<1> QED BY <1>1 DEF Predicate, Parts

\* The loop of insert_relations goes on, or is left for the search table.
LEMMA RelationDoneType ==
    ASSUME StoreInv, NEW p, NEW inserted \in BOOLEAN, RelationDone(p, inserted)
    PROVE  call' \in Call /\ call'.tag = call.tag /\ call'.stage # "tag"
BY DEF StoreInv, TypeOK, RelationDone, Call, Codes

LEMMA InsertRelationKeeps ==
    ASSUME StoreInv, NEW p \in call.todo, InsertRelation(p)
    PROVE  StoreInv'
<1> DEFINE uses == {<<call.tag.id, "SUBJECT">>, <<p.relator, "RELATED">>,
                    <<p.object, "OBJECT">>, <<p.modifier, "MODIFIER">>}
           row == [subject |-> call.tag.id, relator |-> p.relator,
                   object |-> p.object, modifier |-> p.modifier]
<1>1. p \in Predicate /\ call.tag.id \in Term /\ uses \in SUBSET ((Term \cup {None}) \X Parts)
      BY RelationTermsUses
<1>2. /\ relations' = relations \cup {row}
      /\ terms' = PutTerms(uses)
      /\ p.relator \in Tags /\ p.object \in Tags
      /\ UNCHANGED <<sub_relator, super_object, rank, referents, fts, context, code>>
      BY DEF InsertRelation, RelationTerms
<1>3. call.tag.id \in Tags
      BY DEF InsertRelation, StoreInv, Control
<1>4. Tags' = Tags
      BY <1>2 DEF Tags
<1>5. ReferencesExist'
      BY <1>2, <1>3, <1>4 DEF StoreInv, ReferencesExist
<1>6. \A x \in UserTerms : /\ InUse(x)' => InUse(x) \/ \E u \in Parts : <<x, u>> \in uses
                           /\ IsAlias(x)' => IsAlias(x) \/ <<x, "REFERS">> \in uses
  <2>1. "MODIFIER" \in Parts
        BY DEF Parts
  <2>2. \A x : IsAlias(x)' <=> IsAlias(x)
        BY <1>2 DEF IsAlias
  <2>3. ASSUME NEW x \in UserTerms, NEW r \in relations', r.modifier = x
        PROVE  (\E q \in relations : q.modifier = x) \/ <<x, "MODIFIER">> \in uses
        BY <1>2, <2>3
  <2> QED BY <1>4, <2>1, <2>2, <2>3 DEF InUse
<1>7. NamesKnown' /\ terms' \in [UserTerms -> SUBSET Parts]
      BY <1>1, <1>2, <1>5, <1>6, TermsGrow
<1>8. call' \in Call /\ call'.tag = call.tag /\ call'.stage # "tag"
      BY RelationDoneType DEF InsertRelation
<1>9. TypeOK'
  <2>1. row \in Relation
        BY <1>1 DEF Relation, Predicate
  <2> QED BY <1>2, <1>7, <1>8, <2>1 DEF StoreInv, TypeOK
<1>10. Control'
      BY <1>2, <1>3, <1>4, <1>8 DEF StoreInv, Control
<1> QED BY <1>5, <1>7, <1>9, <1>10 DEF StoreInv

LEMMA SkipRelationKeeps ==
    ASSUME StoreInv, NEW p \in call.todo, SkipDuplicate(p) \/ RelationUnknown(p)
    PROVE  StoreInv'
<1> DEFINE uses == {<<call.tag.id, "SUBJECT">>, <<p.relator, "RELATED">>,
                    <<p.object, "OBJECT">>, <<p.modifier, "MODIFIER">>}
<1>1. uses \in SUBSET ((Term \cup {None}) \X Parts)
      BY RelationTermsUses
<1>2. /\ terms' = PutTerms(uses)
      /\ UNCHANGED <<sub_relator, super_object, rank, relations, referents, fts, context, code>>
      BY DEF SkipDuplicate, RelationUnknown, RelationTerms
<1>3. call.tag.id \in Tags
      BY DEF SkipDuplicate, RelationUnknown, StoreInv, Control
<1>4. Tags' = Tags
      BY <1>2 DEF Tags
<1>5. ReferencesExist'
      BY <1>2, <1>4 DEF StoreInv, ReferencesExist
<1>6. \A x \in UserTerms : (InUse(x)' => InUse(x)) /\ (IsAlias(x)' => IsAlias(x))
      BY <1>2, <1>4 DEF InUse, IsAlias
<1>7. NamesKnown' /\ terms' \in [UserTerms -> SUBSET Parts]
      BY <1>1, <1>2, <1>5, <1>6, TermsGrow
<1>8. call' \in Call /\ call'.tag = call.tag /\ call'.stage # "tag"
  <2>1. CASE SkipDuplicate(p)
        BY <2>1, RelationDoneType DEF SkipDuplicate, StoreInv, TypeOK, Call
  <2>2. CASE RelationUnknown(p)
        BY <2>2 DEF RelationUnknown, StoreInv, TypeOK, Call, Codes
  <2> QED BY <2>1, <2>2
<1>9. TypeOK' /\ Control'
      BY <1>2, <1>3, <1>4, <1>7, <1>8 DEF StoreInv, TypeOK, Control
<1> QED BY <1>5, <1>7, <1>9 DEF StoreInv

LEMMA PutFtsKeeps ==
    ASSUME StoreInv, PutFts
    PROVE  StoreInv'
<1> DEFINE x == call.tag.id
<1>1. x \in Tags
      BY DEF PutFts, StoreInv, Control
<1>2. ContentOf(x) \in Content
  <2>1. sub_relator[x] \in Term /\ super_object[x] \in Term
        BY <1>1 DEF StoreInv, ReferencesExist, Tags
  <2>2. Predicates(x) \subseteq Predicate
        BY DEF StoreInv, TypeOK, Relation, Predicates, Predicate
  <2> QED BY <2>1, <2>2 DEF ContentOf, Content
<1>3. fts' \in [UserTerms -> {None} \cup Content]
      BY <1>2 DEF PutFts, StoreInv, TypeOK
<1>4. UNCHANGED <<sub_relator, super_object, rank, terms, relations, referents, context>>
      BY DEF PutFts
<1>5. call' \in Call /\ call'.stage = "idle" /\ code' \in Codes
  <2>1. call.rc \in Codes /\ Finish(call.rc)
        BY DEF PutFts, StoreInv, TypeOK, Call
  <2> QED BY <2>1, FinishType
<1>6. Tags' = Tags
      BY <1>4 DEF Tags
<1>7. TypeOK' /\ Control'
      BY <1>3, <1>4, <1>5, <1>6 DEF StoreInv, TypeOK, Control
<1>8. ReferencesExist'
      BY <1>4, <1>6 DEF StoreInv, ReferencesExist
<1>9. NamesKnown'
  <2>1. \A y \in Term : Occurrence(y)' = Occurrence(y)
        BY <1>4, <1>6 DEF Occurrence
  <2> QED BY <1>4, <2>1 DEF StoreInv, NamesKnown, Term
<1> QED BY <1>7, <1>8, <1>9 DEF StoreInv

----------------------------------------------------------------------------
(* Deletions and referents. *)

\* del() of a tag: what names the tag has gone with it or refused the deletion.
LEMMA DelTagKeeps ==
    ASSUME StoreInv, NEW x \in Names, DelTag(x)
    PROVE  StoreInv'
<1>1. x \in UserTerms /\ x \in Term /\ x # Entity /\ x \notin HardTags
      BY DEF Term
<1>2. ~ HasDependents(x)
      BY DEF DelTag, DelTagRejection
<1>3. /\ sub_relator' = [sub_relator EXCEPT ![x] = None]
      /\ super_object' = [super_object EXCEPT ![x] = None]
      /\ rank' = [rank EXCEPT ![x] = <<>>]
      /\ relations' = {r \in relations : r.subject # x}
      /\ referents' = {r \in referents : r.refers_to # x}
      /\ fts' = [fts EXCEPT ![x] = None]
      /\ context' = context
      /\ Finish("TAGD_OK")
      BY DEF DelTag
<1>4. Tags' = Tags \ {x}
      BY <1>1, <1>3 DEF StoreInv, TypeOK, Tags
<1>5. ReferencesExist'
  <2>1. ASSUME NEW y \in Tags'
        PROVE  sub_relator'[y] \in Tags' /\ super_object'[y] \in Tags'
    <3>1. y \in Tags /\ y # x /\ sub_relator'[y] = sub_relator[y] /\ super_object'[y] = super_object[y]
          BY <1>3, <1>4 DEF StoreInv, TypeOK, Tags
    <3>2. sub_relator[y] # x /\ super_object[y] # x
          BY <1>2, <3>1 DEF HasDependents
    <3> QED BY <1>4, <3>1, <3>2 DEF StoreInv, ReferencesExist
  <2>2. \A r \in relations' : {r.subject, r.relator, r.object} \subseteq Tags'
        BY <1>2, <1>3, <1>4 DEF HasDependents, StoreInv, ReferencesExist
  <2>3. \A r \in referents' : {r.refers_to, r.context} \subseteq Tags'
        BY <1>2, <1>3, <1>4 DEF HasDependents, StoreInv, ReferencesExist
  <2> QED BY <2>1, <2>2, <2>3 DEF ReferencesExist
<1>6. \A y \in UserTerms : (InUse(y)' => InUse(y)) /\ (IsAlias(y)' => IsAlias(y))
      BY <1>3, <1>4 DEF InUse, IsAlias
<1>7. PICK affected : RecomputeTerms(affected)
      BY DEF DelTag
<1>8. NamesKnown' /\ terms' \in [UserTerms -> SUBSET Parts]
      BY <1>5, <1>6, <1>7, TermsRecomputed
<1>9. call' \in Call /\ call'.stage = "idle" /\ code' \in Codes
      BY <1>3, FinishType DEF Codes
<1>10. TypeOK'
  <2>1. <<>> \in Seq(Nat)
        OBVIOUS
  <2>2. rank' \in [Term -> Seq(Nat)]
        BY <1>3, <2>1 DEF StoreInv, TypeOK
  <2> QED BY <1>3, <1>8, <1>9, <2>2 DEF StoreInv, TypeOK
<1>11. Control'
      BY <1>1, <1>3, <1>4, <1>9 DEF StoreInv, Control, TypeOK
<1> QED BY <1>5, <1>8, <1>10, <1>11 DEF StoreInv

\* del() of relations.
LEMMA DelRelationsKeeps ==
    ASSUME StoreInv, NEW name \in Names, NEW P \in RelationSets, DelRelations(name, P)
    PROVE  StoreInv'
<1>1. /\ relations' \subseteq relations
      /\ UNCHANGED <<sub_relator, super_object, rank, referents, fts, context>>
      /\ Finish("TAGD_OK")
      BY DEF DelRelations
<1>2. Tags' = Tags
      BY <1>1 DEF Tags
<1>3. ReferencesExist'
      BY <1>1, <1>2 DEF StoreInv, ReferencesExist
<1>4. \A y \in UserTerms : (InUse(y)' => InUse(y)) /\ (IsAlias(y)' => IsAlias(y))
      BY <1>1, <1>2 DEF InUse, IsAlias
<1>5. PICK affected : RecomputeTerms(affected)
      BY DEF DelRelations
<1>6. NamesKnown' /\ terms' \in [UserTerms -> SUBSET Parts]
      BY <1>3, <1>4, <1>5, TermsRecomputed
<1>7. call' \in Call /\ call'.stage = "idle" /\ code' \in Codes
      BY <1>1, FinishType DEF Codes
<1>8. TypeOK' /\ Control'
      BY <1>1, <1>2, <1>6, <1>7 DEF StoreInv, TypeOK, Control
<1> QED BY <1>3, <1>6, <1>8 DEF StoreInv

\* put() of a referent, whether its row is inserted or not.
LEMMA PutReferentKeeps ==
    ASSUME StoreInv, NEW r \in Referent, PutReferent(r)
    PROVE  StoreInv'
<1> DEFINE uses == {<<r.refers, "REFERS">>, <<r.refers_to, "REFERS_TO">>, <<r.context, "CONTEXT">>}
<1>1. /\ UNCHANGED <<sub_relator, super_object, rank, relations, fts, context>>
      /\ referents' = IF PutReferentCode(r) = "TAGD_OK" THEN referents \cup {r} ELSE referents
      /\ terms' = IF PutReferentMisuse(r) THEN terms ELSE PutTerms(uses)
      /\ Finish(PutReferentCode(r))
      BY DEF PutReferent
<1>2. Tags' = Tags
      BY <1>1 DEF Tags
<1>3. PutReferentCode(r) = "TAGD_OK" => /\ ~ PutReferentMisuse(r)
                                        /\ r.refers_to \in Tags /\ r.context \in Tags
      BY DEF PutReferentCode
<1>4. ReferencesExist'
      BY <1>1, <1>2, <1>3 DEF StoreInv, ReferencesExist
<1>5. uses \in SUBSET ((Term \cup {None}) \X Parts)
      BY DEF Parts, Referent
<1>6. NamesKnown' /\ terms' \in [UserTerms -> SUBSET Parts]
  <2>1. CASE PutReferentMisuse(r)
    <3>1. referents' = referents /\ terms' = terms
          BY <1>1, <1>3, <2>1
    <3>2. \A x \in UserTerms : (InUse(x)' <=> InUse(x)) /\ (IsAlias(x)' <=> IsAlias(x))
          BY <1>1, <1>2, <3>1 DEF InUse, IsAlias
    <3> QED BY <1>4, <3>1, <3>2, NamesKnownInUse, NextNamesKnown DEF StoreInv, TypeOK
  <2>2. CASE ~ PutReferentMisuse(r)
    <3>1. \A x : IsAlias(x)' => IsAlias(x) \/ <<x, "REFERS">> \in uses
          BY <1>1 DEF IsAlias
    <3>2. "REFERS" \in Parts
          BY DEF Parts
    <3>3. \A x : InUse(x)' => InUse(x) \/ \E u \in Parts : <<x, u>> \in uses
          BY <1>1, <1>2, <3>1, <3>2 DEF InUse
    <3> QED BY <1>1, <1>4, <1>5, <2>2, <3>1, <3>3, TermsGrow
  <2> QED BY <2>1, <2>2
<1>7. call' \in Call /\ call'.stage = "idle" /\ code' \in Codes
  <2>1. PutReferentCode(r) \in Codes
        BY DEF PutReferentCode, Codes
  <2> QED BY <1>1, <2>1, FinishType
<1>8. TypeOK' /\ Control'
      BY <1>1, <1>2, <1>6, <1>7 DEF StoreInv, TypeOK, Control
<1> QED BY <1>4, <1>6, <1>8 DEF StoreInv

\* del() of referents.
LEMMA DelReferentKeeps ==
    ASSUME StoreInv, NEW q, DelReferent(q)
    PROVE  StoreInv'
<1>1. /\ referents' \subseteq referents
      /\ UNCHANGED <<sub_relator, super_object, rank, relations, fts, context>>
      /\ Finish("TAGD_OK")
      BY DEF DelReferent
<1>2. Tags' = Tags
      BY <1>1 DEF Tags
<1>3. ReferencesExist'
      BY <1>1, <1>2 DEF StoreInv, ReferencesExist
<1>4. \A y \in UserTerms : (InUse(y)' => InUse(y)) /\ (IsAlias(y)' => IsAlias(y))
      BY <1>1, <1>2 DEF InUse, IsAlias
<1>5. PICK affected : RecomputeTerms(affected)
      BY DEF DelReferent
<1>6. NamesKnown' /\ terms' \in [UserTerms -> SUBSET Parts]
      BY <1>3, <1>4, <1>5, TermsRecomputed
<1>7. call' \in Call /\ call'.stage = "idle" /\ code' \in Codes
      BY <1>1, FinishType DEF Codes
<1>8. TypeOK' /\ Control'
      BY <1>1, <1>2, <1>6, <1>7 DEF StoreInv, TypeOK, Control
<1> QED BY <1>3, <1>6, <1>8 DEF StoreInv

----------------------------------------------------------------------------
(* The invariant holds, of every number of names and of every bound. *)

USE SeedAssumption

\* The store that the model starts with.
LEMMA InitStore == Init => StoreInv
<1> SUFFICES ASSUME Init
             PROVE  StoreInv
    OBVIOUS
<1>1. Tags = SeedTags /\ SeedTags \subseteq Term
      BY DEF Init, Tags, SeedTags
<1>2. ReferencesExist
      BY <1>1 DEF Init, ReferencesExist
<1>3. Control
      BY <1>1 DEF Init, Control, Idle
<1>4. NamesKnown
      BY DEF Init, NamesKnown
<1>5. TypeOK
  <2>1. terms \in [UserTerms -> SUBSET Parts]
        BY OccurrenceInUse DEF Init, Term
  <2>2. fts \in [UserTerms -> {None} \cup Content]
    <3>1. ASSUME NEW x \in UserTerms, x \in Tags
          PROVE  ContentOf(x) \in Content
      <4>1. sub_relator[x] \in Term /\ super_object[x] \in Term
            BY <1>1, <1>2, <3>1 DEF ReferencesExist
      <4>2. Predicates(x) = {}
            BY DEF Init, Predicates
      <4> QED BY <4>1, <4>2 DEF ContentOf, Content
    <3> QED BY <3>1 DEF Init
  <2>3. context \in Seq(Term) /\ code \in Codes
        BY DEF Init, Codes
  <2>4. relations \subseteq Relation /\ referents \subseteq Referent
        BY DEF Init
  <2>5. call \in Call
        BY IdleType DEF Init
  <2> QED BY <2>1, <2>2, <2>3, <2>4, <2>5 DEF Init, TypeOK
<1> QED BY <1>2, <1>3, <1>4, <1>5 DEF StoreInv

\* Requests in referents are referents.
LEMMA ReferentType ==
    ASSUME TypeOK, NEW a \in Aliases, NEW x \in AliasTargets, NEW c \in Contexts
    PROVE  [refers |-> a, refers_to |-> Decode(x), context |-> Decode(c)] \in Referent
BY DecodeType DEF Referent, Term

\* Every step preserves the invariant.
LEMMA NextStore == StoreInv /\ [Next]_vars => StoreInv'
<1> SUFFICES ASSUME StoreInv, [Next]_vars
             PROVE  StoreInv'
    OBVIOUS
<1>1. CASE Put
  <2>1. PICK x \in Names, sub \in SubRelators, super \in Supers, P \in RelationSets :
          PutTag([id |-> Decode(x), sub |-> Decode(sub), super |-> Decode(super),
                  relations |-> DecodePredicates(P)])
        BY <1>1 DEF Put
  <2>2. PICK t \in Request : PutTag(t)
        BY <2>1, RequestType DEF StoreInv
  <2>3. CASE InsertTag(t)
        BY <2>3, InsertKeeps
  <2>4. CASE InsertTagFails(t)
        BY <2>4, InsertFailsKeeps
  <2>5. CASE UpdateRanks(t)
        BY <2>5, UpdateRanksKeeps
  <2>6. CASE PutRejected(t) \/ PutRelations(t) \/ PutRankError(t) \/ PutAborts(t)
               \/ UpdateRanksFails(t) \/ SkipRanks(t)
        BY <2>6, PutChecks
  <2> QED BY <2>2, <2>3, <2>4, <2>5, <2>6 DEF PutTag
<1>2. CASE PutStatement
  <2>1. CASE UpdateTag
        BY <2>1, UpdateTagKeeps
  <2>2. CASE UpdateTagFails
        BY <2>2, OtherKeeps
  <2>3. ASSUME NEW p \in call.todo, InsertRelation(p)
        PROVE  StoreInv'
        BY <2>3, InsertRelationKeeps
  <2>4. ASSUME NEW p \in call.todo, SkipDuplicate(p) \/ RelationUnknown(p)
        PROVE  StoreInv'
        BY <2>4, SkipRelationKeeps
  <2>5. CASE PutFts
        BY <2>5, PutFtsKeeps
  <2> QED BY <1>2, <2>1, <2>2, <2>3, <2>4, <2>5 DEF PutStatement
<1>3. CASE Del
  <2>1. PICK x \in Names : \/ DelTagRejected(x) \/ DelTag(x)
                           \/ \E P \in RelationSets : DelRelationsRejected(x, P) \/ DelRelations(x, P)
        BY <1>3 DEF Del
  <2>2. CASE DelTagRejected(x)
        BY <2>2, DelChecks
  <2>3. CASE DelTag(x)
        BY <2>3, DelTagKeeps
  <2>4. ASSUME NEW P \in RelationSets, DelRelationsRejected(x, P)
        PROVE  StoreInv'
        BY <2>4, DelChecks
  <2>5. ASSUME NEW P \in RelationSets, DelRelations(x, P)
        PROVE  StoreInv'
        BY <2>5, DelRelationsKeeps
  <2> QED BY <2>1, <2>2, <2>3, <2>4, <2>5
<1>4. CASE PutReferents
  <2>1. PICK r \in Referent : PutReferent(r)
        BY <1>4, ReferentType DEF PutReferents, StoreInv
  <2> QED BY <2>1, PutReferentKeeps
<1>5. CASE DelReferents
  <2>1. PICK q : DelReferent(q) \/ DelReferentRejected(q)
        BY <1>5 DEF DelReferents
  <2> QED BY <2>1, DelReferentKeeps, DelReferentRejectedKeeps
<1>6. CASE Sessions \/ Crash
      BY <1>6, OtherKeeps
<1>7. CASE UNCHANGED vars
      BY <1>7, KeepTables DEF vars, StoreInv, TypeOK, Control
<1> QED BY <1>1, <1>2, <1>3, <1>4, <1>5, <1>6, <1>7 DEF Next

LEMMA StoreInvariant == Spec => []StoreInv
<1>1. Init => StoreInv
      BY InitStore
<1>2. StoreInv /\ [Next]_vars => StoreInv'
      BY NextStore
<1> QED BY <1>1, <1>2, PTL DEF Spec

\* Every table holds rows of its own kind, and put() is at one of its stages.
THEOREM TypeCorrect == Spec => []TypeOK
<1>1. StoreInv => TypeOK
      BY DEF StoreInv
<1> QED BY <1>1, StoreInvariant, PTL

\* No row refers to a tag that is gone, between the statements of a put() and
\* after the process has ended in one too.
THEOREM ReferencesStay == Spec => []ReferencesExist
<1>1. StoreInv => ReferencesExist
      BY DEF StoreInv
<1> QED BY <1>1, StoreInvariant, PTL

\* Every name in a column of a table can be looked up, although put(), del()
\* and the referents keep the table terms with statements of their own.
THEOREM NamesStayKnown == Spec => []NamesKnown
<1>1. StoreInv => NamesKnown
      BY DEF StoreInv
<1> QED BY <1>1, StoreInvariant, PTL

----------------------------------------------------------------------------
(* The tags table implements the tree. *)

\* The tags that the model starts with are one tree: the ranks of its other
\* tags have one level more than those of their super objects, and in a set
\* of tags one has the fewest levels.
LEMMA SeedIsTree == Init => Tree!Init
<1> SUFFICES ASSUME Init
             PROVE  Tree!Init
    OBVIOUS
<1>1. Tree!Present = SeedTags /\ SeedTags \subseteq Term
      BY DEF Init, Tree!Present, SeedTags
<1>2. ASSUME NEW S \in SUBSET (SeedTags \ {Entity}), S # {}
      PROVE  \E x \in S : SeedSuper[x] \notin S
  <2> DEFINE Levels == {Len(SeedRank[x]) : x \in S}
  <2>1. \A x \in S : SeedRank[x] \in Seq(Nat) /\ Len(SeedRank[x]) \in Nat
        BY <1>1
  <2>2. PICK n \in Levels : \A m \in Levels : n <= m
    <3>1. Levels \subseteq Nat
          BY <2>1
    <3>2. PICK x : x \in S
          BY <1>2
    <3>3. Len(SeedRank[x]) \in Levels
          BY <3>2
    <3> HIDE DEF Levels
    <3> QED BY <3>1, <3>3, LeastNumber
  <2>3. PICK x \in S : Len(SeedRank[x]) = n
        BY <2>2
  <2>4. x \in SeedTags \ {Entity} /\ SeedSuper[x] \in SeedTags /\ SeedSuper[x] \in Term
        BY <1>1
  <2>5. SeedRank[x] = Append(SeedRank[SeedSuper[x]], Last(SeedRank[x]))
        BY <2>4 DEF IsLevelBelow
  <2>6. Len(SeedRank[x]) = Len(SeedRank[SeedSuper[x]]) + 1
    <3>1. SeedRank[SeedSuper[x]] \in Seq(Nat)
          BY <2>4
    <3> HIDE SeedAssumption
    <3> QED BY <2>5, <3>1
  <2>7. ASSUME SeedSuper[x] \in S
        PROVE  FALSE
    <3>1. Len(SeedRank[SeedSuper[x]]) \in Levels /\ Len(SeedRank[SeedSuper[x]]) \in Nat
          BY <2>1, <2>7
    <3>2. Len(SeedRank[x]) <= Len(SeedRank[SeedSuper[x]])
          BY <2>2, <2>3, <3>1
    <3> QED BY <2>6, <3>1, <3>2
  <2> QED BY <2>7
<1> QED BY <1>1, <1>2 DEF Init, Tree!Init, Tree!Rooted

\* What update() is about to write keeps the tree: its callers, unless the
\* instance says so, do not put a tag under one of its own descendants.
MoveSound ==
    call.stage = "tag" =>
      \/ call.tag.id = Entity /\ call.tag.super = Entity
      \/ ~ Tree!Above(call.tag.id, call.tag.super)

\* The first statement of update() leaves the super objects as they are.
LEMMA MoveStaysSound ==
    ASSUME "ownSubtree" \notin Hazards, StoreInv, MoveSound, [Next]_vars
    PROVE  MoveSound'
<1>1. ASSUME NEW t \in Request, UpdateRanks(t) \/ SkipRanks(t)
      PROVE  MoveSound'
  <2>1. super_object' = super_object /\ call'.tag = t
        BY <1>1 DEF UpdateRanks, SkipRanks, Idle, tables
  <2>2. IsMove(t) /\ (t.id = t.super \/ ~ Tree!Above(t.id, t.super))
        BY <1>1 DEF UpdateRanks, SkipRanks, Disciplined
  <2>3. t.id = t.super => t.id = Entity
        BY <2>2, MoveMeaning
  <2> QED BY <2>1, <2>2, <2>3 DEF MoveSound, Tree!Above, Tree!Present, Tree!UpClosed
<1>2. CASE UNCHANGED vars
      BY <1>2 DEF MoveSound, vars, tables, Tree!Above, Tree!Present, Tree!UpClosed
<1>3. CASE call'.stage # "tag"
      BY <1>3 DEF MoveSound
<1>4. CASE Put
  <2>1. PICK t \in Request : PutTag(t)
        BY <1>4, RequestType DEF Put, StoreInv
  <2>2. CASE UpdateRanks(t) \/ SkipRanks(t)
        BY <1>1, <2>2
  <2>3. CASE ~ (UpdateRanks(t) \/ SkipRanks(t))
    <3>1. call'.stage # "tag"
          BY <2>1, <2>3 DEF PutTag, PutRejected, PutRelations, PutRankError, PutAborts,
                            InsertTag, InsertTagFails, UpdateRanksFails, Finish, Continue, Idle
    <3> QED BY <1>3, <3>1
  <2> QED BY <2>2, <2>3
<1>5. CASE PutStatement
  <2>1. CASE UpdateTag \/ UpdateTagFails \/ PutFts
    <3>1. call'.stage # "tag"
          BY <2>1 DEF UpdateTag, UpdateTagFails, PutFts, Finish, Continue, Idle
    <3> QED BY <1>3, <3>1
  <2>2. ASSUME NEW p \in call.todo, InsertRelation(p) \/ SkipDuplicate(p) \/ RelationUnknown(p)
        PROVE  MoveSound'
    <3>1. call \in Call
          BY DEF StoreInv, TypeOK
    <3>2. call'.stage # "tag"
      <4>1. CASE RelationUnknown(p)
            BY <3>1, <4>1 DEF RelationUnknown, Call
      <4>2. ASSUME NEW inserted, RelationDone(p, inserted)
            PROVE  call'.stage # "tag"
            BY <3>1, <4>2 DEF RelationDone, Call
      <4>3. CASE InsertRelation(p)
        <5>1. RelationDone(p, TRUE)
              BY <4>3 DEF InsertRelation
        <5> QED BY <4>2, <5>1, Zenon
      <4>4. CASE SkipDuplicate(p)
        <5>1. RelationDone(p, call.inserted)
              BY <4>4 DEF SkipDuplicate
        <5> QED BY <3>1, <5>1 DEF RelationDone, Call
      <4> QED BY <2>2, <4>1, <4>3, <4>4
    <3> QED BY <1>3, <3>2
  <2> QED BY <1>5, <2>1, <2>2 DEF PutStatement
<1>6. CASE Del \/ PutReferents \/ DelReferents \/ Sessions \/ Crash
  <2>1. ASSUME Del
        PROVE  call' = Idle
        BY <2>1 DEF Del, DelTagRejected, DelTag, DelRelationsRejected, DelRelations, Finish
  <2>2. ASSUME PutReferents
        PROVE  call' = Idle
        BY <2>2 DEF PutReferents, PutReferent, Finish
  <2>3. ASSUME DelReferents
        PROVE  call' = Idle
        BY <2>3 DEF DelReferents, DelReferent, DelReferentRejected, Finish
  <2>4. ASSUME Sessions \/ Crash
        PROVE  call' = Idle
        BY <2>4 DEF Sessions, PushContext, PopContext, ClearContext, Crash, Finish
  <2>5. call' = Idle
        BY <1>6, <2>1, <2>2, <2>3, <2>4
  <2> QED BY <1>3, <2>5 DEF Idle
<1> QED BY <1>2, <1>4, <1>5, <1>6 DEF Next

\* Every step of the store is a step of the tree, or none.
LEMMA StepOfTree ==
    ASSUME StoreInv, MoveSound, [Next]_vars
    PROVE  [Tree!Next]_super_object
<1>1. Tree!Present = Tags
      BY DEF Tree!Present, Tags
<1>2. ASSUME NEW t \in Request, InsertTag(t)
      PROVE  Tree!Next
  <2>1. t.id \in Term \ Tags /\ t.super \in Tags /\ t.super \in Term
        BY <1>2, InsertMeaning DEF InsertTag, Term, Tags
  <2>2. Tree!Add(t.id, t.super)
        BY <1>1, <1>2, <2>1 DEF InsertTag, Tree!Add
  <2> QED BY <2>1, <2>2 DEF Tree!Next
<1>3. ASSUME UpdateTag
      PROVE  [Tree!Next]_super_object
  <2> DEFINE t == call.tag
  <2>1. t.id \in Tags /\ t.super \in Tags /\ t.id \in Term /\ t.super \in Term
        BY <1>3 DEF UpdateTag, StoreInv, Control, Tags
  <2>2. super_object' = [super_object EXCEPT ![t.id] = t.super]
        BY <1>3 DEF UpdateTag
  <2>3. CASE t.id = Entity
    <3>1. t.super = super_object[t.id]
          BY <1>3, <2>3 DEF UpdateTag, RowAllowed, StoreInv, Control
    <3>2. super_object' = super_object
          BY <2>1, <2>2, <3>1 DEF StoreInv, TypeOK
    <3> QED BY <3>2
  <2>4. CASE t.id # Entity
    <3>1. ~ Tree!Above(t.id, t.super)
          BY <1>3, <2>4 DEF UpdateTag, MoveSound
    <3>2. Tree!Move(t.id, t.super)
          BY <1>1, <2>1, <2>2, <2>4, <3>1 DEF Tree!Move
    <3> QED BY <2>1, <3>2 DEF Tree!Next
  <2> QED BY <2>3, <2>4
<1>4. ASSUME NEW x \in Names, DelTag(x)
      PROVE  Tree!Next
  <2>1. x \in Term /\ x # Entity
        BY DEF Term
  <2>2. Decode(x) = x /\ Get(x) = "TAGD_OK" /\ ~ HasDependents(x)
        BY <1>4 DEF DelTag, DelTagRejection
  <2>3. x \in Tags
        BY <2>1, <2>2, GetMeaning
  <2>4. Tree!Remove(x)
        BY <1>1, <1>4, <2>1, <2>2, <2>3 DEF DelTag, HasDependents, Tree!Remove
  <2> QED BY <2>1, <2>4 DEF Tree!Next
<1>5. CASE UNCHANGED super_object
      BY <1>5
<1>6. CASE Put
  <2>1. PICK t \in Request : PutTag(t)
        BY <1>6, RequestType DEF Put, StoreInv
  <2>2. CASE ~ InsertTag(t)
    <3>1. super_object' = super_object
          BY <2>1, <2>2 DEF PutTag, PutRejected, PutRelations, PutRankError, PutAborts, InsertTagFails,
                            UpdateRanks, UpdateRanksFails, SkipRanks, tables
    <3> QED BY <1>5, <3>1
  <2> QED BY <1>2, <2>1, <2>2
<1>7. CASE PutStatement
      BY <1>3, <1>5, <1>7 DEF PutStatement, UpdateTagFails, InsertRelation, SkipDuplicate,
                              RelationUnknown, PutFts, tables
<1>8. CASE Del
      BY <1>4, <1>5, <1>8 DEF Del, DelTagRejected, DelRelationsRejected, DelRelations, tables
<1>9. CASE PutReferents \/ DelReferents \/ Sessions \/ Crash \/ UNCHANGED vars
  <2>1. CASE PutReferents
        BY <1>5, <2>1 DEF PutReferents, PutReferent
  <2>2. CASE DelReferents
        BY <1>5, <2>2 DEF DelReferents, DelReferent, DelReferentRejected, tables
  <2>3. CASE Sessions \/ Crash \/ UNCHANGED vars
        BY <1>5, <2>3 DEF Sessions, PushContext, PopContext, ClearContext, Crash, vars, tables
  <2> QED BY <1>9, <2>1, <2>2, <2>3
<1> QED BY <1>6, <1>7, <1>8, <1>9 DEF Next

\* Where no client puts a tag under one of its own descendants, the store
\* implements the tree: statement by statement, also when the process ends
\* between the two statements of update().
THEOREM StoreImplementsTree ==
    ASSUME "ownSubtree" \notin Hazards
    PROVE  Spec => TreeSpec
<1>1. Init => MoveSound
      BY DEF Init, MoveSound, Idle
<1>2. StoreInv /\ MoveSound /\ [Next]_vars => MoveSound' /\ [Tree!Next]_super_object
      BY MoveStaysSound, StepOfTree
<1> QED BY <1>1, <1>2, SeedIsTree, StoreInvariant, PTL DEF Spec, TreeSpec, Tree!Spec

\* ... and then every tag is below _entity.
THEOREM TagsStayRooted ==
    ASSUME "ownSubtree" \notin Hazards
    PROVE  Spec => []Rooted
<1>1. Entity \in Term /\ None \notin Term
      BY DEF Term
<1>2. Tree!TreeConstants
      BY <1>1 DEF Tree!TreeConstants
<1>3. Tree!Spec => []Tree!Rooted
      BY <1>2, Tree!TreeStaysRooted
<1> QED BY <1>3, StoreImplementsTree, PTL DEF TreeSpec, Rooted

----------------------------------------------------------------------------
(* The search table. *)

\* The search table has the tag, with its place and all its relations ...
Found(x) == /\ fts[x] # None
            /\ fts[x].sub = sub_relator[x] /\ fts[x].super = super_object[x]
            /\ Predicates(x) \subseteq fts[x].relations

\* ... or put() is on its way to write it there.
BeingIndexed(x) == /\ call.stage \in {"relations", "fts"} /\ call.tag.id = x
                   /\ call.isNew \/ fts[x] # None

SearchInv == \A x \in Tags \cap UserTerms : Found(x) \/ BeingIndexed(x)

\* What SearchInv is about.
searched == <<sub_relator, super_object, relations, fts>>

\* A tag whose rows a step leaves alone stays where it is in the search table.
LEMMA FoundStays ==
    ASSUME NEW x \in Tags, Found(x), Predicates(x)' \subseteq Predicates(x),
           sub_relator'[x] = sub_relator[x], super_object'[x] = super_object[x], fts'[x] = fts[x]
    PROVE  Found(x)'
BY DEF Found

LEMMA SameRows ==
    ASSUME UNCHANGED <<sub_relator, super_object, relations, fts>>
    PROVE  /\ Tags' = Tags
           /\ \A x : Found(x)' <=> Found(x)
           /\ \A x : Predicates(x)' = Predicates(x)
BY DEF Tags, Found, Predicates

\* What put() writes in the search table is not the missing row.
LEMMA ContentNotNone ==
    ASSUME StoreInv, NEW x \in Tags
    PROVE  ContentOf(x) # None
<1>1. sub_relator[x] \in Term /\ super_object[x] \in Term
      BY DEF StoreInv, ReferencesExist, Tags
<1>2. Predicates(x) \subseteq Predicate
      BY DEF StoreInv, TypeOK, Relation, Predicates, Predicate
<1>3. ContentOf(x) \in [sub : Term, super : Term, relations : SUBSET Predicate]
      BY <1>1, <1>2 DEF ContentOf
<1> QED BY <1>3

\* A step outside the operation that puts a tag leaves no tag unindexed.
LEMMA IdleSearch ==
    ASSUME SearchInv, call.stage \in {"idle", "tag"}
    PROVE  \A x \in Tags \cap UserTerms : Found(x)
BY DEF SearchInv, BeingIndexed

\* The statements of put() that write other tables, or none.
LEMMA PutKeepsSearch ==
    ASSUME StoreInv, SearchInv, call.stage \in {"idle", "tag"}, UNCHANGED searched
    PROVE  SearchInv'
BY IdleSearch, SameRows DEF SearchInv, searched

LEMMA PutSearch ==
    ASSUME StoreInv, SearchInv, Put
    PROVE  SearchInv'
<1>1. PICK t \in Request : PutTag(t)
      BY RequestType DEF Put, StoreInv
<1>2. call.stage = "idle"
      BY <1>1 DEF PutTag
<1>3. CASE ~ InsertTag(t)
  <2>1. UNCHANGED searched
        BY <1>1, <1>3 DEF PutTag, PutRejected, PutRelations, PutRankError, PutAborts, InsertTagFails,
                          UpdateRanks, UpdateRanksFails, SkipRanks, tables, searched
  <2> QED BY <1>2, <2>1, PutKeepsSearch
<1>4. CASE InsertTag(t)
  <2>1. t.id \in UserTerms \ Tags /\ t.super \in Tags
        BY <1>4, InsertMeaning DEF InsertTag
  <2>2. /\ sub_relator' = [sub_relator EXCEPT ![t.id] = t.sub]
        /\ super_object' = [super_object EXCEPT ![t.id] = t.super]
        /\ UNCHANGED <<relations, fts>>
        /\ Continue(t, TRUE)
        BY <1>4 DEF InsertTag
  <2>3. BeingIndexed(t.id)'
        BY <2>2 DEF BeingIndexed, Continue
  <2>4. ASSUME NEW x \in (Tags \cap UserTerms)', x # t.id
        PROVE  Found(x)'
    <3>1. x \in Tags /\ x \in UserTerms /\ super_object'[x] = super_object[x] /\ sub_relator'[x] = sub_relator[x]
          BY <2>2, <2>4 DEF Tags, StoreInv, TypeOK
    <3>2. Predicates(x)' = Predicates(x)
          BY <2>2 DEF Predicates
    <3> QED BY <1>2, <2>2, <3>1, <3>2, IdleSearch, FoundStays
  <2> QED BY <2>3, <2>4 DEF SearchInv
<1> QED BY <1>3, <1>4

\* put() has found its tag in the search table, or inserts it there.
LEMMA StatementSearch ==
    ASSUME StoreInv, SearchInv, PutStatement
    PROVE  SearchInv'
<1> DEFINE i == call.tag.id
<1>0. i \in Term
      BY DEF StoreInv, TypeOK, Call, Request
<1>1. CASE UpdateTag
  <2>1. /\ sub_relator' = [sub_relator EXCEPT ![i] = call.tag.sub]
        /\ super_object' = [super_object EXCEPT ![i] = call.tag.super]
        /\ UNCHANGED <<relations, fts>>
        /\ Continue(call.tag, FALSE)
        /\ call.stage = "tag" /\ i \in Tags
        BY <1>1 DEF UpdateTag, StoreInv, Control
  <2>2. call'.stage \in {"relations", "fts"} /\ call'.tag = call.tag
        BY <2>1 DEF Continue
  <2>3. ASSUME NEW x \in (Tags \cap UserTerms)'
        PROVE  Found(x)' \/ BeingIndexed(x)'
    <3>1. x \in Tags /\ x \in UserTerms
          BY <2>1, <2>3 DEF Tags, StoreInv, TypeOK
    <3>2. Found(x)
          BY <2>1, <3>1, IdleSearch
    <3>3. CASE x = i
          BY <2>1, <2>2, <3>2, <3>3 DEF BeingIndexed, Found
    <3>4. CASE x # i
      <4>1. super_object'[x] = super_object[x] /\ sub_relator'[x] = sub_relator[x]
            BY <2>1, <3>4 DEF StoreInv, TypeOK
      <4>2. Predicates(x)' = Predicates(x)
            BY <2>1 DEF Predicates
      <4> QED BY <2>1, <3>1, <3>2, <4>1, <4>2, FoundStays
    <3> QED BY <3>3, <3>4
  <2> QED BY <2>3 DEF SearchInv
<1>2. CASE UpdateTagFails
      BY <1>2, PutKeepsSearch DEF UpdateTagFails, tables, searched
<1>3. ASSUME NEW p \in call.todo, InsertRelation(p) \/ SkipDuplicate(p) \/ RelationUnknown(p)
      PROVE  SearchInv'
  <2>1. UNCHANGED <<sub_relator, super_object, fts>> /\ call.stage = "relations"
        BY <1>3 DEF InsertRelation, SkipDuplicate, RelationUnknown
  <2>2. call'.stage \in {"relations", "fts"} /\ call'.tag = call.tag /\ call'.isNew = call.isNew
    <3>1. call \in Call
          BY DEF StoreInv, TypeOK
    <3>2. CASE RelationUnknown(p)
          BY <2>1, <3>1, <3>2 DEF RelationUnknown, Call
    <3>3. ASSUME NEW inserted, RelationDone(p, inserted)
          PROVE  /\ call'.stage \in {"relations", "fts"}
                 /\ call'.tag = call.tag /\ call'.isNew = call.isNew
          BY <3>1, <3>3 DEF RelationDone, Call
    <3>4. CASE InsertRelation(p)
      <4>1. RelationDone(p, TRUE)
            BY <3>4 DEF InsertRelation
      <4> QED BY <3>3, <4>1, Zenon
    <3>5. CASE SkipDuplicate(p)
      <4>1. RelationDone(p, call.inserted)
            BY <3>5 DEF SkipDuplicate
      <4> QED BY <3>1, <4>1 DEF RelationDone, Call
    <3> QED BY <1>3, <3>2, <3>4, <3>5
  <2>3. \A r \in relations' : r \in relations \/ r.subject = i
    <3>1. CASE InsertRelation(p)
          BY <3>1 DEF InsertRelation
    <3>2. CASE SkipDuplicate(p) \/ RelationUnknown(p)
          BY <3>2 DEF SkipDuplicate, RelationUnknown
    <3> QED BY <1>3, <3>1, <3>2
  <2>4. ASSUME NEW x \in (Tags \cap UserTerms)'
        PROVE  Found(x)' \/ BeingIndexed(x)'
    <3>1. x \in Tags /\ x \in UserTerms
          BY <2>1, <2>4 DEF Tags
    <3>2. CASE x = i
          BY <2>1, <2>2, <3>1, <3>2 DEF SearchInv, BeingIndexed, Found
    <3>3. CASE x # i
      <4>1. Found(x)
            BY <3>1, <3>3 DEF SearchInv, BeingIndexed
      <4>2. Predicates(x)' \subseteq Predicates(x)
            BY <2>3, <3>3 DEF Predicates
      <4> QED BY <2>1, <3>1, <4>1, <4>2, FoundStays
    <3> QED BY <3>2, <3>3
  <2> QED BY <2>4 DEF SearchInv
<1>4. CASE PutFts
  <2>1. /\ call.stage = "fts" /\ i \in Tags
        /\ UNCHANGED <<sub_relator, super_object, relations>>
        /\ fts' = IF i \in UserTerms /\ (call.isNew \/ fts[i] # None)
                  THEN [fts EXCEPT ![i] = ContentOf(i)] ELSE fts
        BY <1>4 DEF PutFts, StoreInv, Control
  <2>2. Tags' = Tags /\ \A x : Predicates(x)' = Predicates(x)
        BY <2>1 DEF Tags, Predicates
  <2>3. ASSUME NEW x \in Tags \cap UserTerms
        PROVE  Found(x)'
    <3>1. CASE x = i /\ (call.isNew \/ fts[i] # None)
      <4>1. fts'[x] = ContentOf(x)
            BY <2>1, <3>1 DEF StoreInv, TypeOK
      <4>2. ContentOf(x) # None
            BY ContentNotNone
      <4> QED BY <2>1, <2>2, <4>1, <4>2 DEF Found, ContentOf
    <3>2. CASE ~ (x = i /\ (call.isNew \/ fts[i] # None))
      <4>1. Found(x) /\ fts'[x] = fts[x]
            BY <2>1, <3>2 DEF SearchInv, BeingIndexed, StoreInv, TypeOK
      <4> QED BY <2>1, <2>2, <4>1, FoundStays
    <3> QED BY <3>1, <3>2
  <2> QED BY <2>2, <2>3 DEF SearchInv
<1> QED BY <1>1, <1>2, <1>3, <1>4 DEF PutStatement

\* The other operations run where no put() is under way.
LEMMA OtherSearch ==
    ASSUME StoreInv, SearchInv, Del \/ PutReferents \/ DelReferents \/ Sessions
    PROVE  SearchInv'
<1>1. call.stage = "idle"
  <2>1. Del => call.stage = "idle"
        BY DEF Del, DelTagRejected, DelTag, DelRelations, DelRelationsRejected
  <2>2. PutReferents \/ DelReferents => call.stage = "idle"
    <3>1. \A q : PutReferent(q) \/ DelReferent(q) \/ DelReferentRejected(q) => call.stage = "idle"
          BY DEF PutReferent, DelReferent, DelReferentRejected
    <3> QED BY <3>1, Zenon DEF PutReferents, DelReferents
  <2>3. Sessions => call.stage = "idle"
        BY DEF Sessions, PushContext, PopContext, ClearContext
  <2> QED BY <2>1, <2>2, <2>3
<1>2. CASE UNCHANGED searched
      BY <1>1, <1>2, PutKeepsSearch
<1>3. ASSUME NEW x \in Names, DelTag(x)
      PROVE  SearchInv'
  <2>1. /\ sub_relator' = [sub_relator EXCEPT ![x] = None]
        /\ super_object' = [super_object EXCEPT ![x] = None]
        /\ relations' = {r \in relations : r.subject # x}
        /\ fts' = [fts EXCEPT ![x] = None]
        BY <1>3 DEF DelTag
  <2>2. ASSUME NEW y \in (Tags \cap UserTerms)'
        PROVE  Found(y)'
    <3>1. y # x /\ y \in Tags /\ y \in UserTerms
          BY <2>1, <2>2 DEF Tags, StoreInv, TypeOK
    <3>2. /\ super_object'[y] = super_object[y] /\ sub_relator'[y] = sub_relator[y]
          /\ fts'[y] = fts[y]
          BY <2>1, <3>1 DEF StoreInv, TypeOK
    <3>3. Predicates(y)' \subseteq Predicates(y)
          BY <2>1 DEF Predicates
    <3> QED BY <1>1, <3>1, <3>2, <3>3, IdleSearch, FoundStays
  <2> QED BY <2>2 DEF SearchInv
<1>4. ASSUME NEW x \in Names, NEW P \in RelationSets, DelRelations(x, P)
      PROVE  SearchInv'
  <2>1. relations' \subseteq relations /\ UNCHANGED <<sub_relator, super_object, fts>>
        BY <1>4 DEF DelRelations
  <2>2. Tags' = Tags
        BY <2>1 DEF Tags
  <2>3. \A y \in Tags \cap UserTerms : Found(y)'
    <3> TAKE y \in Tags \cap UserTerms
    <3>1. Predicates(y)' \subseteq Predicates(y)
          BY <2>1 DEF Predicates
    <3> QED BY <1>1, <2>1, <3>1, IdleSearch, FoundStays
  <2> QED BY <2>2, <2>3 DEF SearchInv
<1>5. CASE Del
      BY <1>2, <1>3, <1>4, <1>5 DEF Del, DelTagRejected, DelRelationsRejected, tables, searched
<1>6. CASE PutReferents
      BY <1>2, <1>6 DEF PutReferents, PutReferent, searched
<1>7. CASE DelReferents
      BY <1>2, <1>7 DEF DelReferents, DelReferent, DelReferentRejected, tables, searched
<1>8. CASE Sessions
      BY <1>2, <1>8 DEF Sessions, PushContext, PopContext, ClearContext, tables, searched
<1> QED BY <1>5, <1>6, <1>7, <1>8

LEMMA InitSearch == Init => SearchInv
<1> SUFFICES ASSUME Init, NEW x \in Tags \cap UserTerms
             PROVE  Found(x)
    BY DEF SearchInv
<1>1. StoreInv
      BY InitStore
<1>2. fts[x] = ContentOf(x) /\ ContentOf(x) # None
      BY <1>1, ContentNotNone DEF Init
<1> QED BY <1>2 DEF Found, ContentOf

\* Where the process does not end in a put(), a search misses no tag of the
\* store and no relation of one, between any two operations: put() writes the
\* search table after the rows, and also where it stops in the relations.
THEOREM SearchStaysComplete ==
    ASSUME "crash" \notin Hazards
    PROVE  Spec => []SearchComplete
<1>1. StoreInv /\ SearchInv /\ [Next]_vars => SearchInv'
  <2> SUFFICES ASSUME StoreInv, SearchInv, [Next]_vars
               PROVE  SearchInv'
      OBVIOUS
  <2>1. CASE UNCHANGED vars
        BY <2>1, SameRows DEF vars, tables, SearchInv, BeingIndexed
  <2> QED BY <2>1, PutSearch, StatementSearch, OtherSearch DEF Next, Crash
<1>2. SearchInv => SearchComplete
      BY DEF SearchInv, BeingIndexed, Found, SearchComplete
<1> QED BY <1>1, <1>2, InitSearch, StoreInvariant, PTL DEF Spec

----------------------------------------------------------------------------
(* What a search finds that is not there any more. *)

\* What put() writes is what the store has, and a tag is deleted with its row:
\* no other step than the deletion of relations leaves the search table behind.
THEOREM SearchOnlyLosesRelations == Spec => SearchFollows
<1> DEFINE Follows == \A x \in UserTerms :
                        Stale(x)' /\ ~ Stale(x) =>
                          Tags' = Tags /\ relations' \subseteq relations /\ relations' # relations
<1>1. ASSUME StoreInv, [Next]_vars
      PROVE  Follows
  <2>1. ASSUME NEW x \in UserTerms, fts'[x] = fts[x], x \in Tags => x \in Tags',
               Predicates(x) \subseteq Predicates(x)', Stale(x)'
        PROVE  Stale(x)
        BY <2>1 DEF Stale
  <2>2. CASE Tags \subseteq Tags' /\ relations \subseteq relations' /\ fts' = fts
        BY <2>1, <2>2 DEF Predicates
  <2>3. CASE Put
    <3>1. PICK t \in Request : PutTag(t)
          BY <1>1, <2>3, RequestType DEF Put, StoreInv
    <3>2. CASE ~ InsertTag(t)
          BY <2>2, <3>1, <3>2 DEF PutTag, PutRejected, PutRelations, PutRankError, PutAborts, InsertTagFails,
                            UpdateRanks, UpdateRanksFails, SkipRanks, tables, Tags
    <3>3. CASE InsertTag(t)
      <4>1. t.super \in Tags /\ t.super \in Term
            BY <3>3, <1>1, InsertMeaning DEF InsertTag, Tags
      <4>2. Tags \subseteq Tags'
            BY <1>1, <3>3, <4>1 DEF InsertTag, Tags, StoreInv, TypeOK
      <4> QED BY <2>2, <3>3, <4>2 DEF InsertTag
    <3> QED BY <3>2, <3>3
  <2>4. CASE PutFts
    <3> DEFINE i == call.tag.id
    <3>1. i \in Tags /\ Tags' = Tags /\ relations' = relations
          BY <1>1, <2>4 DEF PutFts, StoreInv, Control, Tags
    <3>2. \A x : Predicates(x)' = Predicates(x)
          BY <3>1 DEF Predicates
    <3>3. ASSUME NEW x \in UserTerms, Stale(x)', fts'[x] # fts[x]
          PROVE  FALSE
      <4>1. x = i /\ fts'[x] = ContentOf(x)
            BY <1>1, <2>4, <3>3 DEF PutFts, StoreInv, TypeOK
      <4> QED BY <3>1, <3>2, <3>3, <4>1 DEF Stale, ContentOf
    <3> QED BY <2>1, <3>1, <3>2, <3>3
  <2>5. CASE PutStatement /\ ~ PutFts
    <3>1. Tags \subseteq Tags'
      <4>1. CASE UpdateTag
            BY <1>1, <4>1 DEF UpdateTag, Tags, StoreInv, TypeOK, Control
      <4>2. CASE ~ UpdateTag
            BY <2>5, <4>2 DEF PutStatement, UpdateTagFails, InsertRelation, SkipDuplicate, RelationUnknown,
                              tables, Tags
      <4> QED BY <4>1, <4>2
    <3>2. fts' = fts /\ relations \subseteq relations'
          BY <2>5 DEF PutStatement, UpdateTag, UpdateTagFails, InsertRelation, SkipDuplicate,
                      RelationUnknown, tables
    <3> QED BY <2>2, <3>1, <3>2
  <2>6. ASSUME NEW y \in Names, DelTag(y)
        PROVE  Follows
    <3>1. /\ fts' = [fts EXCEPT ![y] = None]
          /\ super_object' = [super_object EXCEPT ![y] = None]
          /\ relations' = {r \in relations : r.subject # y}
          BY <2>6 DEF DelTag
    <3>2. ASSUME NEW x \in UserTerms, Stale(x)'
          PROVE  Stale(x)
      <4>1. x # y
            BY <1>1, <3>1, <3>2 DEF Stale, StoreInv, TypeOK
      <4>2. fts'[x] = fts[x] /\ (x \in Tags => x \in Tags')
            BY <1>1, <3>1, <4>1 DEF StoreInv, TypeOK, Tags
      <4>3. Predicates(x) \subseteq Predicates(x)'
            BY <3>1, <4>1 DEF Predicates
      <4> QED BY <2>1, <3>2, <4>2, <4>3
    <3> QED BY <3>2
  <2>7. ASSUME NEW y \in Names, NEW P \in RelationSets, DelRelations(y, P)
        PROVE  Follows
    <3>1. Tags' = Tags /\ relations' \subseteq relations /\ fts' = fts
          BY <2>7 DEF DelRelations, Tags
    <3> QED BY <2>2, <3>1
  <2>8. CASE Del
        BY <2>2, <2>6, <2>7, <2>8 DEF Del, DelTagRejected, DelRelationsRejected, tables, Tags
  <2>9. CASE PutReferents
        BY <2>2, <2>9 DEF PutReferents, PutReferent, Tags
  <2>10. CASE DelReferents
        BY <2>2, <2>10 DEF DelReferents, DelReferent, DelReferentRejected, tables, Tags
  <2>11. CASE Sessions \/ Crash \/ UNCHANGED vars
        BY <2>2, <2>11 DEF Sessions, PushContext, PopContext, ClearContext, Crash, vars, tables, Tags
  <2> QED BY <1>1, <2>3, <2>4, <2>5, <2>8, <2>9, <2>10, <2>11 DEF Next
<1>2. StoreInv /\ [Next]_vars => [Follows]_vars
      BY <1>1
<1> QED BY <1>2, StoreInvariant, PTL DEF Spec, SearchFollows

=============================================================================
