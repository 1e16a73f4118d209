-------------------------- MODULE TagdbRankProofs --------------------------
(***************************************************************************)
(* The ranks of the tags in the store: no two tags have the same one, an   *)
(* alias therefore has one meaning, and, in a store small enough for its   *)
(* ranks to be written with one byte per level, they follow the tree, and  *)
(* queries that match ranks find what the tree says.                       *)
(***************************************************************************)
EXTENDS TagdbProofs, Queries

USE NamesAssumption, ClientsAssumption

----------------------------------------------------------------------------
(* Aliases. *)

\* UNIQUE(rank) and UNIQUE(refers, context).
RanksDistinct == \A x, y \in Tags : rank[x] = rank[y] => x = y
ReferentsDistinct == \A r, q \in referents : r.refers = q.refers /\ r.context = q.context => r = q

LEMMA DistinctStay ==
    ASSUME StoreInv, RanksDistinct, ReferentsDistinct, [Next]_vars
    PROVE  RanksDistinct' /\ ReferentsDistinct'
<1>1. CASE UNCHANGED <<super_object, rank, referents>>
      BY <1>1 DEF RanksDistinct, ReferentsDistinct, Tags
<1>2. ASSUME NEW t \in Request, InsertTag(t)
      PROVE  RanksDistinct' /\ ReferentsDistinct'
  <2>1. PICK r : (\A x \in Tags : rank[x] # r) /\ rank' = [rank EXCEPT ![t.id] = r]
        BY <1>2 DEF InsertTag
  <2>2. t.id \in Term \ Tags /\ t.super \in Tags
        BY <1>2, InsertMeaning DEF InsertTag, Term
  <2>3. Tags' = Tags \cup {t.id}
        BY <1>2, <2>2 DEF InsertTag, Tags, StoreInv, TypeOK
  <2>4. \A x \in Term : rank'[x] = IF x = t.id THEN r ELSE rank[x]
        BY <2>1 DEF StoreInv, TypeOK
  <2>5. Tags \subseteq Term
        BY DEF Tags
  <2>6. RanksDistinct'
        BY <2>1, <2>2, <2>3, <2>4, <2>5 DEF RanksDistinct
  <2> QED BY <1>2, <2>6 DEF InsertTag, ReferentsDistinct
<1>3. ASSUME NEW t \in Request, UpdateRanks(t)
      PROVE  RanksDistinct' /\ ReferentsDistinct'
      BY <1>3 DEF UpdateRanks, Distinct, RanksDistinct, ReferentsDistinct, Tags
<1>4. ASSUME UpdateTag
      PROVE  RanksDistinct' /\ ReferentsDistinct'
  <2>1. Tags' = Tags
        BY <1>4 DEF UpdateTag, Tags, StoreInv, TypeOK, Control
  <2> QED BY <1>4, <2>1 DEF UpdateTag, RanksDistinct, ReferentsDistinct
<1>5. ASSUME NEW x \in Names, DelTag(x)
      PROVE  RanksDistinct' /\ ReferentsDistinct'
  <2>1. /\ rank' = [rank EXCEPT ![x] = <<>>]
        /\ super_object' = [super_object EXCEPT ![x] = None]
        /\ referents' \subseteq referents
        BY <1>5 DEF DelTag
  <2>2. \A y \in Tags' : y \in Tags /\ rank'[y] = rank[y]
        BY <2>1 DEF Tags, StoreInv, TypeOK
  <2> QED BY <2>1, <2>2 DEF RanksDistinct, ReferentsDistinct
<1>6. ASSUME NEW r \in Referent, PutReferent(r)
      PROVE  RanksDistinct' /\ ReferentsDistinct'
  <2>1. UNCHANGED <<super_object, rank>>
        BY <1>6 DEF PutReferent
  <2>2. CASE referents' = referents
        BY <1>1, <2>1, <2>2
  <2>3. CASE referents' # referents
    <3>1. referents' = referents \cup {r} /\ ~ ReferentTaken(r)
          BY <1>6, <2>3 DEF PutReferent, PutReferentCode
    <3> QED BY <2>1, <3>1 DEF RanksDistinct, ReferentsDistinct, ReferentTaken, Tags
  <2> QED BY <2>2, <2>3
<1>7. ASSUME NEW q, DelReferent(q)
      PROVE  RanksDistinct' /\ ReferentsDistinct'
      BY <1>7 DEF DelReferent, RanksDistinct, ReferentsDistinct, Tags
<1>8. CASE Put
  <2>1. PICK t \in Request : PutTag(t)
        BY <1>8, RequestType DEF Put, StoreInv
  <2>2. CASE ~ InsertTag(t) /\ ~ UpdateRanks(t)
        BY <1>1, <2>1, <2>2 DEF PutTag, PutRejected, PutRelations, PutRankError, PutAborts, InsertTagFails,
                          UpdateRanksFails, SkipRanks, tables
  <2> QED BY <1>2, <1>3, <2>1, <2>2
<1>9. CASE PutStatement
      BY <1>1, <1>4, <1>9 DEF PutStatement, UpdateTagFails, InsertRelation, SkipDuplicate, RelationUnknown,
                              PutFts, tables
<1>10. CASE Del
      BY <1>1, <1>5, <1>10 DEF Del, DelTagRejected, DelRelations, DelRelationsRejected, tables
<1>11. CASE PutReferents
  <2>1. PICK r \in Referent : PutReferent(r)
        BY <1>11, ReferentType DEF PutReferents, StoreInv
  <2> QED BY <1>6, <2>1
<1>12. CASE DelReferents
      BY <1>1, <1>7, <1>12 DEF DelReferents, DelReferentRejected, tables
<1>13. CASE Sessions \/ Crash \/ UNCHANGED vars
      BY <1>1, <1>13 DEF Sessions, PushContext, PopContext, ClearContext, Crash, vars, tables
<1> QED BY <1>8, <1>9, <1>10, <1>11, <1>12, <1>13 DEF Next

\* An alias has one meaning in every stack of contexts, at every point of
\* every operation: of the referents that the topmost contexts select, one has
\* the context of the greatest rank, as no two contexts have the same rank and
\* no context has two referents of the alias.
THEOREM AliasesStayResolvable == Spec => []AliasesResolve
<1>1. Init => RanksDistinct /\ ReferentsDistinct
      BY SeedAssumption DEF Init, RanksDistinct, ReferentsDistinct, Tags, SeedTags
<1>2. StoreInv /\ RanksDistinct /\ ReferentsDistinct => AliasesResolve
  <2> SUFFICES ASSUME StoreInv, RanksDistinct, ReferentsDistinct, NEW x \in UserTerms
               PROVE  Cardinality(Winners(x)) <= 1
      BY DEF AliasesResolve
  <2>1. \A r \in Winners(x) : r \in referents /\ r.refers = x /\ r.context \in Tags
        BY DEF Winners, Visible, Hits, StoreInv, ReferencesExist
  <2>2. ASSUME NEW r \in Winners(x), NEW q \in Winners(x)
        PROVE  r = q
    <3>1. ~ LexLess(rank[r.context], rank[q.context]) /\ ~ LexLess(rank[q.context], rank[r.context])
          BY DEF Winners
    <3>2. rank[r.context] \in Seq(Nat) /\ rank[q.context] \in Seq(Nat)
          BY <2>1 DEF StoreInv, TypeOK, Tags
    <3>3. rank[r.context] = rank[q.context]
          BY <3>1, <3>2, LexTotal
    <3> QED BY <2>1, <3>3 DEF RanksDistinct, ReferentsDistinct
  <2>3. CASE Winners(x) = {}
        BY <2>3, FS_EmptySet
  <2>4. CASE Winners(x) # {}
    <3>1. PICK r : r \in Winners(x)
          BY <2>4
    <3>2. Winners(x) = {r}
          BY <2>2, <3>1
    <3>3. Cardinality({r}) = 1
          BY FS_Singleton
    <3> QED BY <3>2, <3>3
  <2> QED BY <2>3, <2>4
<1>3. StoreInv /\ RanksDistinct /\ ReferentsDistinct /\ [Next]_vars => RanksDistinct' /\ ReferentsDistinct'
      BY DistinctStay
<1> QED BY <1>1, <1>2, <1>3, StoreInvariant, PTL DEF Spec

----------------------------------------------------------------------------
(* Ranks that follow the tree. *)

\* The bounds within which a rank is one byte per level, none of them a
\* metacharacter of GLOB: fewer than 42 children of every tag (42 is the
\* ordinal that is written '*'), and levels that fit into a rank.  MaxOrdinal
\* and MaxDepth are the greatest ordinal and the number of levels that put()
\* gives out; the clients keep to the interface and the process does not end.
Small(r) == Len(r) <= MaxDepth /\ \A i \in 1 .. Len(r) : 0 < r[i] /\ r[i] <= MaxOrdinal

SmallStore ==
    /\ Hazards = {}
    /\ MaxOrdinal < Star
    /\ MaxDepth < RankMaxLen
    /\ \A x \in SeedTags : Small(SeedRank[x])

\* The super object of a tag, once update() is through with its statements:
\* the rank has been written by the first, the super object is by the second.
Destination(x) == IF call.stage = "tag" /\ call.tag.id = x THEN call.tag.super ELSE super_object[x]

RankInv ==
    /\ RanksDistinct
    /\ rank[Entity] = <<>>
    /\ \A x \in Tags : Small(rank[x])
    /\ \A x \in Tags \ {Entity} : IsLevelBelow(rank[x], rank[Destination(x)])
    /\ call.stage = "tag" => RowAllowed(call.tag)

\* What the code does with such a rank.
LEMMA SmallPlain ==
    ASSUME SmallStore, NEW r \in Seq(Nat), Small(r)
    PROVE  /\ Load(r) = r
           /\ r # <<>> => Validates(r)
           /\ ByteLen(r) = Len(r)
           /\ \A s : Glob(r, s) <=> IsPrefix(r, s)
<1>1. Len(r) \in Nat /\ MaxDepth \in Nat /\ RankMaxLen \in Nat /\ MaxOrdinal \in Nat
      BY RankMaxLenAssumption
<1>2. Len(r) <= RankMaxLen
      BY <1>1 DEF Small, SmallStore
<1>3. ASSUME NEW i \in 1 .. Len(r)
      PROVE  0 < r[i] /\ r[i] < Star /\ r[i] < 128
  <2>1. r[i] \in Nat /\ 0 < r[i] /\ r[i] <= MaxOrdinal /\ MaxOrdinal < Star /\ Star = 42
        BY DEF Small, SmallStore, Star
  <2> QED BY <1>1, <2>1
<1>4. ByteLen(r) = Len(r)
      BY <1>3, OneBytePerLevel
<1>5. ~ HasMeta(r) /\ Load(r) = r /\ (r # <<>> => Validates(r))
      BY <1>2, <1>3, PlainRank
<1> QED BY <1>4, <1>5 DEF Glob

\* One more level, in other words.
LEMMA LevelBelow ==
    ASSUME NEW r \in Seq(Nat), NEW s \in Seq(Nat)
    PROVE  /\ IsLevelBelow(r, s) => /\ Last(r) \in Nat \ {0} /\ r = Append(s, Last(r))
                                    /\ Len(r) = Len(s) + 1
           /\ \A k \in Nat \ {0} : IsLevelBelow(Append(s, k), s) /\ Last(Append(s, k)) = k
<1>1. ASSUME IsLevelBelow(r, s)
      PROVE  Last(r) \in Nat \ {0} /\ r = Append(s, Last(r)) /\ Len(r) = Len(s) + 1
  <2>1. r # <<>> /\ r = Append(s, Last(r)) /\ Last(r) > 0
        BY <1>1 DEF IsLevelBelow
  <2>2. Len(r) \in Nat \ {0}
        BY <2>1, EmptySeq
  <2>3. Last(r) \in Nat
        BY <2>2 DEF Last
  <2>4. Len(r) = Len(s) + 1
    <3> DEFINE k == Last(r)
    <3>1. k \in Nat /\ r = Append(s, k)
          BY <2>1, <2>3
    <3> HIDE DEF k
    <3> QED BY <3>1, AppendProperties
  <2> QED BY <2>1, <2>3, <2>4
<1>2. ASSUME NEW k \in Nat \ {0}
      PROVE  IsLevelBelow(Append(s, k), s) /\ Last(Append(s, k)) = k
  <2>0. k \in Nat /\ k > 0
        OBVIOUS
  <2>1. Append(s, k) # <<>>
    <3> DEFINE t == Append(s, k)
    <3>1. t \in Seq(Nat) /\ Len(t) = Len(s) + 1 /\ Len(s) \in Nat
          BY <2>0, AppendProperties
    <3> HIDE DEF t
    <3>2. t # <<>>
          BY <3>1
    <3> QED BY <3>2 DEF t
  <2>2. Last(Append(s, k)) = k
        BY <2>0, FrontLast
  <2> QED BY <2>0, <2>1, <2>2 DEF IsLevelBelow
<1> QED BY <1>1, <1>2

\* Where no put() is under way, the ranks of all tags have one level more than
\* those of their super objects.
LEMMA IdleRanks ==
    ASSUME StoreInv, RankInv, call.stage = "idle"
    PROVE  /\ \A x \in Tags : x \in Term /\ rank[x] \in Seq(Nat) /\ super_object[x] \in Tags
           /\ \A x \in Tags \ {Entity} :
                /\ rank[x] = Append(rank[super_object[x]], Last(rank[x]))
                /\ Last(rank[x]) \in Nat \ {0}
                /\ Len(rank[x]) = Len(rank[super_object[x]]) + 1
<1>1. \A x \in Tags : x \in Term /\ rank[x] \in Seq(Nat) /\ super_object[x] \in Tags
      BY DEF StoreInv, TypeOK, ReferencesExist, Tags
<1>2. \A x \in Tags \ {Entity} : IsLevelBelow(rank[x], rank[super_object[x]])
      BY DEF RankInv, Destination
<1>3. ASSUME NEW x \in Tags \ {Entity}
      PROVE  /\ rank[x] = Append(rank[super_object[x]], Last(rank[x]))
             /\ Last(rank[x]) \in Nat \ {0}
             /\ Len(rank[x]) = Len(rank[super_object[x]]) + 1
  <2>1. rank[x] \in Seq(Nat) /\ rank[super_object[x]] \in Seq(Nat)
        BY <1>1
  <2>2. IsLevelBelow(rank[x], rank[super_object[x]])
        BY <1>2
  <2> QED BY ONLY <2>1, <2>2, LevelBelow
<1> QED BY <1>1, <1>3

\* Every prefix of the rank of a tag is the rank of a tag, on the way from the
\* tag to the root.
LEMMA PrefixIsRank ==
    ASSUME StoreInv, RankInv, call.stage = "idle",
           NEW S \in SUBSET Tags, Tree!UpClosed(S), NEW y \in S,
           NEW p \in Seq(Nat), IsPrefix(p, rank[y])
    PROVE  \E z \in S : rank[z] = p
<1> DEFINE B == {z \in S : IsPrefix(p, rank[z])}
           Levels == {Len(rank[z]) : z \in B}
<1>1. \A z \in S : z \in Tags /\ rank[z] \in Seq(Nat) /\ Len(rank[z]) \in Nat
      BY IdleRanks
<1>2. PICK n \in Levels : \A m \in Levels : n <= m
  <2>1. Levels \subseteq Nat /\ Len(rank[y]) \in Levels
        BY <1>1
  <2> HIDE DEF Levels
  <2> QED BY <2>1, LeastNumber
<1>3. PICK z \in B : Len(rank[z]) = n
      BY <1>2
<1>4. CASE z = Entity
  <2>1. rank[z] = <<>> /\ IsPrefix(p, rank[z])
        BY <1>3, <1>4 DEF RankInv
  <2>2. p = <<>>
        BY <2>1, EmptyPrefix
  <2> QED BY <1>3, <2>1, <2>2
<1>5. CASE z # Entity
  <2> DEFINE w == super_object[z]
             k == Last(rank[z])
  <2>1. w \in S
        BY <1>3 DEF Tree!UpClosed
  <2>2. rank[z] = Append(rank[w], k) /\ k \in Nat /\ Len(rank[z]) = Len(rank[w]) + 1 /\ rank[w] \in Seq(Nat)
        BY <1>1, <1>3, <1>5, <2>1, IdleRanks
  <2>3. IsPrefix(p, rank[z])
        BY <1>3
  <2>4. p = rank[z] \/ IsPrefix(p, rank[w])
    <3> DEFINE r == rank[w]
    <3>1. rank[z] = Append(r, k) /\ k \in Nat /\ r \in Seq(Nat)
          BY <2>2
    <3> HIDE DEF r, k
    <3>2. IsPrefix(p, Append(r, k))
          BY <2>3, <3>1
    <3>3. p = Append(r, k) \/ IsPrefix(p, r)
          BY <3>1, <3>2, PrefixOfAppend
    <3> QED BY <3>1, <3>3 DEF r
  <2>5. ~ IsPrefix(p, rank[w])
    <3>1. SUFFICES ASSUME IsPrefix(p, rank[w])
                   PROVE  FALSE
          OBVIOUS
    <3>2. Len(rank[w]) \in Levels /\ Len(rank[w]) \in Nat
          BY <1>1, <2>1, <3>1
    <3>3. Len(rank[z]) <= Len(rank[w])
          BY <1>2, <1>3, <3>2
    <3> QED BY <2>2, <3>2, <3>3
  <2> QED BY <1>3, <2>4, <2>5
<1> QED BY <1>4, <1>5

\* Between operations, a tag is below the tags whose ranks are prefixes of its
\* own, and below no others.
LEMMA PrefixIsAbove ==
    ASSUME StoreInv, RankInv, call.stage = "idle", NEW x \in Tags, NEW y \in Tags
    PROVE  Tree!Above(x, y) <=> IsPrefix(rank[x], rank[y])
<1>1. Tree!Present = Tags
      BY DEF Tree!Present, Tags
<1>2. ASSUME IsPrefix(rank[x], rank[y])
      PROVE  Tree!Above(x, y)
  <2> SUFFICES ASSUME NEW S \in SUBSET Tags, Tree!UpClosed(S), y \in S
               PROVE  x \in S
      BY <1>1 DEF Tree!Above
  <2>1. rank[x] \in Seq(Nat)
        BY IdleRanks
  <2>2. PICK z \in S : rank[z] = rank[x]
    <3> DEFINE p == rank[x]
    <3>1. p \in Seq(Nat) /\ IsPrefix(p, rank[y])
          BY <1>2, <2>1
    <3> HIDE DEF p
    <3>2. \E z \in S : rank[z] = p
          BY <3>1, PrefixIsRank
    <3> QED BY <3>2 DEF p
  <2> QED BY <2>2 DEF RankInv, RanksDistinct
<1>3. ASSUME Tree!Above(x, y), ~ IsPrefix(rank[x], rank[y])
      PROVE  FALSE
  <2> DEFINE S == {z \in Tags : ~ IsPrefix(rank[x], rank[z])}
  <2>1. ASSUME NEW z \in S
        PROVE  super_object[z] \in S
    <3>1. CASE z = Entity
          BY <3>1 DEF StoreInv, Control
    <3>2. CASE z # Entity
      <4> DEFINE w == super_object[z]
                 k == Last(rank[z])
      <4>1. /\ rank[z] = Append(rank[w], k) /\ k \in Nat /\ w \in Tags
            /\ rank[w] \in Seq(Nat) /\ rank[x] \in Seq(Nat)
            BY <3>2, IdleRanks
      <4>2. ~ IsPrefix(rank[x], rank[z])
            OBVIOUS
      <4>3. ~ IsPrefix(rank[x], rank[w])
        <5> HIDE DEF w, k
        <5> QED BY <4>1, <4>2, PrefixOfAppend
      <4> QED BY <4>1, <4>3
    <3> QED BY <3>1, <3>2
  <2>2. y \in S /\ Tree!UpClosed(S)
        BY <1>3, <2>1 DEF Tree!UpClosed
  <2>3. x \in S
        BY <1>1, <1>3, <2>2 DEF Tree!Above
  <2>4. IsPrefix(rank[x], rank[x])
        BY PrefixItself, IdleRanks
  <2> QED BY <2>3, <2>4
<1> QED BY <1>2, <1>3

\* ... which is what a query for the subtree of a tag asks for.
LEMMA GlobIsAbove ==
    ASSUME SmallStore, StoreInv, RankInv
    PROVE  RanksSelectSubtrees
<1> SUFFICES ASSUME call.stage = "idle", NEW x \in Tags \ {Entity}, NEW y \in Tags \ {Entity}
             PROVE  Glob(Load(rank[x]), rank[y]) <=> Tree!Above(x, y)
    BY DEF RanksSelectSubtrees
<1>1. rank[x] \in Seq(Nat) /\ Small(rank[x])
      BY IdleRanks DEF RankInv
<1>2. Load(rank[x]) = rank[x] /\ (Glob(rank[x], rank[y]) <=> IsPrefix(rank[x], rank[y]))
      BY <1>1, SmallPlain
<1> QED BY <1>2, PrefixIsAbove

\* A rank below a tag that none of its children has is a prefix of no rank.
LEMMA FreshRank ==
    ASSUME StoreInv, RankInv, call.stage = "idle", NEW d \in Tags, NEW k \in Nat \ {0},
           \A c \in Tags \ {Entity} : super_object[c] = d => rank[c] # Append(rank[d], k)
    PROVE  \A y \in Tags : ~ IsPrefix(Append(rank[d], k), rank[y])
<1> DEFINE s == rank[d]
           r == Append(s, k)
<1>1. s \in Seq(Nat) /\ r \in Seq(Nat) /\ k \in Nat
      BY IdleRanks
<1>2. r # <<>>
  <2>1. IsLevelBelow(Append(s, k), s)
    <3> HIDE DEF s
    <3> QED BY <1>1, LevelBelow
  <2> QED BY <2>1 DEF IsLevelBelow
<1>3. Tree!UpClosed(Tags)
      BY IdleRanks DEF Tree!UpClosed
<1>4. ASSUME NEW y \in Tags, IsPrefix(r, rank[y])
      PROVE  FALSE
  <2>1. PICK z \in Tags : rank[z] = r
    <3> HIDE DEF r
    <3> QED BY <1>1, <1>3, <1>4, PrefixIsRank
  <2>2. z # Entity
        BY <1>2, <2>1 DEF RankInv
  <2> DEFINE w == super_object[z]
             l == Last(rank[z])
             u == rank[w]
  <2>3. r = Append(u, l) /\ l \in Nat /\ u \in Seq(Nat) /\ w \in Tags
        BY <2>1, <2>2, IdleRanks
  <2>4. u = s
    <3> HIDE DEF u, l, s
    <3> QED BY <1>1, <2>3, AppendInjective
  <2>5. w = d
        BY <2>3, <2>4 DEF RankInv, RanksDistinct
  <2> QED BY <2>1, <2>2, <2>5
<1> QED BY <1>4

\* next_rank gives a tag the rank of its super object with one more level,
\* which is a prefix of no rank in the store.  It does not fail.
LEMMA NextRankMeaning ==
    ASSUME SmallStore, StoreInv, RankInv, call.stage = "idle", NEW d \in Tags
    PROVE  /\ \A r \in NextRanks(d) :
                /\ r \in Seq(Nat) /\ IsLevelBelow(r, rank[d])
                /\ \A y \in Tags : ~ IsPrefix(r, rank[y])
           /\ ~ NextRankFails(d)
           /\ ~ NextRankAborts(d)
<1> DEFINE s == rank[d]
<1>1. /\ s \in Seq(Nat) /\ Small(s) /\ Load(s) = s /\ Len(s) \in Nat
      /\ d # Entity => s # <<>>
  <2>1. s \in Seq(Nat) /\ Small(s)
        BY IdleRanks DEF RankInv
  <2>2. d # Entity => Len(s) # 0
    <3>1. ASSUME d # Entity
          PROVE  Len(s) = Len(rank[super_object[d]]) + 1 /\ Len(rank[super_object[d]]) \in Nat
          BY <3>1, IdleRanks
    <3> QED BY <3>1
  <2> QED BY <2>1, <2>2, SmallPlain
<1>2. MaxOrdinal \in Nat /\ MaxOrdinal < 42 /\ MaxDepth \in Nat /\ RankMaxLen \in Nat /\ MaxDepth < RankMaxLen
      BY RankMaxLenAssumption DEF SmallStore, Star
\* The children's ranks.
<1>3. ASSUME NEW m \in ChildRanks(d)
      PROVE  /\ m \in Seq(Nat) /\ Validates(m)
             /\ \E l \in Nat \ {0} : m = Append(s, l) /\ l <= MaxOrdinal
  <2>1. PICK c \in Tags \ {Entity} : super_object[c] = d /\ m = rank[c]
        BY DEF ChildRanks
  <2> DEFINE l == Last(m)
  <2>2. /\ m \in Seq(Nat) /\ Small(m) /\ l \in Nat \ {0} /\ m = Append(s, l)
        /\ Len(m) = Len(s) + 1
        BY <2>1, IdleRanks DEF RankInv
  <2>3. l <= MaxOrdinal
        BY <1>1, <2>2 DEF Small, Last
  <2>4. m # <<>>
        BY <1>1, <2>2
  <2> QED BY <2>2, <2>3, <2>4, SmallPlain
\* The ordinal that the new rank ends in.
<1>4. ASSUME NEW r \in NextRanks(d)
      PROVE  \E k \in Nat \ {0} : /\ r = Append(s, k) /\ k <= 42
                                  /\ \A y \in Tags : ~ IsPrefix(r, rank[y])
  <2>1. CASE ChildRanks(d) = {}
    <3>1. r = Append(s, 1)
          BY <1>1, <2>1 DEF NextRanks, PushBack
    <3>2. ASSUME NEW c \in Tags \ {Entity}, super_object[c] = d
          PROVE  FALSE
      <4>1. rank[c] \in ChildRanks(d)
            BY <3>2 DEF ChildRanks
      <4> QED BY <2>1, <4>1
    <3>3. \A y \in Tags : ~ IsPrefix(Append(s, 1), rank[y])
          BY <3>2, FreshRank
    <3>4. 1 \in Nat \ {0} /\ 1 <= 42
          OBVIOUS
    <3> QED BY ONLY <3>1, <3>3, <3>4
  <2>2. CASE ChildRanks(d) # {}
    <3>1. PICK m \in MaxRanks(ChildRanks(d)) : r = Increment(m)
          BY <2>2 DEF NextRanks
    <3>2. m \in ChildRanks(d) /\ \A q \in ChildRanks(d) : ~ LexLess(m, q)
          BY <3>1 DEF MaxRanks
    <3>3. PICK l \in Nat \ {0} : m = Append(s, l) /\ l <= MaxOrdinal
          BY <1>3, <3>2
    <3>4. l \in Nat /\ l < 42 /\ l + 1 \in Nat \ {0} /\ l < l + 1 /\ l + 1 <= 42
          BY <1>2, <3>3
    <3>5. Front(m) = s /\ Last(m) = l /\ m # <<>>
      <4>1. Front(m) = s /\ Last(m) = l
            BY <1>1, <3>3, <3>4, FrontLast
      <4> QED BY <1>1, <1>3, <3>2, <4>1 DEF Validates
    <3>6. Utf8Increment(l) = l + 1
          BY <3>4, IncrementOrdinal DEF Star
    <3>7. r = Append(s, l + 1)
          BY <3>1, <3>5, <3>6 DEF Increment
    <3>8. ASSUME NEW c \in Tags \ {Entity}, super_object[c] = d
          PROVE  rank[c] # Append(s, l + 1)
      <4>1. rank[c] \in ChildRanks(d)
            BY <3>8 DEF ChildRanks
      <4>2. LexLess(Append(s, l), Append(s, l + 1))
            BY <1>1, <3>4, SiblingOrder
      <4>3. ~ LexLess(Append(s, l), rank[c])
            BY <3>2, <3>3, <4>1
      <4> DEFINE u == Append(s, l)
                 v == Append(s, l + 1)
      <4>4. LexLess(u, v) /\ ~ LexLess(u, rank[c])
            BY <4>2, <4>3
      <4> HIDE DEF u, v
      <4>5. rank[c] # v
            BY <4>4
      <4> QED BY <4>5 DEF v
    <3>9. \A y \in Tags : ~ IsPrefix(Append(s, l + 1), rank[y])
          BY <3>4, <3>8, FreshRank
    <3> QED BY <3>4, <3>7, <3>9
  <2> QED BY <2>1, <2>2
\* It fits.
<1>5. ASSUME NEW r \in NextRanks(d)
      PROVE  r \in Seq(Nat) /\ IsLevelBelow(r, s) /\ Fits(r)
  <2>1. PICK k \in Nat \ {0} : r = Append(s, k) /\ k <= 42
        BY <1>4
  <2>2. k \in Nat /\ k > 0
        OBVIOUS
  <2>3. /\ r \in Seq(Nat) /\ Len(r) = Len(s) + 1 /\ r[Len(s) + 1] = k
        /\ \A i \in 1 .. Len(s) : r[i] = s[i]
        BY <1>1, <2>1, <2>2, AppendProperties
  <2>4. IsLevelBelow(r, s) /\ Last(r) = k
        BY <1>1, <2>1, LevelBelow
  <2>5. ASSUME NEW i \in 1 .. Len(r)
        PROVE  r[i] < 128
    <3>1. CASE i = Len(s) + 1
          BY <2>1, <2>2, <2>3, <3>1
    <3>2. CASE i \in 1 .. Len(s)
      <4>1. s[i] \in Nat /\ s[i] <= MaxOrdinal
        <5>1. s \in Seq(Nat) /\ Small(s)
              BY <1>1
        <5> HIDE DEF s
        <5>2. s[i] \in Nat
              BY ONLY <5>1, <3>2, ElementOfSeq
        <5> QED BY ONLY <5>1, <5>2, <3>2 DEF Small
      <4>2. r[i] = s[i]
            BY <2>3, <3>2
      <4> QED BY <1>2, <4>1, <4>2
    <3>3. Len(s) \in Nat
          BY <1>1
    <3>4. i = Len(s) + 1 \/ i \in 1 .. Len(s)
          BY ONLY <2>3, <3>3, i \in 1 .. Len(r)
    <3> QED BY <3>1, <3>2, <3>4
  <2>6. ByteLen(r) = Len(s) + 1
        BY <2>3, <2>5, OneBytePerLevel
  <2>7. ByteLen(r) <= RankMaxLen
        BY <1>1, <1>2, <2>6 DEF Small
  <2>8. k \in 1 .. MaxCodePoint /\ k # Replacement
    <3>1. MaxCodePoint \in Nat /\ k <= MaxCodePoint
          BY <2>1, <2>2 DEF MaxCodePoint
    <3>2. k # Replacement
          BY <2>1, <2>2 DEF Replacement
    <3> QED BY <2>2, <3>1, <3>2
  <2> QED BY <2>3, <2>4, <2>7, <2>8 DEF Fits
<1>6. ~ NextRankFails(d)
  <2>1. \A m \in MaxRanks(ChildRanks(d)) : Validates(m)
        BY <1>3 DEF MaxRanks
  <2> QED BY <1>5, <2>1 DEF NextRankFails
<1>7. ~ NextRankAborts(d)
      BY <1>1 DEF NextRankAborts
<1> QED BY <1>4, <1>5, <1>6, <1>7

\* What the statement of update() writes, in a store with such ranks: the tags
\* whose rank begins with that of the tag get another beginning.
LEMMA ShiftMeaning ==
    ASSUME SmallStore, StoreInv, RankInv, call.stage = "idle",
           NEW x \in Tags \ {Entity}, NEW r \in Seq(Nat)
    PROVE  \A y \in Tags :
             Shifted(Load(rank[x]), r)[y] =
               IF y # Entity /\ IsPrefix(rank[x], rank[y]) THEN r \o Rest(rank[x], rank[y]) ELSE rank[y]
<1>1. rank[x] \in Seq(Nat) /\ Small(rank[x])
      BY IdleRanks DEF RankInv
<1> DEFINE p == rank[x]
<1>2. p \in Seq(Nat) /\ Small(p)
      BY <1>1
<1> SUFFICES ASSUME NEW y \in Tags
             PROVE  Shifted(Load(p), r)[y] =
                      IF y # Entity /\ IsPrefix(p, rank[y]) THEN r \o Rest(p, rank[y]) ELSE rank[y]
    OBVIOUS
<1> HIDE DEF p
<1>3. Load(p) = p /\ ByteLen(p) = Len(p) /\ (Glob(p, rank[y]) <=> IsPrefix(p, rank[y]))
      BY <1>2, SmallPlain
<1>4. y \in Term
      BY IdleRanks
<1> QED BY <1>3, <1>4 DEF Shifted, Rest

\* The rows do not meet while they get their new ranks: the new beginning is
\* one that no other rank has.
LEMMA NoClash ==
    ASSUME SmallStore, StoreInv, RankInv, call.stage = "idle",
           NEW x \in Tags \ {Entity}, NEW r \in Seq(Nat),
           \A y \in Tags : ~ IsPrefix(r, rank[y])
    PROVE  ~ MayClash(Shifted(Load(rank[x]), r))
<1> DEFINE old == rank[x]
           ranks == Shifted(Load(old), r)
<1>1. \A y \in Tags : ranks[y] = IF y # Entity /\ IsPrefix(old, rank[y]) THEN r \o Rest(old, rank[y]) ELSE rank[y]
      BY ShiftMeaning
<1>2. \A y \in Tags : rank[y] \in Seq(Nat)
      BY IdleRanks
<1>3. old \in Seq(Nat)
      BY <1>2
<1> HIDE DEF old, ranks
<1>4. ASSUME NEW y \in Tags, NEW z \in Tags, y # z, ranks[y] # rank[y], ranks[y] \in {rank[z], ranks[z]}
      PROVE  FALSE
  <2> DEFINE u == Rest(old, rank[y])
             v == Rest(old, rank[z])
  <2>1. ranks[y] = r \o u /\ IsPrefix(old, rank[y])
        BY <1>1, <1>4
  <2>2. u \in Seq(Nat) /\ v \in Seq(Nat)
    <3> DEFINE s == rank[y]
               w == rank[z]
    <3>1. s \in Seq(Nat) /\ w \in Seq(Nat)
          BY <1>2
    <3> HIDE DEF s, w
    <3>2. Rest(old, s) \in Seq(Nat) /\ Rest(old, w) \in Seq(Nat)
          BY <1>3, <3>1, RestType
    <3> QED BY <3>2 DEF s, w
  <2>3. IsPrefix(r, ranks[y])
    <3> HIDE DEF u
    <3> QED BY <2>1, <2>2, PrefixOfConcat
  <2>4. ranks[z] # rank[z] /\ ranks[y] = ranks[z]
        BY <1>4, <2>3
  <2>5. ranks[z] = r \o v /\ IsPrefix(old, rank[z])
        BY <1>1, <2>4
  <2>6. u = v
    <3>1. r \o u = r \o v
          BY <2>1, <2>4, <2>5
    <3> HIDE DEF u, v
    <3> QED BY <2>2, <3>1, ConcatCancel
  <2>7. rank[y] = rank[z]
        BY <1>2, <1>3, <2>1, <2>5, <2>6, RestInjective
  <2> QED BY <1>4, <2>7 DEF RankInv, RanksDistinct
<1>5. ~ MayClash(ranks)
      BY <1>4 DEF MayClash
<1> QED BY <1>5 DEF ranks, old

\* update() moves a tag to a place that is not below it, the root aside.
LEMMA MoveApart ==
    ASSUME SmallStore, StoreInv, RankInv, call.stage = "idle", NEW t \in Request,
           IsMove(t), Disciplined(t)
    PROVE  /\ t.id \in Tags /\ t.super \in Tags /\ t.sub \in Tags
           /\ t.id = Entity => t.super = Entity
           /\ t.id # Entity => ~ IsPrefix(rank[t.id], rank[t.super])
           /\ NewRankNeeded(t) <=> t.id # Entity
<1>1. t.id \in Tags /\ t.super \in Tags /\ (t.id = t.super => t.id = Entity) /\ t.sub \in Tags
      BY MoveMeaning DEF Disciplined, SmallStore
<1>2. rank[t.id] \in Seq(Nat) /\ rank[t.super] \in Seq(Nat) /\ Small(rank[t.id]) /\ Small(rank[t.super])
      BY <1>1, IdleRanks DEF RankInv
<1>3. t.id # t.super => ~ IsPrefix(rank[t.id], rank[t.super])
      BY <1>1, PrefixIsAbove DEF Disciplined, SmallStore
<1>4. t.id # t.super => t.id # Entity /\ rank[t.id] # rank[t.super]
      BY <1>2, <1>3, EmptyPrefix, PrefixItself DEF RankInv
<1>5. Load(rank[t.id]) = rank[t.id] /\ Load(rank[t.super]) = rank[t.super]
      BY <1>2, SmallPlain
<1>6. ~ IsInsert(t)
      BY DEF IsMove, IsInsert
<1> QED BY <1>1, <1>3, <1>4, <1>5, <1>6 DEF NewRankNeeded

\* The rank that put() gives out stays within the bounds.
LEMMA NewRankSmall ==
    ASSUME SmallStore, StoreInv, RankInv, call.stage = "idle", NEW t \in Request, t.super \in Tags,
           NEW r, NewRank(t, r)
    PROVE  r \in Seq(Nat) /\ Small(r) /\ IsLevelBelow(r, rank[t.super]) /\ \A y \in Tags : ~ IsPrefix(r, rank[y])
<1> DEFINE s == rank[t.super]
           k == Last(r)
           n == Len(s)
<1>1. r \in Seq(Nat) /\ IsLevelBelow(r, s) /\ \A y \in Tags : ~ IsPrefix(r, rank[y])
      BY NextRankMeaning DEF NewRank
<1>2. s \in Seq(Nat) /\ Small(s)
      BY IdleRanks DEF RankInv
<1>3. k \in Nat \ {0} /\ r = Append(s, k) /\ Len(r) = n + 1 /\ n \in Nat
  <2> HIDE DEF s
  <2> QED BY <1>1, <1>2, LevelBelow
<1>4. k <= MaxOrdinal /\ Len(r) <= MaxDepth
      BY DEF NewRank
<1> HIDE DEF s, k
<1>5. r[n + 1] = k /\ \A i \in 1 .. n : r[i] = s[i]
      BY <1>2, <1>3, AppendProperties
<1>6. ASSUME NEW i \in 1 .. Len(r)
      PROVE  0 < r[i] /\ r[i] <= MaxOrdinal
  <2>1. CASE i = n + 1
    <3>1. k \in Nat /\ k > 0
          BY <1>3
    <3> QED BY <1>4, <1>5, <2>1, <3>1
  <2>2. CASE i \in 1 .. n
        BY <1>2, <1>5, <2>2 DEF Small
  <2> QED BY <1>3, <2>1, <2>2
<1>7. Small(r)
      BY <1>4, <1>6 DEF Small
<1> QED BY <1>1, <1>7 DEF s

\* A rank with another beginning.
LEMMA NewBeginningSmall ==
    ASSUME SmallStore, NEW r \in Seq(Nat), NEW p \in Seq(Nat), NEW s \in Seq(Nat),
           Small(r), Small(s), IsPrefix(p, s), Len(r \o Rest(p, s)) <= MaxDepth
    PROVE  Small(r \o Rest(p, s))
<1> DEFINE u == Rest(p, s)
           a == r \o u
           n == Len(r)
           m == Len(u)
<1>1. /\ u \in Seq(Nat) /\ Len(p) <= Len(s) /\ m = Len(s) - Len(p)
      /\ \A i \in 1 .. Len(s) - Len(p) : u[i] = s[Len(p) + i]
      BY RestType, PrefixPointwise
<1> HIDE DEF u
<1>2. u \in Seq(Nat) /\ n \in Nat /\ m \in Nat /\ Len(p) \in Nat /\ Len(s) \in Nat
      BY <1>1
<1>3. Len(a) = n + m /\ \A i \in 1 .. n + m : a[i] = IF i <= n THEN r[i] ELSE u[i - n]
      BY <1>2, ConcatProperties
<1> HIDE DEF a, n, m
<1>4. ASSUME NEW i \in 1 .. Len(a)
      PROVE  0 < a[i] /\ a[i] <= MaxOrdinal
  <2>1. CASE i <= n
    <3>1. i \in 1 .. Len(r) /\ a[i] = r[i]
          BY <1>2, <1>3, <2>1 DEF n
    <3> QED BY <3>1 DEF Small
  <2>2. CASE i > n
    <3>1. i - n \in 1 .. m /\ a[i] = u[i - n]
          BY <1>2, <1>3, <2>2
    <3>2. i - n \in 1 .. Len(s) - Len(p) /\ Len(p) + (i - n) \in 1 .. Len(s)
          BY <1>1, <1>2, <3>1
    <3>3. a[i] = s[Len(p) + (i - n)]
          BY <1>1, <3>1, <3>2
    <3>4. \A j \in 1 .. Len(s) : 0 < s[j] /\ s[j] <= MaxOrdinal
          BY DEF Small
    <3> QED BY ONLY <3>2, <3>3, <3>4
  <2> QED BY <1>2, <1>3, <2>1, <2>2
<1>5. Len(a) <= MaxDepth
      BY DEF a, u
<1> QED BY <1>4, <1>5 DEF Small, a, u

\* The first statement of update(): the tag and everything below it move, and
\* everything else stays where it is.
LEMMA UpdateRanksFollows ==
    ASSUME SmallStore, StoreInv, RankInv, call.stage = "idle", NEW t \in Request, UpdateRanks(t),
           RanksDistinct'
    PROVE  RankInv'
<1> DEFINE x == t.id
           d == t.super
           p == rank[x]
<1>0. IsMove(t) /\ Disciplined(t) /\ NewRankNeeded(t)
      BY DEF UpdateRanks, NewRank
<1>1. x \in Tags \ {Entity} /\ d \in Tags /\ t.sub \in Tags /\ ~ IsPrefix(p, rank[d])
      BY <1>0, MoveApart
<1>2. PICK r : NewRank(t, r) /\ rank' = Shifted(Load(p), r) /\ \A y \in Tags : Len(rank'[y]) <= MaxDepth
      BY DEF UpdateRanks
<1>3. r \in Seq(Nat) /\ Small(r) /\ IsLevelBelow(r, rank[d])
      BY <1>1, <1>2, NewRankSmall
<1>4. /\ super_object' = super_object /\ Tags' = Tags
      /\ call'.stage = "tag" /\ call'.tag = t
      BY DEF UpdateRanks, Tags, Idle
<1>5. \A y \in Tags : rank'[y] = IF y # Entity /\ IsPrefix(p, rank[y]) THEN r \o Rest(p, rank[y]) ELSE rank[y]
      BY <1>1, <1>2, <1>3, ShiftMeaning
<1>6. Entity \in Tags /\ rank[Entity] = <<>> /\ \A y \in Tags : rank[y] \in Seq(Nat) /\ Small(rank[y])
      BY IdleRanks DEF StoreInv, Control, RankInv
<1>7. p \in Seq(Nat) /\ p # <<>> /\ ~ IsPrefix(p, <<>>)
  <2>1. p \in Seq(Nat) /\ p # rank[Entity]
        BY <1>1, <1>6 DEF RankInv, RanksDistinct
  <2> QED BY <1>6, <2>1, EmptyPrefix
<1>8. \A y \in Tags : Small(rank'[y])
  <2> SUFFICES ASSUME NEW y \in Tags
               PROVE  Small(rank'[y])
      OBVIOUS
  <2> DEFINE s == rank[y]
  <2>1. s \in Seq(Nat) /\ Small(s) /\ Len(rank'[y]) <= MaxDepth
        BY <1>2, <1>6
  <2>2. rank'[y] = IF y # Entity /\ IsPrefix(p, s) THEN r \o Rest(p, s) ELSE s
        BY <1>5
  <2> HIDE DEF p, s
  <2> QED BY <1>3, <1>7, <2>1, <2>2, NewBeginningSmall
<1>9. rank'[d] = rank[d]
      BY <1>1, <1>5
\* The tag itself.
<1>10. rank'[x] = r
  <2>1. rank'[x] = r \o Rest(p, p)
        BY <1>1, <1>5, <1>7, PrefixItself
  <2> HIDE DEF p
  <2>6. Len(p) \in Nat /\ Len(p) <= Len(p) /\ Len(p) - Len(p) = 0
        BY <1>7
  <2>2. Rest(p, p) \in Seq(Nat) /\ Len(Rest(p, p)) = 0
        BY <1>7, <2>6, RestType
  <2> DEFINE u == Rest(p, p)
  <2>3. u \in Seq(Nat) /\ Len(u) = 0
        BY <2>2
  <2> HIDE DEF u
  <2>4. u = <<>>
        BY <2>3, EmptySeq
  <2>5. r \o <<>> = r
        BY <1>3, ConcatEmptySeq
  <2> QED BY <2>1, <2>4, <2>5 DEF u
\* Every other tag.
<1>11. ASSUME NEW y \in Tags \ {Entity}, y # x
       PROVE  IsLevelBelow(rank'[y], rank'[super_object[y]])
  <2> DEFINE w == super_object[y]
             k == Last(rank[y])
             s == rank[w]
  <2>1. w \in Tags /\ rank[y] = Append(s, k) /\ k \in Nat \ {0} /\ s \in Seq(Nat) /\ p # rank[y]
        BY <1>1, <1>11, IdleRanks DEF RankInv, RanksDistinct
  <2>2. /\ rank'[y] = IF IsPrefix(p, rank[y]) THEN r \o Rest(p, rank[y]) ELSE rank[y]
        /\ rank'[w] = IF w # Entity /\ IsPrefix(p, s) THEN r \o Rest(p, s) ELSE s
        /\ w = Entity => ~ IsPrefix(p, s)
    <3> HIDE DEF p
    <3> QED BY <1>5, <1>6, <1>7, <2>1
  <2>7. /\ rank'[y] = IF IsPrefix(p, Append(s, k)) THEN r \o Rest(p, Append(s, k)) ELSE Append(s, k)
        /\ p # Append(s, k)
    <3> HIDE DEF p, s, k
    <3> QED BY <2>1, <2>2
  <2>3. k \in Nat /\ k > 0
        BY <2>1
  <2> HIDE DEF p, s, k, w
  <2>4. IsPrefix(p, Append(s, k)) <=> IsPrefix(p, s)
    <3>1. p \in Seq(Nat) /\ s \in Seq(Nat) /\ k \in Nat /\ p # Append(s, k)
          BY <1>7, <2>7, <2>1, <2>3
    <3> QED BY ONLY <3>1, PrefixOfAppend
  <2>5. CASE IsPrefix(p, s)
    <3>1. rank'[y] = r \o Rest(p, Append(s, k)) /\ rank'[w] = r \o Rest(p, s)
          BY <2>7, <2>2, <2>4, <2>5
    <3>4. r \o Rest(p, Append(s, k)) = Append(r \o Rest(p, s), k)
      <4>1. p \in Seq(Nat) /\ s \in Seq(Nat) /\ k \in Nat /\ r \in Seq(Nat) /\ IsPrefix(p, s)
            BY <1>3, <1>7, <2>1, <2>3, <2>5
      <4> QED BY ONLY <4>1, ReplacePrefix, ZenonT(60)
    <3>2. rank'[y] = Append(rank'[w], k)
          BY <3>1, <3>4
    <3>3. rank'[w] \in Seq(Nat)
      <4>1. Rest(p, s) \in Seq(Nat)
            BY <1>7, <2>1, RestType
      <4> QED BY <1>3, <3>1, <4>1
    <3> QED BY <2>1, <3>2, <3>3, LevelBelow DEF w
  <2>6. CASE ~ IsPrefix(p, s)
        BY <2>7, <2>1, <2>2, <2>4, <2>6, LevelBelow DEF w
  <2> QED BY <2>5, <2>6
<1>12. \A y \in Tags \ {Entity} : IsLevelBelow(rank'[y], rank'[Destination(y)'])
  <2>1. \A y \in Tags : Destination(y)' = IF y = x THEN d ELSE super_object[y]
        BY <1>4 DEF Destination
  <2> QED BY <1>3, <1>9, <1>10, <1>11, <2>1
<1>13. rank'[Entity] = <<>>
      BY <1>5, <1>6
<1> QED BY <1>1, <1>4, <1>8, <1>12, <1>13 DEF RankInv, RowAllowed

\* A step that leaves ranks and super objects alone, and is not about to write
\* a super object.
LEMMA RanksKept ==
    ASSUME RankInv, UNCHANGED <<super_object, rank>>, call.stage # "tag", call'.stage # "tag"
    PROVE  RankInv'
<1>1. Tags' = Tags /\ \A x \in Tags : Destination(x) = super_object[x] /\ Destination(x)' = super_object[x]
      BY DEF Tags, Destination
<1> QED BY <1>1 DEF RankInv, RanksDistinct

\* A new tag is a leaf.
LEMMA InsertFollows ==
    ASSUME SmallStore, StoreInv, RankInv, call.stage = "idle", NEW t \in Request, InsertTag(t),
           RanksDistinct'
    PROVE  RankInv'
<1> DEFINE x == t.id
           d == t.super
<1>1. x \in Term \ Tags /\ d \in Tags
      BY InsertMeaning DEF InsertTag, Term
<1>2. PICK r : NewRank(t, r) /\ rank' = [rank EXCEPT ![x] = r]
      BY DEF InsertTag
<1>3. r \in Seq(Nat) /\ Small(r) /\ IsLevelBelow(r, rank[d])
      BY <1>1, <1>2, NewRankSmall
<1>4. super_object' = [super_object EXCEPT ![x] = d] /\ call'.stage # "tag"
      BY DEF InsertTag, Continue
<1>5. \A y \in Term : /\ super_object'[y] = IF y = x THEN d ELSE super_object[y]
                      /\ rank'[y] = IF y = x THEN r ELSE rank[y]
      BY <1>2, <1>4 DEF StoreInv, TypeOK
<1>6. Tags' = Tags \cup {x} /\ Tags \subseteq Term /\ Entity \in Tags
      BY <1>1, <1>5 DEF Tags, StoreInv, Control
<1>7. \A y \in Tags' \ {Entity} : Destination(y)' = IF y = x THEN d ELSE super_object[y]
  <2>1. \A y \in Tags' : y \in Term /\ Destination(y)' = super_object'[y]
        BY <1>1, <1>4, <1>6 DEF Destination
  <2> HIDE DEF x, d
  <2> QED BY <1>5, <2>1
<1>8. \A y \in Tags \ {Entity} : super_object[y] \in Tags /\ IsLevelBelow(rank[y], rank[super_object[y]])
      BY IdleRanks DEF RankInv, Destination
<1>9. \A y \in Tags' \ {Entity} : IsLevelBelow(rank'[y], rank'[Destination(y)'])
  <2> HIDE DEF x, d
  <2>1. ASSUME NEW y \in Tags' \ {Entity}
        PROVE  IsLevelBelow(rank'[y], rank'[Destination(y)'])
    <3>1. CASE y = x
      <4>1. Destination(y)' = d /\ d # x /\ x \in Term /\ d \in Term
            BY <1>1, <1>6, <1>7, <3>1
      <4>2. rank'[y] = r /\ rank'[d] = rank[d]
            BY <1>5, <3>1, <4>1
      <4> QED BY <1>3, <4>1, <4>2
    <3>2. CASE y # x
      <4>1. y \in Tags /\ super_object[y] \in Tags /\ Destination(y)' = super_object[y] /\ super_object[y] # x
            BY <1>1, <1>6, <1>7, <1>8, <3>2
      <4>2. rank'[y] = rank[y] /\ rank'[super_object[y]] = rank[super_object[y]]
            BY <1>5, <1>6, <3>2, <4>1
      <4> QED BY <1>8, <4>1, <4>2
    <3> QED BY <3>1, <3>2
  <2> QED BY <2>1
<1>10. rank'[Entity] = <<>> /\ \A y \in Tags' : Small(rank'[y])
      BY <1>1, <1>3, <1>5, <1>6 DEF RankInv
<1> QED BY <1>4, <1>9, <1>10 DEF RankInv

\* The second statement of update() writes what the first one has prepared.
LEMMA UpdateTagFollows ==
    ASSUME StoreInv, RankInv, UpdateTag
    PROVE  RankInv'
<1>1. /\ call.stage = "tag" /\ call'.stage # "tag" /\ rank' = rank
      /\ super_object' = [super_object EXCEPT ![call.tag.id] = call.tag.super]
      BY DEF UpdateTag, Continue
<1>2. call.tag.id \in Tags /\ call.tag.super \in Tags
      BY <1>1 DEF StoreInv, Control
<1>3. Tags' = Tags /\ \A y \in Tags : Destination(y)' = Destination(y)
      BY <1>1, <1>2 DEF Tags, Destination, StoreInv, TypeOK
<1> QED BY <1>1, <1>3 DEF RankInv, RanksDistinct

\* A tag that is deleted is a leaf.
LEMMA DelTagFollows ==
    ASSUME StoreInv, RankInv, NEW x \in Names, DelTag(x)
    PROVE  RankInv'
<1>1. x \in UserTerms /\ x # Entity /\ ~ HasDependents(x)
      BY DEF DelTag, DelTagRejection, Term
<1>2. /\ call.stage = "idle" /\ call'.stage # "tag"
      /\ super_object' = [super_object EXCEPT ![x] = None]
      /\ rank' = [rank EXCEPT ![x] = <<>>]
      BY DEF DelTag, Finish, Idle
<1>3. /\ Tags' = Tags \ {x} /\ Tags \subseteq Term
      /\ \A y \in Tags' : super_object'[y] = super_object[y] /\ rank'[y] = rank[y]
      BY <1>1, <1>2 DEF Tags, StoreInv, TypeOK
<1>4. \A y \in Tags' \ {Entity} : super_object[y] \in Tags'
      BY <1>1, <1>3 DEF HasDependents, StoreInv, ReferencesExist
<1>5. \A y \in Tags' : Destination(y) = super_object[y] /\ Destination(y)' = super_object[y]
      BY <1>2, <1>3 DEF Destination
<1>6. Entity \in Tags'
      BY <1>1, <1>3 DEF StoreInv, Control
<1>7. \A y \in Tags' \ {Entity} : IsLevelBelow(rank'[y], rank'[Destination(y)'])
      BY <1>3, <1>4, <1>5 DEF RankInv
<1> QED BY <1>2, <1>3, <1>6, <1>7 DEF RankInv, RanksDistinct

\* Every step keeps the ranks after the tree.
LEMMA RanksFollow ==
    ASSUME SmallStore, StoreInv, RankInv, ReferentsDistinct, [Next]_vars
    PROVE  RankInv'
<1>1. RanksDistinct'
      BY DistinctStay DEF RankInv
<1>2. CASE Put
  <2>1. PICK t \in Request : PutTag(t)
        BY <1>2, RequestType DEF Put, StoreInv
  <2>2. call.stage = "idle"
        BY <2>1 DEF PutTag
  <2>3. CASE InsertTag(t)
        BY <1>1, <2>2, <2>3, InsertFollows
  <2>4. CASE UpdateRanks(t)
        BY <1>1, <2>2, <2>4, UpdateRanksFollows
  <2>5. CASE SkipRanks(t)
    <3>1. t.id = Entity /\ t.super = Entity /\ t.sub \in Tags
          BY <2>2, <2>5, MoveApart DEF SkipRanks
    <3>2. UNCHANGED <<super_object, rank>> /\ call'.tag = t
          BY <2>5 DEF SkipRanks, tables, Idle
    <3>3. Tags' = Tags /\ \A x \in Tags \ {Entity} : Destination(x)' = Destination(x)
          BY <2>2, <3>1, <3>2 DEF Tags, Destination
    <3> QED BY <3>1, <3>2, <3>3 DEF RankInv, RanksDistinct, RowAllowed
  <2>6. CASE PutRejected(t) \/ PutRankError(t) \/ PutAborts(t) \/ InsertTagFails(t) \/ UpdateRanksFails(t)
        BY <2>2, <2>6, RanksKept DEF PutRejected, PutRankError, PutAborts, InsertTagFails, UpdateRanksFails,
                                     Finish, Idle, tables
  <2>7. CASE PutRelations(t)
        BY <2>2, <2>7, RanksKept DEF PutRelations, Continue, tables
  <2> QED BY <2>1, <2>3, <2>4, <2>5, <2>6, <2>7 DEF PutTag
<1>3. CASE PutStatement
  <2>1. CASE UpdateTag
        BY <2>1, UpdateTagFollows
  <2>2. CASE UpdateTagFails
        BY <2>2 DEF UpdateTagFails, RankInv
  <2>3. ASSUME NEW q \in call.todo, InsertRelation(q) \/ SkipDuplicate(q) \/ RelationUnknown(q)
        PROVE  RankInv'
    <3>1. call \in Call /\ call.stage = "relations" /\ UNCHANGED <<super_object, rank>>
          BY <2>3 DEF InsertRelation, SkipDuplicate, RelationUnknown, StoreInv, TypeOK
    <3>2. call'.stage # "tag"
      <4>1. CASE RelationUnknown(q)
            BY <3>1, <4>1 DEF RelationUnknown, Call
      <4>2. CASE InsertRelation(q) \/ SkipDuplicate(q)
        <5>1. PICK inserted \in BOOLEAN : RelationDone(q, inserted)
              BY <3>1, <4>2 DEF InsertRelation, SkipDuplicate, Call
        <5> QED BY <5>1, RelationDoneType
      <4> QED BY <2>3, <4>1, <4>2
    <3> QED BY <3>1, <3>2, RanksKept
  <2>4. CASE PutFts
        BY <2>4, RanksKept DEF PutFts, Finish, Idle
  <2> QED BY <1>3, <2>1, <2>2, <2>3, <2>4 DEF PutStatement
<1>4. CASE Del
  <2>1. CASE \E x \in Names : DelTag(x)
        BY <2>1, DelTagFollows
  <2>2. CASE ~ \E x \in Names : DelTag(x)
    <3>1. PICK x \in Names : DelTagRejected(x) \/ \E P \in RelationSets : DelRelationsRejected(x, P) \/ DelRelations(x, P)
          BY <1>4, <2>2 DEF Del
    <3>2. call.stage = "idle" /\ UNCHANGED <<super_object, rank>>
          BY <3>1 DEF DelTagRejected, DelRelations, DelRelationsRejected, tables
    <3>3. \E c : Finish(c)
          BY <3>1 DEF DelTagRejected, DelRelations, DelRelationsRejected
    <3> QED BY <3>2, <3>3, RanksKept DEF Finish, Idle
  <2> QED BY <2>1, <2>2
<1>5. CASE PutReferents
  <2>1. PICK r : PutReferent(r)
        BY <1>5 DEF PutReferents
  <2> QED BY <2>1, RanksKept DEF PutReferent, Finish, Idle
<1>6. CASE DelReferents
  <2>1. PICK q : DelReferent(q) \/ DelReferentRejected(q)
        BY <1>6 DEF DelReferents
  <2> QED BY <2>1, RanksKept DEF DelReferent, DelReferentRejected, Finish, Idle, tables
<1>7. CASE Sessions
      BY <1>7, RanksKept DEF Sessions, PushContext, PopContext, ClearContext, Finish, Idle, tables
<1>8. CASE Crash
      BY <1>8 DEF Crash, SmallStore
<1>9. CASE UNCHANGED vars
  <2>1. UNCHANGED <<super_object, rank, call>>
        BY <1>9 DEF vars, tables
  <2>2. Tags' = Tags /\ \A x \in Tags : Destination(x)' = Destination(x)
        BY <2>1 DEF Tags, Destination
  <2> QED BY <2>1, <2>2 DEF RankInv, RanksDistinct, RowAllowed
<1> QED BY <1>2, <1>3, <1>4, <1>5, <1>6, <1>7, <1>8, <1>9 DEF Next

LEMMA RankInvariant ==
    ASSUME SmallStore
    PROVE  Spec => [](StoreInv /\ RankInv)
<1>1. Init => RankInv /\ ReferentsDistinct
  <2> SUFFICES ASSUME Init
               PROVE  RankInv /\ ReferentsDistinct
      OBVIOUS
  <2>1. Tags = SeedTags /\ call.stage = "idle" /\ rank = SeedRank /\ super_object = SeedSuper
        BY DEF Init, Tags, SeedTags, Idle
  <2>2. RanksDistinct /\ rank[Entity] = <<>>
        BY <2>1, SeedAssumption DEF RanksDistinct
  <2>3. \A x \in Tags \ {Entity} : IsLevelBelow(rank[x], rank[Destination(x)])
        BY <2>1, SeedAssumption DEF Destination
  <2> QED BY <2>1, <2>2, <2>3 DEF RankInv, SmallStore, Init, ReferentsDistinct
<1>2. StoreInv /\ RankInv /\ ReferentsDistinct /\ [Next]_vars => RankInv' /\ ReferentsDistinct'
      BY RanksFollow, DistinctStay DEF RankInv
<1> QED BY <1>1, <1>2, StoreInvariant, PTL DEF Spec

\* Between operations the rank of a tag is the rank of its super object with
\* one more level, and no two tags have the same rank: update() rewrites the
\* ranks of a whole subtree in one statement and a super object in another, and
\* insert() and update() find the next rank by asking for the greatest one.  In
\* every store with fewer than 42 children of a tag, whatever its names, seed
\* and requests.
THEOREM RanksFollowTree ==
    ASSUME SmallStore
    PROVE  Spec => []RankExtendsSuper
<1>1. StoreInv /\ RankInv => RankExtendsSuper
  <2> SUFFICES ASSUME StoreInv, RankInv, call.stage = "idle"
               PROVE  /\ \A x \in Tags \ {Entity} :
                           super_object[x] \in Tags /\ IsLevelBelow(rank[x], rank[super_object[x]])
                      /\ \A x, y \in Tags : rank[x] = rank[y] => x = y
      BY DEF RankExtendsSuper
  <2> QED BY IdleRanks DEF RankInv, RanksDistinct, Destination
<1> QED BY <1>1, RankInvariant, PTL

\* A query for a subtree finds the tag and its descendants, and nothing else:
\* the pattern that it makes of the rank of the tag matches their ranks only.
THEOREM RanksStaySelective ==
    ASSUME SmallStore
    PROVE  Spec => []RanksSelectSubtrees
<1>1. StoreInv /\ RankInv => RanksSelectSubtrees
      BY GlobIsAbove
<1> QED BY <1>1, RankInvariant, PTL

----------------------------------------------------------------------------
(* No error of the store's own. *)

\* What put() has in hand is not an internal error either.
CodeInv == code # "TS_INTERNAL_ERR" /\ call.rc # "TS_INTERNAL_ERR"

\* next_rank succeeds, the rank is not taken, the sub relator is there, and
\* the statements of update() meet no constraint.
LEMMA PutSucceeds ==
    ASSUME SmallStore, StoreInv, RankInv, call.stage = "idle", NEW t \in Request
    PROVE  ~ PutRankError(t) /\ ~ InsertTagFails(t) /\ ~ UpdateRanksFails(t)
<1>1. NewRankNeeded(t) => t.super \in Tags
      BY InsertMeaning, MoveMeaning DEF NewRankNeeded
<1>2. ~ PutRankError(t)
      BY <1>1, NextRankMeaning DEF PutRankError
<1>3. ASSUME InsertTagFails(t)
      PROVE  FALSE
  <2>1. "unknownRelator" \notin Hazards
        BY DEF SmallStore
  <2>2. PICK r : NewRank(t, r) /\ \E x \in Tags : rank[x] = r
        BY <1>3, <2>1 DEF InsertTagFails
  <2>3. r \in Seq(Nat) /\ \A y \in Tags : ~ IsPrefix(r, rank[y])
        BY <1>1, <2>2, NewRankSmall DEF NewRank
  <2> QED BY <2>2, <2>3, PrefixItself
<1>4. ASSUME UpdateRanksFails(t)
      PROVE  FALSE
  <2>1. PICK r : NewRank(t, r) /\ MayClash(Shifted(Load(rank[t.id]), r))
        BY <1>4 DEF UpdateRanksFails
  <2>2. r \in Seq(Nat) /\ \A y \in Tags : ~ IsPrefix(r, rank[y])
        BY <1>1, <2>1, NewRankSmall DEF NewRank
  <2>3. t.id \in Tags \ {Entity}
        BY <1>4, <2>1, MoveApart DEF UpdateRanksFails, NewRank
  <2> QED BY <2>1, <2>2, <2>3, NoClash
<1> QED BY <1>2, <1>3, <1>4

\* An operation that ends or goes on without an internal error.
LEMMA CodeKept ==
    ASSUME CodeInv, NEW c, c # "TS_INTERNAL_ERR", Finish(c)
    PROVE  CodeInv'
BY DEF Finish, Idle, CodeInv

LEMMA CodeStays ==
    ASSUME SmallStore, StoreInv, RankInv, CodeInv, Contexts \subseteq Tags, [Next]_vars
    PROVE  CodeInv'
<1>1. CASE Put
  <2>1. PICK t \in Request : PutTag(t)
        BY <1>1, RequestType DEF Put, StoreInv
  <2>2. call.stage = "idle"
        BY <2>1 DEF PutTag
  <2>3. CASE PutRejected(t)
    <3>1. Rejection(t) # "TS_INTERNAL_ERR"
          BY DEF Rejection
    <3> QED BY <2>3, <3>1, CodeKept DEF PutRejected
  <2>4. CASE PutRelations(t) \/ InsertTag(t)
        BY <2>4 DEF PutRelations, InsertTag, Continue, CodeInv
  <2>5. CASE PutAborts(t) \/ UpdateRanks(t) \/ SkipRanks(t)
    <3>1. code' = code /\ (call' = Idle \/ call' = [Idle EXCEPT !.stage = "tag", !.tag = t])
      <4>1. CASE PutAborts(t)
            BY <4>1 DEF PutAborts
      <4>2. CASE UpdateRanks(t)
            BY <4>2 DEF UpdateRanks
      <4>3. CASE SkipRanks(t)
            BY <4>3 DEF SkipRanks
      <4> QED BY <2>5, <4>1, <4>2, <4>3
    <3>2. Idle.rc = "TAGD_OK" /\ [Idle EXCEPT !.stage = "tag", !.tag = t].rc = "TAGD_OK"
          BY DEF Idle
    <3>3. call'.rc = "TAGD_OK"
      <4>1. CASE call' = Idle
            BY <3>2, <4>1
      <4>2. CASE call' = [Idle EXCEPT !.stage = "tag", !.tag = t]
            BY <3>2, <4>2
      <4> QED BY <3>1, <4>1, <4>2
    <3> QED BY <3>1, <3>3 DEF CodeInv
  <2> QED BY <2>1, <2>2, <2>3, <2>4, <2>5, PutSucceeds DEF PutTag
<1>2. CASE PutStatement
  <2>1. CASE UpdateTag
        BY <2>1 DEF UpdateTag, Continue, CodeInv
  <2>2. CASE UpdateTagFails
        BY <2>2 DEF UpdateTagFails, RankInv
  <2>3. ASSUME NEW q \in call.todo, InsertRelation(q) \/ SkipDuplicate(q) \/ RelationUnknown(q)
        PROVE  CodeInv'
    <3>1. call \in Call /\ code' = code
          BY <2>3 DEF InsertRelation, SkipDuplicate, RelationUnknown, StoreInv, TypeOK
    <3>2. CASE RelationUnknown(q)
          BY <3>1, <3>2 DEF RelationUnknown, Call, CodeInv
    <3>3. CASE InsertRelation(q) \/ SkipDuplicate(q)
      <4>1. PICK inserted \in BOOLEAN : RelationDone(q, inserted)
            BY <3>1, <3>3 DEF InsertRelation, SkipDuplicate, Call
      <4> QED BY <3>1, <4>1 DEF RelationDone, Call, CodeInv
    <3> QED BY <2>3, <3>2, <3>3
  <2>4. CASE PutFts
        BY <2>4, CodeKept DEF PutFts, CodeInv
  <2> QED BY <1>2, <2>1, <2>2, <2>3, <2>4 DEF PutStatement
<1>3. CASE Del
  <2>1. PICK x \in Names : \/ DelTagRejected(x) \/ DelTag(x)
                           \/ \E P \in RelationSets : DelRelationsRejected(x, P) \/ DelRelations(x, P)
        BY <1>3 DEF Del
  <2>2. Get(Decode(x)) # "TS_INTERNAL_ERR" /\ DelTagRejection(x, Decode(x)) # "TS_INTERNAL_ERR"
        BY DEF Get, DelTagRejection
  <2>3. \E c : Finish(c) /\ c # "TS_INTERNAL_ERR"
    <3>1. CASE DelTagRejected(x)
          BY <2>2, <3>1 DEF DelTagRejected
    <3>2. CASE DelTag(x)
          BY <3>2 DEF DelTag
    <3>3. ASSUME NEW P \in RelationSets, DelRelationsRejected(x, P) \/ DelRelations(x, P)
          PROVE  \E c : Finish(c) /\ c # "TS_INTERNAL_ERR"
      <4>1. CASE DelRelations(x, P)
            BY <4>1 DEF DelRelations
      <4>2. CASE DelRelationsRejected(x, P)
        <5>1. Finish(IF Get(Decode(x)) # "TAGD_OK" THEN Get(Decode(x)) ELSE "TS_NOT_FOUND")
              BY <4>2 DEF DelRelationsRejected
        <5> QED BY <2>2, <5>1
      <4> QED BY <3>3, <4>1, <4>2
    <3> QED BY <2>1, <3>1, <3>2, <3>3
  <2> QED BY <2>3, CodeKept
<1>4. CASE PutReferents
  <2>1. PICK r : PutReferent(r)
        BY <1>4 DEF PutReferents
  <2>2. PutReferentCode(r) # "TS_INTERNAL_ERR"
        BY DEF PutReferentCode
  <2> QED BY <2>1, <2>2, CodeKept DEF PutReferent
<1>5. CASE DelReferents
  <2>1. PICK q : DelReferent(q) \/ DelReferentRejected(q)
        BY <1>5 DEF DelReferents
  <2>2. \E c : Finish(c) /\ c # "TS_INTERNAL_ERR"
        BY <2>1 DEF DelReferent, DelReferentRejected
  <2> QED BY <2>2, CodeKept
<1>6. CASE Sessions
  <2>1. \E c : Finish(c) /\ c # "TS_INTERNAL_ERR"
        BY <1>6 DEF Sessions, PushContext, PopContext, ClearContext
  <2> QED BY <2>1, CodeKept
<1>7. CASE Crash
      BY <1>7 DEF Crash, SmallStore
<1>8. CASE UNCHANGED vars
      BY <1>8 DEF vars, CodeInv
<1> QED BY <1>1, <1>2, <1>3, <1>4, <1>5, <1>6, <1>7, <1>8 DEF Next

\* No operation ends in an internal error (codes.h: "error not due to caller
\* input"), in such a store and where the contexts that are pushed are tags:
\* the rank of a new or moved tag is never taken, nor does the statement that
\* rewrites a subtree meet a rank on its way.
THEOREM ErrorsAreCallers ==
    ASSUME SmallStore
    PROVE  Spec /\ [](Contexts \subseteq Tags) => []NoInternalError
<1>1. Init => CodeInv
      BY DEF Init, Idle, CodeInv
<1>2. StoreInv /\ RankInv /\ CodeInv /\ Contexts \subseteq Tags /\ [Next]_vars => CodeInv'
      BY CodeStays
<1>3. CodeInv => NoInternalError
      BY DEF CodeInv, NoInternalError
<1> QED BY <1>1, <1>2, <1>3, RankInvariant, PTL DEF Spec

----------------------------------------------------------------------------
(* Queries: what matching ranks one set at a time selects is what the tree *)
(* of tags says.                                                           *)

(* The root is no subject. *)

\* No alias stands for _entity, and nothing is related to something else as
\* its subject: put() is asked for tags that clients name or have an alias of.
RootApart ==
    /\ \A r \in relations : r.subject # Entity
    /\ \A r \in referents : r.refers_to # Entity
    /\ call.stage # "idle" => call.tag.id # Entity

LEMMA DecodeApart ==
    ASSUME RootApart, NEW x, x # Entity
    PROVE  Decode(x) # Entity
<1>1. CASE x \notin UserTerms \/ Winners(x) = {}
      BY <1>1 DEF Decode
<1>2. CASE x \in UserTerms /\ Winners(x) # {}
  <2>1. (CHOOSE r \in Winners(x) : TRUE) \in Winners(x)
        BY <1>2
  <2>2. Winners(x) \subseteq referents
        BY DEF Winners, Visible, Hits
  <2> QED BY <1>2, <2>1, <2>2 DEF Decode, RootApart
<1> QED BY <1>1, <1>2

LEMMA RootStaysApart ==
    ASSUME Entity \notin AliasTargets, StoreInv, RootApart, [Next]_vars
    PROVE  RootApart'
<1>1. ASSUME NEW t \in Request, t.id # Entity, PutTag(t)
      PROVE  RootApart'
  <2>1. UNCHANGED <<relations, referents>>
        BY <1>1 DEF PutTag, PutRejected, PutRelations, PutRankError, PutAborts, InsertTag, InsertTagFails,
                    UpdateRanks, UpdateRanksFails, SkipRanks, tables
  <2>2. call' = Idle \/ call'.tag = t
    <3>1. CASE UpdateRanks(t) \/ SkipRanks(t)
          BY <3>1 DEF UpdateRanks, SkipRanks, Idle
    <3>2. CASE InsertTag(t) \/ PutRelations(t)
          BY <3>2 DEF InsertTag, PutRelations, Continue
    <3>3. CASE ~ (UpdateRanks(t) \/ SkipRanks(t) \/ InsertTag(t) \/ PutRelations(t))
          BY <1>1, <3>3 DEF PutTag, PutRejected, PutRankError, PutAborts, InsertTagFails, UpdateRanksFails, Finish
    <3> QED BY <3>1, <3>2, <3>3
  <2> QED BY <1>1, <2>1, <2>2, IdleType DEF RootApart
<1>2. CASE Put
  <2>1. PICK x \in Names, sub \in SubRelators, super \in Supers, P \in RelationSets :
          PutTag([id |-> Decode(x), sub |-> Decode(sub), super |-> Decode(super),
                  relations |-> DecodePredicates(P)])
        BY <1>2 DEF Put
  <2> DEFINE t == [id |-> Decode(x), sub |-> Decode(sub), super |-> Decode(super),
                   relations |-> DecodePredicates(P)]
  <2>2. t \in Request /\ t.id = Decode(x) /\ PutTag(t)
        BY <2>1, RequestType DEF StoreInv
  <2>3. x # Entity
        BY NamesAssumption, ClientsAssumption
  <2>4. Decode(x) # Entity
        BY <2>3, DecodeApart
  <2> HIDE DEF t
  <2> QED BY <1>1, <2>2, <2>4
<1>3. CASE PutStatement
  <2>1. CASE UpdateTag \/ UpdateTagFails \/ PutFts
        BY <2>1, IdleType DEF UpdateTag, UpdateTagFails, PutFts, Continue, Finish, RootApart, tables
  <2>2. ASSUME NEW p \in call.todo, InsertRelation(p)
        PROVE  RootApart'
    <3>1. call.tag.id # Entity /\ UNCHANGED referents
          BY <2>2 DEF InsertRelation, RootApart
    <3>2. \A r \in relations' : r.subject # Entity
          BY <2>2, <3>1 DEF InsertRelation, RootApart
    <3>3. call'.tag = call.tag
          BY <2>2, RelationDoneType DEF InsertRelation
    <3> QED BY <3>1, <3>2, <3>3 DEF RootApart
  <2>3. ASSUME NEW p \in call.todo, SkipDuplicate(p) \/ RelationUnknown(p)
        PROVE  RootApart'
    <3>1. call.tag.id # Entity /\ UNCHANGED <<relations, referents>>
          BY <2>3 DEF SkipDuplicate, RelationUnknown, RootApart
    <3>2. call'.tag = call.tag
      <4>1. CASE SkipDuplicate(p)
        <5>1. call.inserted \in BOOLEAN
              BY DEF StoreInv, TypeOK, Call
        <5> QED BY <4>1, <5>1, RelationDoneType DEF SkipDuplicate
      <4>2. CASE RelationUnknown(p)
            BY <4>2 DEF RelationUnknown, StoreInv, TypeOK, Call
      <4> QED BY <2>3, <4>1, <4>2
    <3> QED BY <3>1, <3>2 DEF RootApart
  <2> QED BY <1>3, <2>1, <2>2, <2>3 DEF PutStatement
<1>4. CASE Del
  <2>1. PICK x \in Names : \/ DelTagRejected(x) \/ DelTag(x)
                           \/ \E P \in RelationSets : DelRelationsRejected(x, P) \/ DelRelations(x, P)
        BY <1>4 DEF Del
  <2>2. relations' \subseteq relations /\ referents' \subseteq referents /\ call' = Idle
        BY <2>1 DEF DelTagRejected, DelTag, DelRelationsRejected, DelRelations, Finish, tables
  <2> QED BY <2>2, IdleType DEF RootApart
<1>5. CASE PutReferents
  <2>1. PICK a \in Aliases, x \in AliasTargets, c \in Contexts :
           PutReferent([refers |-> a, refers_to |-> Decode(x), context |-> Decode(c)])
        BY <1>5 DEF PutReferents
  <2>2. Decode(x) # Entity
        BY DecodeApart
  <2> QED BY <2>1, <2>2, IdleType DEF PutReferent, Finish, RootApart
<1>6. CASE DelReferents
  <2>1. PICK q : DelReferent(q) \/ DelReferentRejected(q)
        BY <1>6 DEF DelReferents
  <2> QED BY <2>1, IdleType DEF DelReferent, DelReferentRejected, Finish, RootApart, tables
<1>7. CASE Sessions \/ Crash
      BY <1>7, IdleType DEF Sessions, PushContext, PopContext, ClearContext, Crash, Finish, RootApart, tables
<1>8. CASE UNCHANGED vars
      BY <1>8 DEF vars, tables, RootApart
<1> QED BY <1>2, <1>3, <1>4, <1>5, <1>6, <1>7, <1>8 DEF Next

LEMMA RootApartInvariant ==
    ASSUME Entity \notin AliasTargets
    PROVE  Spec => []RootApart
<1>1. Init => RootApart
      BY DEF Init, RootApart, Idle
<1>2. StoreInv /\ RootApart /\ [Next]_vars => RootApart'
      BY RootStaysApart
<1> QED BY <1>1, <1>2, StoreInvariant, PTL DEF Spec

----------------------------------------------------------------------------
(* The order of the tags. *)

\* Being above is an order of the tags, and of the tags above one of them it
\* makes a chain: that is what their ranks do.
LEMMA AboveOrder ==
    ASSUME StoreInv, RankInv, call.stage = "idle"
    PROVE  /\ \A x \in Tags : Tree!Above(x, x)
           /\ \A x, y, z \in Tags : Tree!Above(x, y) /\ Tree!Above(y, z) => Tree!Above(x, z)
           /\ \A x, y, z \in Tags : Tree!Above(x, z) /\ Tree!Above(y, z) =>
                                       Tree!Above(x, y) \/ Tree!Above(y, x)
<1>1. \A x, y \in Tags : Tree!Above(x, y) <=> IsPrefix(rank[x], rank[y])
      BY PrefixIsAbove
<1>2. \A x \in Tags : rank[x] \in Seq(Nat) /\ Len(rank[x]) \in Nat
      BY IdleRanks
<1>3. \A x, y \in Tags : IsPrefix(rank[x], rank[y]) <=>
         Len(rank[x]) <= Len(rank[y]) /\ \A i \in 1 .. Len(rank[x]) : rank[x][i] = rank[y][i]
  <2> SUFFICES ASSUME NEW x \in Tags, NEW y \in Tags
               PROVE  IsPrefix(rank[x], rank[y]) <=>
                         Len(rank[x]) <= Len(rank[y]) /\ \A i \in 1 .. Len(rank[x]) : rank[x][i] = rank[y][i]
        OBVIOUS
  <2>1. PICK p \in Seq(Nat) : p = rank[x]
        BY <1>2
  <2>2. PICK s \in Seq(Nat) : s = rank[y]
        BY <1>2
  <2>3. IsPrefix(p, s) <=> Len(p) <= Len(s) /\ \A i \in 1 .. Len(p) : p[i] = s[i]
        BY PrefixPointwise
  <2> QED BY <2>1, <2>2, <2>3
<1>4. ASSUME NEW x \in Tags, NEW y \in Tags, NEW z \in Tags
      PROVE  /\ IsPrefix(rank[x], rank[y]) /\ IsPrefix(rank[y], rank[z]) => IsPrefix(rank[x], rank[z])
             /\ IsPrefix(rank[x], rank[z]) /\ IsPrefix(rank[y], rank[z]) =>
                   IsPrefix(rank[x], rank[y]) \/ IsPrefix(rank[y], rank[x])
  <2>1. Len(rank[x]) \in Nat /\ Len(rank[y]) \in Nat /\ Len(rank[z]) \in Nat
        BY <1>2
  <2>2. ASSUME IsPrefix(rank[x], rank[y]), IsPrefix(rank[y], rank[z])
        PROVE  IsPrefix(rank[x], rank[z])
    <3>1. Len(rank[x]) <= Len(rank[y]) /\ Len(rank[y]) <= Len(rank[z])
          BY <2>2, <1>3
    <3>2. \A i \in 1 .. Len(rank[x]) : rank[x][i] = rank[z][i]
          BY <2>1, <2>2, <3>1, <1>3
    <3> QED BY <2>1, <3>1, <3>2, <1>3
  <2>3. ASSUME IsPrefix(rank[x], rank[z]), IsPrefix(rank[y], rank[z]), Len(rank[x]) <= Len(rank[y])
        PROVE  IsPrefix(rank[x], rank[y])
    <3>1. \A i \in 1 .. Len(rank[x]) : rank[x][i] = rank[y][i]
          BY <2>1, <2>3, <1>3
    <3> QED BY <2>3, <3>1, <1>3
  <2>4. ASSUME IsPrefix(rank[x], rank[z]), IsPrefix(rank[y], rank[z]), Len(rank[y]) <= Len(rank[x])
        PROVE  IsPrefix(rank[y], rank[x])
    <3>1. \A i \in 1 .. Len(rank[y]) : rank[y][i] = rank[x][i]
          BY <2>1, <2>4, <1>3
    <3> QED BY <2>4, <3>1, <1>3
  <2>5. Len(rank[x]) <= Len(rank[y]) \/ Len(rank[y]) <= Len(rank[x])
        BY <2>1
  <2> QED BY <2>2, <2>3, <2>4, <2>5
<1> QED BY <1>1, <1>2, <1>4, PrefixItself

\* The rank of the root is empty: it contains nothing.  All others contain what
\* is below them.
LEMMA ContainsIsAbove ==
    ASSUME SmallStore, StoreInv, RankInv, call.stage = "idle",
           NEW x \in Tags \ {Entity}, NEW y \in Tags \ {Entity}
    PROVE  RankContains(x, y) <=> Tree!Above(x, y)
<1>1. ASSUME NEW z \in Tags \ {Entity}
      PROVE  Load(rank[z]) = rank[z] /\ rank[z] # <<>>
  <2>1. rank[z] \in Seq(Nat) /\ Small(rank[z]) /\ super_object[z] \in Tags
        BY IdleRanks DEF RankInv
  <2>2. Len(rank[z]) = Len(rank[super_object[z]]) + 1 /\ Len(rank[super_object[z]]) \in Nat
        BY <2>1, IdleRanks
  <2>3. rank[z] # <<>>
        BY <2>2
  <2> QED BY <2>1, <2>3, SmallPlain
<1>2. Tree!Above(x, y) <=> IsPrefix(rank[x], rank[y])
      BY PrefixIsAbove
<1> QED BY <1>1, <1>2 DEF RankContains

\* A wildcard or a tag other than the root: what is in its subtree by rank is
\* below it.
LEMMA UnderIsBelow ==
    ASSUME SmallStore, StoreInv, RankInv, call.stage = "idle",
           NEW x \in (Term \ {Entity}) \cup {None}, NEW y \in Tags
    PROVE  Under(x, y) <=> Below(x, y)
<1>1. Tree!Present = Tags
      BY DEF Tree!Present, Tags
<1>2. CASE x = None
      BY <1>2 DEF Under, Below
<1>3. CASE x # None /\ x \notin Tags
  <2>1. Tree!UpClosed(Tags) /\ y \in Tags
        BY IdleRanks DEF Tree!UpClosed
  <2> QED BY <1>1, <1>3, <2>1 DEF Under, Below, Subtree, Tree!Above
<1>4. CASE x \in Tags \ {Entity} /\ y = Entity
  <2>1. Tree!UpClosed({Entity}) /\ Entity \in Tags
        BY DEF Tree!UpClosed, StoreInv, Control
  <2>2. ~ Tree!Above(x, y)
        BY <1>1, <1>4, <2>1 DEF Tree!Above
  <2>3. x # None
        BY <1>4, NamesAssumption DEF Tags
  <2>4. y \notin Subtree(x)
        BY <1>4 DEF Subtree
  <2> QED BY <2>2, <2>3, <2>4 DEF Under, Below
<1>5. CASE x \in Tags \ {Entity} /\ y # Entity
  <2>1. rank[x] \in Seq(Nat) /\ Small(rank[x])
        BY <1>5, IdleRanks DEF RankInv
  <2>2. Glob(rank[x], rank[y]) <=> IsPrefix(rank[x], rank[y])
        BY <2>1, SmallPlain
  <2>3. Tree!Above(x, y) <=> IsPrefix(rank[x], rank[y])
        BY <1>5, PrefixIsAbove
  <2> QED BY <1>5, <2>2, <2>3 DEF Under, Below, Subtree
<1> QED BY <1>2, <1>3, <1>4, <1>5

----------------------------------------------------------------------------
(* One predicate. *)

\* A predicate of names that related() takes as they are.
Settled(x) == x \in (Term \ {Entity}) \cup {None} /\ Decode(x) = x

\* The statement of related() finds the tags that answer the predicate, none
\* of which is the root.
LEMMA RelatedIsAnswering ==
    ASSUME SmallStore, StoreInv, RankInv, RootApart, call.stage = "idle",
           NEW p, NEW super, Settled(super), Settled(p.relator), Settled(p.object), Settled(p.modifier)
    PROVE  /\ Related(p, super) = Answering(p, super)
           /\ Related(p, super) \subseteq Tags \ {Entity}
<1>1. \A r \in relations : r.subject \in Tags \ {Entity} /\ r.relator \in Tags /\ r.object \in Tags
      BY DEF StoreInv, ReferencesExist, RootApart
<1>2. \A r \in relations : /\ Under(Decode(super), r.subject) <=> Below(super, r.subject)
                           /\ Under(Decode(p.relator), r.relator) <=> Below(p.relator, r.relator)
                           /\ Under(Decode(p.object), r.object) <=> Below(p.object, r.object)
      BY <1>1, UnderIsBelow DEF Settled
<1>3. \A r \in relations : p.modifier = None \/ r.modifier = Decode(p.modifier) <=>
                              p.modifier \in {None, r.modifier}
      BY DEF Settled
<1>4. Related(p, super) = Answering(p, super)
      BY <1>2, <1>3 DEF Related, Answering
<1> QED BY <1>1, <1>4 DEF Related

----------------------------------------------------------------------------
(* All of them. *)

\* The tags of the first n sets that have a tag of each of these above them:
\* what the tag inherits, and something of its own.
Joined(S, n) ==
    {x \in UNION {S[i] : i \in 1 .. n} : \A i \in 1 .. n : \E y \in S[i] : Tree!Above(y, x)}

\* A tag with one of each set above it has one above it that is in one of them:
\* the lowest of those, as they are a chain.
LEMMA LowestJoins ==
    ASSUME StoreInv, RankInv, call.stage = "idle",
           NEW N \in Nat, NEW S \in [1 .. N -> SUBSET (Tags \ {Entity})],
           NEW n \in 1 .. N, NEW b \in Tags,
           \A i \in 1 .. n : \E y \in S[i] : Tree!Above(y, b)
    PROVE  \E a \in Joined(S, n) : Tree!Above(a, b)
<1> DEFINE Bad == {m \in Nat : m \in 1 .. n /\ ~ \E a \in Joined(S, m) : Tree!Above(a, b)}
<1>1. SUFFICES ASSUME Bad # {}
               PROVE  FALSE
      OBVIOUS
<1>2. PICK m \in Bad : \A k \in Bad : m <= k
      BY <1>1, LeastNumber
<1>3. m \in 1 .. n /\ m \in 1 .. N /\ ~ \E a \in Joined(S, m) : Tree!Above(a, b)
      BY <1>2
<1>4. \A i \in 1 .. N : S[i] \subseteq Tags
      OBVIOUS
<1>5. PICK y \in S[m] : Tree!Above(y, b)
      BY <1>3
<1>6. CASE m = 1
  <2>1. y \in Joined(S, m)
        BY <1>4, <1>5, <1>6, AboveOrder DEF Joined
  <2> QED BY <1>3, <1>5, <2>1
<1>7. CASE m # 1
  <2>1. m - 1 \in 1 .. n /\ m - 1 \in Nat /\ m - 1 \notin Bad
        BY <1>2, <1>3, <1>7
  <2>2. PICK a \in Joined(S, m - 1) : Tree!Above(a, b)
        BY <2>1
  <2>3. a \in Tags /\ y \in Tags /\ (Tree!Above(a, y) \/ Tree!Above(y, a))
    <3>1. a \in Tags /\ y \in Tags
          BY <1>3, <1>4, <1>5, <2>1, <2>2 DEF Joined
    <3> QED BY <1>5, <2>2, <3>1, AboveOrder
  <2>4. \A i \in 1 .. m : i \in 1 .. m - 1 \/ i = m
        BY <1>3
  <2>5. CASE Tree!Above(a, y)
    <3>1. ASSUME NEW i \in 1 .. m
          PROVE  \E z \in S[i] : Tree!Above(z, y)
      <4>1. CASE i = m
            BY <1>5, <2>3, <4>1, AboveOrder
      <4>2. CASE i \in 1 .. m - 1
        <5>1. PICK z \in S[i] : Tree!Above(z, a)
              BY <2>2, <4>2 DEF Joined
        <5>2. z \in Tags
              BY <1>3, <1>4, <4>2, <5>1
        <5> QED BY <2>3, <2>5, <5>1, <5>2, AboveOrder
      <4> QED BY <2>4, <4>1, <4>2
    <3>2. y \in Joined(S, m)
          BY <1>3, <1>5, <3>1 DEF Joined
    <3> QED BY <1>3, <1>5, <3>2
  <2>6. CASE Tree!Above(y, a)
    <3>1. a \in UNION {S[i] : i \in 1 .. m}
          BY <1>3, <2>2 DEF Joined
    <3>2. \A i \in 1 .. m : \E z \in S[i] : Tree!Above(z, a)
          BY <1>5, <2>2, <2>4, <2>6 DEF Joined
    <3>3. a \in Joined(S, m)
          BY <3>1, <3>2 DEF Joined
    <3> QED BY <1>3, <2>2, <3>3
  <2> QED BY <2>3, <2>5, <2>6
<1> QED BY <1>6, <1>7

\* ... so that no tag is lost when the sets are merged one at a time.
LEMMA MergeJoins ==
    ASSUME SmallStore, StoreInv, RankInv, call.stage = "idle",
           NEW N \in Nat, NEW S \in [1 .. N -> SUBSET (Tags \ {Entity})], Joined(S, N) # {},
           NEW n \in 1 .. N
    PROVE  MergeContainingTags(IF n = 1 THEN {} ELSE Joined(S, n - 1), S[n]) = Joined(S, n)
<1> DEFINE A == Joined(S, n - 1)
           B == S[n]
<1>1. \A i \in 1 .. N : S[i] \subseteq Tags \ {Entity}
      OBVIOUS
<1>2. PICK x \in Tags : \A i \in 1 .. N : \E y \in S[i] : Tree!Above(y, x)
      BY <1>1 DEF Joined
<1>3. B # {}
      BY <1>2
<1>4. CASE n = 1
  <2>1. Joined(S, 1) = S[1]
    <3>1. \A y \in S[1] : y \in Tags /\ Tree!Above(y, y)
          BY <1>1, <1>4, AboveOrder
    <3>2. UNION {S[i] : i \in 1 .. 1} = S[1]
      <4>1. \A i \in 1 .. 1 : i = 1
            OBVIOUS
      <4> QED BY <4>1
    <3> QED BY <3>1, <3>2 DEF Joined
  <2> QED BY <1>3, <1>4, <2>1 DEF MergeContainingTags
<1>5. CASE n # 1
  <2>1. n - 1 \in 1 .. N /\ \A i \in 1 .. n : i \in 1 .. n - 1 \/ i = n
        BY <1>5
  <2>2. A # {}
    <3>1. \A i \in 1 .. n - 1 : \E y \in S[i] : Tree!Above(y, x)
          BY <1>2
    <3>2. \E a \in Joined(S, n - 1) : Tree!Above(a, x)
          BY <2>1, <3>1, LowestJoins
    <3> QED BY <3>2
  <2>3. A \subseteq Tags \ {Entity} /\ B \subseteq Tags \ {Entity}
        BY <1>1, <2>1 DEF Joined
  <2>4. MergeContainingTags(A, B) = {a \in A : \E b \in B : Tree!Above(b, a)}
                                      \cup {b \in B : \E a \in A : Tree!Above(a, b)}
    <3>1. \A a \in A, b \in B : /\ RankContains(a, b) <=> Tree!Above(a, b)
                                /\ RankContains(b, a) <=> Tree!Above(b, a)
          BY <2>3, ContainsIsAbove
    <3> HIDE DEF A, B
    <3> QED BY <1>3, <2>2, <3>1 DEF MergeContainingTags
  <2>5. ASSUME NEW a \in A, NEW b \in B, Tree!Above(b, a)
        PROVE  a \in Joined(S, n)
    <3>1. a \in UNION {S[i] : i \in 1 .. n}
          BY DEF Joined
    <3>2. \A i \in 1 .. n : \E z \in S[i] : Tree!Above(z, a)
          BY <2>1, <2>5 DEF Joined
    <3> QED BY <3>1, <3>2 DEF Joined
  <2>6. ASSUME NEW a \in A, NEW b \in B, Tree!Above(a, b)
        PROVE  b \in Joined(S, n)
    <3>1. ASSUME NEW i \in 1 .. n
          PROVE  \E z \in S[i] : Tree!Above(z, b)
      <4>1. CASE i = n
            BY <2>3, <4>1, AboveOrder
      <4>2. CASE i \in 1 .. n - 1
        <5>1. PICK z \in S[i] : Tree!Above(z, a)
              BY <4>2 DEF Joined
        <5>2. z \in Tags /\ a \in Tags /\ b \in Tags
              BY <1>1, <2>3, <4>2, <5>1
        <5> QED BY <2>6, <5>1, <5>2, AboveOrder
      <4> QED BY <2>1, <4>1, <4>2
    <3> QED BY <3>1 DEF Joined
  <2>7. ASSUME NEW y \in Joined(S, n)
        PROVE  \/ y \in A /\ \E b \in B : Tree!Above(b, y)
               \/ y \in B /\ \E a \in A : Tree!Above(a, y)
    <3>1. PICK i \in 1 .. n : y \in S[i]
          BY DEF Joined
    <3>2. \A j \in 1 .. n : \E z \in S[j] : Tree!Above(z, y)
          BY DEF Joined
    <3>3. y \in Tags
          BY <1>1, <3>1
    <3>4. CASE i = n
      <4>1. \E a \in Joined(S, n - 1) : Tree!Above(a, y)
            BY <2>1, <3>2, <3>3, LowestJoins
      <4> QED BY <3>1, <3>4, <4>1
    <3>5. CASE i \in 1 .. n - 1
      <4>1. y \in A
            BY <3>1, <3>2, <3>5 DEF Joined
      <4> QED BY <3>2, <4>1
    <3> QED BY <2>1, <3>4, <3>5
  <2>8. MergeContainingTags(A, B) = Joined(S, n)
    <3> HIDE DEF A, B
    <3> QED BY <2>4, <2>5, <2>6, <2>7
  <2> QED BY <1>5, <2>8
<1> QED BY <1>4, <1>5

\* Set by set, query() comes to what all the sets together say.
LEMMA QueryJoins ==
    ASSUME SmallStore, StoreInv, RankInv, call.stage = "idle",
           NEW order, NEW super, Len(order) \in Nat,
           \A i \in 1 .. Len(order) : Related(order[i], super) \subseteq Tags \ {Entity},
           Joined([i \in 1 .. Len(order) |-> Related(order[i], super)], Len(order)) # {}
    PROVE  RelatedByAll(order, super) =
             Joined([i \in 1 .. Len(order) |-> Related(order[i], super)], Len(order))
<1> DEFINE N == Len(order)
           S == [i \in 1 .. N |-> Related(order[i], super)]
           Body(f) == [n \in 0 .. N |-> IF n = 0 THEN {} ELSE MergeContainingTags(f[n - 1], Related(order[n], super))]
           Joins == [n \in 0 .. N |-> IF n = 0 THEN {} ELSE Joined(S, n)]
           answer == CHOOSE f : f = Body(f)
<1>1. RelatedByAll(order, super) = answer[N]
      BY DEF RelatedByAll
<1>2. N \in Nat /\ S \in [1 .. N -> SUBSET (Tags \ {Entity})] /\ Joined(S, N) # {}
      OBVIOUS
<1>3. \A n \in 1 .. N : MergeContainingTags(IF n = 1 THEN {} ELSE Joined(S, n - 1), S[n]) = Joined(S, n)
  <2> HIDE DEF S, N
  <2> QED BY <1>2, MergeJoins
<1>4. \A n \in 1 .. N : S[n] = Related(order[n], super)
      OBVIOUS
<1>5. N # 0
  <2>1. Joined(S, 0) = {}
    <3> HIDE DEF S
    <3> QED BY DEF Joined
  <2> QED BY <1>2, <2>1
<1> HIDE DEF S, N
\* The function exists ...
<1>6. Joins = Body(Joins)
  <2>1. ASSUME NEW n \in 0 .. N, n # 0
        PROVE  Joins[n] = MergeContainingTags(Joins[n - 1], Related(order[n], super))
    <3>1. n \in 1 .. N /\ n - 1 \in 0 .. N
          BY <1>2, <2>1
    <3>2. Joins[n - 1] = IF n = 1 THEN {} ELSE Joined(S, n - 1)
          BY <3>1
    <3> QED BY <1>3, <1>4, <3>1, <3>2
  <2> QED BY <2>1
\* ... and no other one satisfies its definition.
<1>7. answer = Body(answer)
  <2> HIDE DEF Joins, Body
  <2> QED BY <1>6
<1>8. answer[N] = Joined(S, N)
  <2> HIDE DEF answer
  <2> DEFINE Bad == {n \in Nat : n \in 1 .. N /\ answer[n] # Joined(S, n)}
  <2>1. SUFFICES ASSUME Bad # {}
                 PROVE  FALSE
        BY <1>2, <1>5
  <2>2. PICK n \in Bad : \A k \in Bad : n <= k
        BY <2>1, LeastNumber
  <2>3. n \in 1 .. N /\ n \in 0 .. N /\ n # 0 /\ n - 1 \in 0 .. N /\ answer[n] # Joined(S, n)
        BY <1>2, <2>2
  <2>4. answer[n] = MergeContainingTags(answer[n - 1], Related(order[n], super))
        BY <1>7, <2>3
  <2>5. answer[n - 1] = IF n = 1 THEN {} ELSE Joined(S, n - 1)
    <3>1. CASE n = 1
          BY <1>7, <2>3, <3>1
    <3>2. CASE n # 1
      <4>1. n - 1 \in Nat /\ n - 1 \in 1 .. N /\ n - 1 \notin Bad
            BY <1>2, <2>2, <2>3, <3>2
      <4> QED BY <3>2, <4>1
    <3> QED BY <3>1, <3>2
  <2> QED BY <1>3, <1>4, <2>3, <2>4, <2>5
<1> QED BY <1>1, <1>8 DEF S, N

\* An order of a finite set has all its members.
LEMMA OrderHasAll ==
    ASSUME NEW P, IsFiniteSet(P), NEW order \in SetToSeqs(P)
    PROVE  /\ Len(order) \in Nat
           /\ P = {order[i] : i \in 1 .. Len(order)}
<1> DEFINE n == Cardinality(P)
<1>1. n \in Nat /\ order \in [1 .. n -> P] /\ \A i, j \in 1 .. n : i # j => order[i] # order[j]
      BY FS_CardinalityType DEF SetToSeqs
<1>2. IsFiniteSet(1 .. n) /\ Cardinality(1 .. n) = n
  <2> HIDE DEF n
  <2> QED BY <1>1, FS_Interval
<1>3. order \in Injection(1 .. n, P)
      BY <1>1 DEF Injection, IsInjective
<1>4. order \in Surjection(1 .. n, P)
      BY <1>2, <1>3, FS_Injection
<1>5. Len(order) = n
  <2> HIDE DEF n
  <2>1. order \in Seq(P)
        BY <1>1
  <2> QED BY <1>1, <2>1, LenProperties
<1> QED BY <1>1, <1>4, <1>5 DEF Surjection

\* The decoded predicates are as many as there are, or fewer.
LEMMA DecodedFinite ==
    ASSUME NEW P, IsFiniteSet(P)
    PROVE  IsFiniteSet(DecodePredicates(P))
<1> DEFINE f == [p \in P |-> [relator |-> Decode(p.relator), object |-> Decode(p.object),
                              modifier |-> Decode(p.modifier)]]
<1>1. f \in Surjection(P, DecodePredicates(P))
      BY DEF Surjection, DecodePredicates
<1> HIDE DEF f
<1> QED BY <1>1, FS_Surjection

\* Where some tag answers a question, query() answers with all that do, in
\* whatever order it takes the predicates: it is enough to hold, of the tags
\* of two sets, those that a tag of the other one contains.  In every store
\* with fewer than 42 children of a tag and no alias of the root, for every
\* question and number of predicates.
THEOREM QueriesSelect ==
    ASSUME SmallStore, Entity \notin AliasTargets
    PROVE  Spec => []QuerySelects
<1>1. ASSUME StoreInv, RankInv, RootApart
      PROVE  QuerySelects
  <2> SUFFICES ASSUME call.stage = "idle", NEW q \in Questions, Plain(q),
                      Described(Decoded(q)) # {}, NEW order \in Orders(q)
               PROVE  Query(q, order) = [code |-> "TAGD_OK", tags |-> Described(Decoded(q))]
      BY DEF QuerySelects
  <2> DEFINE super == Decode(q.super)
             P == DecodePredicates(q.predicates)
             N == Len(order)
             S == [i \in 1 .. N |-> Related(order[i], super)]
  <2>1. N \in Nat /\ P = {order[i] : i \in 1 .. N}
    <3>1. IsFiniteSet(P)
          BY QuestionsAssumption, DecodedFinite
    <3> HIDE DEF P
    <3> QED BY <3>1, OrderHasAll DEF Orders, P
  <2>2. \A x \in NamesOf(q) : Settled(Decode(x))
    <3>1. NamesOf(q) \subseteq Term \cup {None}
          BY QuestionsAssumption DEF NamesOf
    <3>2. \A x \in Term \cup {None} : Decode(x) \in Term \cup {None}
          BY <1>1, DecodeType DEF StoreInv
    <3> QED BY <3>1, <3>2 DEF Plain, Settled
  <2>3. Settled(super)
        BY <2>2 DEF NamesOf
  <2>4. ASSUME NEW i \in 1 .. N
        PROVE  /\ Related(order[i], super) = Answering(order[i], super)
               /\ Related(order[i], super) \subseteq Tags \ {Entity}
    <3>1. order[i] \in P
          BY <2>1
    <3>2. PICK p \in q.predicates : order[i] = [relator |-> Decode(p.relator), object |-> Decode(p.object),
                                                modifier |-> Decode(p.modifier)]
          BY <3>1 DEF DecodePredicates
    <3>3. Settled(Decode(p.relator)) /\ Settled(Decode(p.object)) /\ Settled(Decode(p.modifier))
          BY <2>2 DEF NamesOf
    <3>4. Settled(order[i].relator) /\ Settled(order[i].object) /\ Settled(order[i].modifier)
          BY <3>2, <3>3
    <3> HIDE DEF super, N
    <3> QED BY <1>1, <2>3, <3>4, RelatedIsAnswering
  <2>5. Described(Decoded(q)) = Joined(S, N)
    <3>1. {Answering(p, super) : p \in P} = {S[i] : i \in 1 .. N}
      <4>1. {Answering(p, super) : p \in P} = {Answering(order[i], super) : i \in 1 .. N}
        <5> HIDE DEF P, super, N
        <5> QED BY <2>1
      <4>2. \A i \in 1 .. N : S[i] = Answering(order[i], super)
            BY <2>4
      <4> HIDE DEF P, super, N, S
      <4> QED BY <4>1, <4>2
    <3>2. Decoded(q).super = super /\ Decoded(q).predicates = P
          BY DEF Decoded
    <3> HIDE DEF P, super, N, S
    <3>3. Described(Decoded(q)) = {x \in UNION {S[i] : i \in 1 .. N} :
                                      \A T \in {S[i] : i \in 1 .. N} : \E y \in T : Tree!Above(y, x)}
          BY <3>1, <3>2 DEF Described
    <3>4. Joined(S, N) = {x \in UNION {S[i] : i \in 1 .. N} :
                             \A T \in {S[i] : i \in 1 .. N} : \E y \in T : Tree!Above(y, x)}
          BY DEF Joined
    <3> QED BY <3>3, <3>4
  <2>6. RelatedByAll(order, super) = Described(Decoded(q))
    <3>1. \A i \in 1 .. N : Related(order[i], super) \subseteq Tags \ {Entity}
          BY <2>4
    <3>2. Joined(S, N) # {}
          BY <2>5
    <3> HIDE DEF super
    <3>3. RelatedByAll(order, super) = Joined(S, N)
          BY <1>1, <2>1, <3>1, <3>2, QueryJoins
    <3> QED BY <2>5, <3>3
  <2>7. \E i \in 1 .. N : Related(order[i], super) # {}
    <3>1. PICK x : x \in Joined(S, N)
          BY <2>5
    <3>2. PICK i \in 1 .. N : x \in S[i]
          BY <3>1 DEF Joined
    <3> QED BY <3>2
  <2>8. N # 0 /\ order # <<>> /\ DOMAIN order = 1 .. N
        BY <2>7
  <2> HIDE DEF super
  <2> QED BY <2>6, <2>7, <2>8 DEF Query, super
<1>2. Spec => [](StoreInv /\ RankInv) /\ []RootApart
      BY RankInvariant, RootApartInvariant
<1> QED BY <1>1, <1>2, PTL

=============================================================================
