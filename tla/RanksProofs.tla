---------------------------- MODULE RanksProofs ----------------------------
(* What the operations on ranks return, for ranks of every length. *)
EXTENDS Ranks, FiniteSetTheorems, SequenceTheorems, WellFoundedInduction, TLAPS

\* A set of numbers has a least one: what takes the place of an induction on
\* the levels of a rank.
LEMMA LeastNumber ==
    ASSUME NEW T \in SUBSET Nat, T # {}
    PROVE  \E n \in T : \A m \in T : n <= m
<1> DEFINE Less == {ss \in Nat \X Nat : ss[1] < ss[2]}
<1>1. IsWellFoundedOn(Less, Nat)
      BY ONLY NatLessThanWellFounded DEF OpToRel
<1>2. PICK n \in T : \A m \in T : ~ (<<m, n>> \in Less)
  <2> HIDE DEF Less
  <2> QED BY <1>1, WFMin
<1>3. ASSUME NEW m \in T
      PROVE  n <= m
  <2>1. CASE m < n
    <3>1. <<m, n>>[1] < <<m, n>>[2] /\ m \in Nat /\ n \in Nat
          BY <2>1
    <3>2. <<m, n>> \in Less
          BY <3>1
    <3> QED BY <1>2, <3>2
  <2> QED BY <2>1
<1> QED BY <1>3

\* The number of bytes of a rank is a number, and none smaller than that of
\* its levels.
LEMMA ByteLenType ==
    ASSUME NEW r \in Seq(Nat)
    PROVE  ByteLen(r) \in Nat /\ ByteLen(r) >= Len(r)
<1> DEFINE From(c) == {i \in 1 .. Len(r) : r[i] >= c}
<1>1. IsFiniteSet(1 .. Len(r))
      BY FS_Interval
<1>2. \A c \in Nat : Cardinality(From(c)) \in Nat
  <2> TAKE c \in Nat
  <2>1. IsFiniteSet(From(c))
        BY <1>1, FS_Subset
  <2> QED BY <2>1, FS_CardinalityType
<1>3. Cardinality(From(128)) \in Nat /\ Cardinality(From(2048)) \in Nat /\ Cardinality(From(65536)) \in Nat
      BY <1>2
<1>4. ByteLen(r) = Len(r) + Cardinality(From(128)) + Cardinality(From(2048)) + Cardinality(From(65536))
      BY DEF ByteLen
<1> HIDE DEF From
<1> QED BY <1>3, <1>4

\* A rank that is loaded is a rank.
LEMMA LoadType ==
    ASSUME NEW r \in Seq(Nat)
    PROVE  Load(r) \in Seq(Nat)
BY DEF Load

\* The next rank after a rank is one of as many levels.
LEMMA IncrementType ==
    ASSUME NEW r \in Seq(Nat)
    PROVE  Increment(r) \in Seq(Nat)
<1>1. CASE r = <<>>
      BY <1>1 DEF Increment, PushBack
<1>2. CASE r # <<>>
  <2>1. Len(r) \in Nat \ {0} /\ Last(r) \in Nat
        BY <1>2 DEF Last
  <2>2. Utf8Increment(Last(r)) \in Nat
        BY <2>1 DEF Utf8Increment, Replacement
  <2>3. Front(r) \in Seq(Nat)
        BY <2>1 DEF Front
  <2> QED BY <1>2, <2>2, <2>3 DEF Increment
<1> QED BY <1>1, <1>2

\* One level more than a rank is a rank.
LEMMA PushBackType ==
    ASSUME NEW r \in Seq(Nat), NEW cp \in Nat
    PROVE  PushBack(r, cp) \in Seq(Nat)
BY DEF PushBack

\* A rank comes before another one, after it, or is the same.
LEMMA LexTotal ==
    ASSUME NEW r \in Seq(Nat), NEW s \in Seq(Nat)
    PROVE  r = s \/ LexLess(r, s) \/ LexLess(s, r)
<1> DEFINE Differ == {i \in Nat \ {0} : i <= Len(r) /\ i <= Len(s) /\ r[i] # s[i]}
<1>1. Len(r) \in Nat /\ Len(s) \in Nat
      OBVIOUS
<1>2. CASE Differ # {}
  <2>1. PICK i \in Differ : \A j \in Differ : i <= j
        BY <1>2, LeastNumber
  <2>2. i \in Nat \ {0} /\ i \in 1 .. Len(r) /\ i \in 1 .. Len(s) /\ r[i] # s[i] /\ r[i] \in Nat /\ s[i] \in Nat
        BY <1>1, <2>1
  <2>3. \A j \in 1 .. i - 1 : r[j] = s[j] /\ r[j] \in Nat
    <3> TAKE j \in 1 .. i - 1
    <3>1. j \in Nat \ {0} /\ j <= Len(r) /\ j <= Len(s) /\ j \in 1 .. Len(r)
          BY <1>1, <2>2
    <3>2. j \notin Differ
          BY <1>1, <2>1, <2>2
    <3> QED BY <3>1, <3>2
  <2>4. SubSeq(r, 1, i - 1) = SubSeq(s, 1, i - 1)
        BY <1>1, <2>2, <2>3, SMT
  <2>5. r[i] < s[i] \/ s[i] < r[i]
        BY <2>2
  <2> QED BY <1>1, <2>2, <2>4, <2>5 DEF LexLess
<1>3. CASE Differ = {}
  <2>1. ASSUME NEW i \in 1 .. Len(r), i <= Len(s)
        PROVE  r[i] = s[i]
    <3>1. i \in Nat \ {0} /\ i <= Len(r)
          BY <1>1
    <3> QED BY <1>3, <2>1, <3>1
  <2>2. CASE Len(r) <= Len(s)
    <3>1. SubSeq(r, 1, Len(r)) = SubSeq(s, 1, Len(r))
          BY <1>1, <2>1, <2>2, SMT
    <3> QED BY <2>2, <3>1 DEF LexLess, IsStrictPrefix, IsPrefix
  <2>3. CASE Len(s) <= Len(r)
    <3>1. \A i \in 1 .. Len(s) : s[i] = r[i]
          BY <1>1, <2>1, <2>3
    <3>2. SubSeq(s, 1, Len(s)) = SubSeq(r, 1, Len(s))
          BY <1>1, <2>3, <3>1, SMT
    <3> QED BY <2>3, <3>2 DEF LexLess, IsStrictPrefix, IsPrefix
  <2> QED BY <1>1, <2>2, <2>3
<1> QED BY <1>2, <1>3

----------------------------------------------------------------------------
(* Prefixes. *)

\* One rank is a prefix of another one if it has the same levels, as far as
\* it goes.
LEMMA PrefixPointwise ==
    ASSUME NEW p \in Seq(Nat), NEW s \in Seq(Nat)
    PROVE  IsPrefix(p, s) <=> Len(p) <= Len(s) /\ \A i \in 1 .. Len(p) : p[i] = s[i]
<1> DEFINE n == Len(p)
           m == Len(s)
<1>1. n \in Nat /\ m \in Nat
      OBVIOUS
<1>2. SubSeq(p, 1, n) = p
      BY SubSeqFull
<1>3. ASSUME n <= m
      PROVE  /\ SubSeq(s, 1, n) \in Seq(Nat) /\ Len(SubSeq(s, 1, n)) = n
             /\ \A i \in 1 .. n : SubSeq(s, 1, n)[i] = s[i]
  <2>1. \A i \in 1 .. n : s[i] \in Nat
        BY <1>1, <1>3
  <2>2. /\ SubSeq(s, 1, n) \in Seq(Nat)
        /\ Len(SubSeq(s, 1, n)) = IF 1 <= n THEN n - 1 + 1 ELSE 0
        /\ \A i \in 1 .. n - 1 + 1 : SubSeq(s, 1, n)[i] = s[1 + i - 1]
        BY <1>1, <2>1, SubSeqProperties
  <2> HIDE DEF n
  <2> QED BY <1>1, <2>2
<1>4. n <= m /\ p = SubSeq(s, 1, n) => \A i \in 1 .. n : p[i] = s[i]
      BY <1>3
<1>5. n <= m /\ (\A i \in 1 .. n : p[i] = s[i]) => p = SubSeq(s, 1, n)
      BY <1>3, SeqEqual
<1> QED BY <1>2, <1>4, <1>5 DEF IsPrefix

\* A prefix of a rank with one more level is the rank itself or a prefix of
\* what it extends.
LEMMA PrefixOfAppend ==
    ASSUME NEW p \in Seq(Nat), NEW s \in Seq(Nat), NEW k \in Nat
    PROVE  IsPrefix(p, Append(s, k)) <=> p = Append(s, k) \/ IsPrefix(p, s)
<1> DEFINE t == Append(s, k)
           n == Len(p)
           m == Len(s)
<1> SUFFICES IsPrefix(p, t) <=> p = t \/ IsPrefix(p, s)
    OBVIOUS
<1>1. /\ t \in Seq(Nat) /\ Len(t) = m + 1 /\ n \in Nat /\ m \in Nat
      /\ \A i \in 1 .. m : t[i] = s[i]
      /\ t[m + 1] = k
      BY AppendProperties
<1>2. IsPrefix(p, t) <=> n <= Len(t) /\ \A i \in 1 .. n : p[i] = t[i]
      BY <1>1, PrefixPointwise
<1>3. IsPrefix(p, s) <=> n <= m /\ \A i \in 1 .. n : p[i] = s[i]
      BY PrefixPointwise
<1>4. n = m + 1 /\ (\A i \in 1 .. n : p[i] = t[i]) => p = t
      BY <1>1, SeqEqual
<1>5. p = t => IsPrefix(p, t)
      BY <1>1, <1>2
<1> HIDE DEF t, n, m
<1>6. CASE n <= m
  <2>1. \A i \in 1 .. n : i \in 1 .. m
        BY <1>1, <1>6
  <2>2. p # t
        BY <1>1, <1>6 DEF n
  <2> QED BY <1>1, <1>2, <1>3, <1>6, <2>1, <2>2
<1>7. CASE ~ (n <= m)
  <2>1. IsPrefix(p, t) => n = m + 1
        BY <1>1, <1>2, <1>7
  <2> QED BY <1>2, <1>3, <1>4, <1>5, <1>7, <2>1
<1> QED BY <1>6, <1>7

LEMMA PrefixItself ==
    ASSUME NEW p \in Seq(Nat)
    PROVE  IsPrefix(p, p)
BY PrefixPointwise

LEMMA EmptyPrefix ==
    ASSUME NEW s \in Seq(Nat)
    PROVE  IsPrefix(<<>>, s) /\ (IsPrefix(s, <<>>) => s = <<>>)
<1> DEFINE e == <<>>
<1>1. e \in Seq(Nat) /\ Len(e) = 0 /\ Len(s) \in Nat
      OBVIOUS
<1>2. Len(s) <= 0 => s = e
      BY <1>1, EmptySeq
<1> HIDE DEF e
<1>3. (IsPrefix(e, s) <=> Len(e) <= Len(s) /\ \A i \in 1 .. Len(e) : e[i] = s[i])
      BY <1>1, PrefixPointwise
<1>4. IsPrefix(s, e) => Len(s) <= Len(e)
      BY <1>1, PrefixPointwise
<1>5. IsPrefix(e, s) /\ (IsPrefix(s, e) => s = e)
      BY <1>1, <1>2, <1>3, <1>4
<1> QED BY <1>5 DEF e

\* What a rank has below a prefix.
Rest(p, s) == SubSeq(s, Len(p) + 1, Len(s))

LEMMA RestType ==
    ASSUME NEW p \in Seq(Nat), NEW s \in Seq(Nat)
    PROVE  /\ Rest(p, s) \in Seq(Nat)
           /\ Len(p) <= Len(s) => Len(Rest(p, s)) = Len(s) - Len(p)
           /\ \A i \in 1 .. Len(s) - Len(p) : Rest(p, s)[i] = s[Len(p) + i]
<1> DEFINE n == Len(p)
           m == Len(s)
<1>1. n \in Nat /\ m \in Nat
      OBVIOUS
<1>2. \A i \in n + 1 .. m : s[i] \in Nat
      BY <1>1
<1>3. /\ SubSeq(s, n + 1, m) \in Seq(Nat)
      /\ Len(SubSeq(s, n + 1, m)) = IF n + 1 <= m THEN m - (n + 1) + 1 ELSE 0
      /\ \A i \in 1 .. m - (n + 1) + 1 : SubSeq(s, n + 1, m)[i] = s[n + 1 + i - 1]
      BY <1>1, <1>2, SubSeqProperties
<1> HIDE DEF n, m
<1>4. \A i \in 1 .. m - n : i \in 1 .. m - (n + 1) + 1 /\ n + 1 + i - 1 = n + i
      BY <1>1
<1>5. n <= m => (IF n + 1 <= m THEN m - (n + 1) + 1 ELSE 0) = m - n
      BY <1>1
<1> QED BY <1>3, <1>4, <1>5 DEF Rest, n, m

\* Ranks with the same prefix and the same rest are the same.
LEMMA RestInjective ==
    ASSUME NEW p \in Seq(Nat), NEW s \in Seq(Nat), NEW t \in Seq(Nat),
           IsPrefix(p, s), IsPrefix(p, t), Rest(p, s) = Rest(p, t)
    PROVE  s = t
<1> DEFINE n == Len(p)
           m == Len(s)
           l == Len(t)
<1>1. /\ n \in Nat /\ m \in Nat /\ l \in Nat /\ n <= m /\ n <= l
      /\ \A i \in 1 .. n : s[i] = t[i]
      BY PrefixPointwise
<1>2. /\ Len(Rest(p, s)) = m - n /\ Len(Rest(p, t)) = l - n
      /\ \A i \in 1 .. m - n : Rest(p, s)[i] = s[n + i]
      /\ \A i \in 1 .. l - n : Rest(p, t)[i] = t[n + i]
      BY <1>1, RestType
<1> HIDE DEF n, m, l
<1>3. m = l
      BY <1>1, <1>2
<1>4. ASSUME NEW i \in 1 .. m
      PROVE  s[i] = t[i]
  <2>1. CASE i <= n
        BY <1>1, <2>1
  <2>2. CASE i > n
    <3>1. i - n \in 1 .. m - n /\ n + (i - n) = i
          BY <1>1, <2>2
    <3> QED BY <1>2, <1>3, <3>1
  <2> QED BY <1>1, <2>1, <2>2
<1> QED BY <1>3, <1>4, SeqEqual DEF m, l

\* The prefix of a rank is replaced: the rank with one level more follows.
LEMMA ReplacePrefix ==
    ASSUME NEW p \in Seq(Nat), NEW s \in Seq(Nat), NEW k \in Nat, NEW r \in Seq(Nat), IsPrefix(p, s)
    PROVE  r \o Rest(p, Append(s, k)) = Append(r \o Rest(p, s), k)
<1> DEFINE t == Append(s, k)
           n == Len(p)
           m == Len(s)
           u == Rest(p, s)
           v == Rest(p, t)
           a == r \o v
           b == r \o u
           l == Len(r)
<1>1. n \in Nat /\ m \in Nat /\ l \in Nat /\ n <= m
      BY PrefixPointwise
<1>2. /\ t \in Seq(Nat) /\ Len(t) = m + 1 /\ t[m + 1] = k
      /\ \A i \in 1 .. m : t[i] = s[i]
      BY AppendProperties
<1>3. /\ u \in Seq(Nat) /\ Len(u) = m - n
      /\ \A i \in 1 .. m - n : u[i] = s[n + i]
      BY <1>1, RestType
<1>4. /\ v \in Seq(Nat) /\ Len(v) = m + 1 - n
      /\ \A i \in 1 .. m + 1 - n : v[i] = t[n + i]
  <2>1. /\ v \in Seq(Nat)
        /\ n <= Len(t) => Len(v) = Len(t) - n
        /\ \A i \in 1 .. Len(t) - n : v[i] = t[n + i]
    <3>1. t \in Seq(Nat)
          BY <1>2
    <3> HIDE DEF t
    <3> QED BY <3>1, RestType
  <2> HIDE DEF t, n, m, v
  <2> QED BY <1>1, <1>2, <2>1
<1>5. /\ a \in Seq(Nat) /\ Len(a) = l + Len(v)
      /\ \A i \in 1 .. l + Len(v) : a[i] = IF i <= l THEN r[i] ELSE v[i - l]
      BY <1>4, ConcatProperties
<1>6. /\ b \in Seq(Nat) /\ Len(b) = l + Len(u)
      /\ \A i \in 1 .. l + Len(u) : b[i] = IF i <= l THEN r[i] ELSE u[i - l]
      BY <1>3, ConcatProperties
<1> DEFINE c == Append(b, k)
<1>7. /\ c \in Seq(Nat) /\ Len(c) = Len(b) + 1 /\ c[Len(b) + 1] = k
      /\ \A i \in 1 .. Len(b) : c[i] = b[i]
      BY <1>6, AppendProperties
<1> HIDE DEF t, n, m, u, v, a, b, c, l
<1>8. Len(a) = Len(c) /\ Len(b) = l + (m - n)
      BY <1>1, <1>3, <1>4, <1>5, <1>6, <1>7
<1>9. ASSUME NEW i \in 1 .. Len(a)
      PROVE  a[i] = c[i]
  <2>0. i \in Nat /\ i >= 1 /\ i <= l + (m + 1 - n)
        BY <1>1, <1>4, <1>5
  <2>1. CASE i <= l
    <3>1. i \in 1 .. l + Len(v) /\ i \in 1 .. l + Len(u) /\ i \in 1 .. Len(b)
          BY <1>1, <1>3, <1>4, <1>8, <2>0, <2>1
    <3> QED BY <1>5, <1>6, <1>7, <2>1, <3>1
  <2>2. CASE i > l /\ i <= Len(b)
    <3>1. i - l \in 1 .. m - n /\ i - l \in 1 .. m + 1 - n /\ n + (i - l) \in 1 .. m /\ i \in Nat
          BY <1>1, <1>8, <2>0, <2>2
    <3>2. i \in 1 .. l + Len(v) /\ i \in 1 .. l + Len(u) /\ i \in 1 .. Len(b) /\ ~ (i <= l)
          BY <1>1, <1>3, <1>4, <1>8, <2>0, <2>2
    <3>3. a[i] = v[i - l] /\ c[i] = u[i - l]
          BY <1>5, <1>6, <1>7, <3>2
    <3> QED BY <1>2, <1>3, <1>4, <3>1, <3>3
  <2>3. CASE i > l /\ i > Len(b)
    <3>1. i = l + (m + 1 - n) /\ i = Len(b) + 1
          BY <1>1, <1>8, <2>0, <2>3
    <3>2. i - l = m + 1 - n /\ n + (m + 1 - n) = m + 1 /\ m + 1 - n \in 1 .. m + 1 - n
          BY <1>1, <3>1
    <3>3. i \in 1 .. l + Len(v) /\ ~ (i <= l)
          BY <1>1, <1>4, <2>0, <2>3
    <3>4. a[i] = v[m + 1 - n] /\ c[i] = k
          BY <1>5, <1>7, <3>1, <3>2, <3>3
    <3> QED BY <1>2, <1>4, <3>2, <3>4
  <2>4. Len(b) \in Int
        BY <1>1, <1>8
  <2> QED BY <1>1, <2>0, <2>1, <2>2, <2>3, <2>4
<1>10. a = c
      BY <1>5, <1>7, <1>8, <1>9, SeqEqual
<1> QED BY <1>10 DEF a, c, b, u, v, t

\* What begins with a rank has it as a prefix.
LEMMA PrefixOfConcat ==
    ASSUME NEW r \in Seq(Nat), NEW u \in Seq(Nat)
    PROVE  IsPrefix(r, r \o u)
<1> DEFINE n == Len(r)
           m == Len(u)
           s == r \o u
<1>1. /\ n \in Nat /\ m \in Nat /\ s \in Seq(Nat) /\ Len(s) = n + m
      /\ \A i \in 1 .. n + m : s[i] = IF i <= n THEN r[i] ELSE u[i - n]
      BY ConcatProperties
<1>2. IsPrefix(r, s) <=> n <= Len(s) /\ \A i \in 1 .. n : r[i] = s[i]
      BY <1>1, PrefixPointwise
<1> HIDE DEF n, m, s
<1>3. n <= Len(s) /\ \A i \in 1 .. n : r[i] = s[i]
      BY <1>1
<1> QED BY <1>2, <1>3 DEF s

\* Two sequences that continue another one alike are continued by the same.
LEMMA ConcatCancel ==
    ASSUME NEW r \in Seq(Nat), NEW u \in Seq(Nat), NEW v \in Seq(Nat), r \o u = r \o v
    PROVE  u = v
<1> DEFINE n == Len(r)
           m == Len(u)
           l == Len(v)
           a == r \o u
           b == r \o v
<1>1. n \in Nat /\ m \in Nat /\ l \in Nat
      OBVIOUS
<1>2. /\ Len(a) = n + m
      /\ \A i \in 1 .. n + m : a[i] = IF i <= n THEN r[i] ELSE u[i - n]
      /\ Len(b) = n + l
      /\ \A i \in 1 .. n + l : b[i] = IF i <= n THEN r[i] ELSE v[i - n]
      BY ConcatProperties
<1>3. a = b
      OBVIOUS
<1> HIDE DEF a, b
<1>4. m = l
      BY <1>1, <1>2, <1>3
<1>5. ASSUME NEW i \in 1 .. m
      PROVE  u[i] = v[i]
  <2>1. n + i \in 1 .. n + m /\ n + i \in 1 .. n + l /\ ~ (n + i <= n) /\ n + i - n = i
        BY <1>1, <1>4
  <2> QED BY <1>2, <1>3, <2>1
<1> QED BY <1>4, <1>5, SeqEqual


\* The last level and the others.
LEMMA FrontLast ==
    ASSUME NEW s \in Seq(Nat), NEW k \in Nat
    PROVE  Front(Append(s, k)) = s /\ Last(Append(s, k)) = k
<1> DEFINE t == Append(s, k)
           n == Len(s)
<1>1. /\ t \in Seq(Nat) /\ Len(t) = n + 1 /\ t[n + 1] = k /\ n \in Nat
      /\ \A i \in 1 .. n : t[i] = s[i]
      BY AppendProperties
<1>2. Front(t) = SubSeq(t, 1, n)
      BY <1>1 DEF Front
<1>3. /\ SubSeq(t, 1, n) \in Seq(Nat)
      /\ Len(SubSeq(t, 1, n)) = IF 1 <= n THEN n - 1 + 1 ELSE 0
      /\ \A i \in 1 .. n - 1 + 1 : SubSeq(t, 1, n)[i] = t[1 + i - 1]
  <2>1. \A i \in 1 .. n : t[i] \in Nat
        BY <1>1
  <2> QED BY <1>1, <2>1, SubSeqProperties
<1>4. Len(SubSeq(t, 1, n)) = n /\ \A i \in 1 .. n : SubSeq(t, 1, n)[i] = s[i]
  <2> HIDE DEF n, t
  <2> QED BY <1>1, <1>3
<1>5. SubSeq(t, 1, n) = s
      BY <1>3, <1>4, SeqEqual
<1>6. Last(t) = k
      BY <1>1 DEF Last
<1> QED BY <1>2, <1>5, <1>6

\* Of two ranks on the same level below the same rank, the greater ordinal
\* makes the greater rank.
LEMMA SiblingOrder ==
    ASSUME NEW s \in Seq(Nat), NEW k \in Nat, NEW l \in Nat, k < l
    PROVE  LexLess(Append(s, k), Append(s, l))
<1> DEFINE t == Append(s, k)
           u == Append(s, l)
           n == Len(s) + 1
<1>1. n \in 1 .. Len(t) /\ n <= Len(u) /\ t[n] = k /\ u[n] = l /\ n - 1 = Len(s)
      BY AppendProperties
<1>2. SubSeq(t, 1, n - 1) = SubSeq(u, 1, n - 1)
  <2>1. Front(t) = s /\ Front(u) = s
        BY FrontLast
  <2>2. Len(t) - 1 = n - 1 /\ Len(u) - 1 = n - 1
        BY AppendProperties
  <2> QED BY <2>1, <2>2 DEF Front
<1> QED BY <1>1, <1>2 DEF LexLess

----------------------------------------------------------------------------
(* Ranks whose levels take one byte each. *)

\* The ordinals of ASCII take one byte, so that the size of the rank is the
\* number of its levels.
LEMMA OneBytePerLevel ==
    ASSUME NEW r \in Seq(Nat), \A i \in 1 .. Len(r) : r[i] < 128
    PROVE  ByteLen(r) = Len(r)
<1> DEFINE From(c) == {i \in 1 .. Len(r) : r[i] >= c}
           n == Len(r)
<1>1. ASSUME NEW c \in Nat, 128 <= c
      PROVE  Cardinality(From(c)) = 0
  <2>1. From(c) = {}
    <3>1. ASSUME NEW i \in 1 .. Len(r)
          PROVE  ~ (r[i] >= c)
      <4>1. r[i] \in Nat /\ r[i] < 128
            OBVIOUS
      <4> QED BY <1>1, <4>1
    <3> QED BY <3>1
  <2> QED BY <2>1, FS_EmptySet
<1>2. ByteLen(r) = n + Cardinality(From(128)) + Cardinality(From(2048)) + Cardinality(From(65536))
      BY DEF ByteLen
<1>3. n \in Nat
      OBVIOUS
<1> HIDE DEF From, n
<1>4. Cardinality(From(128)) = 0 /\ Cardinality(From(2048)) = 0 /\ Cardinality(From(65536)) = 0
      BY <1>1, SMT
<1>5. ByteLen(r) = n
      BY <1>2, <1>3, <1>4, SMT
<1> QED BY <1>5 DEF n

\* Below the first of the metacharacters, a rank is a pattern that matches
\* what begins with it, and is read back as it was written.
LEMMA PlainRank ==
    ASSUME NEW r \in Seq(Nat), \A i \in 1 .. Len(r) : 0 < r[i] /\ r[i] < Star, Len(r) <= RankMaxLen
    PROVE  /\ ~ HasMeta(r)
           /\ Load(r) = r
           /\ r # <<>> => Validates(r)
<1>1. ASSUME NEW i \in 1 .. Len(r)
      PROVE  r[i] \in Nat /\ r[i] >= 1 /\ r[i] < 42
  <2>1. r[i] \in Nat /\ 0 < r[i] /\ r[i] < Star /\ Star = 42
        BY DEF Star
  <2> QED BY <2>1
<1>2. ~ HasMeta(r)
  <2>1. \A i \in 1 .. Len(r) : r[i] # 42 /\ r[i] # 63 /\ r[i] # 91
        BY <1>1
  <2> QED BY <2>1 DEF HasMeta, MetaCharacters, Star, Question, OpenBracket
<1>3. \A i \in 1 .. Len(r) : Utf8Valid(r[i])
  <2> TAKE i \in 1 .. Len(r)
  <2> DEFINE k == r[i]
  <2>1. k \in Nat /\ k >= 1 /\ k < 42
        BY <1>1
  <2> HIDE DEF k
  <2>2. k \in 0 .. MaxCodePoint /\ k # Replacement
    <3>1. MaxCodePoint \in Nat /\ k <= MaxCodePoint
          BY <2>1 DEF MaxCodePoint
    <3>2. k # Replacement
          BY <2>1 DEF Replacement
    <3> QED BY <2>1, <3>1, <3>2
  <2>3. k \notin Surrogates \cup NoRoom
    <3>1. k \notin Surrogates
      <4> DEFINE low == 55296
                 high == 57343
      <4>1. low \in Nat /\ high \in Nat /\ 42 <= low
            OBVIOUS
      <4>2. Surrogates = low .. high
            BY DEF Surrogates
      <4> HIDE DEF low, high
      <4> QED BY <2>1, <4>1, <4>2
    <3>2. k \notin NoRoom
          BY <2>1, SMT DEF NoRoom
    <3> QED BY <3>1, <3>2
  <2> QED BY <2>2, <2>3 DEF Utf8Valid, k
<1>4. ByteLen(r) = Len(r)
      BY <1>1, OneBytePerLevel
<1>5. r # <<>> => Validates(r)
      BY <1>3, <1>4 DEF Validates
<1> QED BY <1>2, <1>5 DEF Load

\* The next ordinal.
LEMMA IncrementOrdinal ==
    ASSUME NEW k \in Nat, k < Star
    PROVE  Utf8Increment(k) = k + 1
<1>1. k < 42
      BY DEF Star
<1>2. ~ (k >= MaxCodePoint)
      BY <1>1 DEF MaxCodePoint
<1>3. k + 1 # Replacement
      BY <1>1 DEF Replacement
<1>4. k + 1 \notin Surrogates
  <2> DEFINE low == 55296
             high == 57343
  <2>1. low \in Nat /\ high \in Nat /\ 42 < low
        OBVIOUS
  <2>2. Surrogates = low .. high
        BY DEF Surrogates
  <2> HIDE DEF low, high
  <2> QED BY <1>1, <2>1, <2>2
<1>5. k + 1 \notin NoRoom
      BY <1>1, SMT DEF NoRoom
<1> QED BY <1>2, <1>3, <1>4, <1>5 DEF Utf8Increment

=============================================================================
