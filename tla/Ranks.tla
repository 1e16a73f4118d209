------------------------------- MODULE Ranks -------------------------------
(***************************************************************************)
(* The rank of a tag (tagd/include/tagd/rank.h, tagd/src/rank.cc): the     *)
(* path from the root of the tag tree to the tag, one ordinal per level,   *)
(* stored as a UTF-8 string so that SQLite can collate it and match it     *)
(* with GLOB.  A rank is modelled as the sequence of its code points; what *)
(* the encoding adds (how many bytes a code point takes, which code points *)
(* cannot be read back, which characters are GLOB metacharacters) is kept. *)
(***************************************************************************)
EXTENDS Integers, FiniteSets, SequencesExt

CONSTANT RankMaxLen     \* RANK_MAX_LEN: how many bytes a rank may have

ASSUME RankMaxLenAssumption == RankMaxLen \in Nat \ {0}

----------------------------------------------------------------------------
(* UTF-8 (tagd/src/utf8.cc). *)

MaxCodePoint == 2097151
Replacement == 65533            \* 0xFFFD, "could not be read"
Surrogates == 55296 .. 57343
NoRoom == {65534, 65535}        \* (cp & 0xFFFFFFFE) == 0xFFFE

Utf8Valid(cp) ==
    cp \in 0 .. MaxCodePoint /\ cp # Replacement /\ cp \notin Surrogates \cup NoRoom

\* Replacement stands for failure.  The successor of 0xFFFC is 0xFFFE, which
\* the code takes for a way past the replacement character.
Utf8Increment(cp) ==
    IF cp >= MaxCodePoint THEN Replacement
    ELSE IF cp + 1 = Replacement THEN Replacement + 1
    ELSE IF cp + 1 \in Surrogates THEN 57344
    ELSE IF cp + 1 \in NoRoom THEN Replacement
    ELSE cp + 1

\* The size of a rank in bytes: one per code point, and one more for every
\* threshold of the encoding that the code point has passed.
ByteLen(r) ==
    Len(r) + Cardinality({i \in 1 .. Len(r) : r[i] >= 128})
           + Cardinality({i \in 1 .. Len(r) : r[i] >= 2048})
           + Cardinality({i \in 1 .. Len(r) : r[i] >= 65536})

----------------------------------------------------------------------------
(* Operations of class rank. *)

\* rank::validate: does a rank read from the store come back as it was?
Validates(r) ==
    /\ ByteLen(r) <= RankMaxLen
    /\ \A i \in 1 .. Len(r) : Utf8Valid(r[i])
    /\ r # <<>>

\* abstract_tag::rank(const char*) drops the code of rank::init: a rank that
\* does not validate leaves the tag with the empty rank of the root.
Load(r) == IF Validates(r) THEN r ELSE <<>>

\* rank::push_back and rank::increment, where they succeed ...
PushBack(r, cp) == Append(r, cp)
Increment(r) == IF r = <<>> THEN PushBack(r, 1)
                ELSE Append(Front(r), Utf8Increment(Last(r)))

\* ... and when they do: the last code point can be written and is not the
\* replacement character, and the bytes fit.
Fits(r) == /\ Last(r) \in 1 .. MaxCodePoint
           /\ Last(r) # Replacement
           /\ ByteLen(r) <= RankMaxLen

\* The rank r is s with one more level.
IsLevelBelow(r, s) == r # <<>> /\ r = Append(s, Last(r)) /\ Last(r) > 0

\* BINARY collation of UTF-8 text is the order of the code points.
LexLess(r, s) ==
    \/ IsStrictPrefix(r, s)
    \/ \E i \in 1 .. Len(r) :
          /\ i <= Len(s)
          /\ SubSeq(r, 1, i - 1) = SubSeq(s, 1, i - 1)
          /\ r[i] < s[i]

\* Mutant: ORDER BY rank, ascending.
LeastRanks(R) == {r \in R : \A s \in R : ~ LexLess(s, r)}

\* The maximal ranks of a set (ORDER BY rank DESC LIMIT 1).
MaxRanks(R) == {r \in R : \A s \in R : ~ LexLess(r, s)}

----------------------------------------------------------------------------
(* rank GLOB (p || '*'): SQLite's matching of a rank against a pattern.    *)

Star == 42
Question == 63
OpenBracket == 91
MetaCharacters == {Star, Question, OpenBracket}

HasMeta(p) == \E i \in 1 .. Len(p) : p[i] \in MetaCharacters

\* The pattern consumed from position i on, the rank from position j on.  A
\* bracket that is never closed matches nothing: no instance reaches the
\* ordinal of the closing bracket, 93.
PatternMatches(p, r) ==
    LET match[i \in 1 .. Len(p) + 1, j \in 1 .. Len(r) + 1] ==
          IF i > Len(p) THEN TRUE
          ELSE IF p[i] = Star THEN \E k \in j .. Len(r) + 1 : match[i + 1, k]
          ELSE /\ j <= Len(r)
               /\ p[i] # OpenBracket
               /\ p[i] \in {Question, r[j]}
               /\ match[i + 1, j + 1]
    IN  match[1, 1]

\* A pattern without metacharacters matches what begins with it.
Glob(p, r) == IF HasMeta(p) THEN PatternMatches(p, r) ELSE IsPrefix(p, r)

=============================================================================
