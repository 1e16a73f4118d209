--------------------------- MODULE ScannerProofs ---------------------------
(***************************************************************************)
(* What the scanner's buffer keeps, for buffers of every size and inputs   *)
(* of every length: while tokens fit (TokensFit) the pointers stay in the  *)
(* buffer, no byte of the input is lost, and nothing is matched that has   *)
(* not been read.  And what is matched is what the text has there: the     *)
(* scanner implements Lexer.                                               *)
(***************************************************************************)
EXTENDS Scanner, SequenceTheorems, TLAPS

\* _val, the buffer from _beg on and the evbuffer hold consecutive bytes of the input.
Placed ==
    /\ Len(val) <= Origin + beg
    /\ \A i \in 1 .. Len(val) : val[i] = input.text[Origin + beg - Len(val) + i]
    /\ \A i \in beg .. lim - 1 : buf[i] = input.text[Origin + i + 1]
    /\ \A i \in 1 .. Len(rest) : rest[i] = input.text[Origin + lim + i]

Sequences_ ==
    /\ input.text \in Seq(Chars)
    /\ rest \in Seq(Chars)
    /\ val \in Seq(Chars)

\* The NUL that ends a read that was short.
Ended == eof = lim => lim < BufSize /\ buf[lim] = Nul

\* What the mode says of the pointers and of _val.
Matching ==
    /\ mode = "next" => beg = cur
    /\ mode \notin {"quoted", "beyond"} => val = <<>>
    /\ mode \in {"word", "file", "blank", "line"} => mark \in beg .. cur

\* fill() has answered with all that was asked for, or with the end of the input.
Answered == filled /\ eof = NoEof => Needed <= lim - cur

ScannerInv == TypeOK /\ Sequences_ /\ Ended /\ Placed /\ Matching /\ Answered

-----------------------------------------------------------------------------
(* Bytes. *)

LEMMA BytesTyped ==
    ASSUME NEW i \in Nat, NEW j \in Nat, i <= j, NEW S,
           \A k \in i .. j - 1 : buf[k] \in S
    PROVE  /\ Bytes(i, j) \in Seq(S)
           /\ Len(Bytes(i, j)) = j - i
           /\ \A k \in 1 .. j - i : Bytes(i, j)[k] = buf[i + k - 1]
<1> DEFINE n == j - i
<1>1. n \in Nat  OBVIOUS
<1>2. Bytes(i, j) = [k \in 1 .. n |-> buf[i + k - 1]]  BY DEF Bytes
<1>3. \A k \in 1 .. n : buf[i + k - 1] \in S  OBVIOUS
<1>4. Bytes(i, j) \in [1 .. n -> S]  BY <1>2, <1>3
<1> HIDE DEF n
<1>5. Bytes(i, j) \in Seq(S) /\ Len(Bytes(i, j)) = n
    BY <1>1, <1>4, IsASeq, LenProperties, SMT
<1> QED  BY <1>2, <1>5 DEF n

\* The second half of fill() puts what is kept first, then what the evbuffer
\* has, and a NUL where that ends before the buffer does.
LEMMA Refilled ==
    ASSUME NEW kept \in Seq(Chars), Len(kept) < BufSize, rest \in Seq(Chars),
           \A i \in 0 .. BufSize : buf[i] \in Chars \cup {Nul, Beyond},
           ReadMore(kept)
    PROVE  /\ lim' \in Len(kept) .. BufSize
           /\ rest' \in Seq(Chars)
           /\ Len(rest') = Len(rest) - (lim' - Len(kept))
           /\ \A i \in 1 .. Len(rest') :
                /\ lim' - Len(kept) + i \in 1 .. Len(rest)
                /\ rest'[i] = rest[lim' - Len(kept) + i]
           /\ \A i \in 0 .. BufSize : buf'[i] \in Chars \cup {Nul, Beyond}
           /\ \A i \in 0 .. Len(kept) - 1 : buf'[i] = kept[i + 1]
           /\ \A i \in Len(kept) .. lim' - 1 :
                /\ i - Len(kept) + 1 \in 1 .. Len(rest)
                /\ buf'[i] = rest[i - Len(kept) + 1]
           /\ eof' \in {NoEof, lim'}
           /\ lim' < BufSize => eof' = lim'
           /\ eof' = lim' => lim' < BufSize /\ buf'[lim'] = Nul
<1> DEFINE offset == Len(kept)
           n == Smaller(BufSize - offset, Len(rest))
           end == offset + n
<1>1. offset \in Nat /\ Len(rest) \in Nat /\ BufSize \in Nat
    BY LenProperties, BufSizeAssumption
<1>2. n \in 0 .. Len(rest) /\ n <= BufSize - offset /\ end \in offset .. BufSize
    BY <1>1 DEF Smaller
<1>3. \A i \in 1 .. offset : kept[i] \in Chars
    BY ElementOfSeq
<1>4. \A i \in 1 .. Len(rest) : rest[i] \in Chars
    BY ElementOfSeq
<1>5. /\ buf' = [i \in 0 .. BufSize |-> IF i < offset THEN kept[i + 1]
                                        ELSE IF i < end THEN rest[i - offset + 1]
                                        ELSE IF i = end /\ i < BufSize THEN Nul
                                        ELSE buf[i]]
      /\ lim' = end
      /\ eof' = (IF end < BufSize THEN end ELSE NoEof)
      /\ rest' = SubSeq(rest, n + 1, Len(rest))
    BY DEF ReadMore
<1>6. n = lim' - Len(kept)
    BY <1>1, <1>2, <1>5
<1> HIDE DEF n
<1>7. /\ rest' \in Seq(Chars)
      /\ Len(rest') = Len(rest) - n
      /\ \A i \in 1 .. Len(rest') : n + i \in 1 .. Len(rest) /\ rest'[i] = rest[n + i]
  <2>1. Len(rest') = Len(rest) - n
      BY <1>1, <1>2, <1>5, SubSeqProperties
  <2>2. rest' \in Seq(Chars)
      BY <1>1, <1>2, <1>5, SubSeqProperties, <1>4
  <2>3. \A i \in 1 .. Len(rest') : n + i \in 1 .. Len(rest) /\ rest'[i] = rest[n + i]
      BY <1>1, <1>2, <1>5, <2>1, SubSeqProperties
  <2> QED  BY <2>1, <2>2, <2>3
<1> HIDE DEF offset
<1>8. \A i \in 0 .. BufSize : buf'[i] \in Chars \cup {Nul, Beyond}
  <2> SUFFICES ASSUME NEW i \in 0 .. BufSize
               PROVE  buf'[i] \in Chars \cup {Nul, Beyond}
      OBVIOUS
  <2>1. CASE i < offset
      BY <2>1, <1>1, <1>3, <1>5
  <2>2. CASE ~(i < offset) /\ i < end
    <3>1. i - offset + 1 \in 1 .. Len(rest)
        BY <2>2, <1>1, <1>2
    <3> QED  BY <2>2, <3>1, <1>4, <1>5
  <2>3. CASE ~(i < offset) /\ ~(i < end)
      BY <2>3, <1>1, <1>2, <1>5
  <2> QED  BY <2>1, <2>2, <2>3
<1>9. /\ \A i \in 0 .. offset - 1 : buf'[i] = kept[i + 1]
      /\ \A i \in offset .. lim' - 1 : i - offset + 1 \in 1 .. Len(rest) /\ buf'[i] = rest[i - offset + 1]
    BY <1>1, <1>2, <1>5
<1>10. /\ eof' \in {NoEof, lim'}
       /\ lim' < BufSize => eof' = lim'
       /\ eof' = lim' => lim' < BufSize /\ buf'[lim'] = Nul
    BY <1>1, <1>2, <1>5 DEF NoEof
<1> QED  BY <1>1, <1>2, <1>5, <1>6, <1>7, <1>8, <1>9, <1>10 DEF offset

-----------------------------------------------------------------------------
(* The invariant: the first read, and fill(). *)

\* The numbers that the invariant is about.
Measured ==
    /\ Len(input.text) \in Nat /\ Len(rest) \in Nat /\ Len(val) \in Nat
    /\ beg \in Nat /\ cur \in Nat /\ mark \in Nat /\ lim \in Nat /\ BufSize \in Nat
    /\ BufSize >= 7
    /\ beg <= cur /\ cur <= lim /\ mark <= lim /\ lim <= BufSize
    /\ Origin \in Int /\ 0 <= Origin + beg
    /\ Origin + lim + Len(rest) = Len(input.text)
    /\ Needed \in {1, 2, 5, 7}

LEMMA Lengths == ScannerInv => Measured
<1> SUFFICES ASSUME ScannerInv PROVE Measured
    OBVIOUS
<1>1. Len(input.text) \in Nat /\ Len(rest) \in Nat /\ Len(val) \in Nat
    BY LenProperties DEF ScannerInv, Sequences_
<1>2. Len(val) <= Origin + beg
    BY DEF ScannerInv, Placed
<1>3. Needed \in {1, 2, 5, 7}
    BY DEF Needed
<1> QED  BY <1>1, <1>2, <1>3, BufSizeAssumption DEF Measured, ScannerInv, TypeOK, Origin

\* What is between _beg and _lim are bytes of the input.
LEMMA Unread ==
    ASSUME ScannerInv
    PROVE  \A i \in beg .. lim - 1 : buf[i] \in Chars
<1> SUFFICES ASSUME NEW i \in beg .. lim - 1
             PROVE  buf[i] \in Chars
    OBVIOUS
<1>1. Origin + i + 1 \in 1 .. Len(input.text)
  <2>1. Measured
      BY Lengths
  <2> QED  BY ONLY <2>1, i \in beg .. lim - 1 DEF Measured
<1>2. buf[i] = input.text[Origin + i + 1]
    BY DEF ScannerInv, Placed
<1>3. input.text[Origin + i + 1] \in Chars
    BY <1>1, ElementOfSeq DEF ScannerInv, Sequences_
<1> QED  BY <1>2, <1>3

LEMMA ScannerInit == Init => ScannerInv
<1> SUFFICES ASSUME Init PROVE ScannerInv
    OBVIOUS
<1> DEFINE t == input.text
           n == Smaller(Len(t), BufSize - 1)
<1>1. t \in Seq(Chars)
    BY InputsAssumption DEF Init
<1>2. Len(t) \in Nat /\ \A i \in 1 .. Len(t) : t[i] \in Chars
    BY <1>1, LenProperties, ElementOfSeq
<1>3. n \in 0 .. Len(t) /\ n < BufSize
    BY <1>2, BufSizeAssumption DEF Smaller
<1>4. /\ buf = [i \in 0 .. BufSize |-> IF i < n THEN t[i + 1] ELSE IF i < BufSize THEN Nul ELSE Beyond]
      /\ lim = n
      /\ rest = SubSeq(t, n + 1, Len(t))
    BY DEF Init
<1> HIDE DEF n
<1>5. /\ rest \in Seq(Chars)
      /\ Len(rest) = Len(t) - n
      /\ \A i \in 1 .. Len(rest) : rest[i] = t[n + i]
  <2>1. Len(rest) = Len(t) - n
      BY <1>1, <1>2, <1>3, <1>4, SubSeqProperties
  <2>2. rest \in Seq(Chars)
      BY <1>1, <1>2, <1>3, <1>4, SubSeqProperties
  <2>3. \A i \in 1 .. Len(rest) : rest[i] = t[n + i]
      BY <1>1, <1>2, <1>3, <1>4, <2>1, SubSeqProperties
  <2> QED  BY <2>1, <2>2, <2>3
<1>6. beg = 0 /\ cur = 0 /\ mark = 0 /\ eof = NoEof /\ val = <<>> /\ mode = "next" /\ acc = "none" /\ filled = FALSE
      /\ scheme = FALSE
    BY DEF Init
<1>7. Len(val) = 0 /\ val \in Seq(Chars)
    BY <1>6, EmptySeq
<1>8. TypeOK
  <2>1. \A i \in 0 .. BufSize : buf[i] \in Chars \cup {Nul, Beyond}
      BY <1>2, <1>3, <1>4, BufSizeAssumption
  <2>2. lim \in 0 .. BufSize /\ beg = 0 /\ cur = 0 /\ mark = 0 /\ eof = NoEof
      BY <1>2, <1>3, <1>4, <1>6, BufSizeAssumption
  <2>3. mode \in Modes /\ acc = "none" /\ filled \in BOOLEAN /\ scheme \in BOOLEAN
      BY <1>6 DEF Modes
  <2> QED  BY <2>1, <2>2, <2>3, BufSizeAssumption DEF TypeOK
<1>9. Sequences_
    BY <1>1, <1>5, <1>7 DEF Sequences_
<1>10. Ended
    BY <1>3, <1>4, <1>6 DEF Ended, NoEof
<1>11. Placed
  <2>1. Origin = 0
      BY <1>2, <1>3, <1>4, <1>5 DEF Origin
  <2>2. \A i \in beg .. lim - 1 : buf[i] = t[Origin + i + 1]
      BY <2>1, <1>2, <1>3, <1>4, <1>6, BufSizeAssumption
  <2>3. \A i \in 1 .. Len(rest) : rest[i] = t[Origin + lim + i]
      BY <2>1, <1>2, <1>3, <1>4, <1>5
  <2>4. /\ Len(val) <= Origin + beg
        /\ \A i \in 1 .. Len(val) : val[i] = t[Origin + beg - Len(val) + i]
      BY <2>1, <1>6, <1>7
  <2> QED  BY <2>2, <2>3, <2>4 DEF Placed
<1>12. Matching /\ Answered
    BY <1>6 DEF Matching, Answered
<1> QED  BY <1>8, <1>9, <1>10, <1>11, <1>12 DEF ScannerInv

\* The token is moved to the front of the buffer.
LEMMA ShiftKeeps ==
    ASSUME ScannerInv, TokensFit, Shift
    PROVE  ScannerInv'
<1>0. Measured
    BY Lengths
<1> USE <1>0 DEF Measured
<1> DEFINE kept == Bytes(beg, lim)
           t == input.text
<1>1. /\ MustFill /\ lim - beg < BufSize /\ ReadMore(kept)
      /\ cur' = cur - beg /\ beg' = 0 /\ mark' = cur' /\ filled' = TRUE
      /\ input' = input /\ val' = val /\ mode' = mode /\ scheme' = scheme /\ acc' = acc
    BY DEF Shift
<1>2. /\ kept \in Seq(Chars)
      /\ Len(kept) = lim - beg
      /\ \A k \in 1 .. lim - beg : kept[k] = buf[beg + k - 1]
  <2>1. beg \in Nat /\ lim \in Nat /\ beg <= lim
      OBVIOUS
  <2> QED  BY <2>1, BytesTyped, Unread
<1> HIDE DEF kept
<1>3. /\ lim' \in Len(kept) .. BufSize
      /\ rest' \in Seq(Chars)
      /\ Len(rest') = Len(rest) - (lim' - Len(kept))
      /\ \A i \in 1 .. Len(rest') :
            /\ lim' - Len(kept) + i \in 1 .. Len(rest)
            /\ rest'[i] = rest[lim' - Len(kept) + i]
      /\ \A i \in 0 .. BufSize : buf'[i] \in Chars \cup {Nul, Beyond}
      /\ \A i \in 0 .. Len(kept) - 1 : buf'[i] = kept[i + 1]
      /\ \A i \in Len(kept) .. lim' - 1 :
            /\ i - Len(kept) + 1 \in 1 .. Len(rest)
            /\ buf'[i] = rest[i - Len(kept) + 1]
      /\ eof' \in {NoEof, lim'}
      /\ lim' < BufSize => eof' = lim'
      /\ eof' = lim' => lim' < BufSize /\ buf'[lim'] = Nul
  <2>1. Len(kept) < BufSize /\ rest \in Seq(Chars) /\ \A i \in 0 .. BufSize : buf[i] \in Chars \cup {Nul, Beyond}
      BY <1>1, <1>2 DEF ScannerInv, Sequences_, TypeOK
  <2> QED  BY <2>1, <1>1, <1>2, Refilled
<1>4. cur - beg + Needed <= BufSize
  <2>1. mode # "done" /\ eof = NoEof /\ lim - cur < Needed
      BY <1>1 DEF MustFill
  <2>2. CASE mode # "quoted" \/ cur = lim
      BY <2>1, <2>2 DEF TokensFit
  <2>3. CASE mode = "quoted" /\ cur < lim
    <3>1. Needed = 2
        BY <2>3 DEF Needed
    <3> QED  BY <2>1, <2>3, <3>1, <1>1
  <2> QED  BY <2>2, <2>3
<1>5. /\ Len(rest') \in Nat /\ lim' \in Nat /\ lim - beg <= lim'
      /\ Len(rest') = Len(rest) - (lim' - (lim - beg))
  <2>1. Len(rest') \in Nat /\ lim' \in Nat
      BY <1>3, LenProperties
  <2> QED  BY <2>1, <1>2, <1>3
<1>6. TypeOK'
    BY <1>1, <1>2, <1>3, <1>5 DEF ScannerInv, TypeOK
<1>7. Sequences_'
    BY <1>1, <1>3 DEF ScannerInv, Sequences_
<1>8. Ended'
    BY <1>3 DEF Ended
<1>9. Origin' = Origin + beg
  <2>1. Origin' = Len(input.text) - Len(rest') - lim' /\ Origin = Len(input.text) - Len(rest) - lim
      BY <1>1 DEF Origin
  <2>2. /\ Len(input.text) \in Int /\ Len(rest) \in Int /\ lim \in Int /\ beg \in Int
        /\ Len(rest') \in Int /\ lim' \in Int
      BY <1>5
  <2>3. Len(rest') = Len(rest) - (lim' - (lim - beg))
      BY <1>5
  <2> QED  BY ONLY <2>1, <2>2, <2>3, SMTT(30)
<1>10. Placed'
  <2>0. PICK end \in Nat : end = lim'
      BY <1>5
  <2>1. /\ Len(val) <= Origin' + beg'
        /\ \A i \in 1 .. Len(val) : val[i] = t[Origin' + beg' - Len(val) + i]
      BY <1>1, <1>9 DEF ScannerInv, Placed
  <2>2. ASSUME NEW i \in 0 .. end - 1
        PROVE  buf'[i] = t[Origin' + i + 1]
    <3>0. i \in Nat /\ i <= end - 1
        BY <2>2
    <3>1. CASE i < lim - beg
      <4>1. buf'[i] = kept[i + 1]
        <5>1. i \in 0 .. Len(kept) - 1
            BY <3>0, <3>1, <1>2
        <5> QED  BY <5>1, <1>3
      <4>1a. kept[i + 1] = buf[beg + i]
        <5>1. i + 1 \in 1 .. lim - beg /\ beg + (i + 1) - 1 = beg + i
            BY <3>1, <1>5
        <5> QED  BY <5>1, <1>2
      <4>2. buf[beg + i] = t[Origin + (beg + i) + 1]
          BY <3>1, <1>5 DEF ScannerInv, Placed
      <4> QED  BY <4>1, <4>1a, <4>2, <1>9
    <3>2. CASE i >= lim - beg
      <4> DEFINE k == i - Len(kept) + 1
      <4>1. k \in 1 .. Len(rest) /\ buf'[i] = rest[k]
        <5>1. i \in Len(kept) .. end - 1
            BY <3>0, <3>2, <1>2
        <5> QED  BY <5>1, <2>0, <1>3
      <4>3. rest[k] = t[Origin + lim + k]
          BY <4>1 DEF ScannerInv, Placed
      <4>4. Origin' + i + 1 = Origin + lim + k
          BY <1>2, <1>5, <1>9
      <4> QED  BY <4>1, <4>3, <4>4
    <3> QED  BY <3>0, <3>1, <3>2
  <2>3. ASSUME NEW i \in 1 .. Len(rest')
        PROVE  rest'[i] = t[Origin' + lim' + i]
    <3> DEFINE k == lim' - Len(kept) + i
    <3>1. k \in 1 .. Len(rest) /\ rest'[i] = rest[k]
        BY <1>3
    <3>2. rest[k] = t[Origin + lim + k]
        BY <3>1 DEF ScannerInv, Placed
    <3>3. Origin' + lim' + i = Origin + lim + k
        BY <1>2, <1>5, <1>9
    <3> QED  BY <3>1, <3>2, <3>3
  <2> QED  BY <2>0, <2>1, <2>2, <2>3, <1>1 DEF Placed
<1>11. Matching'
    BY <1>1 DEF ScannerInv, Matching
<1>12. Answered'
  <2>1. Needed' = Needed
      BY <1>1 DEF Needed
  <2>2. ASSUME eof' = NoEof PROVE lim' = BufSize
      BY <2>2, <1>3, <1>5 DEF NoEof
  <2> QED  BY <2>1, <2>2, <1>1, <1>4 DEF Answered
<1> QED  BY <1>6, <1>7, <1>8, <1>10, <1>11, <1>12 DEF ScannerInv

\* Only a quoted string is split, with its last byte still to be read.
LEMMA OverflowSplits ==
    ASSUME ScannerInv, TokensFit, MustFill, lim - beg >= BufSize
    PROVE  mode = "quoted" /\ beg = 0 /\ lim = BufSize /\ cur = BufSize - 1
<1>0. Measured
    BY Lengths
<1> USE <1>0 DEF Measured
<1>1. mode # "done" /\ eof = NoEof /\ lim - cur < Needed
    BY DEF MustFill
<1>2. beg = 0 /\ lim = BufSize
    OBVIOUS
<1>3. ~(mode # "quoted" \/ cur = lim)
    BY <1>1, <1>2 DEF TokensFit
<1>4. Needed = 2
    BY <1>3 DEF Needed
<1> QED  BY <1>1, <1>2, <1>3, <1>4

LEMMA OverflowKeeps ==
    ASSUME ScannerInv, TokensFit, Overflow
    PROVE  ScannerInv'
<1>0. Measured
    BY Lengths
<1> USE <1>0 DEF Measured
<1> DEFINE kept == <<buf[cur]>>
           gone == Bytes(0, BufSize - 1)
           t == input.text
<1>1. /\ MustFill /\ lim - beg >= BufSize /\ ReadMore(kept) /\ val' = val \o gone
      /\ cur' = 0 /\ beg' = 0 /\ mark' = 0 /\ filled' = TRUE
      /\ input' = input /\ mode' = mode /\ scheme' = scheme /\ acc' = acc
    BY DEF Overflow
<1>2. mode = "quoted" /\ beg = 0 /\ lim = BufSize /\ cur = BufSize - 1
    BY <1>1, OverflowSplits
<1>3. kept \in Seq(Chars) /\ Len(kept) = 1 /\ kept[1] = buf[BufSize - 1]
  <2>1. buf[cur] \in Chars
      BY <1>2, Unread
  <2> QED  BY <2>1, <1>2
<1>4. /\ gone \in Seq(Chars)
      /\ Len(gone) = BufSize - 1
      /\ \A k \in 1 .. BufSize - 1 : gone[k] = buf[k - 1]
  <2>1. \A k \in 0 .. BufSize - 1 - 1 : buf[k] \in Chars
      BY <1>2, Unread
  <2>2. BufSize - 1 \in Nat /\ 0 \in Nat /\ 0 <= BufSize - 1
      OBVIOUS
  <2> HIDE DEF gone
  <2>3. /\ Bytes(0, BufSize - 1) \in Seq(Chars)
        /\ Len(Bytes(0, BufSize - 1)) = BufSize - 1 - 0
        /\ \A k \in 1 .. BufSize - 1 - 0 : Bytes(0, BufSize - 1)[k] = buf[0 + k - 1]
      BY <2>1, <2>2, BytesTyped
  <2> QED  BY <2>3 DEF gone
<1> HIDE DEF kept, gone
<1>5. /\ lim' \in 1 .. BufSize
      /\ rest' \in Seq(Chars)
      /\ Len(rest') = Len(rest) - (lim' - 1)
      /\ \A i \in 1 .. Len(rest') :
            /\ lim' - 1 + i \in 1 .. Len(rest)
            /\ rest'[i] = rest[lim' - 1 + i]
      /\ \A i \in 0 .. BufSize : buf'[i] \in Chars \cup {Nul, Beyond}
      /\ \A i \in 0 .. 1 - 1 : buf'[i] = kept[i + 1]
      /\ \A i \in 1 .. lim' - 1 :
            /\ i - 1 + 1 \in 1 .. Len(rest)
            /\ buf'[i] = rest[i - 1 + 1]
      /\ eof' \in {NoEof, lim'}
      /\ lim' < BufSize => eof' = lim'
      /\ eof' = lim' => lim' < BufSize /\ buf'[lim'] = Nul
  <2>1. Len(kept) < BufSize /\ rest \in Seq(Chars) /\ \A i \in 0 .. BufSize : buf[i] \in Chars \cup {Nul, Beyond}
      BY <1>3 DEF ScannerInv, Sequences_, TypeOK
  <2> QED  BY <2>1, <1>1, <1>3, Refilled
<1>6. /\ val' \in Seq(Chars)
      /\ Len(val') = Len(val) + (BufSize - 1)
      /\ \A i \in 1 .. Len(val') : val'[i] = IF i <= Len(val) THEN val[i] ELSE gone[i - Len(val)]
  <2>1. val \in Seq(Chars)
      BY DEF ScannerInv, Sequences_
  <2>2. /\ val \o gone \in Seq(Chars)
        /\ Len(val \o gone) = Len(val) + Len(gone)
        /\ \A i \in 1 .. Len(val) + Len(gone) :
              (val \o gone)[i] = IF i <= Len(val) THEN val[i] ELSE gone[i - Len(val)]
    <3>1. val \in Seq(Chars) /\ gone \in Seq(Chars)
        BY <2>1, <1>4
    <3> QED  BY ONLY <3>1, ConcatProperties, Zenon
  <2>3. val' = val \o gone /\ Len(val') = Len(val) + (BufSize - 1)
      BY <2>2, <1>1, <1>4
  <2>4. \A i \in 1 .. Len(val') : val'[i] = IF i <= Len(val) THEN val[i] ELSE gone[i - Len(val)]
    <3>1. Len(val') = Len(val) + Len(gone)
        BY <2>3, <1>4
    <3> QED  BY ONLY <2>2, <2>3, <3>1
  <2> QED  BY <2>2, <2>3, <2>4
<1>7. /\ Len(rest') \in Nat /\ lim' \in Nat /\ 1 <= lim'
      /\ Len(rest') = Len(rest) - (lim' - 1)
    BY <1>5, LenProperties
<1>8. TypeOK'
  <2>1. /\ \A i \in 0 .. BufSize : buf'[i] \in Chars \cup {Nul, Beyond}
        /\ lim' \in 0 .. BufSize /\ eof' \in {NoEof, lim'}
      BY <1>5, <1>7
  <2>2. beg' \in 0 .. lim' /\ cur' \in beg' .. lim' /\ mark' \in 0 .. lim' /\ filled' \in BOOLEAN
      BY <1>1, <1>7
  <2>3. mode' = mode /\ acc' = acc /\ scheme' = scheme
      BY <1>1
  <2> QED  BY <2>1, <2>2, <2>3 DEF ScannerInv, TypeOK
<1>9. Sequences_'
    BY <1>1, <1>5, <1>6 DEF ScannerInv, Sequences_
<1>10. Ended'
    BY <1>5 DEF Ended
<1>11. Origin' = Origin + (BufSize - 1)
    BY <1>1, <1>2, <1>7 DEF Origin
<1>12. Placed'
  <2>0. PICK end \in Nat : end = lim'
      BY <1>7
  <2>1. Len(val') <= Origin' + beg'
      BY <1>1, <1>2, <1>6, <1>11 DEF ScannerInv, Placed
  <2>2. ASSUME NEW i \in 1 .. Len(val')
        PROVE  val'[i] = t[Origin' + beg' - Len(val') + i]
    <3>1. Origin' + beg' - Len(val') = Origin - Len(val)
      <4>1. beg' = 0 /\ Len(val') = Len(val) + (BufSize - 1)
          BY <1>1, <1>6
      <4> QED  BY <4>1, <1>11
    <3>2. CASE i <= Len(val)
      <4>1. val[i] = t[Origin + beg - Len(val) + i]
          BY <3>2, <1>6 DEF ScannerInv, Placed
      <4>2. Origin' + beg' - Len(val') + i = Origin + beg - Len(val) + i
          BY <3>1, <1>2
      <4> QED  BY <3>2, <4>1, <4>2, <1>6
    <3>3. CASE i > Len(val)
      <4> DEFINE k == i - Len(val)
      <4>1. k \in 1 .. BufSize - 1 /\ val'[i] = gone[k]
          BY <3>3, <1>6
      <4>2. gone[k] = buf[k - 1]
          BY <4>1, <1>4
      <4>3. buf[k - 1] = t[Origin + (k - 1) + 1]
          BY <4>1, <1>2 DEF ScannerInv, Placed
      <4>4. Origin' + beg' - Len(val') + i = Origin + (k - 1) + 1
          BY <3>1, <4>1
      <4> QED  BY ONLY <4>1, <4>2, <4>3, <4>4
    <3> QED  BY <3>2, <3>3, <1>6
  <2>3. ASSUME NEW i \in 0 .. end - 1
        PROVE  buf'[i] = t[Origin' + i + 1]
    <3>0. i \in Nat /\ i <= end - 1
        BY <2>3
    <3>1. CASE i = 0
      <4>1. buf'[i] = buf[BufSize - 1]
          BY <3>1, <1>3, <1>5
      <4>2. buf[BufSize - 1] = t[Origin + (BufSize - 1) + 1]
          BY <1>2 DEF ScannerInv, Placed
      <4> QED  BY <3>1, <4>1, <4>2, <1>11
    <3>2. CASE i > 0
      <4>1. i \in 1 .. Len(rest) /\ buf'[i] = rest[i]
        <5>1. i \in 1 .. end - 1 /\ i - 1 + 1 = i
            BY <3>0, <3>2
        <5> QED  BY <5>1, <2>0, <1>5
      <4>2. rest[i] = t[Origin + lim + i]
          BY <4>1 DEF ScannerInv, Placed
      <4>3. Origin' + i + 1 = Origin + lim + i
          BY <1>2, <1>11
      <4> QED  BY <4>1, <4>2, <4>3
    <3> QED  BY <3>0, <3>1, <3>2
  <2>4. ASSUME NEW i \in 1 .. Len(rest')
        PROVE  rest'[i] = t[Origin' + lim' + i]
    <3> DEFINE k == lim' - 1 + i
    <3>1. k \in 1 .. Len(rest) /\ rest'[i] = rest[k]
        BY <1>5
    <3>2. rest[k] = t[Origin + lim + k]
        BY <3>1 DEF ScannerInv, Placed
    <3>3. Origin' + lim' + i = Origin + lim + k
        BY <1>2, <1>11, <1>7
    <3> QED  BY <3>1, <3>2, <3>3
  <2> QED  BY <2>0, <2>1, <2>2, <2>3, <2>4, <1>1 DEF Placed
<1>13. Matching'
    BY <1>1, <1>2 DEF ScannerInv, Matching
<1>14. Answered'
  <2>1. Needed' = 2
      BY <1>1, <1>2 DEF Needed
  <2>2. ASSUME eof' = NoEof PROVE lim' = BufSize
      BY <2>2, <1>5, <1>7 DEF NoEof
  <2> QED  BY <2>1, <2>2, <1>1 DEF Answered
<1> QED  BY <1>8, <1>9, <1>10, <1>12, <1>13, <1>14 DEF ScannerInv

-----------------------------------------------------------------------------
(* The invariant: the matcher. *)

\* A look finds bytes of the input, or the NUL that ends it.
LEMMA LooksInside ==
    ASSUME ScannerInv, mode # "done", ~MustFill
    PROVE  /\ cur = lim => eof = lim /\ buf[lim] = Nul
           /\ buf[cur] # Nul => cur < lim
           /\ mode \in {"next", "quoted"} /\ buf[cur] # Nul =>
                cur + 1 < lim \/ (cur + 1 = lim /\ eof = lim /\ buf[lim] = Nul)
<1>0. Measured
    BY Lengths
<1> USE <1>0 DEF Measured
<1>1. CASE eof = NoEof
  <2>1. Needed <= lim - cur
      BY <1>1 DEF MustFill, ScannerInv, Answered
  <2>2. mode \in {"next", "quoted"} => Needed \in {2, 7}
      BY DEF Needed
  <2> QED  BY <2>1, <2>2
<1>2. CASE eof = lim
    BY <1>2 DEF ScannerInv, Ended
<1> QED  BY <1>1, <1>2 DEF ScannerInv, TypeOK

LEMMA ReadsInsideHolds == ScannerInv => ReadsInside
<1> SUFFICES ASSUME ScannerInv, mode # "done", ~MustFill
             PROVE  Readable(cur) /\ (LooksAtTwo => Readable(cur + 1))
    BY DEF ReadsInside
<1>0. Measured
    BY Lengths
<1>1. Readable(cur)
    BY <1>0, LooksInside DEF Measured, Readable
<1>2. LooksAtTwo => mode \in {"next", "quoted"} /\ buf[cur] # Nul
    BY DEF LooksAtTwo, Quote, Dash, Backslash, Nul
<1>3. LooksAtTwo => Readable(cur + 1)
    BY <1>0, <1>2, LooksInside DEF Measured, Readable
<1> QED  BY <1>1, <1>3

LEMMA SchemeTyped == \A m, c : Scheme(m, c) \in BOOLEAN
<1> TAKE m, c
<1>1. CASE m = "next"
  <2>1. Scheme(m, c) = (c \in Letters)
      BY <1>1 DEF Scheme
  <2> QED  BY <2>1
<1>2. CASE m # "next"
  <2>1. Scheme(m, c) = (scheme /\ c \in SchemeChars)
      BY <1>2 DEF Scheme
  <2> QED  BY <2>1
<1> QED  BY <1>1, <1>2

Accs == {"none", "word", "comma", "terminator", "blank", "comment", "error"}

\* A step of the matcher keeps the invariant when the pointers stay in order
\* and _val goes with the bytes before _beg.
LEMMA Moves ==
    ASSUME ScannerInv, UNCHANGED source, filled' = FALSE, scheme' \in BOOLEAN,
           mode' \in Modes, acc' \in Accs,
           beg' \in beg .. lim, cur' \in beg' .. lim, mark' \in 0 .. lim,
           mode' \in {"word", "file", "blank", "line"} => mark' \in beg' .. cur',
           mode' = "next" => beg' = cur',
           val' = <<>> \/ (val' = val /\ beg' = beg),
           mode' \notin {"quoted", "beyond"} => val' = <<>>
    PROVE  ScannerInv'
<1>0. Measured
    BY Lengths
<1>1. input' = input /\ buf' = buf /\ lim' = lim /\ eof' = eof /\ rest' = rest
    BY DEF source
<1>2. TypeOK'
  <2>1. PICK b, c, m : b = beg' /\ c = cur' /\ m = mark'
      OBVIOUS
  <2>2. b \in 0 .. lim /\ c \in b .. lim /\ m \in 0 .. lim
      BY <1>0, <2>1 DEF Measured
  <2>3. filled' \in BOOLEAN /\ scheme' \in BOOLEAN
      OBVIOUS
  <2>4. /\ \A i \in 0 .. BufSize : buf[i] \in Chars \cup {Nul, Beyond}
        /\ lim \in 0 .. BufSize
        /\ eof \in {NoEof, lim}
      BY DEF ScannerInv, TypeOK
  <2> QED  BY <1>1, <2>1, <2>2, <2>3, <2>4 DEF TypeOK, Accs
<1>3. val' \in Seq(Chars) /\ (val' = <<>> => Len(val') = 0)
    BY EmptySeq DEF ScannerInv, Sequences_
<1>4. Sequences_'
    BY <1>1, <1>3 DEF ScannerInv, Sequences_
<1>5. Ended'
    BY <1>1 DEF ScannerInv, Ended
<1>6. Origin' = Origin
    BY <1>1 DEF Origin
<1>7. Placed'
  <2>1. /\ Len(val') <= Origin' + beg'
        /\ \A i \in 1 .. Len(val') : val'[i] = input.text[Origin' + beg' - Len(val') + i]
    <3>1. CASE val' = <<>>
      <4>0. PICK b : b = beg' /\ b \in beg .. lim
          OBVIOUS
      <4>1. b \in Int /\ beg \in Int /\ beg <= b
          BY ONLY <1>0, <4>0 DEF Measured
      <4>2. 0 <= Origin + b
          BY ONLY <1>0, <4>1 DEF Measured
      <4> QED  BY <3>1, <4>0, <4>2, <1>3, <1>6
    <3>2. CASE val' = val /\ beg' = beg
        BY <3>2, <1>6 DEF ScannerInv, Placed
    <3> QED  BY <3>1, <3>2
  <2>2. \A i \in beg' .. lim - 1 : i \in beg .. lim - 1
      BY <1>0 DEF Measured
  <2>3. /\ \A i \in beg' .. lim - 1 : buf[i] = input.text[Origin + i + 1]
        /\ \A i \in 1 .. Len(rest) : rest[i] = input.text[Origin + lim + i]
      BY <2>2 DEF ScannerInv, Placed
  <2> QED  BY <2>1, <2>3, <1>1, <1>6 DEF Placed
<1>8. Matching' /\ Answered'
    BY DEF Matching, Answered
<1> QED  BY <1>2, <1>4, <1>5, <1>7, <1>8 DEF ScannerInv

\* The end of a match is in the buffer: the token, or the blank, goes.
LEMMA Accepts ==
    ASSUME ScannerInv, UNCHANGED source, filled' = FALSE, scheme' \in BOOLEAN,
           mode \in {"word", "file", "blank", "line"}, Accept
    PROVE  ScannerInv'
<1>0. Measured
    BY Lengths
<1>1. mark \in beg .. lim /\ val = <<>> /\ acc \in Accs
    BY <1>0 DEF Measured, ScannerInv, Matching, TypeOK, Accs
<1>2. /\ cur' = mark /\ mark' = mark /\ acc' = acc /\ val' = <<>>
      /\ \/ beg' = mark /\ mode' = "next"
         \/ beg' = beg /\ mode' \in {"comment", "done"}
    BY <1>1 DEF Accept, Emit, Skip
<1>3. /\ beg' \in beg .. lim /\ cur' \in beg' .. lim /\ mark' \in 0 .. lim
      /\ mode' \in Modes /\ acc' \in Accs
      /\ mode' \notin {"word", "file", "blank", "line", "quoted"}
      /\ mode' = "next" => beg' = cur'
    BY <1>0, <1>1, <1>2 DEF Measured, Modes
<1> QED  BY <1>2, <1>3, Moves

LEMMA RootKeeps ==
    ASSUME ScannerInv, Root
    PROVE  ScannerInv'
<1>0. Measured
    BY Lengths
<1> USE DEF Measured, Modes, Accs
<1>1. mode = "next" /\ ~MustFill /\ UNCHANGED source /\ filled' = FALSE /\ scheme' \in BOOLEAN
    BY SchemeTyped DEF Root, Blank, Line, Word, ListComma, DoubleDash, LoneDash, EscapedQuote, EmptyString,
           OpenQuote, Finish, Look
<1>2. beg = cur /\ val = <<>> /\ acc \in Accs
    BY <1>1 DEF ScannerInv, Matching, TypeOK
<1>3. /\ buf[cur] # Nul => cur < lim
      /\ buf[cur] # Nul =>
            cur + 1 < lim \/ (cur + 1 = lim /\ eof = lim /\ buf[lim] = Nul)
    BY <1>1, LooksInside
<1>4. ASSUME NEW r \in Accs, NEW n \in {1, 2}, NEW m \in {"word", "file", "blank", "line"},
             Match(r, n, m), cur + n <= lim
      PROVE  ScannerInv'
  <2>1. acc' = r /\ cur' = cur + n /\ mark' = cur + n /\ mode' = m /\ beg' = beg /\ val' = val
      BY <1>4 DEF Match
  <2>2. /\ beg' \in beg .. lim /\ cur' \in beg' .. lim /\ mark' \in 0 .. lim
        /\ mark' \in beg' .. cur'
      BY <2>1, <1>0, <1>2, <1>4
  <2> QED  BY <2>1, <2>2, <1>1, <1>2, <1>4, Moves
<1>5. CASE Blank
  <2>1. cur + 1 <= lim /\ Match("blank", 1, "blank")
      BY <1>5, <1>0, <1>3 DEF Blank, Look, Space, Nul
  <2> QED  BY <2>1, <1>4
<1>6. CASE Line
  <2>1. cur + 1 <= lim /\ Match("blank", 1, "line")
      BY <1>6, <1>0, <1>3 DEF Line, Look, Newline, Nul
  <2> QED  BY <2>1, <1>4
<1>7. CASE Word
  <2>1. cur + 1 <= lim /\ Match("word", 1, "word")
      BY <1>7, <1>0, <1>3 DEF Word, Look, WordChars, Letters, Backslash, Nul
  <2> QED  BY <2>1, <1>4
<1>8. CASE ListComma
  <2>1. buf[cur] = Comma /\ Match("comma", 1, "file")
      BY <1>8 DEF ListComma, Look
  <2>2. buf[cur] # Nul
      BY <2>1 DEF Comma, Nul
  <2>3. cur + 1 <= lim
      BY <2>2, <1>0, <1>3
  <2> QED  BY <2>1, <2>3, <1>4
<1>9. CASE DoubleDash
  <2>1. buf[cur] = Dash /\ buf[cur + 1] = Dash /\ Match("comment", 2, "file")
      BY <1>9 DEF DoubleDash, Look
  <2>2. cur + 2 <= lim
      BY <2>1, <1>0, <1>3 DEF Dash, Nul
  <2> QED  BY <2>1, <2>2, <1>4
<1>13. CASE LoneDash
  <2>1. cur + 1 <= lim /\ Match("error", 1, "file")
      BY <1>13, <1>0, <1>3 DEF LoneDash, Look, Dash, Nul
  <2> QED  BY <2>1, <1>4
<1>14. CASE EscapedQuote
  <2>1. /\ buf[cur] = Backslash /\ buf[cur + 1] = Quote
        /\ cur' = cur + 2 /\ mode' = "done" /\ UNCHANGED <<beg, mark, val, acc>>
      BY <1>14 DEF EscapedQuote, Look
  <2>2. cur + 2 <= lim
      BY <2>1, <1>0, <1>3 DEF Backslash, Quote, Nul
  <2>3. beg' \in beg .. lim /\ cur' \in beg' .. lim /\ mark' \in 0 .. lim
      BY <2>1, <2>2, <1>0, <1>2
  <2> QED  BY <2>1, <2>3, <1>1, <1>2, Moves
<1>10. CASE EmptyString
  <2>1. buf[cur] = Quote /\ buf[cur + 1] = Quote /\ Emit("empty", <<>>, cur + 2)
      BY <1>10 DEF EmptyString, Look
  <2>2. cur + 2 <= lim
      BY <2>1, <1>0, <1>3 DEF Quote, Nul
  <2>3. cur' = cur + 2 /\ beg' = cur + 2 /\ val' = <<>> /\ mode' = "next" /\ mark' = mark /\ acc' = acc
      BY <2>1 DEF Emit
  <2>4. beg' \in beg .. lim /\ cur' \in beg' .. lim /\ mark' \in 0 .. lim
      BY <2>2, <2>3, <1>0, <1>2
  <2> QED  BY <2>3, <2>4, <1>1, <1>2, Moves
<1>11. CASE OpenQuote
  <2>1. buf[cur] = Quote /\ cur' = cur + 1 /\ mode' = "quoted" /\ UNCHANGED <<beg, mark, val, acc>>
      BY <1>11 DEF OpenQuote, Look
  <2>2. beg' \in beg .. lim /\ cur' \in beg' .. lim /\ mark' \in 0 .. lim
      BY <2>1, <1>0, <1>2, <1>3 DEF Quote, Nul
  <2> QED  BY <2>1, <2>2, <1>1, <1>2, Moves
<1>12. CASE Finish
  <2>1. mode' = "done" /\ UNCHANGED <<beg, cur, mark, val, acc>>
      BY <1>12 DEF Finish, pointers
  <2>2. beg' \in beg .. lim /\ cur' \in beg' .. lim /\ mark' \in 0 .. lim
      BY <2>1, <1>0, <1>2
  <2> QED  BY <2>1, <2>2, <1>1, <1>2, Moves
<1> QED
    BY <1>5, <1>6, <1>7, <1>8, <1>9, <1>10, <1>11, <1>12, <1>13, <1>14 DEF Root

\* A longer match: of a word, the name of a file, or blanks.
LEMMA LongerKeeps ==
    ASSUME ScannerInv, Longer \/ Lines
    PROVE  ScannerInv'
<1>0. Measured
    BY Lengths
<1> USE DEF Measured, Modes, Accs
<1> DEFINE Loops == {"word", "file", "blank", "line"}
<1>1. mode \in Loops /\ ~MustFill /\ UNCHANGED source /\ filled' = FALSE /\ scheme' \in BOOLEAN
    BY SchemeTyped DEF Longer, Lines, WordMore, WordEnd, WordOver, FileMore, FileOver, BlankMore, FirstLine,
           SecondLine, BlankOver, Look
<1>2. mark \in beg .. cur /\ val = <<>> /\ acc \in Accs
    BY <1>1 DEF ScannerInv, Matching, TypeOK
<1>3. buf[cur] # Nul => cur < lim
    BY <1>1, LooksInside
<1>4. ASSUME cur < lim, cur' = cur + 1, mark' \in {mark, cur + 1}, mode' \in Loops, acc' \in Accs,
             beg' = beg, val' = val
      PROVE  ScannerInv'
  <2>1. /\ beg' \in beg .. lim /\ cur' \in beg' .. lim /\ mark' \in 0 .. lim
        /\ mark' \in beg' .. cur'
      BY <1>0, <1>2, <1>4
  <2> QED  BY <2>1, <1>1, <1>2, <1>4, Moves
<1>5. CASE WordOver \/ FileOver \/ BlankOver
    BY <1>5, <1>1, Accepts DEF WordOver, FileOver, BlankOver
<1>6. CASE WordMore
    BY <1>6, <1>3, <1>4 DEF WordMore, Look, Match, WordChars, Letters, Backslash, Nul
<1>7. CASE WordEnd
    BY <1>7, <1>2, <1>3, <1>4 DEF WordEnd, Look, FileChars, Letters, Comma, Dash, Backslash, Nul
<1>8. CASE FileMore
    BY <1>8, <1>1, <1>2, <1>3, <1>4 DEF FileMore, Pass, Look, FileChars, Letters, Comma, Dash, Backslash, Nul
<1>9. CASE BlankMore
    BY <1>9, <1>1, <1>2, <1>3, <1>4 DEF BlankMore, Pass, Look, Space, Nul
<1>10. CASE FirstLine
    BY <1>10, <1>2, <1>3, <1>4 DEF FirstLine, Look, Newline, Nul
<1>11. CASE SecondLine
    BY <1>11, <1>3, <1>4 DEF SecondLine, Match, Look, Newline, Nul
<1> QED
    BY <1>5, <1>6, <1>7, <1>8, <1>9, <1>10, <1>11 DEF Longer, Lines

LEMMA CommentKeeps ==
    ASSUME ScannerInv, Comment
    PROVE  ScannerInv'
<1>0. Measured
    BY Lengths
<1> USE DEF Measured, Modes, Accs
<1>1. mode = "comment" /\ ~MustFill /\ UNCHANGED source /\ filled' = FALSE /\ scheme' \in BOOLEAN
    BY SchemeTyped DEF Comment, CommentMore, CommentLine, CommentEnd, Look
<1>2. val = <<>> /\ acc \in Accs
    BY <1>1 DEF ScannerInv, Matching, TypeOK
<1>3. buf[cur] # Nul => cur < lim
    BY <1>1, LooksInside
<1>4. CASE CommentMore \/ CommentLine
  <2>1. buf[cur] # Nul
      BY <1>4 DEF CommentMore, CommentLine, Look, Chars, Letters, Space, Newline, Comma, Dash, Quote,
                  Backslash, Nul
  <2>2. /\ cur' = cur + 1 /\ beg' = cur + 1 /\ mark' = mark /\ val' = val /\ acc' = acc
        /\ mode' \in {"comment", "next"}
      BY <1>4 DEF CommentMore, CommentLine, Skip
  <2>3. beg' \in beg .. lim /\ cur' \in beg' .. lim /\ mark' \in 0 .. lim
      BY <2>1, <2>2, <1>0, <1>3
  <2> QED  BY <2>2, <2>3, <1>1, <1>2, Moves
<1>5. CASE CommentEnd
  <2>1. mode' = "done" /\ UNCHANGED <<beg, cur, mark, val, acc>>
      BY <1>5 DEF CommentEnd, pointers
  <2>2. beg' \in beg .. lim /\ cur' \in beg' .. lim /\ mark' \in 0 .. lim
      BY <2>1, <1>0
  <2> QED  BY <2>1, <2>2, <1>1, <1>2, Moves
<1> QED  BY <1>4, <1>5 DEF Comment

LEMMA QuotedKeeps ==
    ASSUME ScannerInv, Quoted
    PROVE  ScannerInv'
<1>0. Measured
    BY Lengths
<1> USE DEF Measured, Modes, Accs
<1>1. mode = "quoted" /\ ~MustFill /\ UNCHANGED source /\ filled' = FALSE /\ scheme' \in BOOLEAN
    BY SchemeTyped DEF Quoted, Escaped, QuotedMore, Unclosed, CloseQuote, Look
<1>2. acc \in Accs
    BY DEF ScannerInv, TypeOK
<1>3. /\ buf[cur] # Nul => cur < lim
      /\ buf[cur] # Nul =>
            cur + 1 < lim \/ (cur + 1 = lim /\ eof = lim /\ buf[lim] = Nul)
    BY <1>1, LooksInside
<1>4. CASE Escaped
  <2>1. /\ buf[cur] = Backslash /\ buf[cur + 1] = Quote
        /\ cur' = cur + 2 /\ UNCHANGED <<beg, mark, val, mode, acc>>
      BY <1>4 DEF Escaped, Look
  <2>2. cur + 2 <= lim
      BY <2>1, <1>0, <1>3 DEF Backslash, Quote, Nul
  <2>3. beg' \in beg .. lim /\ cur' \in beg' .. lim /\ mark' \in 0 .. lim
      BY <2>1, <2>2, <1>0
  <2> QED  BY <2>1, <2>3, <1>1, <1>2, Moves
<1>5. CASE QuotedMore
  <2>1. buf[cur] # Nul /\ cur' = cur + 1 /\ UNCHANGED <<beg, mark, val, mode, acc>>
      BY <1>5 DEF QuotedMore, Pass, Look, Chars, Letters, Space, Newline, Comma, Dash, Quote,
                  Backslash, Nul
  <2>2. beg' \in beg .. lim /\ cur' \in beg' .. lim /\ mark' \in 0 .. lim
      BY <2>1, <1>0, <1>3
  <2> QED  BY <2>1, <2>2, <1>1, <1>2, Moves
<1>6. CASE CloseQuote
  <2>1. /\ buf[cur] = Quote /\ cur' = cur + 1 /\ beg' = cur + 1 /\ val' = <<>> /\ mode' = "next"
        /\ mark' = mark /\ acc' = acc
      BY <1>6 DEF CloseQuote, Emit, Look
  <2>2. beg' \in beg .. lim /\ cur' \in beg' .. lim /\ mark' \in 0 .. lim
      BY <2>1, <1>0, <1>3 DEF Quote, Nul
  <2> QED  BY <2>1, <2>2, <1>1, <1>2, Moves
<1>7. CASE Unclosed
  <2>1. mode' = "beyond" /\ UNCHANGED <<beg, cur, mark, val, acc>>
      BY <1>7 DEF Unclosed, pointers
  <2>2. beg' \in beg .. lim /\ cur' \in beg' .. lim /\ mark' \in 0 .. lim
      BY <2>1, <1>0
  <2> QED  BY <2>1, <2>2, <1>1, <1>2, Moves
<1> QED  BY <1>4, <1>5, <1>6, <1>7 DEF Quoted

LEMMA ScannerNext == ScannerInv /\ TokensFit /\ [Next]_vars => ScannerInv'
<1> SUFFICES ASSUME ScannerInv, TokensFit, [Next]_vars
             PROVE  ScannerInv'
    OBVIOUS
<1>1. CASE UNCHANGED vars
  <2>1. /\ UNCHANGED <<input, buf, beg, cur, mark, lim, eof, val, rest, mode, scheme, acc, filled>>
      BY <1>1 DEF vars
  <2>2. TypeOK' /\ Sequences_' /\ Ended'
      BY <2>1 DEF ScannerInv, TypeOK, Sequences_, Ended
  <2>3. Placed'
      BY <2>1 DEF ScannerInv, Placed, Origin
  <2>4. Matching' /\ Answered'
      BY <2>1 DEF ScannerInv, Matching, Answered, Needed
  <2> QED  BY <2>2, <2>3, <2>4 DEF ScannerInv
<1>2. CASE Shift
    BY <1>2, ShiftKeeps
<1>3. CASE Overflow
    BY <1>3, OverflowKeeps
<1>4. CASE Root
    BY <1>4, RootKeeps
<1>5. CASE Longer \/ Lines
    BY <1>5, LongerKeeps
<1>6. CASE Comment
    BY <1>6, CommentKeeps
<1>7. CASE Quoted
    BY <1>7, QuotedKeeps
<1> QED
    BY <1>1, <1>2, <1>3, <1>4, <1>5, <1>6, <1>7 DEF Next, Step, Done

\* _val, the buffer and the evbuffer make up the end of the input that begins with the token.
LEMMA PlacedIsEnd == ScannerInv => NothingLost
<1> SUFFICES ASSUME ScannerInv PROVE NothingLost
    OBVIOUS
<1>0. Measured
    BY Lengths
<1> DEFINE t == input.text
           p == Origin + beg - Len(val)
           held == Bytes(beg, lim)
           front == val \o held
           all == front \o rest
           ending == SubSeq(t, p + 1, Len(t))
<1>1. t \in Seq(Chars) /\ val \in Seq(Chars) /\ rest \in Seq(Chars)
    BY DEF ScannerInv, Sequences_
<1>2. /\ held \in Seq(Chars)
      /\ Len(held) = lim - beg
      /\ \A k \in 1 .. lim - beg : held[k] = buf[beg + k - 1]
  <2>1. beg \in Nat /\ lim \in Nat /\ beg <= lim
      BY <1>0 DEF Measured
  <2> QED  BY <2>1, BytesTyped, Unread
<1>3. p \in 0 .. Len(t)
    BY <1>0 DEF Measured, ScannerInv, Placed
<1> HIDE DEF held
<1>4. /\ val \o held \in Seq(Chars)
      /\ Len(val \o held) = Len(val) + Len(held)
      /\ \A i \in 1 .. Len(val) + Len(held) :
            (val \o held)[i] = IF i <= Len(val) THEN val[i] ELSE held[i - Len(val)]
    BY <1>1, <1>2, ConcatProperties
<1>5. /\ front \o rest \in Seq(Chars)
      /\ Len(front \o rest) = Len(front) + Len(rest)
      /\ \A i \in 1 .. Len(front) + Len(rest) :
            (front \o rest)[i] = IF i <= Len(front) THEN front[i] ELSE rest[i - Len(front)]
  <2> HIDE DEF front
  <2>1. front \in Seq(Chars)
      BY <1>4 DEF front
  <2> QED  BY <2>1, <1>1, ConcatProperties
<1> DEFINE n == Len(val) + (lim - beg)
<1>6. Len(front) = n /\ n \in Nat
    BY <1>0, <1>2, <1>4 DEF Measured
<1>7. /\ ending \in Seq(Chars)
      /\ Len(ending) = Len(t) - p
      /\ \A i \in 1 .. Len(t) - p : ending[i] = t[p + i]
  <2> HIDE DEF p, t
  <2>1. /\ SubSeq(t, p + 1, Len(t)) \in Seq(Chars)
        /\ Len(SubSeq(t, p + 1, Len(t))) = IF p + 1 <= Len(t) THEN Len(t) - (p + 1) + 1 ELSE 0
        /\ \A i \in 1 .. Len(t) - (p + 1) + 1 : SubSeq(t, p + 1, Len(t))[i] = t[p + 1 + i - 1]
    <3>1. Len(t) \in Nat /\ \A i \in 1 .. Len(t) : t[i] \in Chars
        BY <1>1, LenProperties, ElementOfSeq
    <3> QED  BY <1>1, <1>3, <3>1, SubSeqProperties
  <2>2. Len(t) \in Nat
      BY <1>1, LenProperties
  <2>3. Len(ending) = Len(t) - p
      BY <2>1, <2>2, <1>3
  <2>4. ASSUME NEW i \in 1 .. Len(t) - p PROVE ending[i] = t[p + i]
      BY <2>1, <2>2, <2>4, <1>3
  <2> QED  BY <2>1, <2>3, <2>4
<1>8. Len(all) = Len(t) - p /\ all \in Seq(Chars)
  <2>1. Len(t) - p = n + Len(rest)
      BY <1>0 DEF Measured
  <2> QED  BY <2>1, <1>5, <1>6
<1>9. ASSUME NEW i \in 1 .. Len(all)
      PROVE  all[i] = ending[i]
  <2>0. i \in Nat /\ 1 <= i /\ i <= n + Len(rest) /\ i \in 1 .. Len(t) - p
      BY <1>5, <1>6, <1>8
  <2>1. ending[i] = t[p + i]
      BY <2>0, <1>7
  <2>2. CASE i <= Len(val)
    <3>1. all[i] = val[i]
      <4>1. front[i] = val[i]
          BY <2>0, <2>2, <1>0, <1>2, <1>4 DEF Measured
      <4>2. i <= n
          BY <2>0, <2>2, <1>0 DEF Measured
      <4> HIDE DEF front, n
      <4> QED  BY <4>1, <4>2, <2>0, <1>5, <1>6
    <3>2. val[i] = t[p + i]
        BY <2>0, <2>2, <1>0 DEF Measured, ScannerInv, Placed
    <3> QED  BY <2>1, <3>1, <3>2
  <2>3. CASE i > Len(val) /\ i <= n
    <3> DEFINE k == i - Len(val)
    <3>1. k \in 1 .. lim - beg /\ beg + k - 1 \in beg .. lim - 1
        BY <2>0, <2>3, <1>0 DEF Measured
    <3>2. all[i] = held[k]
        BY <2>0, <2>3, <1>0, <1>2, <1>4, <1>5, <1>6 DEF Measured
    <3>3. held[k] = buf[beg + k - 1]
        BY <3>1, <1>2
    <3>4. buf[beg + k - 1] = t[Origin + (beg + k - 1) + 1]
        BY <3>1 DEF ScannerInv, Placed
    <3>5. Origin + (beg + k - 1) + 1 = p + i
        BY <2>0, <1>0 DEF Measured
    <3> QED  BY <2>1, <3>2, <3>3, <3>4, <3>5
  <2>4. CASE i > n
    <3> DEFINE k == i - n
    <3>1. k \in 1 .. Len(rest)
        BY <2>0, <2>4, <1>0 DEF Measured
    <3>2. all[i] = rest[k]
      <4> HIDE DEF front, n
      <4> QED  BY <2>0, <2>4, <1>5, <1>6
    <3>3. rest[k] = t[Origin + lim + k]
        BY <3>1 DEF ScannerInv, Placed
    <3>4. Origin + lim + k = p + i
        BY <2>0, <1>0 DEF Measured
    <3> QED  BY <2>1, <3>2, <3>3, <3>4
  <2>5. Len(val) \in Nat
      BY <1>0 DEF Measured
  <2>6. i <= Len(val) \/ (i > Len(val) /\ i <= n) \/ i > n
      BY ONLY <2>0, <2>5, <1>6
  <2> HIDE DEF all, ending, n
  <2> QED  BY <2>2, <2>3, <2>4, <2>6
<1>10. all = ending
  <2>1. Len(all) = Len(ending)
      BY <1>7, <1>8
  <2> HIDE DEF all, ending
  <2> QED  BY <1>7, <1>8, <1>9, <2>1, SeqEqual
<1>11. p \in 0 .. Len(input.text) /\
       val \o Bytes(beg, lim) \o rest = SubSeq(input.text, p + 1, Len(input.text))
    BY <1>3, <1>10 DEF held
<1> HIDE DEF p
<1> QED  BY <1>11 DEF NothingLost

-----------------------------------------------------------------------------

\* As long as what is matched fits in the buffer, fill() and the matcher keep the invariant.
LEMMA BufferKept == Spec /\ []TokensFit => []ScannerInv
<1>1. Init => ScannerInv
    BY ScannerInit
<1>2. ScannerInv /\ TokensFit /\ [Next]_vars => ScannerInv'
    BY ScannerNext
<1> QED  BY <1>1, <1>2, PTL DEF Spec

\* The pointers of the scanner stay in the buffer and in their order, with a
\* buffer of any size and an input of any length (fill(), scan()).
THEOREM PointersStay == Spec /\ []TokensFit => []TypeOK
<1>1. ScannerInv => TypeOK
    BY DEF ScannerInv
<1> QED  BY <1>1, BufferKept, PTL

\* fill() moves and splits the token being read without losing a byte of it or
\* of what follows.
THEOREM NoByteIsLost == Spec /\ []TokensFit => []NothingLost
  BY PlacedIsEnd, BufferKept, PTL

\* The matcher never looks at a byte of an earlier fill or past the buffer.
THEOREM LooksStayInside == Spec /\ []TokensFit => []ReadsInside
  BY ReadsInsideHolds, BufferKept, PTL

-----------------------------------------------------------------------------
(* Inputs whose tokens fit. *)

\* No word, name of a file or run of blanks is as long as the buffer, with room
\* for the five bytes that the matcher asks for in a word that may be a scheme, or
\* the two of a comment, and no quote is escaped.
ShortTokens ==
    \A i \in Inputs : \A m, n \in 1 .. Len(i.text) :
        /\ (\A k \in m .. n : i.text[k] \in FileChars) => n - m + 6 <= BufSize
        /\ (\A k \in m .. n : i.text[k] \in {Space, Newline}) => n - m + 3 <= BufSize
        /\ ~(n = m + 1 /\ i.text[m] = Backslash /\ i.text[n] = Quote)

\* What has been matched is a run of the bytes of its rule.
Runs ==
    /\ input \in Inputs
    /\ mode \in {"word", "file"} => \A i \in beg .. cur - 1 : buf[i] \in FileChars
    /\ mode \in {"blank", "line"} => \A i \in beg .. cur - 1 : buf[i] \in {Space, Newline}
    /\ mode \in {"comment", "done"} => cur - beg + 2 <= BufSize
    /\ mode = "quoted" /\ eof = NoEof => cur < lim
    /\ mode = "beyond" => eof = lim

LEMMA TwoKinds == FileChars # {Space, Newline}
  BY DEF FileChars, Letters, Space, Newline

LEMMA RunIsShort ==
    ASSUME ShortTokens, ScannerInv, input \in Inputs, NEW S \in {FileChars, {Space, Newline}},
           NEW e \in beg .. lim, \A i \in beg .. e - 1 : buf[i] \in S
    PROVE  e - beg + (IF S = FileChars THEN 5 ELSE 2) <= BufSize
<1>0. Measured
    BY Lengths
<1> USE DEF Measured
<1>1. CASE e = beg
    BY <1>0, <1>1
<1>2. CASE beg < e
  <2> DEFINE m == Origin + beg + 1
             n == Origin + e
  <2>1. m \in 1 .. Len(input.text) /\ n \in 1 .. Len(input.text) /\ n - m + 1 = e - beg
      BY <1>0, <1>2
  <2>2. ASSUME NEW k \in m .. n PROVE input.text[k] \in S
    <3> DEFINE i == k - Origin - 1
    <3>1. i \in beg .. e - 1 /\ i \in beg .. lim - 1 /\ Origin + i + 1 = k
        BY <1>0
    <3>2. buf[i] = input.text[Origin + i + 1]
        BY <3>1 DEF ScannerInv, Placed
    <3> QED  BY <3>1, <3>2
  <2>3. n - m + (IF S = FileChars THEN 6 ELSE 3) <= BufSize
    <3> HIDE DEF m, n
    <3> QED  BY <2>1, <2>2 DEF ShortTokens
  <2> QED  BY <2>1, <2>3
<1> QED  BY <1>0, <1>1, <1>2

LEMMA NoEscapes ==
    ASSUME ShortTokens, ScannerInv, input \in Inputs
    PROVE  ~Escaped
<1> SUFFICES ASSUME Escaped PROVE FALSE
    OBVIOUS
<1>0. Measured
    BY Lengths
<1> USE DEF Measured
<1>1. mode = "quoted" /\ ~MustFill /\ buf[cur] = Backslash /\ buf[cur + 1] = Quote
    BY DEF Escaped, Look
<1>2. cur + 1 < lim
    BY <1>0, <1>1, LooksInside DEF Backslash, Quote, Nul
<1> DEFINE m == Origin + cur + 1
           n == Origin + (cur + 1) + 1
<1>3. m \in 1 .. Len(input.text) /\ n \in 1 .. Len(input.text) /\ n = m + 1
    BY <1>0, <1>2
<1>4. input.text[m] = Backslash /\ input.text[n] = Quote
  <2>1. cur \in beg .. lim - 1 /\ cur + 1 \in beg .. lim - 1
      BY <1>0, <1>2
  <2>2. buf[cur] = input.text[m] /\ buf[cur + 1] = input.text[n]
      BY <2>1 DEF ScannerInv, Placed
  <2> QED  BY <1>1, <2>2
<1> HIDE DEF m, n
<1> QED  BY <1>3, <1>4 DEF ShortTokens

LEMMA RunsFit == ShortTokens /\ ScannerInv /\ Runs => TokensFit
<1> SUFFICES ASSUME ShortTokens, ScannerInv, Runs, mode # "quoted" \/ (cur = lim /\ eof = NoEof)
             PROVE  cur - beg + Needed <= BufSize
    BY DEF TokensFit
<1>0. Measured
    BY Lengths
<1> USE DEF Measured
<1>1. CASE mode \in {"word", "file"}
  <2>1. cur - beg + 5 <= BufSize
    <3>1. input \in Inputs /\ \A i \in beg .. cur - 1 : buf[i] \in FileChars
        BY <1>1 DEF Runs
    <3>2. cur \in beg .. lim
        BY <1>0
    <3> QED  BY <3>1, <3>2, RunIsShort
  <2>2. Needed <= 5
      BY <1>1 DEF Needed
  <2> QED  BY <1>0, <2>1, <2>2
<1>2. CASE mode \in {"blank", "line"}
  <2>1. cur - beg + 2 <= BufSize
    <3>1. input \in Inputs /\ \A i \in beg .. cur - 1 : buf[i] \in {Space, Newline}
        BY <1>2 DEF Runs
    <3>2. cur \in beg .. lim
        BY <1>0
    <3> QED  BY <3>1, <3>2, RunIsShort, TwoKinds
  <2>2. Needed = 1
      BY <1>2 DEF Needed
  <2> QED  BY <1>0, <2>1, <2>2
<1>3. CASE mode \in {"comment", "done"}
  <2>1. Needed <= 2
      BY <1>3 DEF Needed
  <2> QED  BY <1>0, <1>3, <2>1 DEF Runs
<1>4. CASE mode = "next"
    BY <1>0, <1>4 DEF ScannerInv, Matching
<1>5. CASE mode = "quoted"
    BY <1>0, <1>5 DEF Runs
<1>6. CASE mode = "beyond"
  <2>1. cur <= lim /\ lim < BufSize /\ Needed = 1
      BY <1>0, <1>6 DEF Runs, ScannerInv, Ended, Needed
  <2> QED  BY <1>0, <2>1
<1> QED
    BY <1>1, <1>2, <1>3, <1>4, <1>5, <1>6 DEF ScannerInv, TypeOK, Modes

LEMMA RunsInit == Init => Runs
<1> SUFFICES ASSUME Init PROVE Runs
    OBVIOUS
<1>1. input \in Inputs /\ mode = "next"
    BY DEF Init
<1> QED  BY <1>1 DEF Runs

\* fill() moves a run as it is.
LEMMA FillKeepsRuns ==
    ASSUME ScannerInv, ScannerInv', Runs, Shift \/ Overflow, TokensFit
    PROVE  Runs'
<1>0. Measured
    BY Lengths
<1>1. input' = input /\ mode' = mode /\ filled' = TRUE
    BY DEF Shift, Overflow
<1>2. mode' = "quoted" /\ eof' = NoEof => cur' < lim'
  <2>1. mode' = "quoted" => Needed' = 2
      BY DEF Needed
  <2>2. eof' = NoEof => Needed' <= lim' - cur'
      BY <1>1 DEF ScannerInv, Answered
  <2>3. PICK b, c, l : b = beg' /\ c = cur' /\ l = lim'
      OBVIOUS
  <2>4. b \in 0 .. l /\ c \in b .. l /\ l \in 0 .. BufSize
      BY <2>3 DEF ScannerInv, TypeOK
  <2>5. c \in Nat /\ l \in Nat
      BY ONLY <2>4, BufSizeAssumption
  <2>6. 2 <= l - c => c < l
      BY ONLY <2>5
  <2> QED  BY <2>1, <2>2, <2>3, <2>6
<1>3. CASE Shift
  <2>1. /\ cur' = cur - beg /\ beg' = 0
        /\ \A i \in 0 .. lim - beg - 1 : buf'[i] = buf[beg + i]
    <3>1. /\ \A i \in 0 .. lim - beg - 1 : Bytes(beg, lim)[i + 1] = buf[beg + i]
          /\ Len(Bytes(beg, lim)) = lim - beg
      <4>1. beg \in Nat /\ lim \in Nat /\ beg <= lim
          BY <1>0 DEF Measured
      <4>2. /\ Len(Bytes(beg, lim)) = lim - beg
            /\ \A k \in 1 .. lim - beg : Bytes(beg, lim)[k] = buf[beg + k - 1]
          BY <4>1, BytesTyped, Unread
      <4>3. ASSUME NEW i \in 0 .. lim - beg - 1
            PROVE  i + 1 \in 1 .. lim - beg /\ beg + (i + 1) - 1 = beg + i
          BY <4>1
      <4> QED  BY <4>2, <4>3
    <3>2. /\ ReadMore(Bytes(beg, lim))
          /\ cur' = cur - beg /\ beg' = 0
        BY <1>3 DEF Shift
    <3>3. ASSUME NEW i \in 0 .. lim - beg - 1
          PROVE  buf'[i] = Bytes(beg, lim)[i + 1]
      <4>1. i \in 0 .. BufSize /\ i < lim - beg
          BY <1>0 DEF Measured
      <4> QED  BY <4>1, <3>1, <3>2 DEF ReadMore
    <3> QED  BY <3>1, <3>2, <3>3
  <2>2. ASSUME NEW S, \A i \in beg .. cur - 1 : buf[i] \in S
        PROVE  \A i \in beg' .. cur' - 1 : buf'[i] \in S
    <3> SUFFICES ASSUME NEW i \in 0 .. cur - beg - 1
                 PROVE  buf'[i] \in S
        BY <2>1
    <3>1. i \in 0 .. lim - beg - 1 /\ beg + i \in beg .. cur - 1
        BY <1>0 DEF Measured
    <3> QED  BY <2>1, <2>2, <3>1
  <2>3. cur' - beg' = cur - beg
      BY <2>1, <1>0 DEF Measured
  <2>4. mode # "beyond"
      BY <1>0, <1>3 DEF Shift, MustFill, Measured, NoEof, Runs
  <2> QED  BY <1>1, <1>2, <2>2, <2>3, <2>4 DEF Runs
<1>4. CASE Overflow
  <2>1. mode = "quoted"
      BY <1>4, OverflowSplits DEF Overflow
  <2> QED  BY <2>1, <1>1, <1>2 DEF Runs
<1> QED  BY <1>3, <1>4

\* A match that goes on adds a byte of its rule to the run.
LEMMA MatchKeepsRuns ==
    ASSUME ScannerInv, ScannerInv', Runs, ShortTokens, Root \/ Longer \/ Lines \/ Comment \/ Quoted
    PROVE  Runs'
<1>0. Measured
    BY Lengths
<1> USE DEF Measured
<1>1. /\ input' = input /\ buf' = buf /\ lim' = lim /\ eof' = eof /\ ~MustFill
      /\ input \in Inputs
    BY DEF Root, Blank, Line, Word, ListComma, DoubleDash, LoneDash, EscapedQuote, EmptyString,
           OpenQuote, Finish, Longer, WordMore, WordEnd, WordOver, FileMore, FileOver, Lines, BlankMore, FirstLine,
           SecondLine, BlankOver, Comment, CommentMore, CommentLine, CommentEnd, Quoted, Escaped,
           QuotedMore, Unclosed, CloseQuote, Look, source, Runs
<1>2. ASSUME NEW S \in {FileChars, {Space, Newline}}, NEW n \in {1, 2},
             \A i \in beg .. cur - 1 : buf[i] \in S,
             \A i \in cur .. cur + n - 1 : buf[i] \in S,
             beg' = beg, cur' = cur + n,
             mode' \in (IF S = FileChars THEN {"word", "file"} ELSE {"blank", "line"})
      PROVE  Runs'
  <2>1. \A i \in beg' .. cur' - 1 : buf'[i] \in S
    <3>1. ASSUME NEW i \in beg .. cur + n - 1
          PROVE  buf[i] \in S
      <4>1. i \in beg .. cur - 1 \/ i \in cur .. cur + n - 1
          BY <1>0
      <4> QED  BY <4>1, <1>2
    <3>2. \A i \in beg .. cur + n - 1 : buf[i] \in S
        BY <3>1
    <3>3. beg' = beg /\ cur' = cur + n /\ buf' = buf
        BY <1>1, <1>2
    <3>4. PICK b, c : b = beg' /\ c = cur'
        OBVIOUS
    <3>5. b = beg /\ c = cur + n /\ n \in Nat /\ beg \in Nat /\ cur \in Nat
        BY <3>3, <3>4, <1>0
    <3>6. \A i \in b .. c - 1 : buf[i] \in S
        BY ONLY <3>2, <3>5
    <3> QED  BY ONLY <3>3, <3>4, <3>6
  <2>2. "w" \in FileChars /\ "w" \notin {Space, Newline}
      BY DEF FileChars, Letters, Space, Newline
  <2> QED  BY <2>1, <2>2, <1>1, <1>2 DEF Runs
<1>3. ASSUME mode' = "next" PROVE Runs'
    BY <1>1, <1>3 DEF Runs
<1>4. CASE Blank \/ Line
  <2>1. mode = "next" /\ beg' = beg /\ cur' = cur + 1 /\ mode' \in {"blank", "line"} /\ buf[cur] \in {Space, Newline}
      BY <1>4 DEF Blank, Line, Look, Match
  <2>2. beg = cur
      BY <2>1 DEF ScannerInv, Matching
  <2>3. /\ \A i \in beg .. cur - 1 : buf[i] \in {Space, Newline}
        /\ \A i \in cur .. cur + 1 - 1 : buf[i] \in {Space, Newline}
      BY <2>1, <2>2, <1>0
  <2>4. FileChars # {Space, Newline}
      BY TwoKinds
  <2> QED  BY <2>1, <2>3, <2>4, <1>2
<1>5. CASE Word \/ ListComma \/ LoneDash
  <2>1. mode = "next" /\ beg' = beg /\ cur' = cur + 1 /\ mode' \in {"word", "file"} /\ buf[cur] \in FileChars
      BY <1>5 DEF Word, ListComma, LoneDash, Look, Match, FileChars, WordChars
  <2>2. beg = cur
      BY <2>1 DEF ScannerInv, Matching
  <2>3. /\ \A i \in beg .. cur - 1 : buf[i] \in FileChars
        /\ \A i \in cur .. cur + 1 - 1 : buf[i] \in FileChars
      BY <2>1, <2>2, <1>0
  <2> QED  BY <2>1, <2>3, <1>2
<1>6. CASE DoubleDash
  <2>1. /\ mode = "next" /\ beg' = beg /\ cur' = cur + 2 /\ mode' = "file"
        /\ buf[cur] \in FileChars /\ buf[cur + 1] \in FileChars
      BY <1>6 DEF DoubleDash, Look, Match, FileChars
  <2>2. beg = cur
      BY <2>1 DEF ScannerInv, Matching
  <2>3. /\ \A i \in beg .. cur - 1 : buf[i] \in FileChars
        /\ \A i \in cur .. cur + 2 - 1 : i = cur \/ i = cur + 1
      BY <2>2, <1>0
  <2>4. \A i \in cur .. cur + 2 - 1 : buf[i] \in FileChars
      BY <2>1, <2>3
  <2> QED  BY <2>1, <2>3, <2>4, <1>2
<1>7. CASE EmptyString \/ CommentLine \/ CloseQuote
    BY <1>7, <1>3 DEF EmptyString, CommentLine, CloseQuote, Emit, Skip
<1>8. CASE OpenQuote
  <2>1. mode = "next" /\ buf[cur] = Quote /\ cur' = cur + 1 /\ mode' = "quoted"
      BY <1>8 DEF OpenQuote, Look
  <2>2. eof = NoEof => cur + 1 < lim
      BY <2>1, <1>0, <1>1, LooksInside DEF Quote, Nul, NoEof
  <2> QED  BY <2>1, <2>2, <1>1 DEF Runs
<1>9. CASE Finish
  <2>1. mode = "next" /\ cur' = cur /\ beg' = beg /\ mode' = "done"
      BY <1>9 DEF Finish, Look, pointers
  <2>2. beg = cur
      BY <2>1 DEF ScannerInv, Matching
  <2>3. cur' - beg' + 2 <= BufSize
      BY <2>1, <2>2, <1>0
  <2> QED  BY <2>1, <2>3, <1>1 DEF Runs
<1>10. CASE WordMore \/ WordEnd \/ FileMore
  <2>1. /\ mode \in {"word", "file"} /\ beg' = beg /\ cur' = cur + 1 /\ mode' \in {"word", "file"}
        /\ buf[cur] \in FileChars
      BY <1>10 DEF WordMore, WordEnd, FileMore, Pass, Look, Match, FileChars, WordChars
  <2>2. \A i \in beg .. cur - 1 : buf[i] \in FileChars
      BY <2>1 DEF Runs
  <2>3. \A i \in cur .. cur + 1 - 1 : buf[i] \in FileChars
      BY <2>1, <1>0
  <2> QED  BY <2>1, <2>2, <2>3, <1>2
<1>11. CASE BlankMore \/ FirstLine \/ SecondLine
  <2>1. /\ mode \in {"blank", "line"} /\ beg' = beg /\ cur' = cur + 1 /\ mode' \in {"blank", "line"}
        /\ buf[cur] \in {Space, Newline}
      BY <1>11 DEF BlankMore, FirstLine, SecondLine, Pass, Look, Match
  <2>2. \A i \in beg .. cur - 1 : buf[i] \in {Space, Newline}
      BY <2>1 DEF Runs
  <2>3. \A i \in cur .. cur + 1 - 1 : buf[i] \in {Space, Newline}
      BY <2>1, <1>0
  <2>4. FileChars # {Space, Newline}
      BY TwoKinds
  <2> QED  BY <2>1, <2>2, <2>3, <2>4, <1>2
<1>12. CASE WordOver \/ FileOver \/ BlankOver
  <2>1. mode \in {"word", "file", "blank", "line"} /\ Accept
      BY <1>12 DEF WordOver, FileOver, BlankOver, Look
  <2>2. mode' = "next" \/ (mode' \in {"comment", "done"} /\ beg' = beg /\ cur' = mark)
      BY <2>1 DEF Accept, Emit, Skip
  <2>3. mark \in beg .. cur
      BY <2>1 DEF ScannerInv, Matching
  <2>4. cur - beg + 2 <= BufSize
    <3>1. PICK S \in {FileChars, {Space, Newline}} : \A i \in beg .. cur - 1 : buf[i] \in S
        BY <2>1 DEF Runs
    <3>2. cur \in beg .. lim
        BY <1>0
    <3>3. cur - beg + (IF S = FileChars THEN 5 ELSE 2) <= BufSize
        BY <1>1, <3>1, <3>2, RunIsShort
    <3> QED  BY <1>0, <3>3
  <2>5. mark - beg + 2 <= BufSize
      BY <2>3, <2>4, <1>0
  <2> QED  BY <2>2, <2>5, <1>1, <1>3 DEF Runs
<1>13. CASE CommentMore
  <2>1. cur' = cur + 1 /\ beg' = cur + 1 /\ mode' = "comment"
      BY <1>13 DEF CommentMore, Skip
  <2>2. cur' - beg' + 2 <= BufSize
      BY <2>1, <1>0
  <2> QED  BY <2>1, <2>2, <1>1 DEF Runs
<1>14. CASE CommentEnd
    BY <1>14, <1>1 DEF CommentEnd, pointers, Look, Runs
<1>15. CASE QuotedMore
  <2>1. mode = "quoted" /\ mode' = "quoted" /\ cur' = cur + 1 /\ buf[cur] # Nul
      BY <1>15 DEF QuotedMore, Pass, Look, Chars, Letters, Space, Newline, Comma, Dash, Quote,
                   Backslash, Nul
  <2>2. eof = NoEof => cur + 1 < lim
      BY <2>1, <1>0, <1>1, LooksInside DEF NoEof
  <2> QED  BY <2>1, <2>2, <1>1 DEF Runs
<1>16. CASE Escaped
    BY <1>1, <1>16, NoEscapes
<1>17. CASE EscapedQuote
  <2>1. mode = "next" /\ cur' = cur + 2 /\ beg' = beg /\ mode' = "done"
      BY <1>17 DEF EscapedQuote, Look
  <2>2. beg = cur
      BY <2>1 DEF ScannerInv, Matching
  <2>3. cur' - beg' + 2 <= BufSize
      BY <2>1, <2>2, <1>0
  <2> QED  BY <2>1, <2>3, <1>1 DEF Runs
<1>18. CASE Unclosed
  <2>1. mode = "quoted" /\ buf[cur] = Nul /\ mode' = "beyond"
      BY <1>18 DEF Unclosed, Look
  <2>2. cur < lim => buf[cur] \in Chars
      BY <1>0, Unread
  <2>3. cur = lim
      BY <2>1, <2>2, <1>0 DEF Chars, Letters, Space, Newline, Comma, Dash, Quote, Backslash, Nul
  <2>4. eof = lim
      BY <2>1, <2>3, <1>1, LooksInside
  <2> QED  BY <2>1, <2>4, <1>1 DEF Runs
<1> QED
    BY <1>4, <1>5, <1>6, <1>7, <1>8, <1>9, <1>10, <1>11, <1>12, <1>13, <1>14, <1>15, <1>16, <1>17, <1>18
       DEF Root, Longer, Lines, Comment, Quoted

\* Where no run is as long as the buffer and no quote is escaped, what is
\* matched always leaves room for the next look: the buffer of the scanner is
\* large enough for all the inputs of this kind (fill(), scan()).
THEOREM ShortTokensFit ==
    ASSUME ShortTokens
    PROVE  Spec => []TokensFit
<1> DEFINE Both == ScannerInv /\ Runs
<1>1. Init => Both
    BY ScannerInit, RunsInit
<1>2. Both => TokensFit
    BY RunsFit
<1>3. Both /\ [Next]_vars => Both'
  <2> SUFFICES ASSUME ScannerInv, Runs, [Next]_vars
               PROVE  ScannerInv' /\ Runs'
      OBVIOUS
  <2>1. TokensFit
      BY <1>2
  <2>2. ScannerInv'
      BY <2>1, ScannerNext
  <2>3. CASE UNCHANGED vars
      BY <2>3, <2>2 DEF vars, Runs
  <2>4. CASE Shift \/ Overflow
      BY <2>1, <2>2, <2>4, FillKeepsRuns
  <2>5. CASE Root \/ Longer \/ Lines \/ Comment \/ Quoted
      BY <2>2, <2>5, MatchKeepsRuns
  <2> QED  BY <2>2, <2>3, <2>4, <2>5 DEF Next, Step, Done
<1> HIDE DEF Both
<1> QED  BY <1>1, <1>2, <1>3, PTL DEF Spec

\* Of such inputs the scanner loses no byte and reads none that it should not,
\* whatever the size of the buffer.
THEOREM ShortTokensAreSafe ==
    ASSUME ShortTokens
    PROVE  Spec => [](TypeOK /\ NothingLost /\ ReadsInside)
  BY ShortTokensFit, PointersStay, NoByteIsLost, LooksStayInside, PTL

-----------------------------------------------------------------------------
(* The matcher and the text. *)

Of(t, S, m, n) == \A i \in m + 1 .. n : t[i] \in S
Has(t, i, c) == i <= Len(t) /\ t[i] = c
Twice(t, m, n) == \E i, j \in m + 1 .. n : i < j /\ t[i] = Newline /\ t[j] = Newline
Escapes(t, a) == Has(t, a + 1, Backslash) /\ Has(t, a + 2, Quote)

\* What the matcher has seen of the text t in mode k with rule r: the token begins
\* after the first a bytes, p bytes have been read, the longest match ends after m.
Told(t, k, r, a, p, m) ==
    /\ k \in {"word", "file", "blank", "line"} => a < m /\ m <= p
    /\ k = "word" => r = "word" /\ m = p /\ Of(t, WordChars, a, p) /\ ~Escapes(t, a)
    /\ k = "file" =>
        /\ r \in {"word", "comma", "comment", "error"}
        /\ Of(t, FileChars, a, p)
        /\ r = "word" =>
            /\ t[a + 1] \in WordChars /\ ~Escapes(t, a)
            /\ Of(t, WordChars, a, m) => m < p /\ t[m + 1] \notin WordChars
        /\ r = "comma" => Has(t, a + 1, Comma)
        /\ r = "comment" => Has(t, a + 1, Dash) /\ Has(t, a + 2, Dash) /\ a + 2 <= m
        /\ r = "error" => Has(t, a + 1, Dash) /\ ~Has(t, a + 2, Dash)
    /\ k = "blank" => r = "blank" /\ Of(t, {Space}, a, p)
    /\ k = "line" =>
        /\ r \in {"blank", "terminator"}
        /\ Of(t, Blanks, a, p)
        /\ r = "blank" => ~Twice(t, a, p) /\ \E i \in a + 1 .. p : t[i] = Newline
        /\ r = "terminator" => Twice(t, a, m) /\ Of(t, {Space}, m, p)
    /\ k = "quoted" =>
        /\ a + 1 <= p
        /\ Has(t, a + 1, Quote) /\ ~Has(t, a + 2, Quote)
        /\ \A i \in a + 2 .. p : t[i] = Quote => t[i - 1] = Backslash
        /\ t[p] = Backslash => ~Has(t, p + 1, Quote)

\* The state of the matcher says what the text has where it reads, and only a
\* string that takes up the buffer has left it in part.
AsTold ==
    /\ Told(input.text, mode, acc, Begun, Origin + cur, Origin + mark)
    /\ val # <<>> => Len(val) >= BufSize - 1
    /\ eof = lim => rest = <<>>

\* fill() takes the cursor for the end of the match.
LEMMA FillTold ==
    ASSUME NEW t, NEW k, NEW r, NEW a \in Int, NEW p \in Int, NEW m \in Int, Told(t, k, r, a, p, m)
    PROVE  Told(t, k, r, a, p, p)
<1>1. CASE k = "word"
    BY <1>1 DEF Told
<1>2. CASE k = "file"
  <2>1. r = "word" => ~Of(t, WordChars, a, p)
    <3> SUFFICES ASSUME r = "word", Of(t, WordChars, a, p) PROVE FALSE
        OBVIOUS
    <3>1. a < m /\ m <= p /\ (Of(t, WordChars, a, m) => m < p /\ t[m + 1] \notin WordChars)
        BY <1>2 DEF Told
    <3>2. Of(t, WordChars, a, m)
        BY <3>1 DEF Of
    <3>3. m + 1 \in a + 1 .. p
        BY <3>1, <3>2
    <3> QED  BY <3>1, <3>2, <3>3 DEF Of
  <2> QED  BY <1>2, <2>1 DEF Told
<1>3. CASE k = "blank"
    BY <1>3 DEF Told
<1>4. CASE k = "line"
  <2>1. a < m /\ m <= p
      BY <1>4 DEF Told
  <2>2. Twice(t, a, m) => Twice(t, a, p)
      BY <2>1 DEF Twice
  <2>3. Of(t, {Space}, p, p)
      BY DEF Of
  <2> QED  BY <1>4, <2>1, <2>2, <2>3 DEF Told
<1>5. CASE k \notin {"word", "file", "blank", "line"}
    BY <1>5 DEF Told
<1> QED  BY <1>1, <1>2, <1>3, <1>4, <1>5

\* Where a token begins, its first byte tells what it may be.
LEMMA FirstTold ==
    ASSUME NEW t, Len(t) \in Nat, NEW p \in Nat, p + 1 <= Len(t)
    PROVE  /\ t[p + 1] = Space => Told(t, "blank", "blank", p, p + 1, p + 1)
           /\ t[p + 1] = Newline => Told(t, "line", "blank", p, p + 1, p + 1)
           /\ t[p + 1] \in WordChars /\ ~Escapes(t, p) => Told(t, "word", "word", p, p + 1, p + 1)
           /\ t[p + 1] = Comma => Told(t, "file", "comma", p, p + 1, p + 1)
           /\ t[p + 1] = Dash /\ Has(t, p + 2, Dash) => Told(t, "file", "comment", p, p + 2, p + 2)
           /\ t[p + 1] = Dash /\ ~Has(t, p + 2, Dash) => Told(t, "file", "error", p, p + 1, p + 1)
           /\ \A r, m : t[p + 1] = Quote /\ ~Has(t, p + 2, Quote) => Told(t, "quoted", r, p, p + 1, m)
<1>1. \A S : t[p + 1] \in S => Of(t, S, p, p + 1)
    BY DEF Of
<1>2. p < p + 1 /\ p + 1 <= p + 1
    OBVIOUS
<1>3. ASSUME t[p + 1] = Space PROVE Told(t, "blank", "blank", p, p + 1, p + 1)
    BY <1>1, <1>2, <1>3 DEF Told
<1>4. ASSUME t[p + 1] = Newline PROVE Told(t, "line", "blank", p, p + 1, p + 1)
  <2>1. ~Twice(t, p, p + 1)
      BY DEF Twice
  <2>2. Of(t, Blanks, p, p + 1) /\ p + 1 \in p + 1 .. p + 1
      BY <1>1, <1>4 DEF Blanks
  <2> QED  BY <1>2, <1>4, <2>1, <2>2 DEF Told
<1>5. ASSUME t[p + 1] \in WordChars, ~Escapes(t, p) PROVE Told(t, "word", "word", p, p + 1, p + 1)
    BY <1>1, <1>2, <1>5 DEF Told
<1>6. ASSUME t[p + 1] = Comma PROVE Told(t, "file", "comma", p, p + 1, p + 1)
    BY <1>1, <1>2, <1>6 DEF Told, Has, FileChars
<1>7. ASSUME t[p + 1] = Dash, Has(t, p + 2, Dash) PROVE Told(t, "file", "comment", p, p + 2, p + 2)
  <2>1. Of(t, FileChars, p, p + 2)
    <3>1. \A i \in p + 1 .. p + 2 : i = p + 1 \/ i = p + 2
        OBVIOUS
    <3> QED  BY <3>1, <1>7 DEF Of, Has, FileChars
  <2> QED  BY <2>1, <1>7 DEF Told, Has
<1>8. ASSUME t[p + 1] = Dash, ~Has(t, p + 2, Dash) PROVE Told(t, "file", "error", p, p + 1, p + 1)
    BY <1>1, <1>2, <1>8 DEF Told, Has, FileChars
<1>9. ASSUME NEW r, NEW m, t[p + 1] = Quote, ~Has(t, p + 2, Quote)
      PROVE  Told(t, "quoted", r, p, p + 1, m)
    BY <1>9 DEF Told, Has, Quote, Backslash
<1> QED  BY <1>3, <1>4, <1>5, <1>6, <1>7, <1>8, <1>9

\* A byte that goes on with a match tells what has been read with it.
LEMMA MoreTold ==
    ASSUME NEW t, Len(t) \in Nat, NEW k, NEW r, NEW a \in Nat, NEW p \in Nat, NEW m \in Int,
           p + 1 <= Len(t), Told(t, k, r, a, p, m)
    PROVE  /\ k = "word" /\ t[p + 1] \in WordChars => Told(t, "word", "word", a, p + 1, p + 1)
           /\ k = "word" /\ t[p + 1] \in FileChars \ WordChars => Told(t, "file", r, a, p + 1, m)
           /\ k = "file" /\ t[p + 1] \in FileChars => Told(t, "file", r, a, p + 1, m)
           /\ k = "blank" /\ t[p + 1] = Space => Told(t, "blank", r, a, p + 1, m)
           /\ k = "blank" /\ t[p + 1] = Newline => Told(t, "line", r, a, p + 1, m)
           /\ k = "line" /\ t[p + 1] = Space => Told(t, "line", r, a, p + 1, m)
           /\ k = "line" /\ t[p + 1] = Newline => Told(t, "line", "terminator", a, p + 1, p + 1)
           /\ k = "quoted" /\ t[p + 1] = Backslash /\ Has(t, p + 2, Quote) => Told(t, "quoted", r, a, p + 2, m)
           /\ k = "quoted" /\ t[p + 1] # Quote /\ ~Escapes(t, p) => Told(t, "quoted", r, a, p + 1, m)
<1>1. ASSUME NEW S, NEW b \in Int, Of(t, S, b, p), t[p + 1] \in S
      PROVE  Of(t, S, b, p + 1)
    BY <1>1 DEF Of
<1>2. k \in {"word", "file", "blank", "line"} => a < m /\ m <= p /\ a < m /\ m <= p + 1 /\ a < p + 1
    BY DEF Told
<1>3. ASSUME k = "word", t[p + 1] \in WordChars
      PROVE  Told(t, "word", "word", a, p + 1, p + 1)
    BY <1>1, <1>2, <1>3 DEF Told
<1>4. ASSUME k = "word", t[p + 1] \in FileChars \ WordChars
      PROVE  Told(t, "file", r, a, p + 1, m)
  <2>1. r = "word" /\ m = p /\ Of(t, WordChars, a, p) /\ ~Escapes(t, a) /\ a < p
      BY <1>4 DEF Told
  <2>2. t[a + 1] \in WordChars
      BY <2>1 DEF Of
  <2>3. Of(t, FileChars, a, p)
      BY <2>1 DEF Of, WordChars, FileChars
  <2>4. Of(t, FileChars, a, p + 1)
      BY <1>1, <1>4, <2>3
  <2> QED  BY <1>2, <1>4, <2>1, <2>2, <2>4 DEF Told
<1>5. ASSUME k = "file", t[p + 1] \in FileChars
      PROVE  Told(t, "file", r, a, p + 1, m)
  <2>1. Of(t, FileChars, a, p + 1)
      BY <1>1, <1>5 DEF Told
  <2>2. m < p => m < p + 1
      OBVIOUS
  <2> QED  BY <1>2, <1>5, <2>1, <2>2 DEF Told
<1>6. ASSUME k = "blank", t[p + 1] = Space
      PROVE  Told(t, "blank", r, a, p + 1, m)
    BY <1>1, <1>2, <1>6 DEF Told
<1>7. ASSUME k = "blank", t[p + 1] = Newline
      PROVE  Told(t, "line", r, a, p + 1, m)
  <2>1. r = "blank" /\ Of(t, {Space}, a, p) /\ a < m /\ m <= p
      BY <1>7 DEF Told
  <2>2. Of(t, Blanks, a, p + 1)
    <3>1. Of(t, Blanks, a, p)
        BY <2>1 DEF Of, Blanks
    <3> QED  BY <3>1, <1>1, <1>7 DEF Blanks
  <2>3. ~Twice(t, a, p + 1)
    <3>1. \A i \in a + 1 .. p + 1 : i = p + 1 \/ t[i] = Space
        BY <2>1 DEF Of
    <3> QED  BY <3>1 DEF Twice, Space, Newline
  <2>4. p + 1 \in a + 1 .. p + 1
      BY <2>1
  <2> QED  BY <1>2, <1>7, <2>1, <2>2, <2>3, <2>4 DEF Told
<1>8. ASSUME k = "line", t[p + 1] = Space
      PROVE  Told(t, "line", r, a, p + 1, m)
  <2>1. Of(t, Blanks, a, p + 1)
      BY <1>1, <1>8 DEF Told, Blanks
  <2>2. Twice(t, a, p + 1) => Twice(t, a, p)
    <3>1. \A i \in a + 1 .. p + 1 : t[i] = Newline => i \in a + 1 .. p
        BY <1>8 DEF Space, Newline
    <3> QED  BY <3>1 DEF Twice
  <2>3. (\E i \in a + 1 .. p : t[i] = Newline) => \E i \in a + 1 .. p + 1 : t[i] = Newline
      OBVIOUS
  <2>4. Of(t, {Space}, m, p) => Of(t, {Space}, m, p + 1)
      BY <1>1, <1>8
  <2> QED  BY <1>2, <1>8, <2>1, <2>2, <2>3, <2>4 DEF Told
<1>9. ASSUME k = "line", t[p + 1] = Newline
      PROVE  Told(t, "line", "terminator", a, p + 1, p + 1)
  <2>1. Of(t, Blanks, a, p + 1)
      BY <1>1, <1>9 DEF Told, Blanks
  <2>2. \E i \in a + 1 .. p : t[i] = Newline
      BY <1>9 DEF Told, Twice
  <2>3. Twice(t, a, p + 1)
      BY <1>9, <2>2 DEF Twice
  <2>4. Of(t, {Space}, p + 1, p + 1)
      BY DEF Of
  <2> QED  BY <1>2, <1>9, <2>1, <2>3, <2>4 DEF Told
<1>10. ASSUME k = "quoted", t[p + 1] = Backslash, Has(t, p + 2, Quote)
       PROVE  Told(t, "quoted", r, a, p + 2, m)
  <2>1. /\ a + 1 <= p /\ Has(t, a + 1, Quote) /\ ~Has(t, a + 2, Quote)
        /\ \A i \in a + 2 .. p : t[i] = Quote => t[i - 1] = Backslash
      BY <1>10 DEF Told
  <2>2. ASSUME NEW i \in a + 2 .. p + 2, t[i] = Quote PROVE t[i - 1] = Backslash
    <3>1. i \in a + 2 .. p \/ i = p + 1 \/ i = p + 2
        OBVIOUS
    <3> QED  BY <2>1, <2>2, <3>1, <1>10 DEF Quote, Backslash
  <2>3. a + 1 <= p + 2 /\ t[p + 2] # Backslash
      BY <2>1, <1>10 DEF Has, Quote, Backslash
  <2> QED  BY <2>1, <2>2, <2>3 DEF Told
<1>11. ASSUME k = "quoted", t[p + 1] # Quote, ~Escapes(t, p)
       PROVE  Told(t, "quoted", r, a, p + 1, m)
  <2>1. /\ a + 1 <= p /\ Has(t, a + 1, Quote) /\ ~Has(t, a + 2, Quote)
        /\ \A i \in a + 2 .. p : t[i] = Quote => t[i - 1] = Backslash
      BY <1>11 DEF Told
  <2>2. ASSUME NEW i \in a + 2 .. p + 1, t[i] = Quote PROVE t[i - 1] = Backslash
      BY <2>1, <2>2, <1>11
  <2>3. t[p + 1] = Backslash => ~Has(t, (p + 1) + 1, Quote)
    <3>1. (p + 1) + 1 = p + 2
        OBVIOUS
    <3> QED  BY <3>1, <1>11 DEF Escapes, Has
  <2> QED  BY <2>1, <2>2, <2>3 DEF Told
<1> QED  BY <1>3, <1>4, <1>5, <1>6, <1>7, <1>8, <1>9, <1>10, <1>11

\* The places in the input that the pointers stand for.
LEMMA TextPlaces ==
    ASSUME ScannerInv
    PROVE  /\ Len(input.text) \in Nat /\ Begun \in Nat /\ Origin + cur \in Nat /\ Origin + mark \in Int
           /\ Origin \in Int /\ Begun <= Origin + cur /\ Origin + cur <= Len(input.text)
           /\ Origin + mark <= Len(input.text)
           /\ mode \notin {"quoted", "beyond"} => Begun = Origin + beg
           /\ mode = "next" => Begun = Origin + cur
<1>0. Measured
    BY Lengths
<1>1. Len(val) <= Origin + beg
    BY DEF ScannerInv, Placed
<1>2. mode \notin {"quoted", "beyond"} => Len(val) = 0
    BY EmptySeq DEF ScannerInv, Matching
<1>3. mode = "next" => beg = cur
    BY DEF ScannerInv, Matching
<1> QED  BY <1>0, <1>1, <1>2, <1>3 DEF Measured, Begun

\* What the matcher looks at is the next byte of the text, and the NUL is its end.
LEMMA LooksAtText ==
    ASSUME ScannerInv, AsTold, mode # "done", ~MustFill
    PROVE  /\ buf[cur] # Nul =>
                /\ (Origin + cur) + 1 <= Len(input.text)
                /\ input.text[(Origin + cur) + 1] = buf[cur]
                /\ buf[cur] \in Chars
           /\ buf[cur] = Nul => Origin + cur = Len(input.text)
           /\ mode \in {"next", "quoted"} /\ buf[cur] # Nul =>
                \A c \in Chars : Has(input.text, (Origin + cur) + 2, c) <=> buf[cur + 1] = c
<1>0. Measured
    BY Lengths
<1> DEFINE t == input.text
<1>1. ASSUME NEW i \in beg .. lim - 1
      PROVE  (Origin + i) + 1 <= Len(t) /\ t[(Origin + i) + 1] = buf[i] /\ buf[i] \in Chars
  <2>1. buf[i] = t[Origin + i + 1] /\ buf[i] \in Chars
      BY Unread DEF ScannerInv, Placed
  <2>2. (Origin + i) + 1 <= Len(t)
      BY <1>0 DEF Measured
  <2> QED  BY <2>1, <2>2
<1>2. eof = lim => Origin + lim = Len(t)
  <2>1. eof = lim => Len(rest) = 0
      BY EmptySeq DEF AsTold
  <2> QED  BY <2>1, <1>0 DEF Measured
<1>3. Nul \notin Chars
    BY DEF Chars, Letters, Space, Newline, Comma, Dash, Quote, Backslash, Nul
<1>4. /\ cur = lim => eof = lim /\ buf[lim] = Nul
      /\ buf[cur] # Nul => cur < lim
      /\ mode \in {"next", "quoted"} /\ buf[cur] # Nul =>
            cur + 1 < lim \/ (cur + 1 = lim /\ eof = lim /\ buf[lim] = Nul)
    BY LooksInside
<1>5. buf[cur] # Nul => cur \in beg .. lim - 1
    BY <1>0, <1>4 DEF Measured
<1>6. buf[cur] = Nul => cur = lim
  <2>1. cur < lim => cur \in beg .. lim - 1
      BY <1>0 DEF Measured
  <2>2. cur < lim => buf[cur] \in Chars
      BY <2>1, <1>1
  <2> QED  BY <2>2, <1>0, <1>3 DEF Measured
<1>7. ASSUME mode \in {"next", "quoted"}, buf[cur] # Nul, NEW c \in Chars
      PROVE  Has(t, (Origin + cur) + 2, c) <=> buf[cur + 1] = c
  <2>1. CASE cur + 1 < lim
    <3>1. cur + 1 \in beg .. lim - 1
        BY <2>1, <1>0 DEF Measured
    <3>2. (Origin + (cur + 1)) + 1 = (Origin + cur) + 2
        BY <1>0 DEF Measured
    <3> QED  BY <3>1, <3>2, <1>1 DEF Has
  <2>2. CASE cur + 1 = lim /\ eof = lim /\ buf[lim] = Nul
    <3>1. ~((Origin + cur) + 2 <= Len(t))
        BY <2>2, <1>0, <1>2 DEF Measured
    <3> QED  BY <3>1, <2>2, <1>3 DEF Has
  <2> QED  BY <2>1, <2>2, <1>4, <1>7
<1> QED  BY <1>1, <1>2, <1>4, <1>5, <1>6, <1>7

\* The token that ends before e is a piece of the text.
LEMMA TokenIsPiece ==
    ASSUME ScannerInv, NEW e \in beg .. lim
    PROVE  /\ val \o Bytes(beg, e) = SubSeq(input.text, Begun + 1, Origin + e)
           /\ Len(val \o Bytes(beg, e)) = Origin + e - Begun
           /\ \A i \in 1 .. Origin + e - Begun : (val \o Bytes(beg, e))[i] = input.text[Begun + i]
<1>0. Measured
    BY Lengths
<1> DEFINE t == input.text
           held == Bytes(beg, e)
           all == val \o held
           n == Origin + e - Begun
           piece == SubSeq(t, Begun + 1, Origin + e)
<1>1. t \in Seq(Chars) /\ val \in Seq(Chars) /\ Len(t) \in Nat /\ Begun \in Nat /\ Begun = Origin + beg - Len(val)
    BY TextPlaces DEF ScannerInv, Sequences_, Begun
<1>2. /\ held \in Seq(Chars)
      /\ Len(held) = e - beg
      /\ \A k \in 1 .. e - beg : held[k] = buf[beg + k - 1]
  <2>1. beg \in Nat /\ e \in Nat /\ beg <= e /\ \A k \in beg .. e - 1 : k \in beg .. lim - 1
      BY <1>0 DEF Measured
  <2>2. \A k \in beg .. e - 1 : buf[k] \in Chars
      BY <2>1, Unread
  <2> QED  BY <2>1, <2>2, BytesTyped
<1> HIDE DEF held
<1>3. /\ all \in Seq(Chars)
      /\ Len(all) = Len(val) + Len(held)
      /\ \A i \in 1 .. Len(val) + Len(held) : all[i] = IF i <= Len(val) THEN val[i] ELSE held[i - Len(val)]
    BY <1>1, <1>2, ConcatProperties
<1>4. n = Len(val) + (e - beg) /\ n \in Nat /\ Len(all) = n /\ Origin + e <= Len(t) /\ Len(val) \in Nat
    BY <1>0, <1>1, <1>2, <1>3 DEF Measured
<1>5. ASSUME NEW i \in 1 .. n
      PROVE  all[i] = t[Begun + i]
  <2> HIDE DEF n
  <2>0. i \in Nat /\ 1 <= i /\ i <= Len(val) + (e - beg)
      BY <1>4, <1>5
  <2>1. CASE i <= Len(val)
    <3>1. all[i] = val[i]
        BY <2>0, <2>1, <1>2, <1>3
    <3>2. val[i] = t[Origin + beg - Len(val) + i]
        BY <2>0, <2>1, <1>4 DEF ScannerInv, Placed
    <3> QED  BY <3>1, <3>2, <1>1
  <2>2. CASE i > Len(val)
    <3> DEFINE k == i - Len(val)
    <3>1. k \in 1 .. e - beg /\ beg + k - 1 \in beg .. lim - 1
        BY <2>0, <2>2, <1>0, <1>4 DEF Measured
    <3>2. all[i] = held[k]
        BY <2>0, <2>2, <1>2, <1>3, <1>4
    <3>3. held[k] = buf[beg + k - 1]
        BY <3>1, <1>2
    <3>4. buf[beg + k - 1] = t[Origin + (beg + k - 1) + 1]
        BY <3>1 DEF ScannerInv, Placed
    <3>5. Origin + (beg + k - 1) + 1 = Begun + i
        BY <2>0, <1>0, <1>1, <1>4 DEF Measured
    <3> QED  BY <3>2, <3>3, <3>4, <3>5
  <2> QED  BY <2>0, <2>1, <2>2, <1>4
<1>6. /\ piece \in Seq(Chars)
      /\ Len(piece) = n
      /\ \A i \in 1 .. n : piece[i] = t[Begun + i]
  <2>1. \A i \in 1 .. Len(t) : t[i] \in Chars
      BY <1>1, ElementOfSeq
  <2>2. \A i \in Begun + 1 .. Origin + e : i \in 1 .. Len(t)
      BY <1>0, <1>1, <1>4 DEF Measured
  <2>3. Origin \in Int /\ e \in Int /\ Begun \in Int /\ Begun + 1 \in Int /\ Origin + e \in Int /\ n = Origin + e - Begun
      BY <1>0, <1>1 DEF Measured
  <2> HIDE DEF t, n
  <2>4. /\ piece \in Seq(Chars)
        /\ Len(piece) = IF Begun + 1 <= Origin + e THEN (Origin + e) - (Begun + 1) + 1 ELSE 0
        /\ \A i \in 1 .. (Origin + e) - (Begun + 1) + 1 : piece[i] = t[Begun + 1 + i - 1]
    <3> DEFINE lo == Begun + 1
               hi == Origin + e
    <3>1. lo \in Int /\ hi \in Int /\ \A i \in lo .. hi : t[i] \in Chars
        BY <2>1, <2>2, <2>3
    <3>2. piece = SubSeq(t, lo, hi)
        BY DEF t
    <3> HIDE DEF lo, hi, piece
    <3>3. /\ piece \in Seq(Chars)
          /\ Len(piece) = IF lo <= hi THEN hi - lo + 1 ELSE 0
          /\ \A i \in 1 .. hi - lo + 1 : piece[i] = t[lo + i - 1]
        BY <3>1, <3>2, SubSeqProperties
    <3> QED  BY <3>3 DEF lo, hi
  <2>5. Len(piece) = n
      BY <2>3, <2>4, <1>1, <1>4
  <2>6. ASSUME NEW i \in 1 .. n PROVE piece[i] = t[Begun + i]
    <3>1. i \in 1 .. (Origin + e) - (Begun + 1) + 1 /\ Begun + 1 + i - 1 = Begun + i
        BY ONLY <2>3, <2>6
    <3> QED  BY <2>4, <3>1
  <2> QED  BY <2>4, <2>5, <2>6
<1>7. all = piece
  <2> HIDE DEF all, piece, n, t
  <2> QED  BY <1>3, <1>4, <1>5, <1>6, SeqEqual
<1> QED  BY <1>4, <1>5, <1>7 DEF held

\* fill() leaves everything in its place.
LEMMA FillStays ==
    ASSUME ScannerInv, TokensFit, Shift \/ Overflow
    PROVE  /\ Begun' = Begun /\ Origin' + cur' = Origin + cur /\ mark' = cur'
           /\ UNCHANGED <<input, mode, acc, toks>>
           /\ mode # "done"
           /\ eof' = lim' \/ rest = <<>> => rest' = <<>>
           /\ Len(val') = Len(val) \/ Len(val') = Len(val) + (BufSize - 1)
           /\ val' # val => Len(val') >= BufSize - 1
<1>0. Measured
    BY Lengths
<1> DEFINE Refill(kept) ==
        /\ Origin' = Origin + lim - Len(kept)
        /\ eof' = lim' \/ rest = <<>> => rest' = <<>>
<1>1. ASSUME NEW kept \in Seq(Chars), Len(kept) < BufSize, ReadMore(kept), input' = input
      PROVE  Refill(kept)
  <2>1. /\ lim' \in Len(kept) .. BufSize
        /\ rest' \in Seq(Chars)
        /\ Len(rest') = Len(rest) - (lim' - Len(kept))
        /\ eof' = lim' => lim' < BufSize
      BY <1>1, Refilled DEF ScannerInv, Sequences_, TypeOK
  <2>2. Len(kept) \in Nat /\ Len(rest') \in Nat
      BY <2>1, <1>1, LenProperties
  <2>3. Origin' = Origin + lim - Len(kept)
    <3>1. PICK l \in Int : l = lim'
        BY <2>1, <2>2, <1>0 DEF Measured
    <3>2. Origin' = Len(input.text) - (Len(rest) - (l - Len(kept))) - l
        BY <2>1, <3>1, <1>1 DEF Origin
    <3> QED  BY <3>1, <3>2, <2>2, <1>0 DEF Measured, Origin
  <2>4. ASSUME eof' = lim' PROVE rest' = <<>>
    <3> DEFINE n == Smaller(BufSize - Len(kept), Len(rest))
    <3>1. lim' = Len(kept) + n /\ lim' < BufSize
        BY <2>1, <2>4, <1>1 DEF ReadMore
    <3>2. n = Len(rest)
        BY <3>1, <2>2, <1>0 DEF Smaller, Measured
    <3>3. Len(rest') = 0
        BY <2>1, <2>2, <3>1, <3>2, <1>0 DEF Measured
    <3> QED  BY <2>1, <3>3, EmptySeq
  <2>5. ASSUME rest = <<>> PROVE rest' = <<>>
    <3>1. Len(rest) = 0
        BY <2>5, EmptySeq
    <3>2. Len(rest') = 0
        BY <2>1, <2>2, <3>1
    <3> QED  BY <2>1, <3>2, EmptySeq
  <2> QED  BY <2>3, <2>4, <2>5
<1> HIDE DEF Refill
<1>2. CASE Shift
  <2>1. /\ MustFill /\ lim - beg < BufSize /\ ReadMore(Bytes(beg, lim))
        /\ cur' = cur - beg /\ beg' = 0 /\ mark' = cur'
        /\ UNCHANGED <<input, mode, acc, toks, val>>
      BY <1>2 DEF Shift
  <2>2. Bytes(beg, lim) \in Seq(Chars) /\ Len(Bytes(beg, lim)) = lim - beg
    <3>1. beg \in Nat /\ lim \in Nat /\ beg <= lim
        BY <1>0 DEF Measured
    <3> QED  BY <3>1, BytesTyped, Unread
  <2>3. Refill(Bytes(beg, lim))
      BY <2>1, <2>2, <1>1
  <2>4. Origin' = Origin + beg /\ (eof' = lim' \/ rest = <<>> => rest' = <<>>)
      BY <2>2, <2>3, <1>0 DEF Refill, Measured
  <2>5. Begun' = Begun /\ Origin' + cur' = Origin + cur
      BY <2>1, <2>4, <1>0 DEF Begun, Measured
  <2> QED  BY <2>1, <2>4, <2>5 DEF MustFill
<1>3. CASE Overflow
  <2>1. /\ MustFill /\ lim - beg >= BufSize /\ ReadMore(<<buf[cur]>>) /\ val' = val \o Bytes(0, BufSize - 1)
        /\ cur' = 0 /\ beg' = 0 /\ mark' = 0
        /\ UNCHANGED <<input, mode, acc, toks>>
      BY <1>3 DEF Overflow
  <2>2. mode = "quoted" /\ beg = 0 /\ lim = BufSize /\ cur = BufSize - 1
      BY <2>1, OverflowSplits
  <2>3. <<buf[cur]>> \in Seq(Chars) /\ Len(<<buf[cur]>>) = 1
    <3>1. cur \in beg .. lim - 1
        BY <2>2, <1>0 DEF Measured
    <3>2. buf[cur] \in Chars
        BY <3>1, Unread
    <3> QED  BY <3>2
  <2>4. Refill(<<buf[cur]>>)
    <3>1. 1 < BufSize
        BY <1>0 DEF Measured
    <3> DEFINE kept == <<buf[cur]>>
    <3>2. kept \in Seq(Chars) /\ Len(kept) < BufSize /\ ReadMore(kept) /\ input' = input
        BY <2>1, <2>3, <3>1
    <3> HIDE DEF kept
    <3>3. Refill(kept)
        BY <3>2, <1>1
    <3> QED  BY <3>3 DEF kept
  <2>5. Origin' = Origin + (BufSize - 1) /\ (eof' = lim' \/ rest = <<>> => rest' = <<>>)
      BY <2>2, <2>3, <2>4, <1>0 DEF Refill, Measured
  <2>6. Bytes(0, BufSize - 1) \in Seq(Chars) /\ Len(Bytes(0, BufSize - 1)) = BufSize - 1
    <3>1. 0 \in Nat /\ BufSize - 1 \in Nat /\ 0 <= BufSize - 1 /\ BufSize - 1 - 0 = BufSize - 1
        BY <1>0 DEF Measured
    <3>2. \A k \in 0 .. BufSize - 1 - 1 : buf[k] \in Chars
        BY <2>2, Unread
    <3> QED  BY <3>1, <3>2, BytesTyped
  <2>7. Len(val') = Len(val) + (BufSize - 1)
      BY <2>1, <2>6, ConcatProperties DEF ScannerInv, Sequences_
  <2>8. Begun' = Begun /\ Origin' + cur' = Origin + cur
    <3>1. Begun' = (Origin + (BufSize - 1)) + 0 - (Len(val) + (BufSize - 1)) /\ Begun = Origin + 0 - Len(val)
        BY <2>1, <2>2, <2>5, <2>7 DEF Begun
    <3>2. Origin' + cur' = Origin + (BufSize - 1) + 0 /\ Origin + cur = Origin + (BufSize - 1)
        BY <2>1, <2>2, <2>5
    <3>3. Origin \in Int /\ Len(val) \in Int /\ BufSize \in Int
        BY <1>0 DEF Measured
    <3> QED  BY ONLY <3>1, <3>2, <3>3
  <2>9. Len(val') >= BufSize - 1
      BY <2>7, <1>0 DEF Measured
  <2> QED  BY <2>1, <2>5, <2>7, <2>8, <2>9 DEF MustFill
<1> QED  BY <1>2, <1>3

-----------------------------------------------------------------------------
(* The scanner implements Lexer. *)

\* A match ends where its rule does.
MatchTold ==
    mode = "file" =>
        /\ acc = "word" => Of(input.text, WordChars, Begun, Origin + mark)
        /\ acc = "comma" => Origin + mark = Begun + 1

\* The reader of the text takes the same step, and goes astray only where a match
\* has lost its end; or it takes none.
Reads == Lex!Exactly \/ (Lex!Astray /\ ~MatchTold) \/ UNCHANGED Lex!vars

\* A mode that has nothing to tell.
LEMMA NothingTold ==
    ASSUME AsTold, UNCHANGED source, val' \in {val, <<>>}, mode' \in {"next", "comment", "done", "beyond"}
    PROVE  AsTold'
<1>1. Told(input'.text, mode', acc', Begun', Origin' + cur', Origin' + mark')
    BY DEF Told
<1>2. UNCHANGED <<lim, eof, rest>>
    BY DEF source
<1> QED  BY <1>1, <1>2 DEF AsTold

\* The matcher goes on with the token.
LEMMA GoesOn ==
    ASSUME AsTold, UNCHANGED source, UNCHANGED <<beg, val, toks>>,
           mode \notin {"comment", "done", "beyond"}, mode' \notin {"comment", "done", "beyond"},
           Told(input.text, mode', acc', Begun, Origin + cur', Origin + mark')
    PROVE  AsTold' /\ Reads
<1>1. UNCHANGED <<input, buf, lim, eof, rest>>
    BY DEF source
<1>2. Origin' = Origin /\ Begun' = Begun
    BY <1>1 DEF Origin, Begun
<1>3. AsTold'
    BY <1>1, <1>2 DEF AsTold
<1>4. Reached' = Reached /\ Where' = Where
    BY <1>2 DEF Reached, Where
<1> QED  BY <1>1, <1>3, <1>4 DEF Reads, Lex!vars

\* fill() is nothing to the reader of the text.
LEMMA FillReads ==
    ASSUME ScannerInv, TokensFit, AsTold, Shift \/ Overflow
    PROVE  AsTold' /\ Reads
<1>1. /\ Begun' = Begun /\ Origin' + cur' = Origin + cur /\ mark' = cur'
      /\ UNCHANGED <<input, mode, acc, toks>>
      /\ mode # "done"
      /\ eof' = lim' => rest' = <<>>
      /\ val' # val => Len(val') >= BufSize - 1
    BY FillStays
<1>2. Told(input.text, mode, acc, Begun, Origin + cur, Origin + cur)
  <2>1. Begun \in Int /\ Origin + cur \in Int /\ Origin + mark \in Int
      BY TextPlaces
  <2> QED  BY <2>1, FillTold DEF AsTold
<1>3. AsTold'
    BY <1>1, <1>2 DEF AsTold
<1>4. Reached' = Reached /\ Where' = Where
    BY <1>1 DEF Reached, Where
<1> QED  BY <1>1, <1>3, <1>4 DEF Reads, Lex!vars

\* The first byte of a token.
LEMMA RootReads ==
    ASSUME ScannerInv, AsTold, Root
    PROVE  AsTold' /\ Reads
<1> DEFINE t == input.text
           p == Origin + cur
<1>1. mode = "next" /\ ~MustFill /\ UNCHANGED source /\ filled' = FALSE /\ scheme' \in BOOLEAN
    BY SchemeTyped DEF Root, Blank, Line, Word, ListComma, DoubleDash, LoneDash, EscapedQuote, EmptyString,
           OpenQuote, Finish, Look
<1>2. /\ Len(t) \in Nat /\ p \in Nat /\ Begun = p /\ p <= Len(t)
      /\ Origin \in Int /\ cur \in Int
  <2>1. Measured
      BY Lengths
  <2> QED  BY <2>1, <1>1, TextPlaces DEF Measured
<1>3. /\ buf[cur] # Nul => p + 1 <= Len(t) /\ t[p + 1] = buf[cur] /\ buf[cur] \in Chars
      /\ buf[cur] = Nul => p = Len(t)
      /\ buf[cur] # Nul => \A c \in Chars : Has(t, p + 2, c) <=> buf[cur + 1] = c
    BY <1>1, LooksAtText
<1>4. /\ Nul \notin Chars
      /\ {Space, Newline, Comma, Dash, Quote, Backslash} \subseteq Chars /\ WordChars \subseteq Chars
    BY DEF Chars, WordChars, Letters, Space, Newline, Comma, Dash, Quote, Backslash, Nul
<1>5. /\ input' = input /\ Origin' = Origin /\ Reached = p /\ Where = "text"
      /\ val = <<>> /\ Len(<<>>) = 0
    BY <1>1, <1>2, EmptySeq DEF source, Origin, Reached, Where, ScannerInv, Matching
<1> HIDE DEF p
<1>6. ASSUME NEW r, NEW n \in {1, 2}, NEW m \in {"word", "file", "blank", "line"},
             Match(r, n, m), Told(t, m, r, p, p + n, p + n)
      PROVE  AsTold' /\ Reads
  <2>1. acc' = r /\ cur' = cur + n /\ mark' = cur + n /\ mode' = m /\ UNCHANGED <<beg, val, toks>>
      BY <1>6 DEF Match
  <2>2. Origin + cur' = p + n /\ Origin + mark' = p + n
      BY <2>1, <1>2 DEF p
  <2> QED  BY <2>1, <2>2, <1>1, <1>2, <1>6, GoesOn
<1>7. CASE Blank
  <2>1. p + 1 <= Len(t) /\ t[p + 1] = Space /\ Match("blank", 1, "blank")
      BY <1>7, <1>3, <1>4 DEF Blank, Look
  <2> QED  BY <2>1, <1>2, <1>6, FirstTold
<1>8. CASE Line
  <2>1. p + 1 <= Len(t) /\ t[p + 1] = Newline /\ Match("blank", 1, "line")
      BY <1>8, <1>3, <1>4 DEF Line, Look
  <2> QED  BY <2>1, <1>2, <1>6, FirstTold
<1>9. CASE Word
  <2>1. p + 1 <= Len(t) /\ t[p + 1] \in WordChars /\ Match("word", 1, "word")
      BY <1>9, <1>3, <1>4 DEF Word, Look
  <2>2. ~Escapes(t, p)
      BY <1>9, <1>3, <1>4 DEF Word, Look, Escapes, Has
  <2> QED  BY <2>1, <2>2, <1>2, <1>6, FirstTold
<1>10. CASE ListComma
  <2>1. p + 1 <= Len(t) /\ t[p + 1] = Comma /\ Match("comma", 1, "file")
      BY <1>10, <1>3, <1>4 DEF ListComma, Look
  <2> QED  BY <2>1, <1>2, <1>6, FirstTold
<1>11. CASE DoubleDash
  <2>1. p + 1 <= Len(t) /\ t[p + 1] = Dash /\ Has(t, p + 2, Dash) /\ Match("comment", 2, "file")
      BY <1>11, <1>3, <1>4 DEF DoubleDash, Look
  <2> QED  BY <2>1, <1>2, <1>6, FirstTold
<1>12. CASE LoneDash
  <2>1. p + 1 <= Len(t) /\ t[p + 1] = Dash /\ ~Has(t, p + 2, Dash) /\ Match("error", 1, "file")
      BY <1>12, <1>3, <1>4 DEF LoneDash, Look
  <2> QED  BY <2>1, <1>2, <1>6, FirstTold
<1>13. CASE EscapedQuote
  <2>1. /\ p + 1 <= Len(t) /\ t[p + 1] = Backslash /\ Has(t, p + 2, Quote)
        /\ cur' = cur + 2 /\ mode' = "done" /\ UNCHANGED <<val, toks>>
      BY <1>13, <1>3, <1>4 DEF EscapedQuote, Look
  <2>2. AsTold'
      BY <2>1, <1>1, NothingTold
  <2>3. Reached' = p + 2 /\ Where' = "over"
      BY <2>1, <1>2, <1>5 DEF Reached, Where, p
  <2>4. p + 2 \in p + 1 .. Len(t)
      BY <2>1, <1>2 DEF Has
  <2>5. Lex!Refuse(p + 2)
      BY <2>1, <2>3, <1>5 DEF Lex!Refuse, Lex!EscapedQuote, Lex!Is, Has
  <2>6. Lex!Exactly
      BY <2>4, <2>5, <1>5 DEF Lex!Exactly
  <2> QED  BY <2>2, <2>6 DEF Reads
<1>14. CASE EmptyString
  <2>1. /\ p + 1 <= Len(t) /\ t[p + 1] = Quote /\ Has(t, p + 2, Quote)
        /\ toks' = Append(toks, [kind |-> "empty", text |-> <<>>])
        /\ beg' = cur + 2 /\ val' = <<>> /\ mode' = "next"
      BY <1>14, <1>3, <1>4 DEF EmptyString, Look, Emit
  <2>2. AsTold'
      BY <2>1, <1>1, NothingTold
  <2>3. Reached' = p + 2 /\ Where' = "text"
      BY <2>1, <1>2, <1>5 DEF Reached, Where, Begun, p
  <2>4. Lex!EmptyString
      BY <2>1, <2>3, <1>5 DEF Lex!EmptyString, Lex!HandOver, Lex!Is, Has
  <2>5. Lex!Exactly
      BY <2>4, <1>5 DEF Lex!Exactly
  <2> QED  BY <2>2, <2>5 DEF Reads
<1>15. CASE OpenQuote
  <2>1. /\ p + 1 <= Len(t) /\ t[p + 1] = Quote /\ ~Has(t, p + 2, Quote)
        /\ cur' = cur + 1 /\ mode' = "quoted" /\ UNCHANGED <<beg, mark, val, acc, toks>>
      BY <1>15, <1>3, <1>4 DEF OpenQuote, Look
  <2>2. Told(t, "quoted", acc, p, p + 1, Origin + mark)
      BY <2>1, <1>2, FirstTold
  <2>3. Origin + cur' = p + 1
      BY <2>1, <1>2 DEF p
  <2> QED  BY <2>1, <2>2, <2>3, <1>1, <1>2, GoesOn
<1>16. CASE Finish
  <2>1. p = Len(t) /\ mode' = "done" /\ UNCHANGED <<beg, cur, mark, val, acc, toks>>
      BY <1>16, <1>3 DEF Finish, Look, pointers
  <2>2. AsTold'
      BY <2>1, <1>1, NothingTold
  <2>3. Reached' = p /\ Where' = "over"
      BY <2>1, <1>5 DEF Reached, Where, p
  <2>4. Lex!Finish
      BY <2>1, <2>3, <1>5 DEF Lex!Finish
  <2> QED  BY <2>2, <2>4 DEF Reads, Lex!Exactly
<1> QED
    BY <1>7, <1>8, <1>9, <1>10, <1>11, <1>12, <1>13, <1>14, <1>15, <1>16 DEF Root

\* A piece of a piece of the text.
LEMMA SubOfSub ==
    ASSUME NEW t \in Seq(Chars), NEW m \in Nat, NEW n \in Nat, NEW k \in Nat,
           m <= n, n <= Len(t), k <= n - m
    PROVE  SubSeq(SubSeq(t, m + 1, n), 2, k) = SubSeq(t, m + 2, m + k)
<1> DEFINE s == SubSeq(t, m + 1, n)
           left == SubSeq(s, 2, k)
           right == SubSeq(t, m + 2, m + k)
<1>1. Len(t) \in Nat /\ \A i \in 1 .. Len(t) : t[i] \in Chars
    BY LenProperties, ElementOfSeq
<1>2. /\ s \in Seq(Chars)
      /\ Len(s) = n - m
      /\ \A i \in 1 .. n - m : s[i] = t[m + i]
  <2>1. /\ s \in Seq(Chars)
        /\ Len(s) = IF m + 1 <= n THEN n - (m + 1) + 1 ELSE 0
        /\ \A i \in 1 .. n - (m + 1) + 1 : s[i] = t[m + 1 + i - 1]
      BY <1>1, SubSeqProperties
  <2>2. \A i \in 1 .. n - m : i \in 1 .. n - (m + 1) + 1 /\ m + 1 + i - 1 = m + i
      OBVIOUS
  <2> HIDE DEF s
  <2> QED  BY <2>1, <2>2
<1>3. /\ left \in Seq(Chars)
      /\ Len(left) = IF 2 <= k THEN k - 2 + 1 ELSE 0
      /\ \A i \in 1 .. k - 2 + 1 : left[i] = s[2 + i - 1]
  <2>1. \A i \in 2 .. k : s[i] \in Chars
    <3> SUFFICES ASSUME NEW i \in 2 .. k PROVE s[i] \in Chars
        OBVIOUS
    <3>1. i \in 1 .. Len(s)
        BY <1>2
    <3> HIDE DEF s
    <3> QED  BY <3>1, <1>2, ElementOfSeq
  <2> HIDE DEF s
  <2>2. \A i \in 2 .. k : i \in 1 .. Len(s)
      BY <1>2
  <2> QED  BY <1>2, <2>1, <2>2, SubSeqProperties
<1>4. /\ right \in Seq(Chars)
      /\ Len(right) = IF m + 2 <= m + k THEN (m + k) - (m + 2) + 1 ELSE 0
      /\ \A i \in 1 .. (m + k) - (m + 2) + 1 : right[i] = t[m + 2 + i - 1]
  <2>1. \A i \in m + 2 .. m + k : i \in 1 .. Len(t) /\ t[i] \in Chars
      BY <1>1
  <2> QED  BY <1>1, <2>1, SubSeqProperties
<1> HIDE DEF left, right, s
<1>5. Len(left) = Len(right)
    BY <1>3, <1>4
<1>6. ASSUME NEW i \in 1 .. Len(left) PROVE left[i] = right[i]
  <2>1. i \in 1 .. k - 1 /\ i \in Nat
      BY <1>3, <1>6
  <2>2. left[i] = s[i + 1] /\ right[i] = t[m + 1 + i]
    <3>1. 2 + i - 1 = i + 1 /\ m + 2 + i - 1 = m + 1 + i
        BY <2>1
    <3>2. i \in 1 .. k - 2 + 1 /\ i \in 1 .. (m + k) - (m + 2) + 1
        BY <2>1
    <3> QED  BY <1>3, <1>4, <3>1, <3>2
  <2>3. s[i + 1] = t[m + (i + 1)] /\ m + (i + 1) = m + 1 + i
      BY <2>1, <1>2
  <2> QED  BY <2>2, <2>3
<1>7. left = right
    BY <1>3, <1>4, <1>5, <1>6, SeqEqual
<1> QED  BY <1>7 DEF left, right, s

\* The matcher takes the longest match that it has seen.
LEMMA AcceptReads ==
    ASSUME ScannerInv, AsTold, mode \in {"word", "file", "blank", "line"}, UNCHANGED source, Accept,
           Origin + cur < Len(input.text) =>
               input.text[(Origin + cur) + 1] \notin
                   (IF mode = "word" THEN WordChars ELSE IF mode = "file" THEN {} ELSE Blanks)
    PROVE  AsTold' /\ Reads
<1> DEFINE t == input.text
           a == Begun
           p == Origin + cur
           m == Origin + mark
<1>0. Measured
    BY Lengths
<1>1. /\ Len(t) \in Nat /\ a \in Nat /\ p \in Nat /\ m \in Int /\ p <= Len(t)
      /\ a = Origin + beg /\ Origin \in Int /\ val = <<>> /\ Len(<<>>) = 0
    BY TextPlaces, EmptySeq DEF ScannerInv, Matching
<1>2. Told(t, mode, acc, a, p, m)
    BY DEF AsTold
<1>3. a < m /\ m <= p /\ m \in a + 1 .. Len(t) /\ m \in Nat
    BY <1>1, <1>2 DEF Told
<1>4. input' = input /\ Origin' = Origin /\ Reached = a /\ Where = "text"
    BY DEF source, Origin, Reached, Where
<1>5. mark \in beg .. lim
    BY <1>0, <1>1, <1>3 DEF Measured
<1> HIDE DEF a, p
<1>6. ASSUME NEW kind, NEW bytes, Emit(kind, bytes, mark)
      PROVE  /\ AsTold' /\ Reached' = m /\ Where' = "text" /\ input' = input
             /\ toks' = Append(toks, [kind |-> kind, text |-> bytes])
  <2>1. /\ beg' = mark /\ val' = <<>> /\ mode' = "next"
        /\ toks' = Append(toks, [kind |-> kind, text |-> bytes])
      BY <1>6 DEF Emit
  <2>2. AsTold'
      BY <2>1, NothingTold
  <2>3. Reached' = m /\ Where' = "text"
      BY <2>1, <1>1, <1>4, <1>0 DEF Reached, Where, Begun, Measured
  <2> QED  BY <2>1, <2>2, <2>3, <1>4
<1> HIDE DEF m
<1>7. ASSUME NEW S, Of(t, S, a, p) PROVE Of(t, S, a, m)
    BY <1>1, <1>3, <1>7 DEF Of
<1>8. /\ mode = "word" => acc = "word" /\ Of(t, WordChars, a, p) /\ ~Escapes(t, a)
      /\ mode = "file" =>
            /\ Of(t, FileChars, a, p)
            /\ acc = "word" => t[a + 1] \in WordChars /\ ~Escapes(t, a)
            /\ acc = "comma" => Has(t, a + 1, Comma)
            /\ acc = "comment" => Has(t, a + 1, Dash) /\ Has(t, a + 2, Dash) /\ a + 2 <= m
      /\ acc \in {"comma", "comment"} => mode = "file"
    BY <1>2 DEF Told
<1>9. mode = "word" => t[a + 1] \in WordChars
  <2>1. a + 1 \in a + 1 .. p
      BY <1>1, <1>3
  <2> QED  BY <2>1, <1>8 DEF Of
<1>10. CASE acc = "word"
  <2>1. Emit("word", val \o Bytes(beg, mark), mark) /\ mode \in {"word", "file"}
      BY <1>2, <1>10 DEF Accept, Told
  <2>2. val \o Bytes(beg, mark) = SubSeq(t, a + 1, m)
      BY <1>5, TokenIsPiece DEF a, m
  <2>3. /\ AsTold' /\ Reached' = m /\ Where' = "text" /\ input' = input
        /\ toks' = Append(toks, [kind |-> "word", text |-> SubSeq(t, a + 1, m)])
      BY <2>1, <2>2, <1>6
  <2>4. ~Escapes(t, a) /\ t[a + 1] \in WordChars
      BY <2>1, <1>10, <1>8, <1>9
  <2>5. CASE Of(t, WordChars, a, m)
    <3>1. m < Len(t) => t[m + 1] \notin WordChars
        BY <2>1, <2>5, <1>1, <1>2, <1>10 DEF Told, p
    <3>2. Lex!Word(m)
        BY <2>3, <2>4, <2>5, <3>1, <1>4
           DEF Lex!Word, Lex!Only, Lex!Ends, Lex!EscapedQuote, Lex!Is, Lex!HandOver, Of, Escapes, Has
    <3>3. Lex!Exactly
        BY <3>2, <1>3, <1>4 DEF Lex!Exactly
    <3> QED  BY <2>3, <3>3 DEF Reads
  <2>6. CASE ~Of(t, WordChars, a, m)
    <3>1. mode = "file" /\ Of(t, FileChars, a, m)
        BY <2>1, <2>6, <1>7, <1>8
    <3>2. Lex!StrayWord(m)
        BY <2>3, <2>4, <2>6, <3>1, <1>4
           DEF Lex!StrayWord, Lex!Only, Lex!EscapedQuote, Lex!Is, Lex!HandOver, Of, Escapes, Has
    <3>3. Lex!Astray
        BY <3>2, <1>3, <1>4 DEF Lex!Astray
    <3>4. ~MatchTold
        BY <2>6, <3>1, <1>10 DEF MatchTold, a, m
    <3> QED  BY <2>3, <3>3, <3>4 DEF Reads
  <2> QED  BY <2>5, <2>6
<1>11. CASE acc = "comma"
  <2>1. Emit("comma", <<>>, mark) /\ mode = "file" /\ Has(t, a + 1, Comma) /\ Of(t, FileChars, a, m)
      BY <1>11, <1>7, <1>8 DEF Accept
  <2>2. /\ AsTold' /\ Reached' = m /\ Where' = "text" /\ input' = input
        /\ toks' = Append(toks, [kind |-> "comma", text |-> <<>>])
      BY <2>1, <1>6
  <2>3. CASE m = a + 1
    <3>1. Lex!ListComma
        BY <2>1, <2>2, <2>3, <1>4 DEF Lex!ListComma, Lex!Is, Lex!HandOver, Has
    <3> QED  BY <2>2, <3>1, <1>4 DEF Reads, Lex!Exactly
  <2>4. CASE m # a + 1
    <3>1. Lex!StrayComma(m)
        BY <2>1, <2>2, <1>4 DEF Lex!StrayComma, Lex!Is, Lex!Only, Lex!HandOver, Has, Of
    <3>2. Lex!Astray
        BY <3>1, <1>3, <1>4 DEF Lex!Astray
    <3>3. ~MatchTold
        BY <2>1, <2>4, <1>11 DEF MatchTold, a, m
    <3> QED  BY <2>2, <3>2, <3>3 DEF Reads
  <2> QED  BY <2>3, <2>4
<1>12. CASE acc = "terminator"
  <2>1. /\ Emit("terminator", <<>>, mark)
        /\ Of(t, Blanks, a, p) /\ Twice(t, a, m) /\ Of(t, {Space}, m, p) /\ mode = "line"
      BY <1>2, <1>12 DEF Accept, Told
  <2>2. /\ AsTold' /\ Reached' = m /\ Where' = "text" /\ input' = input
        /\ toks' = Append(toks, [kind |-> "terminator", text |-> <<>>])
      BY <2>1, <1>6
  <2>3. Of(t, Blanks, a, m)
      BY <2>1, <1>1, <1>3 DEF Of
  <2>4. ASSUME NEW n \in m .. Len(t), Of(t, Blanks, m, n), NEW i \in m + 1 .. n, t[i] = Newline
        PROVE  FALSE
    <3>1. i > p
        BY <2>1, <2>4, <1>1, <1>3 DEF Of, Space, Newline
    <3>2. p + 1 \in m + 1 .. n /\ p < Len(t)
        BY <3>1, <2>4, <1>1, <1>3
    <3>3. t[p + 1] \in Blanks
        BY <3>2, <2>4 DEF Of
    <3> QED  BY <3>2, <3>3, <2>1 DEF p
  <2>5. Lex!Terminator(m)
    <3>1. \A n \in m .. Len(t) : Lex!Only(Blanks, m, n) => Lex!Lines(m, n) = {}
        BY <2>4 DEF Lex!Only, Lex!Lines, Of
    <3>2. Lex!TwoLines(a, m)
        BY <2>1 DEF Lex!TwoLines, Lex!Lines, Twice
    <3> QED  BY <2>2, <2>3, <3>1, <3>2, <1>4 DEF Lex!Terminator, Lex!Only, Lex!HandOver, Of
  <2>6. Lex!Exactly
      BY <2>5, <1>3, <1>4 DEF Lex!Exactly
  <2> QED  BY <2>2, <2>6 DEF Reads
<1>13. CASE acc = "blank"
  <2>1. /\ mode \in {"blank", "line"}
        /\ cur' = mark /\ beg' = mark /\ mode' = "next" /\ val' = val /\ toks' = toks
      BY <1>2, <1>13 DEF Accept, Skip, Told
  <2>2. Of(t, Blanks, a, p) /\ ~Twice(t, a, p)
      BY <2>1, <1>2, <1>13 DEF Told, Of, Twice, Blanks, Space, Newline
  <2>3. AsTold'
      BY <2>1, NothingTold
  <2>4. Reached' = m /\ Where' = "text"
      BY <2>1, <1>1, <1>4, <1>0 DEF Reached, Where, Begun, Measured, m
  <2>5. Lex!Blank(m)
    <3>1. Of(t, Blanks, a, m)
        BY <2>2, <1>1, <1>3 DEF Of
    <3>2. p \in m .. Len(t)
        BY <1>1, <1>3
    <3>3. Lex!Only(Blanks, a, p) /\ Lex!Only(Blanks, a, m) /\ Lex!Ends(Blanks, p) /\ ~Lex!TwoLines(a, p)
        BY <2>1, <2>2, <3>1 DEF Lex!Only, Lex!Ends, Lex!TwoLines, Lex!Lines, Of, Twice, p
    <3> QED  BY <2>1, <2>4, <3>2, <3>3, <1>4 DEF Lex!Blank, Lex!Read
  <2>6. Lex!Exactly
      BY <2>5, <1>3, <1>4 DEF Lex!Exactly
  <2> QED  BY <2>3, <2>6 DEF Reads
<1>14. CASE acc = "comment"
  <2>1. /\ mode = "file" /\ Has(t, a + 1, Dash) /\ Has(t, a + 2, Dash) /\ a + 2 <= m /\ Of(t, FileChars, a, m)
        /\ cur' = mark /\ mode' = "comment" /\ val' = val /\ toks' = toks
      BY <1>14, <1>7, <1>8 DEF Accept
  <2>2. AsTold'
      BY <2>1, NothingTold
  <2>3. Reached' = m /\ Where' = "comment"
      BY <2>1, <1>4 DEF Reached, Where, m
  <2>4. Lex!DoubleDash(m)
      BY <2>1, <2>3, <1>4 DEF Lex!DoubleDash, Lex!Is, Lex!Only, Has, Of
  <2>5. Lex!Exactly
      BY <2>4, <1>3, <1>4 DEF Lex!Exactly
  <2> QED  BY <2>2, <2>5 DEF Reads
<1>15. CASE acc = "error"
  <2>1. /\ mode = "file" /\ Has(t, a + 1, Dash) /\ ~Has(t, a + 2, Dash)
        /\ cur' = mark /\ mode' = "done" /\ val' = val /\ toks' = toks
      BY <1>2, <1>15 DEF Accept, Told
  <2>2. AsTold'
      BY <2>1, NothingTold
  <2>3. Reached' = m /\ Where' = "over"
      BY <2>1, <1>4 DEF Reached, Where, m
  <2>4. Lex!Refuse(m)
      BY <2>1, <2>3, <1>4 DEF Lex!Refuse, Lex!Is, Has
  <2>5. Lex!Exactly
      BY <2>4, <1>3, <1>4 DEF Lex!Exactly
  <2> QED  BY <2>2, <2>5 DEF Reads
<1> QED  BY <1>10, <1>11, <1>12, <1>13, <1>14, <1>15 DEF Accept

\* A longer match: of a word, the name of a file, or blanks.
LEMMA LongerReads ==
    ASSUME ScannerInv, AsTold, Longer \/ Lines
    PROVE  AsTold' /\ Reads
<1> DEFINE t == input.text
           p == Origin + cur
<1>1. mode \in {"word", "file", "blank", "line"} /\ ~MustFill /\ UNCHANGED source
    BY DEF Longer, Lines, WordMore, WordEnd, WordOver, FileMore, FileOver, BlankMore, FirstLine,
           SecondLine, BlankOver, Look
<1>2. /\ Len(t) \in Nat /\ p \in Nat /\ Begun \in Nat /\ p <= Len(t) /\ Origin + mark \in Int
      /\ Origin \in Int /\ cur \in Int
  <2>1. Measured
      BY Lengths
  <2> QED  BY <2>1, TextPlaces DEF Measured
<1>3. /\ buf[cur] # Nul => p + 1 <= Len(t) /\ t[p + 1] = buf[cur]
      /\ buf[cur] = Nul => p = Len(t)
    BY <1>1, LooksAtText
<1>4. Nul \notin FileChars \cup WordChars \cup Blanks
    BY DEF FileChars, WordChars, Blanks, Letters, Space, Newline, Comma, Dash, Backslash, Nul
<1>5. Told(t, mode, acc, Begun, p, Origin + mark)
    BY DEF AsTold
<1> HIDE DEF p
<1>6. ASSUME NEW r, NEW m \in {"word", "file", "blank", "line"},
             cur' = cur + 1, mark' \in {mark, cur + 1}, mode' = m, acc' = r, UNCHANGED <<beg, val, toks>>,
             Told(t, m, r, Begun, p + 1, IF mark' = mark THEN Origin + mark ELSE p + 1)
      PROVE  AsTold' /\ Reads
  <2>1. Origin + cur' = p + 1 /\ Origin + mark' = (IF mark' = mark THEN Origin + mark ELSE p + 1)
      BY <1>2, <1>6 DEF p
  <2> QED  BY <2>1, <1>1, <1>6, GoesOn
<1>7. ASSUME WordOver \/ FileOver \/ BlankOver
      PROVE  AsTold' /\ Reads
  <2>1. p < Len(t) => t[p + 1] \notin (IF mode = "word" THEN WordChars ELSE IF mode = "file" THEN {} ELSE Blanks)
    <3>1. p < Len(t) => t[p + 1] = buf[cur]
        BY <1>2, <1>3
    <3>2. buf[cur] \notin (IF mode = "word" THEN WordChars ELSE IF mode = "file" THEN {} ELSE Blanks)
        BY <1>4, <1>7 DEF WordOver, FileOver, BlankOver, Look, WordChars, Letters, Space, Newline, Quote, Backslash
    <3> QED  BY <3>1, <3>2
  <2>2. Accept
      BY <1>7 DEF WordOver, FileOver, BlankOver
  <2> QED  BY <2>1, <2>2, <1>1, AcceptReads DEF p
<1>8. CASE WordMore
  <2>1. /\ mode = "word" /\ buf[cur] \in WordChars
        /\ cur' = cur + 1 /\ mark' = cur + 1 /\ mode' = "word" /\ acc' = "word" /\ UNCHANGED <<beg, val, toks>>
      BY <1>8 DEF WordMore, Look, Match
  <2>2. Told(t, "word", "word", Begun, p + 1, p + 1)
      BY <2>1, <1>2, <1>3, <1>4, <1>5, MoreTold
  <2>3. mark' = mark => Origin + mark = p + 1
      BY <2>1, <1>2 DEF p
  <2> QED  BY <2>1, <2>2, <2>3, <1>6
<1>9. CASE WordEnd
  <2>1. /\ mode = "word" /\ buf[cur] \in FileChars \ WordChars
        /\ cur' = cur + 1 /\ mark' = mark /\ mode' = "file" /\ acc' = acc /\ UNCHANGED <<beg, val, toks>>
      BY <1>9 DEF WordEnd, Look
  <2>2. Told(t, "file", acc, Begun, p + 1, Origin + mark)
      BY <2>1, <1>2, <1>3, <1>4, <1>5, MoreTold
  <2> QED  BY <2>1, <2>2, <1>6
<1>10. CASE FileMore
  <2>1. /\ mode = "file" /\ buf[cur] \in FileChars
        /\ cur' = cur + 1 /\ mark' = mark /\ mode' = "file" /\ acc' = acc /\ UNCHANGED <<beg, val, toks>>
      BY <1>10 DEF FileMore, Look, Pass
  <2>2. Told(t, "file", acc, Begun, p + 1, Origin + mark)
      BY <2>1, <1>2, <1>3, <1>4, <1>5, MoreTold
  <2> QED  BY <2>1, <2>2, <1>6
<1>11. CASE BlankMore
  <2>1. /\ mode \in {"blank", "line"} /\ buf[cur] = Space
        /\ cur' = cur + 1 /\ mark' = mark /\ mode' = mode /\ acc' = acc /\ UNCHANGED <<beg, val, toks>>
      BY <1>11 DEF BlankMore, Look, Pass
  <2>2. Told(t, mode, acc, Begun, p + 1, Origin + mark)
      BY <2>1, <1>2, <1>3, <1>4, <1>5, MoreTold DEF Blanks
  <2> QED  BY <2>1, <2>2, <1>6
<1>12. CASE FirstLine
  <2>1. /\ mode = "blank" /\ buf[cur] = Newline
        /\ cur' = cur + 1 /\ mark' = mark /\ mode' = "line" /\ acc' = acc /\ UNCHANGED <<beg, val, toks>>
      BY <1>12 DEF FirstLine, Look
  <2>2. Told(t, "line", acc, Begun, p + 1, Origin + mark)
      BY <2>1, <1>2, <1>3, <1>4, <1>5, MoreTold DEF Blanks
  <2> QED  BY <2>1, <2>2, <1>6
<1>13. CASE SecondLine
  <2>1. /\ mode = "line" /\ buf[cur] = Newline
        /\ cur' = cur + 1 /\ mark' = cur + 1 /\ mode' = "line" /\ acc' = "terminator" /\ UNCHANGED <<beg, val, toks>>
      BY <1>13 DEF SecondLine, Look, Match
  <2>2. Told(t, "line", "terminator", Begun, p + 1, p + 1)
      BY <2>1, <1>2, <1>3, <1>4, <1>5, MoreTold DEF Blanks
  <2>3. mark' = mark => Origin + mark = p + 1
      BY <2>1, <1>2 DEF p
  <2> QED  BY <2>1, <2>2, <2>3, <1>6
<1> QED
    BY <1>7, <1>8, <1>9, <1>10, <1>11, <1>12, <1>13 DEF Longer, Lines

LEMMA CommentReads ==
    ASSUME ScannerInv, AsTold, Comment
    PROVE  AsTold' /\ Reads
<1> DEFINE t == input.text
           p == Origin + cur
<1>1. mode = "comment" /\ ~MustFill /\ UNCHANGED source
    BY DEF Comment, CommentMore, CommentLine, CommentEnd, Look
<1>2. Len(t) \in Nat /\ p \in Nat /\ p <= Len(t) /\ Origin \in Int /\ cur \in Int /\ val = <<>> /\ Len(<<>>) = 0
  <2>1. Measured
      BY Lengths
  <2> QED  BY <2>1, <1>1, TextPlaces, EmptySeq DEF Measured, ScannerInv, Matching
<1>3. /\ buf[cur] # Nul => p + 1 <= Len(t) /\ t[p + 1] = buf[cur]
      /\ buf[cur] = Nul => p = Len(t)
    BY <1>1, LooksAtText
<1>4. input' = input /\ Origin' = Origin /\ Reached = p /\ Where = "comment"
    BY <1>1 DEF source, Origin, Reached, Where
<1>5. CASE CommentMore \/ CommentLine
  <2>1. /\ buf[cur] # Nul
        /\ cur' = cur + 1 /\ beg' = cur + 1 /\ val' = val /\ toks' = toks
        /\ mode' = IF buf[cur] = Newline THEN "next" ELSE "comment"
      BY <1>5 DEF CommentMore, CommentLine, Look, Skip, Chars, Letters, Space, Newline, Comma, Dash, Quote,
                  Backslash, Nul
  <2>2. AsTold'
      BY <2>1, <1>1, NothingTold
  <2>3. Reached' = p + 1 /\ Where' = IF t[p + 1] = Newline THEN "text" ELSE "comment"
      BY <2>1, <1>2, <1>3, <1>4 DEF Reached, Where, Begun
  <2> HIDE DEF p
  <2>4. Lex!CommentByte
      BY <2>1, <2>3, <1>2, <1>3, <1>4 DEF Lex!CommentByte
  <2> QED  BY <2>2, <2>4 DEF Reads, Lex!Exactly
<1>6. CASE CommentEnd
  <2>1. p = Len(t) /\ mode' = "done" /\ cur' = cur /\ val' = val /\ toks' = toks
      BY <1>6, <1>3 DEF CommentEnd, Look, pointers
  <2>2. AsTold'
      BY <2>1, <1>1, NothingTold
  <2>3. Reached' = p /\ Where' = "over"
      BY <2>1, <1>4 DEF Reached, Where
  <2>4. Lex!Finish
      BY <2>1, <2>3, <1>4 DEF Lex!Finish
  <2> QED  BY <2>2, <2>4 DEF Reads, Lex!Exactly
<1> QED  BY <1>5, <1>6 DEF Comment

\* In a string, which one quote opens and another closes.
LEMMA QuotedReads ==
    ASSUME ScannerInv, AsTold, Quoted
    PROVE  AsTold' /\ Reads
<1> DEFINE t == input.text
           a == Begun
           p == Origin + cur
<1>0. Measured
    BY Lengths
<1>1. mode = "quoted" /\ ~MustFill /\ UNCHANGED source
    BY DEF Quoted, Escaped, QuotedMore, Unclosed, CloseQuote, Look
<1>2. /\ Len(t) \in Nat /\ p \in Nat /\ a \in Nat /\ p <= Len(t) /\ Origin + mark \in Int
      /\ Origin \in Int /\ cur \in Int
    BY <1>0, TextPlaces DEF Measured
<1>3. /\ buf[cur] # Nul => p + 1 <= Len(t) /\ t[p + 1] = buf[cur]
      /\ buf[cur] = Nul => p = Len(t)
      /\ buf[cur] # Nul => \A c \in Chars : Has(t, p + 2, c) <=> buf[cur + 1] = c
    BY <1>1, LooksAtText
<1>4. Nul \notin Chars /\ Quote \in Chars /\ Backslash \in Chars /\ Quote # Backslash
    BY DEF Chars, Letters, Space, Newline, Comma, Dash, Quote, Backslash, Nul
<1>5. Told(t, "quoted", acc, a, p, Origin + mark)
    BY <1>1 DEF AsTold
<1>6. /\ a + 1 <= p /\ Has(t, a + 1, Quote) /\ ~Has(t, a + 2, Quote)
      /\ \A i \in a + 2 .. p : t[i] = Quote => t[i - 1] = Backslash
      /\ t[p] = Backslash => ~Has(t, p + 1, Quote)
    BY <1>5 DEF Told
<1>7. input' = input /\ Origin' = Origin /\ Reached = a /\ Where = "text"
    BY <1>1 DEF source, Origin, Reached, Where
<1> HIDE DEF p, a
<1>8. CASE Escaped
  <2>1. /\ p + 1 <= Len(t) /\ t[p + 1] = Backslash /\ Has(t, p + 2, Quote)
        /\ cur' = cur + 2 /\ UNCHANGED <<beg, mark, val, mode, acc, toks>>
      BY <1>8, <1>3, <1>4 DEF Escaped, Look
  <2>2. Told(t, "quoted", acc, a, p + 2, Origin + mark)
      BY <2>1, <1>2, <1>5, MoreTold
  <2>3. Origin + cur' = p + 2
      BY <2>1, <1>2 DEF p
  <2> QED  BY <2>1, <2>2, <2>3, <1>1, GoesOn DEF a
<1>9. CASE QuotedMore
  <2>1. /\ p + 1 <= Len(t) /\ t[p + 1] # Quote /\ ~Escapes(t, p)
        /\ cur' = cur + 1 /\ UNCHANGED <<beg, mark, val, mode, acc, toks>>
      BY <1>9, <1>3, <1>4 DEF QuotedMore, Pass, Look, Escapes, Has
  <2>2. Told(t, "quoted", acc, a, p + 1, Origin + mark)
      BY <2>1, <1>2, <1>5, MoreTold
  <2>3. Origin + cur' = p + 1
      BY <2>1, <1>2 DEF p
  <2> QED  BY <2>1, <2>2, <2>3, <1>1, GoesOn DEF a
<1>10. CASE Unclosed
  <2>1. p = Len(t) /\ mode' = "beyond" /\ UNCHANGED <<beg, val, toks>>
      BY <1>10, <1>3 DEF Unclosed, Look, pointers
  <2>2. AsTold'
      BY <2>1, <1>1, NothingTold
  <2>3. Reached' = a /\ Where' = "over"
      BY <2>1, <1>7 DEF Reached, Where, Begun, a
  <2>4. ASSUME NEW n \in a + 2 .. Len(t), t[n] = Quote
        PROVE  ~(\A i \in a + 2 .. n : t[i] = Quote => (i = n <=> t[i - 1] # Backslash))
      BY <2>1, <2>4, <1>2, <1>6
  <2>5. Lex!Unclosed
      BY <2>1, <2>3, <2>4, <1>6, <1>7 DEF Lex!Unclosed, Lex!Closes, Lex!Is, Has
  <2> QED  BY <2>2, <2>5 DEF Reads, Lex!Exactly
<1>11. CASE CloseQuote
  <2> DEFINE sz == cur + 1 - beg
             string == val \o Bytes(beg, cur + 1)
             count == IF sz >= 2 THEN sz - 2 ELSE Len(string)
  <2>1. /\ buf[cur] = Quote /\ Emit("quoted", Substr1(string, count), cur + 1)
      BY <1>11 DEF CloseQuote, Look
  <2>2. p + 1 <= Len(t) /\ t[p + 1] = Quote /\ cur < lim /\ cur + 1 \in beg .. lim
    <3>1. cur < lim
        BY <2>1, <1>1, <1>4, LooksInside
    <3> QED  BY <2>1, <3>1, <1>0, <1>3, <1>4 DEF Measured
  <2>3. /\ string = SubSeq(t, a + 1, p + 1)
        /\ Len(string) = p + 1 - a
    <3>1. PICK e \in beg .. lim : e = cur + 1
        BY <2>2
    <3>2. string = SubSeq(t, Begun + 1, Origin + e) /\ Len(string) = Origin + e - Begun
        BY <3>1, TokenIsPiece
    <3>3. Origin + e = p + 1 /\ Begun = a
        BY <3>1, <1>2 DEF p, a
    <3> HIDE DEF string
    <3>4. string = SubSeq(t, a + 1, p + 1)
        BY <3>2, <3>3
    <3>5. Len(string) = p + 1 - a
        BY <3>1, <3>2, <3>3, <1>2
    <3> QED  BY <3>4, <3>5
  <2>4. sz = p + 1 - a - Len(val) /\ Len(val) \in Nat
      BY <1>0, <1>2 DEF a, p, Begun, Measured
  <2>5. p + 1 - a < BufSize => Len(val) = 0
    <3>1. val # <<>> => Len(val) >= BufSize - 1
        BY DEF AsTold
    <3>2. val = <<>> => Len(val) = 0
        BY EmptySeq
    <3>3. 1 <= sz
        BY <2>2, <1>0 DEF Measured
    <3> HIDE DEF sz
    <3> QED  BY <3>1, <3>2, <3>3, <2>4, <1>0, <1>2 DEF Measured
  <2> HIDE DEF sz, string
  <2>6. count \in Nat /\ (p + 1 - a < BufSize => count = p - 1 - a)
    <3>1. sz \in Int /\ Len(string) \in Nat
        BY <2>3, <2>4, <1>2, <1>6
    <3>2. p + 1 - a < BufSize => sz = p + 1 - a
        BY <2>4, <2>5, <1>2
    <3>3. count \in Nat
        BY <3>1
    <3>4. p + 1 - a >= 2
        BY <1>2, <1>6
    <3> QED  BY <3>1, <3>2, <3>3, <3>4, <1>2
  <2> HIDE DEF count
  <2> DEFINE m == IF p + 1 - a < 1 + count THEN p + 1 ELSE a + 1 + count
  <2>7. m \in a + 1 .. p + 1 /\ (p + 1 - a < BufSize => m = p)
      BY <2>6, <1>2, <1>6
  <2>8. Substr1(string, count) = SubSeq(t, a + 2, m)
    <3> DEFINE k == IF p + 1 - a < 1 + count THEN p + 1 - a ELSE 1 + count
    <3>1. Substr1(string, count) = SubSeq(string, 2, k)
        BY <2>3 DEF Substr1, Smaller
    <3>2. k = m - a /\ k \in Nat /\ k <= p + 1 - a
        BY <2>6, <1>2, <1>6
    <3> HIDE DEF k, m
    <3>3. SubSeq(SubSeq(t, a + 1, p + 1), 2, k) = SubSeq(t, a + 2, a + k)
      <4>1. /\ t \in Seq(Chars) /\ a \in Nat /\ p + 1 \in Nat /\ k \in Nat
            /\ a <= p + 1 /\ p + 1 <= Len(t) /\ k <= (p + 1) - a
        <5>1. t \in Seq(Chars)
            BY DEF ScannerInv, Sequences_
        <5>2. a <= p + 1 /\ p + 1 \in Nat /\ (p + 1) - a = p + 1 - a
            BY <1>2, <1>6
        <5> QED  BY <5>1, <5>2, <3>2, <2>2, <1>2
      <4> QED  BY <4>1, SubOfSub
    <3>4. a + k = m
        BY <3>2, <2>7, <1>2
    <3> QED  BY <3>1, <3>3, <3>4, <2>3
  <2> HIDE DEF m
  <2>9. /\ beg' = cur + 1 /\ val' = <<>> /\ mode' = "next"
        /\ toks' = Append(toks, [kind |-> "quoted", text |-> SubSeq(t, a + 2, m)])
      BY <2>1, <2>8 DEF Emit
  <2>10. AsTold'
      BY <2>9, <1>1, NothingTold
  <2>11. Reached' = p + 1 /\ Where' = "text"
    <3>1. Len(<<>>) = 0
        OBVIOUS
    <3> QED  BY <2>9, <3>1, <1>2, <1>7 DEF Reached, Where, Begun, p
  <2>12. Lex!Closes(a, p + 1)
    <3>1. \A i \in a + 2 .. p + 1 : t[i] = Quote => (i = p + 1 <=> t[i - 1] # Backslash)
      <4> SUFFICES ASSUME NEW i \in a + 2 .. p + 1, t[i] = Quote
                   PROVE  i = p + 1 <=> t[i - 1] # Backslash
          OBVIOUS
      <4>1. CASE i = p + 1
        <5>1. t[p] # Backslash
            BY <2>2, <1>6 DEF Has
        <5> QED  BY <4>1, <5>1, <1>2
      <4>2. CASE i # p + 1
          BY <4>2, <1>2, <1>6
      <4> QED  BY <4>1, <4>2
    <3> QED  BY <2>2, <3>1 DEF Lex!Closes
  <2>13. Lex!Quoted(p + 1)
    <3>1. Lex!HandOver("quoted", SubSeq(t, a + 2, m), p + 1)
        BY <2>9, <2>11, <1>7 DEF Lex!HandOver
    <3>2. (p + 1) - a < BufSize => m = (p + 1) - 1
        BY <2>7, <1>2
    <3>3. \E n \in a + 1 .. p + 1 :
            /\ (p + 1) - a < BufSize => n = (p + 1) - 1
            /\ Lex!HandOver("quoted", SubSeq(t, a + 2, n), p + 1)
        BY <2>7, <3>1, <3>2
    <3> QED  BY <3>3, <2>12, <1>6, <1>7 DEF Lex!Quoted, Lex!Is, Has
  <2>14. p + 1 \in a + 1 .. Len(t)
      BY <2>2, <1>2, <1>6
  <2>15. Lex!Exactly
      BY <2>13, <2>14, <1>7 DEF Lex!Exactly
  <2> QED  BY <2>10, <2>15 DEF Reads
<1> QED  BY <1>8, <1>9, <1>10, <1>11 DEF Quoted

LEMMA TextInit == Init => AsTold /\ Lex!Init
<1> SUFFICES ASSUME Init PROVE AsTold /\ Lex!Init
    OBVIOUS
<1>1. ScannerInv
    BY ScannerInit
<1>2. mode = "next" /\ val = <<>> /\ eof = NoEof /\ toks = <<>> /\ beg = 0
    BY DEF Init
<1>3. eof # lim
    BY <1>1, <1>2 DEF ScannerInv, TypeOK, NoEof
<1>4. AsTold
    BY <1>2, <1>3 DEF AsTold, Told
<1>5. Begun = 0
  <2> DEFINE n == Smaller(Len(input.text), BufSize - 1)
  <2>1. lim = n /\ rest = SubSeq(input.text, n + 1, Len(input.text))
      BY DEF Init
  <2>2. Len(input.text) \in Nat /\ n \in 0 .. Len(input.text)
      BY <1>1, TextPlaces, BufSizeAssumption DEF Smaller
  <2>3. Len(rest) = Len(input.text) - n
    <3> HIDE DEF n
    <3>1. \A i \in n + 1 .. Len(input.text) : input.text[i] \in Chars
        BY <1>1, <2>2, ElementOfSeq DEF ScannerInv, Sequences_
    <3> QED  BY <2>1, <2>2, <3>1, SubSeqProperties
  <2> HIDE DEF n
  <2>4. Len(val) = 0
      BY <1>2, EmptySeq
  <2> QED  BY <1>2, <2>1, <2>2, <2>3, <2>4 DEF Begun, Origin
<1> QED  BY <1>2, <1>4, <1>5 DEF Lex!Init, Reached, Where

LEMMA StepReads == ScannerInv /\ TokensFit /\ AsTold /\ [Next]_vars => AsTold' /\ Reads
<1> SUFFICES ASSUME ScannerInv, TokensFit, AsTold, [Next]_vars
             PROVE  AsTold' /\ Reads
    OBVIOUS
<1>1. CASE UNCHANGED vars
  <2>1. AsTold'
      BY <1>1 DEF vars, AsTold, Told, Begun, Origin
  <2>2. UNCHANGED Lex!vars
      BY <1>1 DEF vars, Lex!vars, Reached, Where, Begun, Origin
  <2> QED  BY <2>1, <2>2 DEF Reads
<1>2. CASE Shift \/ Overflow
    BY <1>2, FillReads
<1>3. CASE Root
    BY <1>3, RootReads
<1>4. CASE Longer \/ Lines
    BY <1>4, LongerReads
<1>5. CASE Comment
    BY <1>5, CommentReads
<1>6. CASE Quoted
    BY <1>6, QuotedReads
<1> QED  BY <1>1, <1>2, <1>3, <1>4, <1>5, <1>6 DEF Next, Step, Done

LEMMA AlwaysTold == Spec /\ []TokensFit => [](ScannerInv /\ AsTold)
<1>1. Init => AsTold
    BY TextInit
<1>2. ScannerInv /\ TokensFit /\ AsTold /\ [Next]_vars => AsTold'
    BY StepReads
<1> QED  BY <1>1, <1>2, BufferKept, PTL DEF Spec

\* Whatever the buffer does, the scanner reads its text once and in order, and
\* what it hands over is what the text has there, but for a word or a comma that
\* takes in the bytes after it, as long as these could be the name of a file (scan(), fill()).
THEOREM ScannerReads == Spec /\ []TokensFit => Lex!Spec
<1>1. Init => Lex!Init
    BY TextInit
<1>2. ScannerInv /\ TokensFit /\ AsTold /\ [Next]_vars => [Lex!Exactly \/ Lex!Astray]_(Lex!vars)
    BY StepReads DEF Reads
<1> QED  BY <1>1, <1>2, AlwaysTold, PTL DEF Spec, Lex!Spec

\* Where fill() loses no marker: it comes while a name of a file is tried only
\* before the matcher has gone on past the word or comma that it may begin with.
MarkKept == MustFill /\ mode = "file" /\ acc \in {"word", "comma"} => mark = cur

LEMMA MatchKept ==
    ScannerInv /\ TokensFit /\ AsTold /\ MatchTold /\ MarkKept /\ [Next]_vars => MatchTold'
<1> SUFFICES ASSUME ScannerInv, TokensFit, AsTold, MatchTold, MarkKept, [Next]_vars, mode' = "file"
             PROVE  /\ acc' = "word" => Of(input'.text, WordChars, Begun', Origin' + mark')
                    /\ acc' = "comma" => Origin' + mark' = Begun' + 1
    BY DEF MatchTold
<1>0. Begun \in Nat /\ Origin \in Int /\ Origin + cur \in Nat /\ cur \in Int
  <2>1. Measured
      BY Lengths
  <2> QED  BY <2>1, TextPlaces DEF Measured
<1>1. CASE UNCHANGED <<input, lim, rest, beg, val, mode, acc, mark>>
    BY <1>1 DEF MatchTold, Begun, Origin
<1>2. CASE Shift \/ Overflow
  <2>1. /\ Begun' = Begun /\ Origin' + cur' = Origin + cur /\ mark' = cur'
        /\ UNCHANGED <<input, mode, acc>>
      BY <1>2, FillStays
  <2>2. MustFill
      BY <1>2 DEF Shift, Overflow
  <2>3. acc \in {"word", "comma"} => Origin' + mark' = Origin + mark
      BY <2>1, <2>2 DEF MarkKept
  <2> QED  BY <2>1, <2>3 DEF MatchTold
<1>3. CASE ListComma \/ DoubleDash \/ LoneDash
  <2>1. /\ mode = "next" /\ UNCHANGED source /\ UNCHANGED <<beg, val>> /\ mark' = cur' 
        /\ acc' = "comma" => cur' = cur + 1
        /\ acc' # "word"
      BY <1>3 DEF ListComma, DoubleDash, LoneDash, Look, Match
  <2>2. Begun' = Origin + cur /\ Origin' = Origin
      BY <2>1, TextPlaces DEF source, Begun, Origin
  <2> QED  BY <2>1, <2>2, <1>0
<1>4. CASE WordEnd
  <2>1. mode = "word" /\ UNCHANGED source /\ UNCHANGED <<beg, mark, val, acc>>
      BY <1>4 DEF WordEnd, Look
  <2>2. acc = "word" /\ Of(input.text, WordChars, Begun, Origin + mark)
      BY <2>1 DEF AsTold, Told
  <2> QED  BY <2>1, <2>2 DEF source, Begun, Origin
<1>5. CASE FileMore
    BY <1>5, <1>1 DEF FileMore, Look, Pass, source
<1> QED
    BY <1>1, <1>2, <1>3, <1>4, <1>5
       DEF Next, Step, Done, vars, Root, Blank, Line, Word, EscapedQuote, EmptyString, OpenQuote, Finish,
           Longer, WordMore, WordOver, FileOver, Lines, BlankMore, FirstLine, SecondLine, BlankOver,
           Comment, CommentMore, CommentLine, CommentEnd, Quoted, Escaped, QuotedMore, Unclosed, CloseQuote,
           Look, Match, Pass, Skip, Emit, Accept

\* Where no marker is lost, a buffer of any size shows in nothing that the scanner
\* reads: what it hands over, passes over and refuses is what the text has there.
THEOREM ScannerReadsText == Spec /\ []TokensFit /\ []MarkKept => ReadsText
<1>1. Init => Lex!Init /\ MatchTold
    BY TextInit DEF Init, MatchTold
<1>2. ScannerInv /\ TokensFit /\ AsTold /\ MatchTold /\ MarkKept /\ [Next]_vars => MatchTold'
    BY MatchKept
<1>3. ScannerInv /\ TokensFit /\ AsTold /\ MatchTold /\ [Next]_vars => [Lex!Exactly]_(Lex!vars)
    BY StepReads DEF Reads
<1> QED  BY <1>1, <1>2, <1>3, AlwaysTold, PTL DEF Spec, ReadsText, Lex!ExactSpec

-----------------------------------------------------------------------------
(* Texts in which no marker is lost. *)

\* No comma or dash comes right after a word, and no byte of a word right after a comma.
Spaced ==
    \A i \in Inputs : \A k \in 1 .. Len(i.text) : k < Len(i.text) =>
        /\ i.text[k] \in WordChars => i.text[k + 1] \notin FileChars \ WordChars
        /\ i.text[k] = Comma => i.text[k + 1] \notin FileChars

\* The matcher never goes on past a word or a comma.
Stopped ==
    /\ input \in Inputs
    /\ mode = "file" /\ acc \in {"word", "comma"} => acc = "comma" /\ mark = cur

LEMMA InputStays == [Next]_vars => input' = input
<1>1. Shift \/ Overflow => input' = input
    BY DEF Shift, Overflow
<1>2. Look(mode, buf[cur]) => input' = input
    BY DEF Look, source
<1>3. Root \/ Longer \/ Lines \/ Comment \/ Quoted => Look(mode, buf[cur])
    BY DEF Look, Root, Blank, Line, Word, ListComma, DoubleDash, LoneDash, EscapedQuote, EmptyString,
           OpenQuote, Finish, Longer, WordMore, WordEnd, WordOver, FileMore, FileOver, Lines, BlankMore,
           FirstLine, SecondLine, BlankOver, Comment, CommentMore, CommentLine, CommentEnd, Quoted, Escaped,
           QuotedMore, Unclosed, CloseQuote
<1> QED  BY <1>1, <1>2, <1>3 DEF Next, Step, Done, vars

LEMMA StaysStopped ==
    ASSUME Spaced
    PROVE  ScannerInv /\ TokensFit /\ AsTold /\ MatchTold /\ Stopped /\ [Next]_vars => Stopped'
<1> SUFFICES ASSUME ScannerInv, TokensFit, AsTold, MatchTold, Stopped, [Next]_vars,
                    mode' = "file", acc' \in {"word", "comma"}
             PROVE  acc' = "comma" /\ mark' = cur'
  BY InputStays DEF Stopped
<1> DEFINE t == input.text
           a == Begun
           p == Origin + cur
<1>0. a \in Nat /\ p \in Nat /\ Len(t) \in Nat /\ p <= Len(t) /\ input \in Inputs
    BY TextPlaces DEF Stopped
<1>1. Told(t, mode, acc, a, p, Origin + mark)
    BY DEF AsTold
<1>2. mode \in {"word", "file"} /\ ~MustFill /\ buf[cur] # Nul => p + 1 <= Len(t) /\ t[p + 1] = buf[cur]
    BY LooksAtText
<1>3. Nul \notin FileChars
    BY DEF FileChars, Letters, Comma, Dash, Backslash, Nul
<1> HIDE DEF p, a
<1>4. CASE UNCHANGED <<mode, acc, mark, cur>>
    BY <1>4 DEF Stopped
<1>5. CASE Shift \/ Overflow
    BY <1>5, FillStays DEF Stopped
<1>6. CASE ListComma \/ DoubleDash \/ LoneDash
    BY <1>6 DEF ListComma, DoubleDash, LoneDash, Match
<1>7. CASE WordEnd
  <2>1. mode = "word" /\ p + 1 <= Len(t) /\ t[p + 1] \in FileChars \ WordChars
      BY <1>7, <1>2, <1>3 DEF WordEnd, Look
  <2>2. a < p /\ Of(t, WordChars, a, p)
      BY <2>1, <1>1 DEF Told
  <2>3. p \in 1 .. Len(t) /\ p < Len(t) /\ t[p] \in WordChars
      BY <2>1, <2>2, <1>0 DEF Of
  <2> QED  BY <2>1, <2>3, <1>0 DEF Spaced
<1>8. CASE FileMore
  <2>1. mode = "file" /\ p + 1 <= Len(t) /\ t[p + 1] \in FileChars /\ acc' = acc
      BY <1>8, <1>2, <1>3 DEF FileMore, Look, Pass
  <2>2. acc = "comma" /\ mark = cur
      BY <2>1 DEF Stopped
  <2>3. p = a + 1 /\ Has(t, a + 1, Comma)
      BY <2>1, <2>2, <1>1 DEF MatchTold, Told, p, a
  <2>4. p \in 1 .. Len(t) /\ p < Len(t) /\ t[p] = Comma
      BY <2>1, <2>3, <1>0 DEF Has
  <2> QED  BY <2>1, <2>4, <1>0 DEF Spaced
<1> QED
    BY <1>4, <1>5, <1>6, <1>7, <1>8
       DEF Next, Step, Done, vars, Root, Blank, Line, Word, EscapedQuote, EmptyString, OpenQuote, Finish,
           Longer, WordMore, WordOver, FileOver, Lines, BlankMore, FirstLine, SecondLine, BlankOver,
           Comment, CommentMore, CommentLine, CommentEnd, Quoted, Escaped, QuotedMore, Unclosed, CloseQuote,
           Look, Match, Pass, Skip, Emit, Accept

\* Of a text whose tokens fit and stand apart the scanner reads every token,
\* whatever the size of the buffer and wherever its ends fall.
THEOREM SpacedTextIsRead ==
    ASSUME ShortTokens, Spaced
    PROVE  Spec => ReadsText
<1>1. Init => Stopped /\ MatchTold
    BY DEF Init, Stopped, MatchTold
<1>2. Stopped => MarkKept
    BY DEF Stopped, MarkKept
<1>3. ScannerInv /\ TokensFit /\ AsTold /\ MatchTold /\ MarkKept /\ [Next]_vars => MatchTold'
    BY MatchKept
<1>4. ScannerInv /\ TokensFit /\ AsTold /\ MatchTold /\ Stopped /\ [Next]_vars => Stopped'
    BY StaysStopped
<1> QED  BY <1>1, <1>2, <1>3, <1>4, ShortTokensFit, AlwaysTold, ScannerReadsText, PTL DEF Spec

\* The first read takes the whole text, the text does not end like the name of a
\* file, and no dash comes right after a word, which with it might be a scheme.
InOneRead ==
    \A i \in Inputs :
        /\ Len(i.text) < BufSize
        /\ Len(i.text) > 0 => i.text[Len(i.text)] \notin FileChars
        /\ \A k \in 1 .. Len(i.text) - 1 : i.text[k] \in WordChars => i.text[k + 1] # Dash

ReadWhole ==
    /\ input \in Inputs /\ rest = <<>>
    /\ mode = "file" => ~scheme

LEMMA WholeKeepsMark == InOneRead /\ ScannerInv /\ AsTold /\ ReadWhole => MarkKept
<1> SUFFICES ASSUME InOneRead, ScannerInv, AsTold, ReadWhole, MustFill, mode = "file" PROVE FALSE
    BY DEF MarkKept
<1> DEFINE t == input.text
           p == Origin + cur
<1>0. Measured
    BY Lengths
<1>1. cur = lim
  <2>1. Needed = 1
      BY DEF Needed, ReadWhole
  <2> QED  BY <1>0, <2>1 DEF MustFill, Measured
<1>2. Len(rest) = 0
    BY EmptySeq DEF ReadWhole
<1>3. p = Len(t) /\ Begun \in Nat /\ Len(t) \in Nat
    BY <1>0, <1>1, <1>2, TextPlaces DEF Measured
<1>4. Origin + mark \in Int
    BY TextPlaces
<1>5. Begun < p /\ Of(t, FileChars, Begun, p)
  <2>1. Begun < Origin + mark /\ Origin + mark <= p /\ Of(t, FileChars, Begun, p)
      BY DEF AsTold, Told
  <2> HIDE DEF p
  <2> QED  BY <2>1, <1>3, <1>4
<1> HIDE DEF p
<1>6. Len(t) > 0 /\ t[Len(t)] \in FileChars
    BY <1>3, <1>5 DEF Of
<1> QED  BY <1>6 DEF InOneRead, ReadWhole

LEMMA StaysWhole ==
    InOneRead /\ ScannerInv /\ TokensFit /\ AsTold /\ ReadWhole /\ [Next]_vars => ReadWhole'
<1> SUFFICES ASSUME InOneRead, ScannerInv, TokensFit, AsTold, ReadWhole, [Next]_vars PROVE ReadWhole'
    OBVIOUS
<1>1. CASE Shift \/ Overflow
  <2>1. scheme' = scheme
      BY <1>1 DEF Shift, Overflow
  <2> QED  BY <1>1, <2>1, FillStays DEF ReadWhole
<1>2. CASE UNCHANGED <<input, rest, mode, scheme>>
    BY <1>2 DEF ReadWhole
<1>3. ASSUME UNCHANGED <<input, rest>>, mode' # "file" PROVE ReadWhole'
    BY <1>3 DEF ReadWhole
<1>4. CASE ListComma \/ DoubleDash \/ LoneDash
  <2>1. UNCHANGED <<input, rest>>
      BY <1>4 DEF ListComma, DoubleDash, LoneDash, Look, source
  <2>2. PICK c \in {Comma, Dash} : scheme' = Scheme("next", c)
      BY <1>4 DEF ListComma, DoubleDash, LoneDash, Look
  <2>3. c \notin Letters
      BY DEF Letters, Comma, Dash
  <2>4. ~scheme'
    <3>1. ~Scheme("next", c)
        BY <2>3 DEF Scheme
    <3> QED  BY <2>2, <3>1
  <2> QED  BY <2>1, <2>4 DEF ReadWhole
<1>5. CASE WordEnd
  <2> DEFINE t == input.text
             a == Begun
             p == Origin + cur
  <2>0. a \in Nat /\ p \in Nat /\ Len(t) \in Nat /\ p <= Len(t) /\ input \in Inputs
      BY TextPlaces DEF ReadWhole
  <2>1. Told(t, mode, acc, a, p, Origin + mark)
      BY DEF AsTold
  <2>2. PICK c \in FileChars \ WordChars :
            mode = "word" /\ ~MustFill /\ buf[cur] = c /\ UNCHANGED <<input, rest>> /\ scheme' = Scheme("word", c)
      BY <1>5 DEF WordEnd, Look, source
  <2>3. Nul \notin FileChars
      BY DEF FileChars, Letters, Comma, Dash, Backslash, Nul
  <2>4. p + 1 <= Len(t) /\ t[p + 1] = c
      BY <2>2, <2>3, LooksAtText
  <2> HIDE DEF p, a
  <2>5. a < p /\ Of(t, WordChars, a, p)
      BY <2>1, <2>2 DEF Told
  <2>6. p \in 1 .. Len(t) - 1 /\ t[p] \in WordChars
      BY <2>0, <2>4, <2>5 DEF Of
  <2>7. c # Dash
      BY <2>0, <2>4, <2>6 DEF InOneRead
  <2>8. c \notin SchemeChars
      BY <2>2, <2>7 DEF SchemeChars, WordChars
  <2>9. ~scheme'
      BY <2>2, <2>8 DEF Scheme
  <2> QED  BY <2>2, <2>9 DEF ReadWhole
<1>6. CASE FileMore
  <2>1. PICK c : mode = "file" /\ scheme' = Scheme("file", c) /\ UNCHANGED <<input, rest, mode>>
      BY <1>6 DEF FileMore, Look, Pass, source
  <2>2. ~scheme
      BY <2>1 DEF ReadWhole
  <2>3. ~scheme'
      BY <2>1, <2>2 DEF Scheme
  <2> QED  BY <2>1, <2>2, <2>3 DEF ReadWhole
<1> QED
    BY <1>1, <1>2, <1>3, <1>4, <1>5, <1>6
       DEF Match, Pass, Skip, Emit, Accept, Next, Step, Done, vars, source, Look, Root, Blank, Line, Word,
           EscapedQuote, EmptyString, OpenQuote, Finish, Longer, WordMore, WordEnd, WordOver, FileMore,
           FileOver, Lines, BlankMore, FirstLine, SecondLine, BlankOver, Comment, CommentMore, CommentLine,
           CommentEnd, Quoted, Escaped, QuotedMore, Unclosed, CloseQuote

LEMMA WholeInit == InOneRead /\ Init => ReadWhole
<1> SUFFICES ASSUME InOneRead, Init PROVE rest = <<>>
    BY DEF Init, ReadWhole
<1>1. Len(input.text) \in Nat /\ input.text \in Seq(Chars) /\ Len(input.text) < BufSize
  <2>1. ScannerInv
      BY ScannerInit
  <2> QED  BY <2>1, TextPlaces DEF Init, InOneRead, ScannerInv, Sequences_
<1> DEFINE n == Len(input.text)
<1>2. Smaller(n, BufSize - 1) = n
    BY <1>1, BufSizeAssumption DEF Smaller
<1>3. rest = SubSeq(input.text, n + 1, n)
    BY <1>2 DEF Init
<1>4. Len(rest) = 0 /\ rest \in Seq(Chars)
  <2>1. \A i \in n + 1 .. n : input.text[i] \in Chars
      BY <1>1
  <2> QED  BY <1>1, <1>3, <2>1, SubSeqProperties
<1> QED  BY <1>4, EmptySeq

\* Of a text that one read takes in, that does not end like the name of a file and
\* that has no dash right after a word the scanner reads every token, commas right
\* after their words among them.
THEOREM ShortTextIsRead ==
    ASSUME ShortTokens, InOneRead
    PROVE  Spec => ReadsText
<1>1. Init => ReadWhole
    BY WholeInit
<1>2. ScannerInv /\ TokensFit /\ AsTold /\ ReadWhole /\ [Next]_vars => ReadWhole'
    BY StaysWhole
<1>3. ScannerInv /\ AsTold /\ ReadWhole => MarkKept
    BY WholeKeepsMark
<1> QED  BY <1>1, <1>2, <1>3, ShortTokensFit, AlwaysTold, ScannerReadsText, PTL DEF Spec

=============================================================================
