------------------------------ MODULE Scanner ------------------------------
(***************************************************************************)
(* The scanner of TAGL statements that are read from an evbuffer: a buffer *)
(* of BUF_SZ bytes with the pointers _beg, _cur, _mark, _lim and _eof into *)
(* it, refilled by fill() whenever the generated matcher finds fewer bytes *)
(* before _lim than it may read without another check, and a string _val   *)
(* for the part of a token that no longer fits.  A pointer is an index of  *)
(* the buffer.  One action reads one byte, or two where a rule of two      *)
(* bytes starts with the first.  The alphabet is cut to one member of each *)
(* class of bytes that the rules tell apart.  No text has the colon of a   *)
(* URI, but the rules for URIs decide how far ahead the matcher asks.      *)
(***************************************************************************)
EXTENDS Integers, Sequences

CONSTANTS
    BufSize,        \* BUF_SZ
    Inputs          \* [text, tokens]: what is scanned and the tokens it consists of

\* The buffer holds what the matcher asks for at the start of a token.
ASSUME BufSizeAssumption == BufSize \in Nat /\ BufSize >= 7

Letters == {"w", "x"}
Space == "space"
Newline == "newline"
Comma == ","
Dash == "-"
Quote == "quote"
Backslash == "backslash"
Nul == "nul"
Beyond == "beyond"      \* what is read one byte past the end of the buffer

Chars == Letters \cup {Space, Newline, Comma, Dash, Quote, Backslash}
WordChars == Letters \cup {Backslash}
Blanks == {Space, Newline}

ASSUME InputsAssumption == \A i \in Inputs : i.text \in Seq(Chars)

\* The bytes of the rule TAGL_FILE, which go on past the end of another token.
FileChars == Letters \cup {Comma, Dash, Backslash}

\* The bytes of a URI_SCHEME after its first letter.
SchemeChars == Letters \cup {Dash}

NoEof == -1

VARIABLES
    input,      \* the member of Inputs that is scanned
    buf,        \* _buf
    beg,        \* _beg: first byte of the token
    cur,        \* _cur: the byte to be read next
    mark,       \* _mark: the end of the longest match so far
    lim,        \* _lim: end of what has been read into the buffer
    eof,        \* _eof: end of the input, once it is known
    val,        \* _val: the part of the token that has left the buffer
    rest,       \* what the evbuffer still holds
    mode,       \* where the generated matcher is
    scheme,     \* what has been matched may go on as the scheme of a URI
    acc,        \* the rule of the longest match so far
    filled,     \* fill() has answered the look that comes next
    toks        \* what has been handed to the parser

pointers == <<beg, cur, mark>>
source == <<input, buf, lim, eof, rest>>
vars == <<input, buf, beg, cur, mark, lim, eof, val, rest, mode, scheme, acc, filled, toks>>

Smaller(m, n) == IF m < n THEN m ELSE n

\* The bytes of the buffer from i up to, without, j.
Bytes(i, j) == [k \in 1 .. j - i |-> buf[i + k - 1]]

\* std::string::substr(1, count)
Substr1(s, count) == SubSeq(s, 2, Smaller(Len(s), 1 + count))

-----------------------------------------------------------------------------
\* driver::execute(evbuffer): the first read is a byte shorter than the buffer.
Init ==
    /\ input \in Inputs
    /\ LET n == Smaller(Len(input.text), BufSize - 1) IN
        /\ buf = [i \in 0 .. BufSize |-> IF i < n THEN input.text[i + 1]
                                         ELSE IF i < BufSize THEN Nul ELSE Beyond]
        /\ lim = n
        /\ rest = SubSeq(input.text, n + 1, Len(input.text))
    /\ beg = 0 /\ cur = 0 /\ mark = 0
    /\ eof = NoEof
    /\ val = <<>>
    /\ mode = "next"
    /\ scheme = FALSE
    /\ acc = "none"
    /\ filled = FALSE
    /\ toks = <<>>

\* YYFILL(n): how many bytes the matcher asks for before it looks.  It checks at
\* the start of a block of rules and in every loop of its automaton, for the
\* longest way from there to the next loop: `hd://` and two bytes at the start of
\* a token, `://` and two bytes in what may be a scheme, `\"` in a string, a line
\* break of two bytes in a comment, and one byte in the other loops.
Needed ==
    CASE mode = "next" -> 7
      [] mode \in {"word", "file"} /\ scheme -> 5
      [] mode \in {"quoted", "comment"} -> 2
      [] OTHER -> 1

MustFill == mode # "done" /\ ~filled /\ eof = NoEof /\ lim - cur < Needed

\* Mutant: a short read is not ended with the NUL.
ReadMore_NoSentinel(kept) ==
    LET offset == Len(kept)
        n == Smaller(BufSize - offset, Len(rest))
        end == offset + n
    IN  /\ buf' = [i \in 0 .. BufSize |-> IF i < offset THEN kept[i + 1]
                                          ELSE IF i < end THEN rest[i - offset + 1] ELSE buf[i]]
        /\ lim' = end
        /\ eof' = IF end < BufSize THEN end ELSE NoEof
        /\ rest' = SubSeq(rest, n + 1, Len(rest))

\* fill(), its second half: evbuffer_remove() after the bytes that are kept.
ReadMore(kept) ==
    LET offset == Len(kept)
        n == Smaller(BufSize - offset, Len(rest))
        end == offset + n
    IN  /\ buf' = [i \in 0 .. BufSize |-> IF i < offset THEN kept[i + 1]
                                          ELSE IF i < end THEN rest[i - offset + 1]
                                          ELSE IF i = end /\ i < BufSize THEN Nul
                                          ELSE buf[i]]
        /\ lim' = end
        /\ eof' = IF end < BufSize THEN end ELSE NoEof
        /\ rest' = SubSeq(rest, n + 1, Len(rest))

\* Mutant: the token is moved, the cursor stays where it was.
Shift_CursorStays ==
    /\ MustFill
    /\ lim - beg < BufSize
    /\ ReadMore(Bytes(beg, lim))
    /\ beg' = 0
    /\ mark' = cur
    /\ filled' = TRUE
    /\ UNCHANGED <<input, cur, val, mode, scheme, acc, toks>>

\* fill() where the token leaves room in the buffer: it is moved to the front.
Shift ==
    /\ MustFill
    /\ lim - beg < BufSize
    /\ ReadMore(Bytes(beg, lim))
    /\ cur' = cur - beg
    /\ beg' = 0
    /\ mark' = cur'
    /\ filled' = TRUE
    /\ UNCHANGED <<input, val, mode, scheme, acc, toks>>

\* Mutant: the byte that is kept goes to _val, too.
Overflow_WholeBuffer ==
    /\ MustFill
    /\ lim - beg >= BufSize
    /\ val' = val \o Bytes(0, BufSize)
    /\ ReadMore(<<buf[cur]>>)
    /\ cur' = 0
    /\ beg' = 0
    /\ mark' = 0
    /\ filled' = TRUE
    /\ UNCHANGED <<input, mode, scheme, acc, toks>>

\* fill() where the token takes the whole buffer: all but the last byte of the
\* buffer goes to _val, and of what is left only the byte at _cur is kept.
Overflow ==
    /\ MustFill
    /\ lim - beg >= BufSize
    /\ val' = val \o Bytes(0, BufSize - 1)
    /\ ReadMore(<<buf[cur]>>)
    /\ cur' = 0
    /\ beg' = 0
    /\ mark' = 0
    /\ filled' = TRUE
    /\ UNCHANGED <<input, mode, scheme, acc, toks>>

-----------------------------------------------------------------------------
\* Does what has been matched, with the byte c that is looked at, go on as a scheme?
Scheme(m, c) == IF m = "next" THEN c \in Letters ELSE scheme /\ c \in SchemeChars

\* The matcher looks at byte c in mode m.
Look(m, c) ==
    /\ mode = m
    /\ ~MustFill
    /\ buf[cur] = c
    /\ scheme' = Scheme(m, c)
    /\ filled' = FALSE
    /\ UNCHANGED source

\* It has a match of rule r that ends after the n bytes it looks at, and goes on in mode m.
Match(r, n, m) ==
    /\ acc' = r
    /\ cur' = cur + n
    /\ mark' = cur'
    /\ mode' = m
    /\ UNCHANGED <<beg, val, toks>>

\* Mutant: every byte that the matcher passes counts as matched.
Pass_Marks == cur' = cur + 1 /\ mark' = cur' /\ UNCHANGED <<beg, val, mode, acc, toks>>

\* It goes on past a byte without a longer match.
Pass == cur' = cur + 1 /\ UNCHANGED <<beg, mark, val, mode, acc, toks>>

\* Mutant: the beginning of the token stays where it was.
Skip_BeginStays(e, m) ==
    /\ cur' = e
    /\ mode' = m
    /\ UNCHANGED <<beg, mark, val, acc, toks>>

\* advance_begin() after a match that ends at e; the next look is in mode m.
Skip(e, m) ==
    /\ cur' = e
    /\ beg' = e
    /\ mode' = m
    /\ UNCHANGED <<mark, val, acc, toks>>

\* emit(): the token that ends at e.
Emit(kind, text, e) ==
    /\ toks' = Append(toks, [kind |-> kind, text |-> text])
    /\ cur' = e
    /\ beg' = e
    /\ val' = <<>>
    /\ mode' = "next"
    /\ UNCHANGED <<mark, acc>>

\* The matcher has seen all it can: it goes back to the end of the longest match.
Accept ==
    \/ acc = "word" /\ Emit("word", val \o Bytes(beg, mark), mark)
    \/ acc = "comma" /\ Emit("comma", <<>>, mark)
    \/ acc = "terminator" /\ Emit("terminator", <<>>, mark)
    \/ acc = "blank" /\ Skip(mark, "next")
    \/ acc = "comment" /\ cur' = mark /\ mode' = "comment"
       /\ UNCHANGED <<beg, mark, val, acc, toks>>
    \/ acc = "error" /\ cur' = mark /\ mode' = "done"
       /\ UNCHANGED <<beg, mark, val, acc, toks>>

-----------------------------------------------------------------------------
\* tagl_root, the first byte of a token.
Blank == Look("next", Space) /\ Match("blank", 1, "blank")
Line == Look("next", Newline) /\ Match("blank", 1, "line")
Word ==
    \E c \in WordChars :
        /\ Look("next", c)
        /\ c = Backslash => buf[cur + 1] # Quote
        /\ Match("word", 1, "word")
ListComma == Look("next", Comma) /\ Match("comma", 1, "file")
DoubleDash == Look("next", Dash) /\ buf[cur + 1] = Dash /\ Match("comment", 2, "file")
LoneDash == Look("next", Dash) /\ buf[cur + 1] # Dash /\ Match("error", 1, "file")
EscapedQuote ==
    /\ Look("next", Backslash)
    /\ buf[cur + 1] = Quote
    /\ cur' = cur + 2
    /\ mode' = "done"
    /\ UNCHANGED <<beg, mark, val, acc, toks>>
EmptyString == Look("next", Quote) /\ buf[cur + 1] = Quote /\ Emit("empty", <<>>, cur + 2)
OpenQuote ==
    /\ Look("next", Quote)
    /\ buf[cur + 1] # Quote
    /\ cur' = cur + 1
    /\ mode' = "quoted"
    /\ UNCHANGED <<beg, mark, val, acc, toks>>
Finish == Look("next", Nul) /\ mode' = "done" /\ UNCHANGED <<pointers, val, acc, toks>>

\* A word goes on; so may the name of a file that starts with it.
WordMore == \E c \in WordChars : Look("word", c) /\ Match("word", 1, "word")
WordEnd ==
    \E c \in FileChars \ WordChars :
        /\ Look("word", c)
        /\ cur' = cur + 1
        /\ mode' = "file"
        /\ UNCHANGED <<beg, mark, val, acc, toks>>
WordOver == \E c \in {Space, Newline, Quote, Nul} : Look("word", c) /\ Accept

\* The name of a file: it would be a longer match if it ended in ".tagl".
FileMore == \E c \in FileChars : Look("file", c) /\ Pass
FileOver == \E c \in {Space, Newline, Quote, Nul} : Look("file", c) /\ Accept

\* ([ \t\r]*[\n]){2,}: blanks and newlines, a terminator from the second newline on.
BlankMore == \E m \in {"blank", "line"} : Look(m, Space) /\ Pass
FirstLine ==
    /\ Look("blank", Newline)
    /\ cur' = cur + 1
    /\ mode' = "line"
    /\ UNCHANGED <<beg, mark, val, acc, toks>>
SecondLine == Look("line", Newline) /\ Match("terminator", 1, "line")
BlankOver ==
    \E m \in {"blank", "line"} : \E c \in (Chars \ Blanks) \cup {Nul} : Look(m, c) /\ Accept

\* tagl_comment
CommentMore == \E c \in Chars \ {Newline} : Look("comment", c) /\ Skip(cur + 1, "comment")
CommentLine == Look("comment", Newline) /\ Skip(cur + 1, "next")
CommentEnd == Look("comment", Nul) /\ mode' = "done" /\ UNCHANGED <<pointers, val, acc, toks>>

\* tagl_quoted
Escaped ==
    /\ Look("quoted", Backslash)
    /\ buf[cur + 1] = Quote
    /\ cur' = cur + 2
    /\ UNCHANGED <<beg, mark, val, mode, acc, toks>>
QuotedMore ==
    \E c \in Chars \ {Quote} :
        /\ Look("quoted", c)
        /\ c = Backslash => buf[cur + 1] # Quote
        /\ Pass

\* The rule for any byte takes the NUL, too: the matcher goes on behind the end of
\* the input, among bytes that an earlier fill may have left, and is not followed there.
Unclosed == Look("quoted", Nul) /\ mode' = "beyond" /\ UNCHANGED <<pointers, val, acc, toks>>

\* emit_quoted_string_token(): the quotes are cut off with the size of what is in the buffer.
CloseQuote ==
    /\ Look("quoted", Quote)
    /\ LET sz == cur + 1 - beg
           string == val \o Bytes(beg, cur + 1)
       IN  Emit("quoted", Substr1(string, IF sz >= 2 THEN sz - 2 ELSE Len(string)), cur + 1)

Root == Blank \/ Line \/ Word \/ ListComma \/ DoubleDash \/ LoneDash \/ EscapedQuote \/ EmptyString \/ OpenQuote \/ Finish
Longer == WordMore \/ WordEnd \/ WordOver \/ FileMore \/ FileOver
Lines == BlankMore \/ FirstLine \/ SecondLine \/ BlankOver
Comment == CommentMore \/ CommentLine \/ CommentEnd
Quoted == Escaped \/ QuotedMore \/ Unclosed \/ CloseQuote

\* scan() has returned, or has lost its way.
Done == mode \in {"done", "beyond"} /\ UNCHANGED vars

Step == Shift \/ Overflow \/ Root \/ Longer \/ Lines \/ Comment \/ Quoted

Next == Step \/ Done

\* scan() is a loop of one thread that nothing waits for: it takes every step it can.
Spec == Init /\ [][Next]_vars /\ WF_vars(Step)

-----------------------------------------------------------------------------
Modes == {"next", "word", "file", "blank", "line", "comment", "quoted", "done", "beyond"}

\* Every variable of the scanner has a value of its kind, and the pointers are in the buffer and in order.
TypeOK ==
    /\ \A i \in 0 .. BufSize : buf[i] \in Chars \cup {Nul, Beyond}
    /\ beg \in 0 .. lim /\ cur \in beg .. lim /\ mark \in 0 .. lim
    /\ lim \in 0 .. BufSize
    /\ eof \in {NoEof, lim}
    /\ mode \in Modes
    /\ scheme \in BOOLEAN
    /\ acc \in {"none", "word", "comma", "terminator", "blank", "comment", "error"}
    /\ filled \in BOOLEAN

\* What has been matched leaves room in the buffer for all that the matcher asks
\* for, unless it is a quoted string and its last byte is still to be read: a word,
\* a name of a file and a run of blanks end before the buffer does, a word that
\* may be a scheme five bytes before, and a string that is longer than the buffer
\* has no escaped quote where the buffer ends.
TokensFit ==
    (mode # "quoted" \/ (cur = lim /\ eof = NoEof)) => cur - beg + Needed <= BufSize

\* fill() moves, splits and refills the token that is being read without
\* losing a byte of it, or of what follows: what is in _val, from _beg to
\* _lim and in the evbuffer is always an end of the input.
NothingLost ==
    \E p \in 0 .. Len(input.text) :
        val \o Bytes(beg, lim) \o rest = SubSeq(input.text, p + 1, Len(input.text))

\* The matcher takes every byte it looks at from what has been read, or the
\* NUL that fill() puts at the end of it: never one of an earlier fill, and
\* never one past the buffer, as long as the input closes its strings.
Readable(i) == i < lim \/ (i = eof /\ buf[i] = Nul)
LooksAtTwo == buf[cur] \in (IF mode = "next" THEN {Quote, Dash, Backslash} ELSE {Backslash}) /\ mode \in {"next", "quoted"}
ReadsInside == (mode \notin {"done", "beyond"} /\ ~MustFill) => Readable(cur) /\ (LooksAtTwo => Readable(cur + 1))

-----------------------------------------------------------------------------
\* Where in the input the buffer begins.
Origin == Len(input.text) - Len(rest) - lim

\* ... and how many bytes come before the token that is being matched.
Begun == Origin + beg - Len(val)

\* The input as it is read: up to that token, or up to the next byte of a comment.
Reached == IF mode \in {"comment", "done"} THEN Origin + cur ELSE Begun
Where == CASE mode = "comment" -> "comment"
           [] mode \in {"done", "beyond"} -> "over"
           [] OTHER -> "text"

Lex == INSTANCE Lexer WITH text <- input.text, at <- Reached, where <- Where, out <- toks

\* Through its buffer the scanner reads what is in the text: each byte once, in
\* order, as a part of the longest token, of the blanks or of the comment that
\* the rules of scanner.h find there, and it returns at the end of the text or at
\* what is no token.
ReadsText == Lex!ExactSpec

=============================================================================
