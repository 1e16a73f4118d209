------------------------------- MODULE Lexer -------------------------------
(***************************************************************************)
(* The tokens of a text, read off the text in place: what the rules of     *)
(* scanner.h say that a word, a blank, a comment or a string is, with no   *)
(* buffer between the text and its reader.                                 *)
(***************************************************************************)
EXTENDS Naturals, Sequences

CONSTANTS
    WordChars, FileChars, Blanks,               \* bytes of words, names of files, blanks
    Newline, Comma, Dash, Quote, Backslash,     \* single bytes
    BufSize                                     \* strings up to this size come out whole

VARIABLES
    text,       \* what is read
    at,         \* how far it has been read
    where,      \* in the "text", in a "comment", or "over"
    out         \* the tokens handed over so far

vars == <<text, at, where, out>>

\* The bytes from m up to n are all in S.
Only(S, m, n) == \A i \in m + 1 .. n : text[i] \in S

\* Byte i is c.
Is(i, c) == i <= Len(text) /\ text[i] = c

\* Nothing in S comes right after byte n.
Ends(S, n) == n < Len(text) => text[n + 1] \notin S

Lines(m, n) == {i \in m + 1 .. n : text[i] = Newline}
TwoLines(m, n) == \E i, j \in Lines(m, n) : i < j

\* A quote in a string closes it unless a backslash is before it.
Closes(m, n) ==
    /\ text[n] = Quote
    /\ \A i \in m + 2 .. n : text[i] = Quote => (i = n <=> text[i - 1] # Backslash)

EscapedQuote == Is(at + 1, Backslash) /\ Is(at + 2, Quote)

-----------------------------------------------------------------------------
Init == at = 0 /\ where = "text" /\ out = <<>>

\* It reads on to byte n.
Read(n) ==
    /\ at' = n
    /\ UNCHANGED <<text, where, out>>

HandOver(kind, bytes, n) ==
    /\ at' = n
    /\ out' = Append(out, [kind |-> kind, text |-> bytes])
    /\ UNCHANGED <<text, where>>

\* A word goes as far as it can.
Word(n) ==
    /\ Only(WordChars, at, n) /\ Ends(WordChars, n)
    /\ ~EscapedQuote
    /\ HandOver("word", SubSeq(text, at + 1, n), n)

ListComma ==
    /\ Is(at + 1, Comma)
    /\ HandOver("comma", <<>>, at + 1)

\* Two lines among blanks are a terminator, up to the last one there.
Terminator(n) ==
    /\ Only(Blanks, at, n) /\ TwoLines(at, n)
    /\ \A m \in n .. Len(text) : Only(Blanks, n, m) => Lines(n, m) = {}
    /\ HandOver("terminator", <<>>, n)

\* Other blanks are passed over.
Blank(n) ==
    /\ Only(Blanks, at, n)
    /\ \E m \in n .. Len(text) : Only(Blanks, at, m) /\ Ends(Blanks, m) /\ ~TwoLines(at, m)
    /\ Read(n)

EmptyString ==
    /\ Is(at + 1, Quote) /\ Is(at + 2, Quote)
    /\ HandOver("empty", <<>>, at + 2)

\* A string goes to the quote that closes it.  One that is as long as the buffer
\* is cut short, or has its quote in it.
Quoted(n) ==
    /\ Is(at + 1, Quote) /\ ~Is(at + 2, Quote)
    /\ Closes(at, n)
    /\ \E m \in at + 1 .. n :
        /\ n - at < BufSize => m = n - 1
        /\ HandOver("quoted", SubSeq(text, at + 2, m), n)

\* Where a comment starts, bytes like those of a file name can be read with it.
DoubleDash(n) ==
    /\ Is(at + 1, Dash) /\ Is(at + 2, Dash)
    /\ at + 2 <= n /\ Only(FileChars, at, n)
    /\ at' = n /\ where' = "comment"
    /\ UNCHANGED <<text, out>>

CommentByte ==
    /\ where = "comment" /\ at < Len(text)
    /\ at' = at + 1
    /\ where' = IF text[at + 1] = Newline THEN "text" ELSE "comment"
    /\ UNCHANGED <<text, out>>

\* What begins no token ends the scan.
Refuse(n) ==
    /\ EscapedQuote \/ (Is(at + 1, Dash) /\ ~Is(at + 2, Dash))
    /\ at' = n /\ where' = "over"
    /\ UNCHANGED <<text, out>>

\* So does a string that nothing closes, and the end of the text.
Unclosed ==
    /\ where = "text"
    /\ Is(at + 1, Quote)
    /\ \A n \in at + 2 .. Len(text) : ~Closes(at, n)
    /\ where' = "over"
    /\ UNCHANGED <<text, at, out>>

Finish ==
    /\ where # "over" /\ at = Len(text)
    /\ where' = "over"
    /\ UNCHANGED <<text, at, out>>

Exactly ==
    \/ /\ where = "text"
       /\ \/ ListComma \/ EmptyString
          \/ \E n \in at + 1 .. Len(text) :
                Word(n) \/ Terminator(n) \/ Blank(n) \/ Quoted(n) \/ DoubleDash(n) \/ Refuse(n)
    \/ CommentByte \/ Unclosed \/ Finish

\* A reader that goes astray takes bytes of what could be the name of a file for
\* the end of the word or comma before them.
StrayWord(n) ==
    /\ text[at + 1] \in WordChars /\ ~EscapedQuote
    /\ Only(FileChars, at, n) /\ ~Only(WordChars, at, n)
    /\ HandOver("word", SubSeq(text, at + 1, n), n)

StrayComma(n) ==
    /\ Is(at + 1, Comma)
    /\ Only(FileChars, at, n)
    /\ HandOver("comma", <<>>, n)

Astray == where = "text" /\ \E n \in at + 1 .. Len(text) : StrayWord(n) \/ StrayComma(n)

\* Every byte of the text is read once, in order, and belongs to the token, the
\* comment or the blanks that the text has there.
ExactSpec == Init /\ [][Exactly]_vars

\* The same for a reader that may go astray.
Spec == Init /\ [][Exactly \/ Astray]_vars

=============================================================================
