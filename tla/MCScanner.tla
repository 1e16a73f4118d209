----------------------------- MODULE MCScanner -----------------------------
(***************************************************************************)
(* Inputs for Scanner, put together from pieces whose tokens are known,    *)
(* with a blank between two pieces: every way the pieces can lie across    *)
(* the end of the buffer comes up.  Two line breaks are not put next to    *)
(* each other, they would be one terminator.                               *)
(***************************************************************************)
EXTENDS Scanner, SequencesExt

CONSTANTS
    MaxPieces       \* the longest input

Piece(text, tokens) == [text |-> text, tokens |-> tokens]
Token(kind, text) == [kind |-> kind, text |-> text]

\* Text to fill a string with, of n bytes.
LongText(n) == [i \in 1 .. n |-> IF i % 3 = 0 THEN "w" ELSE "x"]

\* The longest word that fits: its letters leave room for what is asked for in
\* a scheme, and the bytes after the backslash, that is in no scheme, for one byte.
LongestWord == LongText(BufSize - 5) \o <<Backslash>> \o LongText(3)

Tokens == {
    Piece(<<"x">>, <<Token("word", <<"x">>)>>),
    Piece(LongestWord, <<Token("word", LongestWord)>>),
    Piece(<<Comma>>, <<Token("comma", <<>>)>>),
    Piece(<<Quote, Quote>>, <<Token("empty", <<>>)>>),
    Piece(<<Quote, Backslash, Comma, Quote>>, <<Token("quoted", <<Backslash, Comma>>)>>),
    Piece(<<Quote, Backslash, Quote, "x", Quote>>, <<Token("quoted", <<Backslash, Quote, "x">>)>>) }

\* Quoted strings that are as long as the buffer with their quotes, and more than twice as long.
LongStrings ==
    {Piece(<<Quote>> \o LongText(n) \o <<Quote>>, <<Token("quoted", LongText(n))>>) :
        n \in {BufSize - 2, 2 * BufSize + 1}}

Breaks == {
    Piece(<<Newline>>, <<>>),
    Piece(<<Newline, Space, Newline>>, <<Token("terminator", <<>>)>>),
    Piece(<<Dash, Dash, "x", Quote, Newline>>, <<>>) }

Pieces == Tokens \cup Breaks \cup LongStrings

Join(ps) ==
    [text |-> FlattenSeq([i \in DOMAIN ps |-> IF i = 1 THEN ps[i].text ELSE <<Space>> \o ps[i].text]),
     tokens |-> FlattenSeq([i \in DOMAIN ps |-> ps[i].tokens])]

Inputs_(pieces) ==
    LET Fits(ps) == \A i \in 1 .. Len(ps) - 1 : ~(ps[i] \in Breaks /\ ps[i + 1] \in Breaks)
    IN  {Join(ps) : ps \in {p \in UNION {[1 .. n -> pieces] : n \in 1 .. MaxPieces} : Fits(p)}}

\* Words with their comma and the next word right after it, which one read takes in whole.
Together == Piece(<<"w", Space, "w", Comma, "x", Space, "w", Comma, "x">>,
                  <<Token("word", <<"w">>), Token("word", <<"w">>), Token("comma", <<>>),
                    Token("word", <<"x">>), Token("word", <<"w">>), Token("comma", <<>>),
                    Token("word", <<"x">>)>>)

\* A comment that nothing ends but the input.
LastLine == Piece(<<Dash, Dash, "x", Quote, "x">>, <<>>)

\* What is no token ends the scan, and so does a string that nothing closes.
Refused ==
    {Piece(<<"w", Space>> \o bytes \o <<Space, "x">>, <<Token("word", <<"w">>)>>) :
        bytes \in {<<Dash, "x">>, <<Dash>>, <<Backslash, Quote>>, <<Quote, "x", Comma>>, <<Quote, Backslash, Quote>>}}
    \cup {Piece(<<Quote>>, <<>>),
          Piece(<<"x", Space, "w", Dash, "w", Space, "x">>, <<Token("word", <<"x">>), Token("word", <<"w">>)>>)}

SpacedInputs == Inputs_(Pieces) \cup Refused \cup {Together, LastLine}

\* A word, its comma and the next word at the very end of the input, as in `dog,horse`.
CommaInputs == {
    Piece(<<"w", "x", "w", Comma, "x", "w", "x", "x", "w">>,
          <<Token("word", <<"w", "x", "w">>), Token("comma", <<>>), Token("word", <<"x", "w", "x", "x", "w">>)>>) }

-----------------------------------------------------------------------------
IsLong(t) == t.kind = "quoted" /\ Len(t.text) + 2 >= BufSize

\* The tokens handed to the parser are those of the input, byte for byte, as
\* far as the scanner has come: where the ends of the buffer fall shows in none.
TokensExact == IsPrefix(toks, input.tokens)

\* The scanner implements the stream of tokens: wherever the ends of the buffer
\* fall, the parser gets the tokens of the input in their order, each with its
\* bytes, and scan() hands over every one of them before it returns.  Only the
\* bytes of a quoted string that is longer than the buffer are left open.
Stream == INSTANCE TokenStream WITH
    script <- input.tokens,
    out <- [i \in DOMAIN toks |->
                IF i <= Len(input.tokens) /\ IsLong(input.tokens[i]) /\ toks[i].kind = "quoted"
                THEN input.tokens[i] ELSE toks[i]]

StreamSpec == Stream!Spec

=============================================================================
