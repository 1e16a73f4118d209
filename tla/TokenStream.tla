---------------------------- MODULE TokenStream ----------------------------
(***************************************************************************)
(* What a scanner promises to the parser: it hands over the tokens of its  *)
(* input one at a time, in their order, none left out, none made up, and   *)
(* goes on until it has handed over the last one.                          *)
(***************************************************************************)
EXTENDS Naturals, Sequences

VARIABLES
    script,     \* the tokens of the input
    out         \* the tokens handed over so far

vars == <<script, out>>

\* The scanner has handed over nothing.
Init == out = <<>>

\* It hands over the next token.
HandOver ==
    /\ Len(out) < Len(script)
    /\ out' = Append(out, script[Len(out) + 1])
    /\ UNCHANGED script

Spec == Init /\ [][HandOver]_vars /\ WF_vars(HandOver)

=============================================================================
