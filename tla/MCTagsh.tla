------------------------------ MODULE MCTagsh ------------------------------
(***************************************************************************)
(* Instances of Tagsh: files that include each other without a cycle.      *)
(***************************************************************************)
EXTENDS Scripts

CONSTANTS f, g, missing, dog, cat

Call(tag, outcome) == [op |-> "call", tag |-> tag, outcome |-> outcome]
Context(ids) == [op |-> "context", ids |-> ids]
Flag(on) == [op |-> "flag", on |-> on]
Bad == [op |-> "bad"]
IncludeFile(path) == [op |-> "include", path |-> path]

\* Files: g includes nothing that is there, f includes g.
InnerTexts == {
    <<>>,
    <<Call(1, "done"), Flag(TRUE), Call(1, "done"), Flag(FALSE), Call(1, "done")>>,
    <<Context(<<dog, Entity, cat>>), Call(1, "refused"), Call(1, "done")>>,
    <<Call(1, "refused"), Context(<<cat>>), Call(1, "done")>>,
    <<Context(<<dog>>), Bad, Call(1, "done")>>,
    <<IncludeFile(missing), Call(1, "failed"), Call(1, "done")>> }

OuterTexts == {
    <<IncludeFile(g)>>,
    <<IncludeFile(g), Call(2, "done")>>,
    <<Context(<<cat>>), IncludeFile(g), Call(2, "refused"), Call(2, "done")>>,
    <<Flag(TRUE), Context(<<dog, cat>>), IncludeFile(g), Context(<<dog>>), Call(2, "done")>>,
    <<Call(2, "refused"), IncludeFile(g), Context(<<>>), Call(2, "done")>> }

TwoFiles == [{f} -> OuterTexts \cup InnerTexts] \cup {[p \in {f, g} |-> IF p = f THEN s ELSE t] :
                s \in OuterTexts, t \in InnerTexts}

ShellLines == {
    <<Call(3, "done")>>,
    <<Call(3, "refused"), Call(3, "done")>>,
    <<Context(<<dog>>)>>,
    <<Context(<<cat, Entity>>), Call(3, "done"), Flag(FALSE), Context(<<>>), Call(3, "done")>>,
    <<Flag(TRUE), Bad>>,
    <<IncludeFile(missing), Call(3, "done")>>,
    <<IncludeFile(f), Call(3, "done")>> }

Statements == UNION {Range(text) : text \in InnerTexts \cup OuterTexts \cup ShellLines}

=============================================================================
