----------------------------- MODULE MCHttagd -----------------------------
(***************************************************************************)
(* Instances of Httagd.                                                    *)
(***************************************************************************)
EXTENDS Httagd

CONSTANTS f, empty, dog, cat, unknown

Call(tag, outcome) == [op |-> "call", tag |-> tag, outcome |-> outcome]
Context(ids) == [op |-> "context", ids |-> ids]
Flag(on) == [op |-> "flag", on |-> on]
Bad == [op |-> "bad"]
IncludeFile(path) == [op |-> "include", path |-> path]

Statement ==
    {Call(1, o) : o \in {"done", "refused", "failed", "quiet"}} \cup
    {Context(<<cat>>), Context(<<cat, Entity, dog>>), Context(<<>>), Flag(TRUE), Flag(FALSE), Bad}

\* One statement for GET; up to three for the others.
Gets == [method : {"GET"}, path : {TRUE}, context : {NoContext, dog, unknown},
         body : {<<Call(1, o)>> : o \in {"done", "refused", "failed", "quiet"}} \cup {<<Bad>>}]

HomePages == [method : {"GET"}, path : {FALSE}, context : {NoContext, unknown}, body : {<<>>}]

Posts == [method : {"POST"}, path : {TRUE}, context : {NoContext, dog, unknown},
          body : UNION {[1 .. n -> Statement] : n \in 0 .. 2} \cup
                 {<<Context(<<cat>>), Call(1, "done"), s>> : s \in Statement}]

Puts == [method : {"PUT"}, path : BOOLEAN, context : {dog}, body : {<<Context(<<cat>>), Call(1, "done")>>}]

Others == [method : {"OTHER"}, path : {TRUE}, context : {NoContext}, body : {<<>>}]

\* A file that puts a tag; one without a byte.
SomeFiles == {[p \in {f, empty} |-> IF p = f THEN <<Call(2, "done")>> ELSE <<>>]}

IncludeRequests ==
    [method : {"POST"}, path : {FALSE}, context : {NoContext},
     body : {<<IncludeFile(p), Call(1, "done")>> : p \in {f, empty, unknown}}]

Sent == UNION {Range(r.body) : r \in Gets \cup Posts \cup Puts \cup IncludeRequests} \cup
            UNION {Range(texts[f]) : texts \in SomeFiles}

AllRequests == Gets \cup HomePages \cup Posts \cup Puts \cup Others \cup IncludeRequests

=============================================================================
