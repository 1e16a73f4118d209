------------------------------- MODULE Driver -------------------------------
(***************************************************************************)
(* TAGL drivers at work: the driver of the host program, and on top of it  *)
(* one driver for each file that is being included.  A driver executes the *)
(* statements of its input in order; SET statements are executed here, the *)
(* others go to the callback, which belongs to the host: tagsh or httagd.  *)
(* All the drivers use the one callback, which points back at the driver   *)
(* it works for.  A driver pushes contexts on a session: the host's driver *)
(* on the host's, an included file's on one of its own.                    *)
(***************************************************************************)
EXTENDS Naturals, Sequences, FiniteSets, SequencesExt

CONSTANTS
    Top,            \* the empty path of the host's driver
    Contexts,       \* tags that can be pushed as a context
    Entity,         \* _entity, which session::push_context refuses
    SharedErrors,   \* the host's driver and session have one list of errors
    TaglStatement,  \* what the parser can make of a piece of text
    Contents,       \* the files there may be: functions from paths to statements
    MaxDepth        \* bound: drivers at work at one time

ASSUME DepthAssumption == MaxDepth \in Nat \ {0}

ASSUME TextsAssumption ==
    /\ \A texts \in Contents : texts \in [DOMAIN texts -> Seq(TaglStatement)]
    /\ \A s \in TaglStatement :
        /\ s.op = "context" => s.ids \in Seq(Contexts \cup {Entity})
        /\ s.op = "flag" => s.on \in BOOLEAN

VARIABLES
    files,          \* the files there are
    stack,          \* the drivers at work, the host's first
    sessions,       \* session -> the contexts on it
    callback        \* callback->_driver: the place of a driver in the stack

driverVars == <<files, stack, sessions, callback>>

NoSession == 0
HostSession == 1

Driver(path, statements, session) ==
    [path |-> path,             \* _path
     rest |-> statements,       \* what is left of the input
     session |-> session,       \* _session
     level |-> 0,               \* _context_level
     flag |-> FALSE,            \* F_IGNORE_DUPLICATES is set in flags
     errors |-> FALSE,          \* there are error objects in _errors
     code |-> FALSE]            \* _code is an error

HasErrors(d) == d.errors \/ d.code

Current == Last(stack)
Running == Current.rest # <<>> /\ ~HasErrors(Current)

\* driver::init(): the code is reset, the errors are not.
Start(statements) == [stack[1] EXCEPT !.rest = statements, !.code = FALSE]

\* The driver goes on after its statement, changed to d.
Proceed(d) == stack' = [stack EXCEPT ![Len(stack)] = [d EXCEPT !.rest = Tail(@)]]

-----------------------------------------------------------------------------
\* Mutant: every context of the session is popped.
ClearContextLevels_All(contexts, level) == <<>>

\* clear_context_levels(): as many contexts are popped as this driver pushed.
ClearContextLevels(contexts, level) == SubSeq(contexts, 1, Len(contexts) - level)

\* session::push_context() of each id in turn; what it refuses is left out.
Pushed(ids) ==
    LET taken == {i \in DOMAIN ids : ids[i] # Entity}
        Nth(k) == CHOOSE i \in taken : Cardinality({j \in taken : j < i}) = k - 1
    IN  [k \in 1 .. Cardinality(taken) |-> ids[Nth(k)]]

\* Mutant: a context that was refused is counted, too.
Counted_All(ids) == Len(ids)

\* push_context(): _context_level counts what the session took.
Counted(ids) == Len(Pushed(ids))

\* An error stops the scanner: the ids after the first one refused are not read.
Read(ids) ==
    SubSeq(ids, 1, Cardinality({i \in DOMAIN ids : \A j \in 1 .. i - 1 : ids[j] # Entity}))

\* %% _context ids: the contexts of this driver are replaced; its session is
\* made when the first one is pushed.  What the session refuses is an error of
\* the driver only where the two share their errors.
SetContext ==
    /\ Running
    /\ Head(Current.rest).op = "context"
    /\ LET ids == Head(Current.rest).ids
           own == Current.session = NoSession /\ ids # <<>>
           s == IF own THEN Len(stack) ELSE Current.session
           shared == SharedErrors /\ s = HostSession
           taken == IF shared THEN Read(ids) ELSE ids
       IN  /\ sessions' = IF s = NoSession THEN sessions
                          ELSE [sessions EXCEPT ![s] =
                                   ClearContextLevels(@, Current.level) \o Pushed(taken)]
           /\ Proceed([Current EXCEPT !.session = s, !.level = Counted(taken),
                                      !.errors = @ \/ (shared /\ Pushed(ids) # ids)])
    /\ UNCHANGED <<files, callback>>

\* %% _ignore_duplicates, which any number but 0 sets and 0 clears.
SetFlag ==
    /\ Running
    /\ Head(Current.rest).op = "flag"
    /\ Proceed([Current EXCEPT !.flag = Head(Current.rest).on])
    /\ UNCHANGED <<files, sessions, callback>>

\* What the parser takes for no statement: %syntax_error, cmd_error().
SyntaxError ==
    /\ Running
    /\ Head(Current.rest).op = "bad"
    /\ Proceed([Current EXCEPT !.errors = TRUE])
    /\ UNCHANGED <<files, sessions, callback>>

-----------------------------------------------------------------------------
\* Mutant: the driver of an included file works on the session of the includer.
NewDriver_SharedSession(path) == Driver(path, files[path], Current.session)

\* include_file(): the driver of the file, which starts without a session.
NewDriver(path) == Driver(path, files[path], NoSession)

\* include_file() of a file that is there and not empty.
Enter(path) ==
    /\ path \in DOMAIN files /\ files[path] # <<>>
    /\ Len(stack) < MaxDepth
    /\ stack' = Append(stack, NewDriver(path))
    /\ callback' = Len(stack) + 1
    /\ UNCHANGED <<files, sessions>>

\* %% _include path, where the file is there.
Include ==
    /\ Running
    /\ Head(Current.rest).op = "include"
    /\ Enter(Head(Current.rest).path)

\* Mutant: a file that cannot be opened is tried again.
IncludeMissing_Again ==
    /\ Running
    /\ Head(Current.rest).op = "include"
    /\ Head(Current.rest).path \notin DOMAIN files
    /\ stack' = [stack EXCEPT ![Len(stack)].errors = Current.path = Top]
    /\ UNCHANGED <<files, sessions, callback>>

\* open_rel(): the host's driver has no path and reports what it cannot open; a
\* driver with a path opens the file relative to it and reports nothing.
IncludeMissing ==
    /\ Running
    /\ Head(Current.rest).op = "include"
    /\ Head(Current.rest).path \notin DOMAIN files
    /\ Proceed([Current EXCEPT !.errors = Current.path = Top])
    /\ UNCHANGED <<files, sessions, callback>>

\* A file without a byte is left alone.
IncludeEmpty ==
    /\ Running
    /\ Head(Current.rest).op = "include"
    /\ Head(Current.rest).path \in DOMAIN files /\ files[Head(Current.rest).path] = <<>>
    /\ Proceed(Current)
    /\ UNCHANGED <<files, sessions, callback>>

\* Mutant: the callback is left with the driver of the included file.
Restored_Not == callback

\* Mutant: the callback is given back one driver too far.
Restored_TooFar == Len(stack) - 2

\* callback_ptr(_callback) once the included file is done.
Restored == Len(stack) - 1

\* Mutant: the errors of the included file are not copied.
CopyErrors_None(d, included) == d

\* copy_errors(): the error objects are copied, the code is not.
CopyErrors(d, included) == [d EXCEPT !.errors = @ \/ included.errors]

\* An included file ends at its last statement or its first error: its contexts
\* are popped, its session deleted, and the includer goes on.
Return ==
    /\ Len(stack) > 1
    /\ ~Running
    /\ sessions' = IF Current.session = NoSession THEN sessions
                   ELSE [sessions EXCEPT ![Current.session] = ClearContextLevels(@, Current.level)]
    /\ LET includer == CopyErrors(stack[Len(stack) - 1], Current) IN
        stack' = Append(SubSeq(stack, 1, Len(stack) - 2),
                        [includer EXCEPT !.rest = IF @ = <<>> THEN @ ELSE Tail(@)])
    /\ callback' = Restored
    /\ UNCHANGED files

SetStatement == SetContext \/ SetFlag \/ SyntaxError \/ Include \/ IncludeMissing \/ IncludeEmpty

-----------------------------------------------------------------------------
Paths == {Top} \cup UNION {DOMAIN texts : texts \in Contents}

Drivers == [path : Paths, rest : Seq(TaglStatement), session : 0 .. MaxDepth, level : Nat,
            flag : BOOLEAN, errors : BOOLEAN, code : BOOLEAN]

DriverTypeOK ==
    /\ files \in Contents
    /\ stack \in Seq(Drivers) /\ Len(stack) \in 1 .. MaxDepth
    /\ sessions \in [1 .. MaxDepth -> Seq(Contexts)]
    /\ callback \in 1 .. MaxDepth

=============================================================================
