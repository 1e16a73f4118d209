------------------------------- MODULE Tagsh -------------------------------
(***************************************************************************)
(* The shell: it gives its driver one line after another, or has it load a *)
(* file, and its callback passes the statements on to the store.  What the *)
(* store refuses is printed, and stops the driver that the callback works  *)
(* for; what the driver itself refuses stays among the driver's errors.    *)
(***************************************************************************)
EXTENDS Driver

CONSTANTS
    Lines,          \* what may be typed: sequences of statements
    MaxCommands     \* bound: lines and loads of a session of the shell

ASSUME LinesAssumption == Lines \subseteq Seq(TaglStatement) /\ MaxCommands \in Nat

VARIABLES
    phase,          \* "idle", or what is interpreted: a "line" or a "load"
    commands,       \* what has been given to the shell
    log             \* the statements that reached the store, each as it was done

vars == <<driverVars, phase, commands, log>>

Init ==
    /\ files \in Contents
    /\ stack = <<Driver(Top, <<>>, HostSession)>>
    /\ sessions = [s \in 1 .. MaxDepth |-> <<>>]
    /\ callback = 1
    /\ phase = "idle"
    /\ commands = <<>>
    /\ log = <<>>

More == phase = "idle" /\ Len(commands) < MaxCommands

\* interpret(line): parseln().
TypeLine(line) ==
    /\ More
    /\ phase' = "line"
    /\ commands' = Append(commands, [op |-> "line", statements |-> line])
    /\ stack' = <<Start(line)>>
    /\ UNCHANGED <<files, sessions, callback, log>>

\* .load path, where the file is there; one without a byte is left alone.
Load(path) ==
    /\ More
    /\ phase' = "load"
    /\ commands' = Append(commands, [op |-> "load", path |-> path])
    /\ Enter(path)
    /\ UNCHANGED log

\* A statement of the driver.
Set == SetStatement /\ UNCHANGED <<phase, commands, log>>

\* What the store does for the driver that the callback points at.
Done(d, statement) ==
    [statement |-> statement,
     contexts |-> IF d.session = NoSession THEN <<>> ELSE sessions[d.session],
     flag |-> d.flag]

\* Mutant: what the session reports does not stop the scanner.
HandleCmdError_StoreOnly(d, outcome) == [d EXCEPT !.code = outcome = "failed"]

\* handle_cmd_error(): the errors of the store and of the session are printed
\* and cleared, the driver gets their code.  What the store refuses for a reason
\* it reports to the session is lost where the driver has none.
HandleCmdError(d, outcome) ==
    [d EXCEPT !.code = outcome = "failed" \/ (outcome = "refused" /\ d.session # NoSession)]

\* cmd_put() and the other callbacks of the store.
Command ==
    /\ Running
    /\ Head(Current.rest).op = "call"
    /\ log' = Append(log, Done(stack[callback], Head(Current.rest)))
    /\ LET stepped == [stack EXCEPT ![Len(stack)].rest = Tail(@)] IN
        stack' = [stepped EXCEPT ![callback] = HandleCmdError(@, Head(Current.rest).outcome)]
    /\ UNCHANGED <<files, sessions, callback, phase, commands>>

\* The end of an included file.
ReturnToIncluder == Return /\ UNCHANGED <<phase, commands, log>>

\* Mutant: the code is reset after a line, the error objects stay.
ClearErrors_CodeOnly(d) == [d EXCEPT !.rest = <<>>, !.code = FALSE]

\* finish() and clear_errors(): what is left of the line is dropped.
ClearErrors(d) == [d EXCEPT !.rest = <<>>, !.errors = FALSE, !.code = FALSE]

\* interpret(line): the end.
LineDone ==
    /\ phase = "line" /\ Len(stack) = 1 /\ ~Running
    /\ phase' = "idle"
    /\ stack' = <<ClearErrors(stack[1])>>
    /\ UNCHANGED <<files, sessions, callback, commands, log>>

\* interpret_fname(): the end.  Errors of the file stay with the driver.
LoadDone ==
    /\ phase = "load" /\ Len(stack) = 1
    /\ phase' = "idle"
    /\ UNCHANGED <<driverVars, commands, log>>

\* The user has left.
Quit == phase = "idle" /\ Len(commands) = MaxCommands /\ UNCHANGED vars

Work == Set \/ Command \/ ReturnToIncluder \/ LineDone \/ LoadDone

Next ==
    \/ \E line \in Lines : TypeLine(line)
    \/ \E path \in DOMAIN files : Load(path)
    \/ Work
    \/ Quit

\* One thread, which waits for nothing but the user: what it has begun it goes on with.
Spec == Init /\ [][Next]_vars /\ WF_vars(Work)

-----------------------------------------------------------------------------
\* Every variable has a value of its kind.
TypeOK ==
    /\ DriverTypeOK
    /\ phase \in {"idle", "line", "load"}
    /\ commands \in Seq([op : {"line"}, statements : Lines] \cup [op : {"load"}, path : Paths])
    /\ Len(commands) <= MaxCommands

\* The contexts on a session are those that the one driver at work on it has
\* counted: clearing them never takes a context of another driver, nor leaves
\* one behind.
ContextsCounted ==
    \A s \in 1 .. MaxDepth :
        LET users == {i \in DOMAIN stack : stack[i].session = s}
        IN  \/ users = {} /\ sessions[s] = <<>>
            \/ \E i \in users : users = {i} /\ Len(sessions[s]) = stack[i].level

\* The callback works for the driver whose statements are being executed, also
\* after an included file has ended and its driver is gone.
CallbackTop == callback = Len(stack)

\* After a line the driver has no errors, whatever happened in it and in the
\* files it included; only a file that was loaded leaves some.
CleanAfterLine ==
    phase = "idle" /\ HasErrors(stack[1]) => Last(commands).op = "load"

\* While an included file is at work the includer waits: its statements, its
\* flags, its errors and the contexts of its session stay as they are.
IncluderWaits ==
    [][\A i \in 1 .. Len(stack) - 1 :
            Len(stack') >= Len(stack) =>
                stack'[i] = stack[i] /\ (stack[i].session # NoSession =>
                                            sessions'[stack[i].session] = sessions[stack[i].session])]_vars

\* The shell comes back to the user after every line and every load.
EveryCommandEnds == phase # "idle" ~> phase = "idle"

=============================================================================
