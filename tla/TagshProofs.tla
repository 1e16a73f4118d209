---------------------------- MODULE TagshProofs ----------------------------
(***************************************************************************)
(* Proofs about the shell and the drivers it has at work, for stacks of    *)
(* every height, every set of files and every line: the drivers keep out   *)
(* of each other's way, and the shell does what its script says.           *)
(***************************************************************************)
EXTENDS Scripts, DriverProofs

-----------------------------------------------------------------------------
(* The invariant. *)

Given == [op : {"line"}, statements : Lines] \cup [op : {"load"}, path : Paths]

LoadedLast == commands # <<>> /\ Last(commands).op = "load"

\* The drivers are well kept on a session that the shell puts nothing on; the
\* host's driver works alone when the shell waits for the user, and has something
\* to execute only while a line is interpreted.
WellKept ==
    /\ DriverInv(<<>>)
    /\ phase \in {"idle", "line", "load"}
    /\ commands \in Seq(Given) /\ Len(commands) <= MaxCommands
    /\ phase = "idle" => Len(stack) = 1
    /\ phase # "line" => stack[1].rest = <<>>
    /\ phase = "load" => LoadedLast
    /\ phase = "idle" /\ HasErrors(stack[1]) => LoadedLast

\* What a step may do to the drivers that wait for the last one.
Waits ==
    \A i \in 1 .. Len(stack) - 1 :
        Len(stack') >= Len(stack) =>
            stack'[i] = stack[i] /\ (stack[i].session # NoSession =>
                                        sessions'[stack[i].session] = sessions[stack[i].session])

\* A driver that waits has the session of its place, or none.
LEMMA SessionsWait ==
    ASSUME WellKept, OthersWait
    PROVE  Waits
<1> DEFINE n == Len(stack)
<1>1. OwnSessions /\ n \in Nat
    BY EmptySeq, AtWork DEF WellKept, DriverInv
<1>2. ASSUME NEW i \in 1 .. n - 1
      PROVE  stack[i].session \in {NoSession, i}
    <2> HIDE DEF n
    <2>1. i \in 1 .. n
        BY <1>1
    <2> QED
        BY <1>1, <2>1 DEF OwnSessions, n
<1> HIDE DEF n
<1> QED
    BY <1>2 DEF OthersWait, Waits, n

\* A driver that runs is that of a file, or that of the host with a line.
LEMMA AtWorkInPhase ==
    ASSUME WellKept
    PROVE  /\ Running => Len(stack) > 1 \/ phase = "line"
           /\ Len(stack) \in Nat \ {0}
           /\ Len(stack) > 1 => phase # "idle"
<1>1. /\ Len(stack) \in Nat \ {0} /\ Current = stack[Len(stack)]
      /\ phase # "line" => stack[1].rest = <<>>
      /\ phase = "idle" => Len(stack) = 1
    BY EmptySeq, AtWork DEF WellKept
<1> QED
    BY <1>1 DEF Running

\* A step of the driver at work: what the shell has been given stays.
LEMMA DriverSteps ==
    ASSUME WellKept, DriverInv(<<>>)', OthersWait, Running \/ Len(stack) > 1,
           Len(stack') >= Len(stack),
           UNCHANGED <<phase, commands>>
    PROVE  WellKept' /\ Waits
<1> DEFINE n == Len(stack)
<1>1. n \in Nat \ {0} /\ (n > 1 \/ phase = "line") /\ phase # "idle"
    BY AtWorkInPhase DEF WellKept
<1>2. phase # "line" => stack'[1] = stack[1]
    <2>1. n > 1 => 1 \in 1 .. n - 1
        <3> HIDE DEF n
        <3> QED
            BY <1>1
    <2> QED
        BY <1>1, <2>1 DEF OthersWait
<1>3. LoadedLast' <=> LoadedLast
    BY DEF LoadedLast
<1>4. /\ phase \in {"idle", "line", "load"} /\ commands \in Seq(Given) /\ Len(commands) <= MaxCommands
      /\ phase # "line" => stack[1].rest = <<>>
      /\ phase = "load" => LoadedLast
    BY DEF WellKept
<1>5. Given' = Given
    BY DEF Given, Paths
<1>6. commands' \in Seq(Given)' /\ (Len(commands) <= MaxCommands)' /\ (phase \in {"idle", "line", "load"})'
    BY <1>4, <1>5
<1>7. WellKept'
    BY <1>1, <1>2, <1>3, <1>4, <1>6 DEF WellKept
<1> QED
    BY <1>7, SessionsWait

\* The driver of the host changes while no other is at work.
LEMMA HostSteps ==
    ASSUME WellKept, Len(stack) = 1, NEW d \in Drivers, stack' = <<d>>,
           d.session = stack[1].session, d.level = stack[1].level,
           UNCHANGED <<files, sessions, callback>>
    PROVE  DriverInv(<<>>)' /\ Waits /\ Len(stack') = 1 /\ stack'[1] = d
<1>1. <<>> \in Seq(Contexts) /\ DriverInv(<<>>)
    BY DEF WellKept
<1>2. stack \in Seq(Drivers) /\ Current = stack[Len(stack)]
    BY <1>1, AtWork
<1>3. <<d>> = [stack EXCEPT ![Len(stack)] = d]
    BY <1>2
<1>4. DriverInv(<<>>)' /\ OthersWait
    BY <1>1, <1>2, <1>3, TopGoesOn
<1> QED
    BY <1>4, SessionsWait

-----------------------------------------------------------------------------
(* One lemma for each kind of action. *)

LEMMA WellKeptInit ==
    ASSUME Init
    PROVE  WellKept
<1> DEFINE d == Driver(Top, <<>>, HostSession)
<1>1. /\ files \in Contents /\ stack = <<d>> /\ callback = 1 /\ phase = "idle" /\ commands = <<>>
      /\ sessions = [s \in 1 .. MaxDepth |-> <<>>]
    BY DEF Init
<1>2. 1 \in 1 .. MaxDepth /\ 1 \in 0 .. MaxDepth
    BY DepthAssumption
<1>3. d \in Drivers /\ d.rest = <<>> /\ ~HasErrors(d) /\ d.session = 1 /\ d.level = 0
    BY <1>2 DEF Drivers, Driver, HostSession, Paths, HasErrors
<1> HIDE DEF d
<1>4. stack \in Seq(Drivers) /\ Len(stack) = 1 /\ stack[1] = d
    BY <1>1, <1>3
<1>5. DriverTypeOK
    BY <1>1, <1>2, <1>4 DEF DriverTypeOK
<1>6. OwnSessions
    BY <1>3, <1>4 DEF OwnSessions, NoSession
<1>7. ASSUME NEW s \in 1 .. MaxDepth
      PROVE  Accounted(s, <<>>)
    <2>1. Level(s) = 0
        BY <1>3, <1>4 DEF Level
    <2>2. sessions[s] = <<>> \o <<>> /\ Len(<<>>) = 0 /\ <<>> \in Seq(Contexts)
        BY <1>1
    <2> QED
        BY <2>1, <2>2 DEF Accounted, Base
<1>8. DriverInv(<<>>)
    BY <1>1, <1>4, <1>5, <1>6, <1>7 DEF DriverInv
<1>9. commands \in Seq(Given) /\ Len(commands) <= MaxCommands
    BY <1>1, LinesAssumption
<1> QED
    BY <1>1, <1>3, <1>4, <1>8, <1>9 DEF WellKept

LEMMA GivenMore ==
    ASSUME WellKept, More, NEW c \in Given, commands' = Append(commands, c)
    PROVE  /\ commands' \in Seq(Given) /\ Len(commands') <= MaxCommands
           /\ commands' # <<>> /\ Last(commands') = c
<1>1. commands \in Seq(Given) /\ Len(commands) < MaxCommands /\ Len(commands) \in Nat /\ MaxCommands \in Nat
    BY LinesAssumption DEF WellKept, More
<1>2. /\ Len(commands') = Len(commands) + 1 /\ commands' \in Seq(Given)
      /\ commands'[Len(commands) + 1] = c
    BY <1>1, AppendProperties
<1> DEFINE n == Len(commands)
<1>3. n \in Nat /\ n < MaxCommands /\ Len(commands') = n + 1 /\ commands'[n + 1] = c
    BY <1>1, <1>2
<1> HIDE DEF n
<1>4. Len(commands') <= MaxCommands /\ Len(commands') # 0 /\ commands'[Len(commands')] = c
    BY <1>1, <1>3
<1>5. commands' # <<>>
    BY <1>4
<1> QED
    BY <1>2, <1>4, <1>5 DEF Last

LEMMA TypeLineKeeps ==
    ASSUME WellKept, NEW line \in Lines, TypeLine(line)
    PROVE  WellKept' /\ Waits
<1> DEFINE d == Start(line)
           c == [op |-> "line", statements |-> line]
<1>1. /\ More /\ phase = "idle" /\ phase' = "line" /\ stack' = <<d>> /\ commands' = Append(commands, c)
      /\ UNCHANGED <<files, sessions, callback>>
    BY DEF TypeLine, More
<1>2. Len(stack) = 1 /\ <<>> \in Seq(Contexts) /\ DriverInv(<<>>)
    BY <1>1 DEF WellKept
<1>3. stack[1] \in Drivers
    BY <1>2, AtWork
<1>4. d \in Drivers /\ d.session = stack[1].session /\ d.level = stack[1].level
    BY <1>3, LinesAssumption DEF Drivers, Start
<1> HIDE DEF d
<1>5. DriverInv(<<>>)' /\ Waits /\ Len(stack') = 1
    BY <1>1, <1>2, <1>4, HostSteps
<1>6. commands' \in Seq(Given) /\ Len(commands') <= MaxCommands
    <2>1. c \in Given
        BY DEF Given
    <2> QED
        BY <1>1, <2>1, GivenMore
<1>7. Given' = Given
    BY DEF Given, Paths
<1> QED
    BY <1>1, <1>5, <1>6, <1>7 DEF WellKept

LEMMA LoadKeeps ==
    ASSUME WellKept, NEW path \in DOMAIN files, Load(path)
    PROVE  WellKept' /\ Waits
<1> DEFINE c == [op |-> "load", path |-> path]
<1>1. More /\ phase = "idle" /\ phase' = "load" /\ Enter(path) /\ commands' = Append(commands, c)
    BY DEF Load, More
<1>2. /\ stack[1].rest = <<>> /\ Len(stack) = 1 /\ <<>> \in Seq(Contexts) /\ DriverInv(<<>>)
      /\ files \in Contents
    BY <1>1 DEF WellKept, DriverInv, DriverTypeOK
<1>3. DriverInv(<<>>)' /\ OthersWait /\ stack'[1] = stack[1]
    BY <1>1, <1>2, FileEntered
<1>4. commands' \in Seq(Given) /\ Len(commands') <= MaxCommands /\ commands' # <<>> /\ Last(commands') = c
    <2>1. path \in Paths
        BY <1>2 DEF Paths
    <2>2. c \in Given
        BY <2>1 DEF Given
    <2> QED
        BY <1>1, <2>2, GivenMore
<1>5. LoadedLast' /\ Given' = Given
    BY <1>4 DEF LoadedLast, Given, Paths
<1>6. WellKept'
    BY <1>1, <1>2, <1>3, <1>4, <1>5 DEF WellKept
<1> QED
    BY <1>3, <1>6, SessionsWait

LEMMA SetKeeps ==
    ASSUME WellKept, Set
    PROVE  WellKept' /\ Waits
<1>1. SetStatement /\ UNCHANGED <<phase, commands>> /\ <<>> \in Seq(Contexts) /\ DriverInv(<<>>)
    BY DEF Set, WellKept
<1>2. /\ DriverInv(<<>>)' /\ OthersWait /\ Running
      /\ Len(stack') = Len(stack) \/ Len(stack') = Len(stack) + 1
    BY <1>1, StatementDone
<1>3. Len(stack') >= Len(stack)
    <2> DEFINE n == Len(stack)
    <2>1. n \in Nat
        BY AtWorkInPhase
    <2> HIDE DEF n
    <2>2. Len(stack') = n \/ Len(stack') = n + 1
        BY <1>2 DEF n
    <2>3. Len(stack') >= n
        BY <2>1, <2>2
    <2> QED
        BY <2>3 DEF n
<1> QED
    BY <1>1, <1>2, <1>3, DriverSteps

\* The callback works for the driver at work: it is the one that gets the code.
LEMMA CommandKeeps ==
    ASSUME WellKept, Command
    PROVE  WellKept' /\ Waits
<1> DEFINE n == Len(stack)
           outcome == Head(Current.rest).outcome
           e == [Current EXCEPT !.rest = Tail(@)]
           d == HandleCmdError(e, outcome)
           stepped == [stack EXCEPT ![n].rest = Tail(@)]
<1>1. /\ Running /\ UNCHANGED <<files, sessions, callback, phase, commands>>
      /\ stack' = [stepped EXCEPT ![callback] = HandleCmdError(@, outcome)]
    BY DEF Command
<1>2. <<>> \in Seq(Contexts) /\ DriverInv(<<>>) /\ callback = n
    BY DEF WellKept, DriverInv
<1>3. /\ n \in Nat \ {0} /\ stack \in Seq(Drivers) /\ Current = stack[n] /\ Current \in Drivers
      /\ Tail(Current.rest) \in Seq(TaglStatement)
    BY <1>1, <1>2, AtWork
<1>4. n \in DOMAIN stack /\ stepped = [stack EXCEPT ![n] = e] /\ stepped[n] = e
  <2>1. n \in DOMAIN stack
      BY <1>3
  <2>2. stepped = [stack EXCEPT ![n] = e]
      BY <1>3
  <2> QED  BY <2>1, <2>2
<1>5. stack' = [stack EXCEPT ![n] = d]
    BY <1>1, <1>2, <1>4
<1>6. d \in Drivers /\ d.session = Current.session /\ d.level = Current.level
    BY <1>3 DEF HandleCmdError, Drivers
<1> HIDE DEF d
<1>7. DriverInv(<<>>)' /\ OthersWait /\ Len(stack') = n
    BY <1>1, <1>2, <1>5, <1>6, TopGoesOn
<1> QED
    BY <1>1, <1>3, <1>7, DriverSteps

LEMMA ReturnKeeps ==
    ASSUME WellKept, ReturnToIncluder
    PROVE  WellKept' /\ Waits
<1> DEFINE n == Len(stack)
<1>1. Return /\ UNCHANGED <<phase, commands>> /\ <<>> \in Seq(Contexts) /\ DriverInv(<<>>)
    BY DEF ReturnToIncluder, WellKept
<1>2. /\ DriverInv(<<>>)' /\ n > 1 /\ Len(stack') = n - 1
      /\ \A i \in 1 .. n - 2 : stack'[i] = stack[i]
      /\ stack'[n - 1].rest = IF stack[n - 1].rest = <<>> THEN <<>> ELSE Tail(stack[n - 1].rest)
    BY <1>1, FileLeft
<1>3. n \in Nat /\ phase # "idle"
    BY <1>2, AtWorkInPhase
<1>4. stack[1].rest = <<>> => stack'[1].rest = <<>>
    <2> HIDE DEF n
    <2>1. CASE n = 2
        BY <1>2, <2>1
    <2>2. CASE n # 2
        <3>1. 1 \in 1 .. n - 2
            BY <1>2, <1>3, <2>2
        <3> QED
            BY <1>2, <3>1
    <2> QED
        BY <2>1, <2>2
<1>5. /\ phase \in {"idle", "line", "load"} /\ commands \in Seq(Given) /\ Len(commands) <= MaxCommands
      /\ phase # "line" => stack[1].rest = <<>>
      /\ phase = "load" => LoadedLast
    BY DEF WellKept
<1>6. LoadedLast' = LoadedLast /\ Given' = Given
    BY <1>1 DEF LoadedLast, Given, Paths
<1>7. WellKept'
    BY <1>1, <1>2, <1>3, <1>4, <1>5, <1>6 DEF WellKept
<1>8. ~ (Len(stack') >= Len(stack))
    <2> HIDE DEF n
    <2>1. ~ (Len(stack') >= n)
        BY <1>2, <1>3
    <2> QED
        BY <2>1 DEF n
<1> QED
    BY <1>7, <1>8 DEF Waits

LEMMA LineDoneKeeps ==
    ASSUME WellKept, LineDone
    PROVE  WellKept' /\ Waits
<1> DEFINE d == ClearErrors(stack[1])
<1>1. /\ phase = "line" /\ phase' = "idle" /\ Len(stack) = 1 /\ stack' = <<d>>
      /\ UNCHANGED <<files, sessions, callback, commands>>
    BY DEF LineDone
<1>2. stack[1] \in Drivers
    BY <1>1, EmptySeq, AtWork DEF WellKept
<1>3. d \in Drivers /\ d.session = stack[1].session /\ d.level = stack[1].level
      /\ d.rest = <<>> /\ ~HasErrors(d)
    <2>1. <<>> \in Seq(TaglStatement)
        OBVIOUS
    <2>2. d \in Drivers /\ d.session = stack[1].session /\ d.level = stack[1].level
        BY <1>2, <2>1 DEF Drivers, ClearErrors
    <2>3. d.rest = <<>> /\ d.errors = FALSE /\ d.code = FALSE
        BY <1>2 DEF Drivers, ClearErrors
    <2> QED
        BY <2>2, <2>3 DEF HasErrors
<1> HIDE DEF d
<1>4. DriverInv(<<>>)' /\ Waits /\ Len(stack') = 1 /\ stack'[1] = d
    BY <1>1, <1>3, HostSteps
<1>5. commands \in Seq(Given) /\ Len(commands) <= MaxCommands /\ Given' = Given
    BY DEF WellKept, Given, Paths
<1>6. ~HasErrors(stack'[1])
    BY <1>3, <1>4
<1>7. (phase = "idle" /\ HasErrors(stack[1]) => LoadedLast)'
    BY <1>6 DEF HasErrors
<1> QED
    BY <1>1, <1>3, <1>4, <1>5, <1>7 DEF WellKept

LEMMA LoadDoneKeeps ==
    ASSUME WellKept, LoadDone
    PROVE  WellKept' /\ Waits
<1>1. /\ phase = "load" /\ phase' = "idle" /\ Len(stack) = 1
      /\ UNCHANGED <<files, stack, sessions, callback, commands>>
    BY DEF LoadDone, driverVars
<1>2. DriverInv(<<>>)'
    BY <1>1, EmptySeq, Unchanged DEF WellKept, driverVars
<1>3. LoadedLast' /\ Given' = Given
    BY <1>1 DEF WellKept, LoadedLast, Given, Paths
<1> QED
    BY <1>1, <1>2, <1>3 DEF WellKept, Waits

LEMMA WellKeptNext ==
    ASSUME WellKept, [Next]_vars
    PROVE  WellKept' /\ Waits
<1>1. ASSUME NEW line \in Lines, TypeLine(line) PROVE WellKept' /\ Waits
    BY <1>1, TypeLineKeeps
<1>2. ASSUME NEW path \in DOMAIN files, Load(path) PROVE WellKept' /\ Waits
    BY <1>2, LoadKeeps
<1>3. CASE Set
    BY <1>3, SetKeeps
<1>4. CASE Command
    BY <1>4, CommandKeeps
<1>5. CASE ReturnToIncluder
    BY <1>5, ReturnKeeps
<1>6. CASE LineDone
    BY <1>6, LineDoneKeeps
<1>7. CASE LoadDone
    BY <1>7, LoadDoneKeeps
<1>8. CASE UNCHANGED vars
    <2>1. UNCHANGED <<files, stack, sessions, callback, phase, commands>>
        BY <1>8 DEF vars, driverVars
    <2>2. DriverInv(<<>>)'
        BY <2>1, EmptySeq, Unchanged DEF WellKept, driverVars
    <2>3. LoadedLast' = LoadedLast /\ Given' = Given /\ (HasErrors(stack[1]))' = HasErrors(stack[1])
        BY <2>1 DEF LoadedLast, Given, Paths, HasErrors
    <2> QED
        BY <2>1, <2>2, <2>3 DEF WellKept, Waits
<1> QED
    BY <1>1, <1>2, <1>3, <1>4, <1>5, <1>6, <1>7, <1>8 DEF Next, Work, Quit

-----------------------------------------------------------------------------
\* The invariant holds in every state.
THEOREM StackWellKept == Spec => []WellKept
<1>1. WellKept /\ [Next]_vars => WellKept'
    BY WellKeptNext
<1> QED
    BY WellKeptInit, <1>1, PTL DEF Spec

\* Every variable of the shell has a value of its kind: no session is used that
\* is not there, and no driver has a level that is not a number.
THEOREM ShellTyped == Spec => []TypeOK
<1>1. WellKept => TypeOK
    BY DEF WellKept, DriverInv, TypeOK, Given
<1> QED
    BY StackWellKept, <1>1, PTL

\* The callback works for the driver whose statements are being executed, however
\* deep files include each other: callback_ptr() in include_file() gives it back.
THEOREM CallbackStaysOnTop == Spec => []CallbackTop
<1>1. WellKept => CallbackTop
    BY DEF WellKept, DriverInv, CallbackTop
<1> QED
    BY StackWellKept, <1>1, PTL

\* What is on a session is what the one driver at work on it has counted in
\* _context_level, whatever contexts the session refused and however the files
\* that set them ended: clear_context_levels() pops neither more nor less.
THEOREM ContextsStayCounted == Spec => []ContextsCounted
<1>1. WellKept => ContextsCounted
    <2> SUFFICES ASSUME WellKept, NEW s \in 1 .. MaxDepth
                 PROVE  LET users == {i \in DOMAIN stack : stack[i].session = s}
                        IN  \/ users = {} /\ sessions[s] = <<>>
                            \/ \E i \in users : users = {i} /\ Len(sessions[s]) = stack[i].level
        BY DEF ContextsCounted
    <2> DEFINE users == {i \in DOMAIN stack : stack[i].session = s}
    <2>1. OwnSessions /\ Accounted(s, <<>>) /\ DOMAIN stack = 1 .. Len(stack) /\ s \in Nat \ {0}
        BY DEF WellKept, DriverInv, DriverTypeOK
    <2>2. \A i \in users : i = s
        BY <2>1 DEF OwnSessions, NoSession
    <2>3. PICK x \in Seq(Contexts) : sessions[s] = <<>> \o x /\ Len(x) = Level(s)
        BY <2>1 DEF Accounted, Base
    <2>4. sessions[s] = x
        BY <2>3
    <2>5. CASE s \in users
        <3>1. users = {s}
            BY <2>2, <2>5
        <3>2. Level(s) = stack[s].level
            BY <2>1, <2>5 DEF Level
        <3> QED
            BY <2>3, <2>4, <2>5, <3>1, <3>2
    <2>6. CASE s \notin users
        <3>1. users = {}
            BY <2>2, <2>6
        <3>2. Level(s) = 0
            BY <2>1, <2>6 DEF Level, OwnSessions
        <3>3. x = <<>>
            BY <2>3, <3>2, EmptySeq
        <3> QED
            BY <2>4, <3>1, <3>3
    <2> QED
        BY <2>5, <2>6
<1> QED
    BY StackWellKept, <1>1, PTL

\* Between two commands the driver has no errors unless the last one was a
\* .load: clear_errors() after a line drops those of the line and those that
\* its files left, and nothing else makes one.
THEOREM LinesLeaveNoErrors == Spec => []CleanAfterLine
<1>1. WellKept => CleanAfterLine
    BY DEF WellKept, CleanAfterLine, LoadedLast
<1> QED
    BY StackWellKept, <1>1, PTL

\* While an included file is at work, no driver below it changes, nor the contexts
\* of the sessions they have: the driver that include_file() makes starts without
\* a session, and makes one of its own.
THEOREM IncludersWait == Spec => IncluderWaits
<1>1. WellKept /\ [Next]_vars => [Waits]_vars
    BY WellKeptNext
<1>2. Spec => [][Waits]_vars
    BY StackWellKept, <1>1, PTL DEF Spec
<1> QED
    BY <1>2 DEF IncluderWaits, Waits

-----------------------------------------------------------------------------
(* What a text means: the operators of Scripts. *)

Frames == [contexts : Seq(Contexts), session : BOOLEAN, flag : BOOLEAN, errors : BOOLEAN, code : BOOLEAN]

Entries == [statement : TaglStatement, contexts : Seq(Contexts), flag : BOOLEAN]

Outcomes == [driver : Frames, done : Seq(Entries)]

\* What the statements that were done before m did, and then m.
Preceded(before, m) == [driver |-> m.driver, done |-> before \o m.done]

\* Induction over the numbers up to N.
LEMMA UpTo ==
    ASSUME NEW N \in Nat, NEW T, 0 \in T, \A n \in 1 .. N : n - 1 \in T => n \in T
    PROVE  \A n \in 0 .. N : n \in T
<1> DEFINE Bad == {n \in 0 .. N : n \notin T}
<1>1. ASSUME Bad # {}
      PROVE  FALSE
    <2>1. PICK n \in Bad : \A k \in Bad : n <= k
        <3>1. Bad \in SUBSET Nat
            OBVIOUS
        <3> HIDE DEF Bad
        <3> QED
            BY <1>1, <3>1, LeastIndex
    <2>2. n \in 1 .. N /\ n - 1 \in 0 .. N /\ ~ (n <= n - 1)
        BY <2>1
    <2>3. n - 1 \in T
        BY <2>1, <2>2
    <2> QED
        BY <2>1, <2>2, <2>3
<1> QED
    BY <1>1

\* g has the value b, and then what F makes of the value before.
Recurs(g, X, N, b, F) ==
    g \in [0 .. N -> X] /\ g[0] = b /\ \A n \in 1 .. N : g[n] = F[n][g[n - 1]]

\* What is defined from the value before it is defined for every number up to N.
LEMMA Recursion ==
    ASSUME NEW X, NEW N \in Nat, NEW b \in X, NEW F \in [1 .. N -> [X -> X]]
    PROVE  \E g : Recurs(g, X, N, b, F)
<1> DEFINE Unrolled(k, g) == g[0] = b /\ \A n \in 1 .. k : g[n] = F[n][g[n - 1]]
           T == {k \in 0 .. N : \E g \in [0 .. k -> X] : Unrolled(k, g)}
<1>1. 0 \in T
    <2> DEFINE g == [n \in 0 .. 0 |-> b]
    <2>1. g \in [0 .. 0 -> X] /\ Unrolled(0, g)
        OBVIOUS
    <2>2. 0 \in 0 .. N
        OBVIOUS
    <2> HIDE DEF g, Unrolled
    <2> QED
        BY <2>1, <2>2
<1>2. ASSUME NEW k \in 1 .. N, k - 1 \in T
      PROVE  k \in T
    <2>1. PICK g \in [0 .. k - 1 -> X] : Unrolled(k - 1, g)
        BY <1>2
    <2> DEFINE h == [n \in 0 .. k |-> IF n = k THEN F[k][g[k - 1]] ELSE g[n]]
    <2>2. k - 1 \in 0 .. k - 1 /\ 0 \in 0 .. k - 1
        OBVIOUS
    <2>3. F[k][g[k - 1]] \in X
        BY <2>2
    <2>4. h \in [0 .. k -> X]
        <3>1. \A n \in 0 .. k : n # k => n \in 0 .. k - 1
            OBVIOUS
        <3> QED
            BY <2>3, <3>1
    <2>5. ASSUME NEW n \in 1 .. k
          PROVE  h[n] = F[n][h[n - 1]]
        <3>1. h[n - 1] = g[n - 1] /\ n \in 0 .. k
            OBVIOUS
        <3>2. CASE n = k
            BY <3>1, <3>2
        <3>3. CASE n # k
            <4>1. n \in 1 .. k - 1
                BY <3>3
            <4> QED
                BY <2>1, <3>1, <3>3, <4>1
        <3> QED
            BY <3>2, <3>3
    <2>6. h[0] = b
        BY <2>1
    <2> HIDE DEF h
    <2>7. \E f \in [0 .. k -> X] : Unrolled(k, f)
        BY <2>4, <2>5, <2>6
    <2>8. k \in 0 .. N
        OBVIOUS
    <2> QED
        BY <2>7, <2>8
<1> HIDE DEF T
<1>3. \A k \in 1 .. N : k - 1 \in T => k \in T
    BY <1>2
<1>4. N \in T
    <2>1. \A n \in 0 .. N : n \in T
        BY <1>1, <1>3, UpTo
    <2> QED
        BY <2>1
<1>5. PICK g \in [0 .. N -> X] : Unrolled(N, g)
    BY <1>4 DEF T
<1>6. Recurs(g, X, N, b, F)
    BY <1>5 DEF Recurs
<1> QED
    BY <1>6

LEMMA JoinedType ==
    ASSUME NEW m \in Outcomes, NEW n \in Outcomes
    PROVE  Joined(m, n) \in Outcomes
<1>1. m.driver \in Frames /\ m.done \in Seq(Entries) /\ n.driver \in Frames /\ n.done \in Seq(Entries)
    BY DEF Outcomes
<1>2. [m.driver EXCEPT !.errors = @ \/ n.driver.errors] \in Frames
    BY <1>1 DEF Frames
<1>3. m.done \o n.done \in Seq(Entries)
    BY <1>1
<1> QED
    BY <1>2, <1>3 DEF Joined, Outcomes

\* A statement makes an outcome of an outcome.
LEMMA SteppedType ==
    ASSUME NEW path, NEW m \in Outcomes, NEW s \in TaglStatement, NEW P, NEW included \in [P -> Outcomes]
    PROVE  Stepped(path, m, s, included) \in Outcomes
<1>1. m.driver \in Frames /\ m.done \in Seq(Entries)
    BY DEF Outcomes
<1>2. ASSUME s.op = "include", s.path \in DOMAIN included
      PROVE  Joined(m, included[s.path]) \in Outcomes
    BY <1>2, JoinedType
<1>3. Executed(path, m.driver, s) \in Frames
    <2>1. s.op = "context" => Pushed(s.ids) \in Seq(Contexts)
        BY TextsAssumption, PushedType
    <2>2. s.op = "flag" => s.on \in BOOLEAN
        BY TextsAssumption
    <2> QED
        BY <1>1, <2>1, <2>2 DEF Executed, Frames
<1>4. Append(m.done, [statement |-> s, contexts |-> m.driver.contexts, flag |-> m.driver.flag]) \in Seq(Entries)
    <2>1. [statement |-> s, contexts |-> m.driver.contexts, flag |-> m.driver.flag] \in Entries
        BY <1>1 DEF Frames, Entries
    <2> QED
        BY <1>1, <2>1
<1> QED
    BY <1>1, <1>2, <1>3, <1>4 DEF Stepped, Outcomes

\* The outcomes of m and the statements of a text, up to what the text means.
Follows(g, path, m, text, included) ==
    /\ g \in [0 .. Len(text) -> Outcomes]
    /\ g[0] = m
    /\ \A n \in 1 .. Len(text) : g[n] = Stepped(path, g[n - 1], text[n], included)
    /\ g[Len(text)] = Meaning(path, m, text, included)

\* A text means what its statements make of an outcome, one after the other.
LEMMA MeaningSteps ==
    ASSUME NEW path, NEW m \in Outcomes, NEW text \in Seq(TaglStatement), NEW P, NEW included \in [P -> Outcomes]
    PROVE  \E g : Follows(g, path, m, text, included)
<1> DEFINE N == Len(text)
           F == [n \in 1 .. N |-> [o \in Outcomes |-> Stepped(path, o, text[n], included)]]
           Body(f) == [n \in 0 .. N |-> IF n = 0 THEN m ELSE Stepped(path, f[n - 1], text[n], included)]
           after == CHOOSE f : f = Body(f)
<1>1. N \in Nat /\ \A n \in 1 .. N : text[n] \in TaglStatement
    OBVIOUS
<1>2. Meaning(path, m, text, included) = after[N]
    BY DEF Meaning
<1> HIDE DEF N
<1>3. \A n \in 1 .. N : \A o \in Outcomes : Stepped(path, o, text[n], included) \in Outcomes
    BY <1>1, SteppedType
<1>4. F \in [1 .. N -> [Outcomes -> Outcomes]]
    BY <1>3
<1> HIDE DEF F
<1>10. PICK g : Recurs(g, Outcomes, N, m, F)
    BY <1>1, <1>4, Recursion
<1>5. g \in [0 .. N -> Outcomes] /\ g[0] = m /\ \A n \in 1 .. N : g[n] = F[n][g[n - 1]]
    BY <1>10 DEF Recurs
<1>6. ASSUME NEW n \in 1 .. N
      PROVE  g[n] = Stepped(path, g[n - 1], text[n], included)
    <2>1. n - 1 \in 0 .. N
        BY <1>1
    <2>2. g[n - 1] \in Outcomes
        BY <1>5, <2>1
    <2>3. g[n] = F[n][g[n - 1]]
        BY <1>5
    <2>4. F[n][g[n - 1]] = Stepped(path, g[n - 1], text[n], included)
        BY <2>2 DEF F
    <2> QED
        BY <2>3, <2>4
\* The function that Meaning defines is there, and is this one.
<1>7. g = Body(g)
    <2>1. \A n \in 0 .. N : n = 0 \/ n \in 1 .. N
        BY <1>1
    <2>2. \A n \in 0 .. N : g[n] = IF n = 0 THEN m ELSE Stepped(path, g[n - 1], text[n], included)
        BY <1>5, <1>6, <2>1
    <2> QED
        BY <1>5, <2>2
<1>8. after = Body(after)
    <2> HIDE DEF Body
    <2> QED
        BY <1>7
<1>9. after[N] = g[N]
    <2> HIDE DEF after
    <2> DEFINE T == {n \in 0 .. N : after[n] = g[n]}
    <2>1. 0 \in T
        <3>1. 0 \in 0 .. N
            BY <1>1
        <3> QED
            BY <1>5, <1>8, <3>1
    <2>2. ASSUME NEW n \in 1 .. N, n - 1 \in T
          PROVE  n \in T
        <3>1. n \in 0 .. N /\ n # 0
            BY <1>1
        <3>2. after[n] = Stepped(path, after[n - 1], text[n], included)
            BY <1>8, <3>1
        <3> QED
            BY <1>6, <2>2, <3>1, <3>2
    <2> HIDE DEF T
    <2>3. \A n \in 1 .. N : n - 1 \in T => n \in T
        BY <2>2
    <2>4. N \in T
        <3>1. \A n \in 0 .. N : n \in T
            BY <1>1, <2>1, <2>3, UpTo
        <3> QED
            BY <1>1, <3>1
    <2> QED
        BY <2>4 DEF T
<1>11. Follows(g, path, m, text, included)
    BY <1>2, <1>5, <1>6, <1>9 DEF N, Follows
<1> QED
    BY <1>11

LEMMA MeaningType ==
    ASSUME NEW path, NEW m \in Outcomes, NEW text \in Seq(TaglStatement), NEW P, NEW included \in [P -> Outcomes]
    PROVE  /\ Meaning(path, m, text, included) \in Outcomes
           /\ text = <<>> => Meaning(path, m, text, included) = m
<1> DEFINE N == Len(text)
<1>1. PICK g : Follows(g, path, m, text, included)
    BY MeaningSteps
<1>2. N \in Nat /\ (text = <<>> => N = 0)
    OBVIOUS
<1> HIDE DEF N
<1>3. g \in [0 .. N -> Outcomes] /\ g[0] = m /\ g[N] = Meaning(path, m, text, included)
    BY <1>1 DEF Follows, N
<1> QED
    BY <1>2, <1>3

LEMMA MeaningOfNothing ==
    ASSUME NEW path, NEW m \in Outcomes, NEW P, NEW included \in [P -> Outcomes]
    PROVE  Meaning(path, m, <<>>, included) = m
<1> DEFINE text == <<>>
<1>1. text \in Seq(TaglStatement) /\ text = <<>> /\ Len(text) = 0
    OBVIOUS
<1>2. PICK g : Follows(g, path, m, text, included)
    BY <1>1, MeaningSteps
<1> HIDE DEF text
<1>3. g[0] = m /\ g[Len(text)] = Meaning(path, m, text, included)
    BY <1>2 DEF Follows
<1>4. Meaning(path, m, text, included) = m
    BY <1>1, <1>3
<1> QED
    BY <1>4 DEF text

\* The first statement of a text comes first.
LEMMA MeaningBegins ==
    ASSUME NEW path, NEW m \in Outcomes, NEW text \in Seq(TaglStatement), text # <<>>,
           NEW P, NEW included \in [P -> Outcomes]
    PROVE  Meaning(path, m, text, included) =
               Meaning(path, Stepped(path, m, Head(text), included), Tail(text), included)
<1> DEFINE first == Stepped(path, m, Head(text), included)
           rest == Tail(text)
           K == Len(rest)
<1>1. /\ K \in Nat /\ Len(text) = K + 1 /\ rest \in Seq(TaglStatement)
      /\ Head(text) = text[1] /\ Head(text) \in TaglStatement /\ \A n \in 1 .. K : rest[n] = text[n + 1]
    BY HeadTailProperties
<1>2. first \in Outcomes
    BY <1>1, SteppedType
<1> HIDE DEF first, rest
<1>9. PICK g : Follows(g, path, m, text, included)
    BY MeaningSteps
<1>3. /\ g \in [0 .. K + 1 -> Outcomes] /\ g[0] = m
      /\ \A n \in 1 .. K + 1 : g[n] = Stepped(path, g[n - 1], text[n], included)
      /\ g[K + 1] = Meaning(path, m, text, included)
    BY <1>1, <1>9 DEF Follows
<1>10. PICK h : Follows(h, path, first, rest, included)
    BY <1>1, <1>2, MeaningSteps
<1>4. /\ h \in [0 .. K -> Outcomes] /\ h[0] = first
      /\ \A n \in 1 .. K : h[n] = Stepped(path, h[n - 1], rest[n], included)
      /\ h[K] = Meaning(path, first, rest, included)
    BY <1>10 DEF Follows
<1> HIDE DEF K
<1> DEFINE T == {n \in 0 .. K : h[n] = g[n + 1]}
<1>5. 0 \in T
    <2>1. 1 \in 1 .. K + 1 /\ 0 \in 0 .. K /\ 1 - 1 = 0 /\ 0 + 1 = 1
        BY <1>1
    <2>2. g[1] = Stepped(path, g[0], text[1], included)
        BY <1>3, <2>1
    <2>3. h[0] = g[0 + 1]
        BY <1>1, <1>3, <1>4, <2>1, <2>2 DEF first
    <2> QED
        BY <2>1, <2>3
<1>6. ASSUME NEW n \in 1 .. K, n - 1 \in T
      PROVE  n \in T
    <2>1. n + 1 \in 1 .. K + 1 /\ n \in 0 .. K /\ (n + 1) - 1 = n /\ (n - 1) + 1 = n
        BY <1>1
    <2>2. g[n + 1] = Stepped(path, g[n], text[n + 1], included)
        BY <1>3, <2>1
    <2>3. h[n] = Stepped(path, h[n - 1], rest[n], included)
        BY <1>4
    <2>4. h[n - 1] = g[n]
        BY <1>6, <2>1
    <2> QED
        BY <1>1, <2>1, <2>2, <2>3, <2>4
<1> HIDE DEF T
<1>7. \A n \in 1 .. K : n - 1 \in T => n \in T
    BY <1>6
<1>8. K \in T
    <2>1. \A n \in 0 .. K : n \in T
        BY <1>1, <1>5, <1>7, UpTo
    <2> QED
        BY <1>1, <2>1
<1> QED
    BY <1>3, <1>4, <1>8 DEF T, first, rest

\* After an error nothing more is done.
LEMMA ErrorsStop ==
    ASSUME NEW path, NEW m \in Outcomes, NEW text \in Seq(TaglStatement), HasErrors(m.driver),
           NEW P, NEW included \in [P -> Outcomes]
    PROVE  Meaning(path, m, text, included) = m
<1> DEFINE N == Len(text)
<1>1. N \in Nat
    OBVIOUS
<1>9. PICK g : Follows(g, path, m, text, included)
    BY MeaningSteps
<1>2. /\ g \in [0 .. N -> Outcomes] /\ g[0] = m
      /\ \A n \in 1 .. N : g[n] = Stepped(path, g[n - 1], text[n], included)
      /\ g[N] = Meaning(path, m, text, included)
    BY <1>9 DEF Follows
<1> HIDE DEF N
<1> DEFINE T == {n \in 0 .. N : g[n] = m}
<1>3. 0 \in T
    BY <1>1, <1>2
<1>4. ASSUME NEW n \in 1 .. N, n - 1 \in T
      PROVE  n \in T
    <2>1. g[n] = Stepped(path, m, text[n], included)
        BY <1>2, <1>4
    <2>2. g[n] = m
        BY <2>1 DEF Stepped
    <2> QED
        BY <1>1, <2>2
<1> HIDE DEF T
<1>5. \A n \in 1 .. N : n - 1 \in T => n \in T
    BY <1>4
<1>6. N \in T
    <2>1. \A n \in 0 .. N : n \in T
        BY <1>1, <1>3, <1>5, UpTo
    <2> QED
        BY <1>1, <2>1
<1> QED
    BY <1>2, <1>6 DEF T

\* What was done before makes no difference to what a text does.
LEMMA PrecededStepped ==
    ASSUME NEW path, NEW m \in Outcomes, NEW s \in TaglStatement, NEW before \in Seq(Entries),
           NEW P, NEW included \in [P -> Outcomes]
    PROVE  /\ Preceded(before, m) \in Outcomes
           /\ Stepped(path, Preceded(before, m), s, included) = Preceded(before, Stepped(path, m, s, included))
<1> DEFINE p == Preceded(before, m)
<1>1. m.driver \in Frames /\ m.done \in Seq(Entries) /\ m = [driver |-> m.driver, done |-> m.done]
    BY DEF Outcomes
<1>2. before \o m.done \in Seq(Entries)
    BY <1>1
<1>3. p \in Outcomes
    BY <1>1, <1>2 DEF Preceded, Outcomes
<1>4. p.driver = m.driver /\ p.done = before \o m.done
    BY <1>1 DEF Preceded
<1> HIDE DEF p
<1>5. ASSUME s.op = "include", s.path \in DOMAIN included
      PROVE  Joined(p, included[s.path]) = Preceded(before, Joined(m, included[s.path]))
    <2> DEFINE n == included[s.path]
    <2>1. n.done \in Seq(Entries)
        BY <1>5 DEF Outcomes
    <2> HIDE DEF n
    <2> DEFINE x == m.done
               y == n.done
    <2>2. x \in Seq(Entries) /\ y \in Seq(Entries)
        BY <1>1, <2>1
    <2>3. (before \o x) \o y = before \o (x \o y)
        <3> HIDE DEF x, y
        <3> QED
            BY ONLY <2>2, before \in Seq(Entries), ConcatAssociative
    <2>4. Joined(p, n) = Preceded(before, Joined(m, n))
        <3> DEFINE d == [m.driver EXCEPT !.errors = @ \/ n.driver.errors]
        <3>1. Joined(m, n) = [driver |-> d, done |-> x \o y] /\ Joined(p, n) = [driver |-> d, done |-> (before \o x) \o y]
            BY <1>4 DEF Joined
        <3> HIDE DEF d, x, y
        <3> QED
            BY <2>3, <3>1 DEF Preceded
    <2> QED
        BY <2>4 DEF n
<1>6. ASSUME NEW e \in Entries
      PROVE  Append(before \o m.done, e) = before \o Append(m.done, e)
    <2> DEFINE x == m.done
    <2>1. x \in Seq(Entries) /\ before \o x \in Seq(Entries) /\ <<e>> \in Seq(Entries)
        BY <1>1, <1>2
    <2> HIDE DEF x
    <2>2. (before \o x) \o <<e>> = before \o (x \o <<e>>)
        BY ONLY <2>1, before \in Seq(Entries), ConcatAssociative
    <2>3. Append(before \o x, e) = (before \o x) \o <<e>> /\ Append(x, e) = x \o <<e>>
        BY ONLY <2>1, e \in Entries, AppendIsConcat
    <2> QED
        BY <2>2, <2>3 DEF x
<1>7. [statement |-> s, contexts |-> m.driver.contexts, flag |-> m.driver.flag] \in Entries
    BY <1>1 DEF Frames, Entries
<1>8. Stepped(path, p, s, included) = Preceded(before, Stepped(path, m, s, included))
    <2>1. CASE HasErrors(m.driver)
        BY <1>4, <2>1 DEF Stepped, p
    <2>2. CASE ~HasErrors(m.driver) /\ s.op = "include" /\ s.path \in DOMAIN included
        BY <1>4, <1>5, <2>2 DEF Stepped
    <2>3. CASE ~HasErrors(m.driver) /\ ~(s.op = "include" /\ s.path \in DOMAIN included)
        <3> DEFINE e == [statement |-> s, contexts |-> m.driver.contexts, flag |-> m.driver.flag]
                   d == Executed(path, m.driver, s)
        <3>1. Stepped(path, m, s, included) = [driver |-> d, done |-> IF s.op # "call" THEN m.done ELSE Append(m.done, e)]
            BY <2>3 DEF Stepped
        <3>2. Stepped(path, p, s, included) = [driver |-> d, done |-> IF s.op # "call" THEN p.done ELSE Append(p.done, e)]
            BY <1>4, <2>3 DEF Stepped
        <3>3. Append(before \o m.done, e) = before \o Append(m.done, e)
            BY <1>6, <1>7
        <3> HIDE DEF d, e
        <3>4. CASE s.op # "call"
            BY <1>4, <3>1, <3>2, <3>4 DEF Preceded
        <3>5. CASE s.op = "call"
            BY <1>4, <3>1, <3>2, <3>3, <3>5 DEF Preceded
        <3> QED
            BY <3>4, <3>5
    <2> QED
        BY <2>1, <2>2, <2>3
<1> QED
    BY <1>3, <1>8 DEF p

LEMMA MeaningPreceded ==
    ASSUME NEW path, NEW m \in Outcomes, NEW text \in Seq(TaglStatement), NEW before \in Seq(Entries),
           NEW P, NEW included \in [P -> Outcomes]
    PROVE  Meaning(path, Preceded(before, m), text, included) = Preceded(before, Meaning(path, m, text, included))
<1> DEFINE N == Len(text)
<1>1. N \in Nat /\ \A n \in 1 .. N : text[n] \in TaglStatement
    OBVIOUS
<1>9. PICK g : Follows(g, path, m, text, included)
    BY MeaningSteps
<1>2. /\ g \in [0 .. N -> Outcomes] /\ g[0] = m
      /\ \A n \in 1 .. N : g[n] = Stepped(path, g[n - 1], text[n], included)
      /\ g[N] = Meaning(path, m, text, included)
    BY <1>9 DEF Follows
<1>3. Preceded(before, m) \in Outcomes
    <2>1. m.done \in Seq(Entries) /\ m.driver \in Frames /\ m = [driver |-> m.driver, done |-> m.done]
        BY DEF Outcomes
    <2>2. before \o m.done \in Seq(Entries)
        BY <2>1
    <2> QED
        BY <2>1, <2>2 DEF Outcomes, Preceded
<1>10. PICK h : Follows(h, path, Preceded(before, m), text, included)
    BY <1>3, MeaningSteps
<1>4. /\ h \in [0 .. N -> Outcomes] /\ h[0] = Preceded(before, m)
      /\ \A n \in 1 .. N : h[n] = Stepped(path, h[n - 1], text[n], included)
      /\ h[N] = Meaning(path, Preceded(before, m), text, included)
    BY <1>10 DEF Follows
<1> HIDE DEF N
<1> DEFINE T == {n \in 0 .. N : h[n] = Preceded(before, g[n])}
<1>5. 0 \in T
    BY <1>1, <1>2, <1>4
<1>6. ASSUME NEW n \in 1 .. N, n - 1 \in T
      PROVE  n \in T
    <2>1. n - 1 \in 0 .. N /\ n \in 0 .. N
        BY <1>1
    <2>2. g[n - 1] \in Outcomes /\ text[n] \in TaglStatement
        BY <1>1, <1>2, <2>1
    <2>3. h[n] = Stepped(path, Preceded(before, g[n - 1]), text[n], included)
        BY <1>4, <1>6
    <2>4. g[n] = Stepped(path, g[n - 1], text[n], included)
        BY <1>2
    <2>5. h[n] = Preceded(before, g[n])
        BY <2>2, <2>3, <2>4, PrecededStepped
    <2> QED
        BY <2>1, <2>5
<1> HIDE DEF T
<1>7. \A n \in 1 .. N : n - 1 \in T => n \in T
    BY <1>6
<1>8. N \in T
    <2>1. \A n \in 0 .. N : n \in T
        BY <1>1, <1>5, <1>7, UpTo
    <2> QED
        BY <1>1, <2>1
<1> QED
    BY <1>2, <1>4, <1>8 DEF T

LEMMA FramesEqual ==
    ASSUME NEW f \in Frames, NEW g \in Frames, f.contexts = g.contexts, f.session = g.session,
           f.flag = g.flag, f.errors = g.errors, f.code = g.code
    PROVE  f = g
BY DEF Frames

LEMMA NothingType == Nothing \in Outcomes /\ Begun \in Outcomes
<1>1. <<>> \in Seq(Contexts) /\ <<>> \in Seq(Entries)
    OBVIOUS
<1>2. Fresh \in Frames
    BY <1>1 DEF Fresh, Frames
<1>3. [Fresh EXCEPT !.session = TRUE] \in Frames
    BY <1>2 DEF Frames
<1> QED
    BY <1>1, <1>2, <1>3 DEF Nothing, Begun, Outcomes

\* What a file means is defined wherever there is room for a driver, and is what
\* its text means to a driver that starts from nothing.
LEMMA IncludedMeans ==
    ASSUME NEW texts \in Contents
    PROVE  /\ \A room \in 0 .. MaxDepth : Included(texts)[room] \in [DOMAIN texts -> Outcomes]
           /\ \A room \in 0 .. MaxDepth : \A p \in DOMAIN texts :
                  Included(texts)[room][p] =
                      IF room = 0 THEN Nothing ELSE Meaning(p, Nothing, texts[p], Included(texts)[room - 1])
<1> DEFINE D == DOMAIN texts
           X == [D -> Outcomes]
           b == [p \in D |-> Nothing]
           F == [n \in 1 .. MaxDepth |-> [o \in X |-> [p \in D |-> Meaning(p, Nothing, texts[p], o)]]]
           Body(f) == [room \in 0 .. MaxDepth |->
                         [p \in D |-> IF room = 0 THEN Nothing ELSE Meaning(p, Nothing, texts[p], f[room - 1])]]
           means == CHOOSE f : f = Body(f)
<1>1. MaxDepth \in Nat /\ Nothing \in Outcomes /\ \A p \in D : texts[p] \in Seq(TaglStatement)
    BY DepthAssumption, NothingType, TextsAssumption
<1>2. Included(texts) = means
    BY DEF Included
<1>3. \A o \in X : \A p \in D : Meaning(p, Nothing, texts[p], o) \in Outcomes
    <2> SUFFICES ASSUME NEW o \in X, NEW p \in D
                 PROVE  Meaning(p, Nothing, texts[p], o) \in Outcomes
        OBVIOUS
    <2>1. o \in [D -> Outcomes] /\ texts[p] \in Seq(TaglStatement)
        BY <1>1
    <2> HIDE DEF D
    <2> QED
        BY <1>1, <2>1, MeaningType
<1> HIDE DEF D
<1>4. b \in X
    BY <1>1
<1>5. F \in [1 .. MaxDepth -> [X -> X]]
    BY <1>3
<1> HIDE DEF F, b, X
<1>6. PICK g : Recurs(g, X, MaxDepth, b, F)
    BY <1>1, <1>4, <1>5, Recursion
<1>7. g \in [0 .. MaxDepth -> X] /\ g[0] = b /\ \A n \in 1 .. MaxDepth : g[n] = F[n][g[n - 1]]
    BY <1>6 DEF Recurs
<1>8. g = Body(g)
    <2>1. ASSUME NEW n \in 0 .. MaxDepth
          PROVE  g[n] = [p \in D |-> IF n = 0 THEN Nothing ELSE Meaning(p, Nothing, texts[p], g[n - 1])]
        <3>1. CASE n = 0
            BY <1>7, <3>1 DEF b
        <3>2. CASE n # 0
            <4>1. n \in 1 .. MaxDepth /\ n - 1 \in 0 .. MaxDepth
                BY <1>1, <3>2
            <4>2. g[n - 1] \in X /\ g[n] = F[n][g[n - 1]]
                BY <1>7, <4>1
            <4>3. F[n][g[n - 1]] = [p \in D |-> Meaning(p, Nothing, texts[p], g[n - 1])]
                BY <4>1, <4>2 DEF F
            <4> QED
                BY <3>2, <4>2, <4>3
        <3> QED
            BY <3>1, <3>2
    <2> QED
        BY <1>7, <2>1
<1>9. means = Body(means)
    <2> HIDE DEF Body
    <2> QED
        BY <1>8
<1> HIDE DEF means
<1>10. ASSUME NEW room \in 0 .. MaxDepth
       PROVE  means[room] = [p \in D |-> IF room = 0 THEN Nothing ELSE Meaning(p, Nothing, texts[p], means[room - 1])]
    BY <1>9
<1> DEFINE T == {n \in 0 .. MaxDepth : means[n] \in X}
<1>11. 0 \in T
    <2>1. 0 \in 0 .. MaxDepth
        BY <1>1
    <2>2. means[0] = [p \in D |-> Nothing]
        BY <1>10, <2>1
    <2> QED
        BY <1>1, <2>1, <2>2 DEF X
<1>12. ASSUME NEW n \in 1 .. MaxDepth, n - 1 \in T
       PROVE  n \in T
    <2>1. n \in 0 .. MaxDepth /\ n # 0
        BY <1>1
    <2>2. means[n] = [p \in D |-> Meaning(p, Nothing, texts[p], means[n - 1])]
        BY <1>10, <2>1
    <2>3. \A p \in D : Meaning(p, Nothing, texts[p], means[n - 1]) \in Outcomes
        BY <1>3, <1>12
    <2> QED
        BY <2>1, <2>2, <2>3 DEF X
<1> HIDE DEF T
<1>13. \A n \in 1 .. MaxDepth : n - 1 \in T => n \in T
    BY <1>12
<1>14. \A n \in 0 .. MaxDepth : n \in T
    BY <1>1, <1>11, <1>13, UpTo
<1>15. \A room \in 0 .. MaxDepth : means[room] \in [D -> Outcomes]
    BY <1>14 DEF T, X
<1>16. \A room \in 0 .. MaxDepth : \A p \in D :
           means[room][p] = IF room = 0 THEN Nothing ELSE Meaning(p, Nothing, texts[p], means[room - 1])
    BY <1>10
<1> QED
    BY <1>2, <1>15, <1>16 DEF D

\* The commands there may be where the files are texts.
Told(texts) == [op : {"line"}, statements : Lines] \cup [op : {"load"}, path : DOMAIN texts]

LEMMA LineTypes ==
    ASSUME NEW m \in Outcomes
    PROVE  LineBegun(m) \in Outcomes /\ LineEnded(m) \in Outcomes
<1>1. m.driver \in Frames /\ m.done \in Seq(Entries)
    BY DEF Outcomes
<1>2. /\ [m.driver EXCEPT !.code = FALSE] \in Frames
      /\ [m.driver EXCEPT !.errors = FALSE, !.code = FALSE] \in Frames
    BY <1>1 DEF Frames
<1> QED
    BY <1>1, <1>2 DEF Outcomes, LineBegun, LineEnded

LEMMA ObeyedType ==
    ASSUME NEW texts \in Contents, NEW m \in Outcomes, NEW c \in Told(texts)
    PROVE  Obeyed(texts, m, c) \in Outcomes
<1> DEFINE included == Included(texts)[MaxDepth - 1]
<1>1. included \in [DOMAIN texts -> Outcomes]
    <2>1. MaxDepth - 1 \in 0 .. MaxDepth
        BY DepthAssumption
    <2> QED
        BY <2>1, IncludedMeans
<1> HIDE DEF included
<1>2. CASE c.op = "line"
    <2> DEFINE n == Meaning(Top, LineBegun(m), c.statements, included)
    <2>1. c.statements \in Seq(TaglStatement)
        BY <1>2, LinesAssumption DEF Told
    <2>2. n \in Outcomes
        BY <1>1, <2>1, LineTypes, MeaningType
    <2>3. Obeyed(texts, m, c) = LineEnded(n)
        BY <1>2 DEF Obeyed, included
    <2> HIDE DEF n
    <2> QED
        BY <2>2, <2>3, LineTypes
<1>3. CASE c.op # "line"
    <2>1. c.path \in DOMAIN texts
        BY <1>3 DEF Told
    <2>2. included[c.path] \in Outcomes
        BY <1>1, <2>1
    <2>3. Obeyed(texts, m, c) = Joined(m, included[c.path])
        BY <1>3 DEF Obeyed, included
    <2> QED
        BY <2>2, <2>3, JoinedType
<1> QED
    BY <1>2, <1>3

\* The shell after each of the commands.
Plays(g, texts, cs) ==
    /\ g \in [0 .. Len(cs) -> Outcomes]
    /\ g[0] = Begun
    /\ \A n \in 1 .. Len(cs) : g[n] = Obeyed(texts, g[n - 1], cs[n])
    /\ g[Len(cs)] = Script(texts, cs)

LEMMA ScriptSteps ==
    ASSUME NEW texts \in Contents, NEW cs \in Seq(Told(texts))
    PROVE  \E g : Plays(g, texts, cs)
<1> DEFINE N == Len(cs)
           b == Begun
           F == [n \in 1 .. N |-> [o \in Outcomes |-> Obeyed(texts, o, cs[n])]]
           Body(f) == [n \in 0 .. N |-> IF n = 0 THEN b ELSE Obeyed(texts, f[n - 1], cs[n])]
           after == CHOOSE f : f = Body(f)
<1>1. N \in Nat /\ \A n \in 1 .. N : cs[n] \in Told(texts)
    OBVIOUS
<1>2. Script(texts, cs) = after[N]
    BY DEF Script
<1>3. b \in Outcomes
    BY NothingType
<1> HIDE DEF N, b
<1>4. F \in [1 .. N -> [Outcomes -> Outcomes]]
    <2>1. \A n \in 1 .. N : \A o \in Outcomes : Obeyed(texts, o, cs[n]) \in Outcomes
        BY <1>1, ObeyedType
    <2> QED
        BY <2>1
<1> HIDE DEF F
<1>5. PICK g : Recurs(g, Outcomes, N, b, F)
    BY <1>1, <1>3, <1>4, Recursion
<1>6. g \in [0 .. N -> Outcomes] /\ g[0] = b /\ \A n \in 1 .. N : g[n] = F[n][g[n - 1]]
    BY <1>5 DEF Recurs
<1>7. ASSUME NEW n \in 1 .. N
      PROVE  g[n] = Obeyed(texts, g[n - 1], cs[n])
    <2>1. n - 1 \in 0 .. N
        BY <1>1
    <2>2. g[n - 1] \in Outcomes /\ g[n] = F[n][g[n - 1]]
        BY <1>6, <2>1
    <2>3. F[n][g[n - 1]] = Obeyed(texts, g[n - 1], cs[n])
        BY <2>2 DEF F
    <2> QED
        BY <2>2, <2>3
<1>8. g = Body(g)
    <2>1. \A n \in 0 .. N : n = 0 \/ n \in 1 .. N
        BY <1>1
    <2>2. \A n \in 0 .. N : g[n] = IF n = 0 THEN b ELSE Obeyed(texts, g[n - 1], cs[n])
        BY <1>6, <1>7, <2>1
    <2> QED
        BY <1>6, <2>2
<1>9. after = Body(after)
    <2> HIDE DEF Body
    <2> QED
        BY <1>8
<1>10. after[N] = g[N]
    <2> HIDE DEF after
    <2> DEFINE T == {n \in 0 .. N : after[n] = g[n]}
    <2>1. 0 \in T
        <3>1. 0 \in 0 .. N
            BY <1>1
        <3> QED
            BY <1>6, <1>9, <3>1
    <2>2. ASSUME NEW n \in 1 .. N, n - 1 \in T
          PROVE  n \in T
        <3>1. n \in 0 .. N /\ n # 0
            BY <1>1
        <3>2. after[n] = Obeyed(texts, after[n - 1], cs[n])
            BY <1>9, <3>1
        <3> QED
            BY <1>7, <2>2, <3>1, <3>2
    <2> HIDE DEF T
    <2>3. \A n \in 1 .. N : n - 1 \in T => n \in T
        BY <2>2
    <2>4. N \in T
        <3>1. \A n \in 0 .. N : n \in T
            BY <1>1, <2>1, <2>3, UpTo
        <3> QED
            BY <1>1, <3>1
    <2> QED
        BY <2>4 DEF T
<1>11. Plays(g, texts, cs)
    BY <1>2, <1>6, <1>7, <1>10 DEF N, b, Plays
<1> QED
    BY <1>11

\* A script means what its last command makes of what the others mean.
LEMMA ScriptAppend ==
    ASSUME NEW texts \in Contents, NEW cs \in Seq(Told(texts)), NEW c \in Told(texts)
    PROVE  Script(texts, Append(cs, c)) = Obeyed(texts, Script(texts, cs), c)
<1> DEFINE longer == Append(cs, c)
           K == Len(cs)
<1>1. /\ K \in Nat /\ longer \in Seq(Told(texts)) /\ Len(longer) = K + 1 /\ longer[K + 1] = c
      /\ \A n \in 1 .. K : longer[n] = cs[n]
    BY AppendProperties
<1> HIDE DEF longer
<1>2. PICK g : Plays(g, texts, cs)
    BY ScriptSteps
<1>3. PICK h : Plays(h, texts, longer)
    BY <1>1, ScriptSteps
<1>4. /\ g[0] = h[0] /\ g[K] = Script(texts, cs)
      /\ \A n \in 1 .. K : g[n] = Obeyed(texts, g[n - 1], cs[n])
    BY <1>2, <1>3 DEF Plays
<1>5. /\ h[K + 1] = Script(texts, longer)
      /\ \A n \in 1 .. K + 1 : h[n] = Obeyed(texts, h[n - 1], longer[n])
    BY <1>1, <1>3 DEF Plays
<1> HIDE DEF K
<1> DEFINE T == {n \in 0 .. K : h[n] = g[n]}
<1>6. 0 \in T
    BY <1>1, <1>4
<1>7. ASSUME NEW n \in 1 .. K, n - 1 \in T
      PROVE  n \in T
    <2>1. n \in 0 .. K /\ n \in 1 .. K + 1
        BY <1>1
    <2> QED
        BY <1>1, <1>4, <1>5, <1>7, <2>1
<1> HIDE DEF T
<1>8. \A n \in 1 .. K : n - 1 \in T => n \in T
    BY <1>7
<1>9. K \in T
    <2>1. \A n \in 0 .. K : n \in T
        BY <1>1, <1>6, <1>8, UpTo
    <2> QED
        BY <1>1, <2>1
<1>10. h[K + 1] = Obeyed(texts, h[K], c)
    <2>1. K + 1 \in 1 .. K + 1 /\ (K + 1) - 1 = K
        BY <1>1
    <2> QED
        BY <1>1, <1>5, <2>1
<1> QED
    BY <1>4, <1>5, <1>9, <1>10 DEF T, longer

-----------------------------------------------------------------------------
(* The shell keeps to its script. *)

\* What a driver has set, where its contexts are those of its session.
Frame(d, contexts) ==
    [contexts |-> IF d.session = NoSession THEN <<>> ELSE contexts[d.session],
     session |-> d.session # NoSession, flag |-> d.flag, errors |-> d.errors, code |-> d.code]

\* What the driver at work has come to.
Now == [driver |-> Frame(Current, sessions), done |-> log]

\* A driver that waits, once the file that it includes has come to n.
Resumed(f, n) == [driver |-> [f EXCEPT !.errors = @ \/ n.driver.errors], done |-> n.done]

\* What the driver is left with once the file that it includes is done.
AfterFile(rest) == IF rest = <<>> THEN <<>> ELSE Tail(rest)

\* What the files mean that the driver in this place can include.
Room(texts, i) == Included(texts)[MaxDepth - i]

\* What every driver at work will come to with the rest of its text, when the
\* drivers on top of it have come to what they will.
Expects(outs) ==
    /\ outs \in [1 .. Len(stack) -> Outcomes]
    /\ outs[Len(stack)] = Meaning(Current.path, Now, Current.rest, Room(files, Len(stack)))
    /\ \A i \in 1 .. Len(stack) - 1 :
           outs[i] = Meaning(stack[i].path, Resumed(Frame(stack[i], sessions), outs[i + 1]), AfterFile(stack[i].rest), Room(files, i))

\* What the shell will be when the host's driver has come to m.
Settled(kind, m) == IF kind = "line" THEN LineEnded(m) ELSE m

\* The host's driver will come to what the script means.
Promised == \E outs : Expects(outs) /\ Settled(phase, outs[1]) = Script(files, commands)

\* What there is to make a promise with.
Papers ==
    /\ commands \in Seq(Told(files))
    /\ stack[1].path = Top
    /\ log \in Seq(Entries)

OnScript == WellKept /\ Papers /\ Promised

LEMMA FrameType ==
    ASSUME WellKept
    PROVE  /\ \A i \in 1 .. Len(stack) : Frame(stack[i], sessions) \in Frames
           /\ \A i \in 1 .. Len(stack) : stack[i].session \in {NoSession, i} /\ stack[i] \in Drivers
<1>1. /\ stack \in Seq(Drivers) /\ sessions \in [1 .. MaxDepth -> Seq(Contexts)]
      /\ Len(stack) \in 1 .. MaxDepth /\ MaxDepth \in Nat /\ OwnSessions
    BY DepthAssumption DEF WellKept, DriverInv, DriverTypeOK
<1> SUFFICES ASSUME NEW i \in 1 .. Len(stack)
             PROVE  /\ Frame(stack[i], sessions) \in Frames
                    /\ stack[i].session \in {NoSession, i} /\ stack[i] \in Drivers
    OBVIOUS
<1>2. stack[i] \in Drivers /\ i \in 1 .. MaxDepth /\ stack[i].session \in {NoSession, i}
    <2> DEFINE n == Len(stack)
    <2>1. n \in 1 .. MaxDepth /\ i \in 1 .. n
        BY <1>1
    <2> HIDE DEF n
    <2>2. i \in 1 .. MaxDepth
        BY <1>1, <2>1
    <2> QED
        BY <1>1, <2>2 DEF OwnSessions
<1>3. <<>> \in Seq(Contexts) /\ sessions[i] \in Seq(Contexts)
    BY <1>1, <1>2
<1> DEFINE d == stack[i]
           c == IF d.session = NoSession THEN <<>> ELSE sessions[d.session]
<1>4. c \in Seq(Contexts) /\ d.flag \in BOOLEAN /\ d.errors \in BOOLEAN /\ d.code \in BOOLEAN
    BY <1>2, <1>3 DEF Drivers
<1>5. Frame(d, sessions) = [contexts |-> c, session |-> d.session # NoSession, flag |-> d.flag,
                            errors |-> d.errors, code |-> d.code]
    BY DEF Frame
<1> HIDE DEF c, d
<1>6. Frame(d, sessions) \in Frames
    BY <1>4, <1>5 DEF Frames
<1> QED
    BY <1>2, <1>6 DEF d

\* A driver that waits has set what it had set.
LEMMA FramesWait ==
    ASSUME WellKept, NEW i \in 1 .. Len(stack), stack'[i] = stack[i], sessions'[i] = sessions[i]
    PROVE  Frame(stack'[i], sessions') = Frame(stack[i], sessions)
<1>1. stack[i].session \in {NoSession, i}
    BY FrameType
<1> QED
    BY <1>1 DEF Frame

\* What the state says of the driver at work.
LEMMA AtWorkNow ==
    ASSUME WellKept, Papers
    PROVE  /\ Len(stack) \in Nat \ {0} /\ Len(stack) \in 1 .. MaxDepth /\ MaxDepth \in Nat
           /\ Len(stack) \in 1 .. Len(stack) /\ 1 \in 1 .. Len(stack)
           /\ stack \in Seq(Drivers) /\ Current = stack[Len(stack)] /\ Current \in Drivers
           /\ Now \in Outcomes /\ (HasErrors(Now.driver) <=> HasErrors(Current))
           /\ Current.rest \in Seq(TaglStatement)
           /\ Running => /\ Current.rest # <<>> /\ Head(Current.rest) \in TaglStatement
                         /\ Current.errors = FALSE /\ Current.code = FALSE
           /\ files \in Contents /\ sessions \in [1 .. MaxDepth -> Seq(Contexts)] /\ callback = Len(stack)
<1> DEFINE n == Len(stack)
<1>1. /\ n \in Nat \ {0} /\ n \in 1 .. MaxDepth /\ MaxDepth \in Nat /\ stack \in Seq(Drivers)
      /\ Current = stack[n] /\ Current \in Drivers
      /\ Running => Head(Current.rest) \in TaglStatement
    BY EmptySeq, AtWork DEF WellKept
<1>2. n \in 1 .. n /\ 1 \in 1 .. n
    <2> HIDE DEF n
    <2> QED
        BY <1>1
<1>3. Frame(Current, sessions) \in Frames
    BY <1>1, <1>2, FrameType
<1>4. Now \in Outcomes
    BY <1>3 DEF Now, Outcomes, Papers
<1>5. HasErrors(Now.driver) <=> HasErrors(Current)
    BY DEF Now, Frame, HasErrors
<1>6. Current.errors \in BOOLEAN /\ Current.code \in BOOLEAN /\ Current.rest \in Seq(TaglStatement)
    BY <1>1 DEF Drivers
<1>7. Running => Current.errors = FALSE /\ Current.code = FALSE /\ Current.rest # <<>>
    BY <1>6 DEF Running, HasErrors
<1>8. files \in Contents /\ sessions \in [1 .. MaxDepth -> Seq(Contexts)] /\ callback = n
    BY DEF WellKept, DriverInv, DriverTypeOK
<1> QED
    BY <1>1, <1>2, <1>4, <1>5, <1>6, <1>7, <1>8

LEMMA RoomType ==
    ASSUME files \in Contents, NEW i \in 1 .. MaxDepth
    PROVE  Room(files, i) \in [DOMAIN files -> Outcomes]
<1>1. MaxDepth - i \in 0 .. MaxDepth
    BY DepthAssumption
<1> QED
    BY <1>1, IncludedMeans DEF Room

\* The driver at work executes a statement as it is meant: all is as promised.
LEMMA StatementKeepsPromise ==
    ASSUME OnScript, WellKept', OthersWait, Running, UNCHANGED <<files, phase, commands>>,
           Len(stack') = Len(stack),
           stack'[Len(stack)].rest = Tail(Current.rest), stack'[Len(stack)].path = Current.path,
           log' \in Seq(Entries),
           Now' = Stepped(Current.path, Now, Head(Current.rest), Room(files, Len(stack)))
    PROVE  OnScript'
<1> DEFINE n == Len(stack)
<1>1. /\ WellKept /\ Papers /\ n \in Nat \ {0} /\ n \in 1 .. MaxDepth /\ n \in 1 .. n
      /\ Now \in Outcomes /\ Current = stack[n] /\ files \in Contents
      /\ Current.rest \in Seq(TaglStatement) /\ Current.rest # <<>>
    BY AtWorkNow DEF OnScript
<1>2. Room(files, n) \in [DOMAIN files -> Outcomes]
    BY <1>1, RoomType
<1>3. Current' = stack'[n] /\ Room(files', n) = Room(files, n)
    <2>1. Current' = stack'[n]
        <3>1. Len(stack') # 0
            BY <1>1
        <3> QED
            BY DEF Current, Last
    <2> QED
        BY <2>1 DEF Room
<1>4. Meaning(Current.path, Now, Current.rest, Room(files, n))
        = Meaning(Current'.path, Now', Current'.rest, Room(files', n))
    <2>1. Meaning(Current.path, Now, Current.rest, Room(files, n)) =
          Meaning(Current.path, Stepped(Current.path, Now, Head(Current.rest), Room(files, n)), Tail(Current.rest), Room(files, n))
        BY <1>1, <1>2, MeaningBegins
    <2> QED
        BY <1>3, <2>1
<1>5. PICK outs : Expects(outs) /\ Settled(phase, outs[1]) = Script(files, commands)
    BY DEF OnScript, Promised
<1>6. ASSUME NEW i \in 1 .. n - 1
      PROVE  /\ stack'[i] = stack[i] /\ Room(files', i) = Room(files, i)
             /\ Resumed(Frame(stack'[i], sessions'), outs[i + 1]) = Resumed(Frame(stack[i], sessions), outs[i + 1])
    <2>1. stack'[i] = stack[i] /\ sessions'[i] = sessions[i]
        BY DEF OthersWait
    <2>2. i \in 1 .. n
        <3> HIDE DEF n
        <3> QED
            BY <1>1
    <2>3. Frame(stack'[i], sessions') = Frame(stack[i], sessions)
        BY <1>1, <2>1, <2>2, FramesWait
    <2> QED
        BY <2>1, <2>3 DEF Resumed, Room
<1>7. Expects(outs)'
    <2>1. outs \in [1 .. Len(stack') -> Outcomes]
        BY <1>5 DEF Expects
    <2>2. outs[Len(stack')] = Meaning(Current'.path, Now', Current'.rest, Room(files', Len(stack)))
        BY <1>4, <1>5 DEF Expects
    <2>3. ASSUME NEW i \in 1 .. Len(stack') - 1
          PROVE  outs[i] = Meaning(stack'[i].path, Resumed(Frame(stack'[i], sessions'), outs[i + 1]), AfterFile(stack'[i].rest), Room(files', i))
        BY <1>5, <1>6 DEF Expects
    <2> QED
        BY <2>1, <2>2, <2>3 DEF Expects
<1>8. Papers'
    <2>1. n = 1 => stack'[1].path = stack[1].path
        BY <1>1
    <2>2. n # 1 => 1 \in 1 .. n - 1
        <3> HIDE DEF n
        <3> QED
            BY <1>1
    <2>3. stack'[1].path = stack[1].path
        BY <2>1, <2>2 DEF OthersWait
    <2> QED
        BY <1>1, <2>3 DEF Papers, Told
<1>9. Promised'
    <2>1. Settled(phase', outs[1]) = Script(files', commands')
        BY <1>5 DEF Settled
    <2> QED
        BY <1>7, <2>1 DEF Promised
<1> QED
    BY <1>8, <1>9 DEF OnScript

\* A statement that the driver executes itself, and that begins no file.
LEMMA SetOnScript ==
    ASSUME OnScript, ~SharedErrors, Set, ~Include
    PROVE  OnScript'
<1> DEFINE n == Len(stack)
           s == Head(Current.rest)
           f == Frame(Current, sessions)
           m == Stepped(Current.path, Now, s, Room(files, n))
<1>1. WellKept /\ Papers /\ <<>> \in Seq(Contexts) /\ DriverInv(<<>>)
    BY DEF OnScript, WellKept
<1>2. SetStatement /\ UNCHANGED <<phase, commands, log>>
    BY DEF Set
<1>3. WellKept' /\ OthersWait /\ Running /\ UNCHANGED files
    BY <1>1, <1>2, StatementDone, SetKeeps
<1>4. /\ n \in Nat \ {0} /\ n \in 1 .. MaxDepth /\ n \in 1 .. n /\ stack \in Seq(Drivers)
      /\ Current = stack[n] /\ Current \in Drivers /\ s \in TaglStatement
      /\ Current.errors = FALSE /\ Current.code = FALSE /\ ~HasErrors(Now.driver)
      /\ files \in Contents
    BY <1>1, <1>3, AtWorkNow DEF Running
<1>5. Room(files, n) \in [DOMAIN files -> Outcomes]
    BY <1>4, RoomType
\* What the statement makes of the driver is what it means.
<1>6. ASSUME NEW d, stack' = [stack EXCEPT ![n] = d], d.rest = Tail(Current.rest), d.path = Current.path,
             Frame(d, sessions') = m.driver, m.done = log
      PROVE  OnScript'
    <2>1. Len(stack') = n /\ stack'[n] = d
        BY <1>4, <1>6
    <2>2. Current' = d
        <3>1. Len(stack') # 0
            BY <1>4, <2>1
        <3> QED
            BY <2>1 DEF Current, Last
    <2>3. m \in Outcomes
        <3>1. Now \in Outcomes
            BY <1>1, AtWorkNow
        <3> QED
            BY <1>4, <1>5, <3>1, SteppedType
    <2>4. m = [driver |-> m.driver, done |-> m.done]
        <3> HIDE DEF m
        <3> QED
            BY <2>3 DEF Outcomes
    <2>5. Now' = m
        BY <1>2, <1>6, <2>2, <2>4 DEF Now
    <2>6. log' \in Seq(Entries)
        BY <1>1, <1>2 DEF Papers
    <2> QED
        BY <1>2, <1>3, <1>6, <2>1, <2>5, <2>6, StatementKeepsPromise
<1>7. ASSUME s.op # "call", ~(s.op = "include" /\ s.path \in DOMAIN files)
      PROVE  m.driver = Executed(Current.path, f, s) /\ m.done = log
    <2>1. m = [driver |-> Executed(Current.path, f, s), done |-> log]
        BY <1>4, <1>5, <1>7 DEF Stepped, Now
    <2> QED
        BY <2>1
<1>8. f = [contexts |-> f.contexts, session |-> Current.session # NoSession, flag |-> Current.flag,
           errors |-> FALSE, code |-> FALSE]
    BY <1>4 DEF Frame
<1>9. CASE SetContext
    <2> DEFINE d == stack'[n]
    <2>1. /\ s.op = "context" /\ Executes(Current, d) /\ Replaced(s.ids, <<>>)
        BY <1>1, <1>9, ContextSet DEF SetContext
    <2>2. /\ d.session \in {NoSession, n} /\ d.flag = Current.flag /\ d.errors = FALSE
          /\ d.session # NoSession <=> Current.session # NoSession \/ s.ids # <<>>
          /\ d.session = NoSession => Pushed(s.ids) = <<>>
          /\ sessions'[n] = <<>> \o Pushed(s.ids)
          /\ d.rest = Tail(Current.rest) /\ d.path = Current.path /\ d.code = FALSE
        BY <1>4, <2>1 DEF Replaced, Executes, Base
    <2>3. stack' = [stack EXCEPT ![n] = d]
        <3>1. PICK e : stack' = [stack EXCEPT ![n] = e]
            BY <1>9 DEF SetContext, Proceed
        <3>2. d = e
            BY <1>4, <3>1
        <3> QED
            BY <3>1, <3>2
    <2>4. Pushed(s.ids) \in Seq(Contexts)
        BY <1>4, <2>1, TextsAssumption, PushedType
    <2>5. <<>> \o Pushed(s.ids) = Pushed(s.ids)
        BY <2>4
    <2> HIDE DEF d, s, m, f
    <2>6. Frame(d, sessions') = [contexts |-> Pushed(s.ids), session |-> d.session # NoSession, flag |-> Current.flag,
                                 errors |-> FALSE, code |-> FALSE]
        BY <2>2, <2>5 DEF Frame
    <2>7. Executed(Current.path, f, s) =
             [contexts |-> Pushed(s.ids), session |-> d.session # NoSession, flag |-> Current.flag,
              errors |-> FALSE, code |-> FALSE]
        <3>1. /\ f.session = (Current.session # NoSession) /\ f.flag = Current.flag
              /\ (IF s.op = "flag" THEN s.on ELSE f.flag) = Current.flag
            BY <1>4, <1>8, <2>1 DEF Drivers
        <3>2. (f.session \/ (s.op = "context" /\ s.ids # <<>>)) = (d.session # NoSession)
            BY <2>1, <2>2, <3>1
        <3> QED
            BY <2>1, <3>1, <3>2 DEF Executed
    <2>8. s.op # "call" /\ s.op # "include"
        BY <2>1
    <2>9. m.driver = Executed(Current.path, f, s) /\ m.done = log
        BY <1>7, <2>8
    <2> QED
        BY <1>6, <2>2, <2>3, <2>6, <2>7, <2>9
\* A statement that sets no context.
<1>15. ASSUME NEW d \in Drivers, s.op # "context", s.op # "call", d.session = Current.session,
              d.flag = (IF s.op = "flag" THEN s.on ELSE Current.flag), d.code = FALSE,
              d.errors = (s.op = "bad" \/ (s.op = "include" /\ Current.path = Top))
       PROVE  Frame(d, sessions) = Executed(Current.path, f, s)
    <2> DEFINE here == d.session # NoSession
    <2>1. f.contexts = (IF here THEN sessions[d.session] ELSE <<>>) /\ f.session = here /\ f.flag = Current.flag
        BY <1>15 DEF Frame
    <2> HIDE DEF f, s
    <2>2. (f.session \/ (s.op = "context" /\ s.ids # <<>>)) = here
        BY <1>15, <2>1
    <2>3. Executed(Current.path, f, s) =
             [contexts |-> IF here THEN sessions[d.session] ELSE <<>>, session |-> here, flag |-> d.flag,
              errors |-> d.errors, code |-> FALSE]
        BY <1>15, <2>1, <2>2 DEF Executed
    <2>4. Frame(d, sessions) =
             [contexts |-> IF here THEN sessions[d.session] ELSE <<>>, session |-> here, flag |-> d.flag,
              errors |-> d.errors, code |-> FALSE]
        BY <1>15 DEF Frame
    <2> QED
        BY <2>3, <2>4
<1>10. ASSUME NEW d, Proceed(d), UNCHANGED sessions, d \in Drivers, d.rest = Current.rest,
              d.path = Current.path, Frame(d, sessions) = m.driver, m.done = log
       PROVE  OnScript'
    <2> DEFINE e == [d EXCEPT !.rest = Tail(@)]
    <2>1. stack' = [stack EXCEPT ![n] = e]
        BY <1>10 DEF Proceed
    <2>2. /\ e.rest = Tail(Current.rest) /\ e.path = Current.path /\ e.session = d.session /\ e.flag = d.flag
          /\ e.errors = d.errors /\ e.code = d.code
        BY <1>10 DEF Drivers
    <2> HIDE DEF e, m
    <2>3. Frame(e, sessions') = m.driver
        BY <1>10, <2>2 DEF Frame
    <2> QED
        BY <1>6, <1>10, <2>1, <2>2, <2>3
<1>11. CASE SetFlag
    <2> DEFINE d == [Current EXCEPT !.flag = s.on]
    <2>1. s.op = "flag" /\ Proceed(d) /\ UNCHANGED sessions
        BY <1>11 DEF SetFlag
    <2>0. s.on \in BOOLEAN
        BY <1>4, <2>1, TextsAssumption
    <2>2. /\ d \in Drivers /\ d.rest = Current.rest /\ d.path = Current.path /\ d.session = Current.session
          /\ d.flag = s.on /\ d.errors = FALSE /\ d.code = FALSE
        BY <1>4, <2>0 DEF Drivers
    <2>3. Frame(d, sessions) = Executed(Current.path, f, s)
        <3> HIDE DEF d, f, s
        <3>1. /\ d.flag = (IF s.op = "flag" THEN s.on ELSE Current.flag)
              /\ d.errors = (s.op = "bad" \/ (s.op = "include" /\ Current.path = Top))
              /\ s.op # "context" /\ s.op # "call"
            BY <2>1, <2>2
        <3> QED
            BY <1>15, <2>2, <3>1
    <2>4. s.op # "call" /\ s.op # "include"
        BY <2>1
    <2>5. m.driver = Executed(Current.path, f, s) /\ m.done = log
        BY <1>7, <2>4
    <2> HIDE DEF d, m, f, s
    <2> QED
        BY <1>10, <2>1, <2>2, <2>3, <2>5
<1>12. CASE SyntaxError
    <2> DEFINE d == [Current EXCEPT !.errors = TRUE]
    <2>1. s.op = "bad" /\ Proceed(d) /\ UNCHANGED sessions
        BY <1>12 DEF SyntaxError
    <2>2. /\ d \in Drivers /\ d.rest = Current.rest /\ d.path = Current.path /\ d.session = Current.session
          /\ d.flag = Current.flag /\ d.errors = TRUE /\ d.code = FALSE /\ Current.flag \in BOOLEAN
        BY <1>4 DEF Drivers
    <2>3. Frame(d, sessions) = Executed(Current.path, f, s)
        <3> HIDE DEF d, f, s
        <3>1. /\ d.flag = (IF s.op = "flag" THEN s.on ELSE Current.flag)
              /\ d.errors = (s.op = "bad" \/ (s.op = "include" /\ Current.path = Top))
              /\ s.op # "context" /\ s.op # "call"
            BY <2>1, <2>2
        <3> QED
            BY <1>15, <2>2, <3>1
    <2>4. s.op # "call" /\ s.op # "include"
        BY <2>1
    <2>5. m.driver = Executed(Current.path, f, s) /\ m.done = log
        BY <1>7, <2>4
    <2> HIDE DEF d, m, f, s
    <2> QED
        BY <1>10, <2>1, <2>2, <2>3, <2>5
<1>13. CASE IncludeMissing
    <2> DEFINE d == [Current EXCEPT !.errors = Current.path = Top]
    <2>1. s.op = "include" /\ s.path \notin DOMAIN files /\ Proceed(d) /\ UNCHANGED sessions
        BY <1>13 DEF IncludeMissing
    <2>2. /\ d \in Drivers /\ d.rest = Current.rest /\ d.path = Current.path /\ d.session = Current.session
          /\ d.flag = Current.flag /\ d.errors = (Current.path = Top) /\ d.code = FALSE /\ Current.flag \in BOOLEAN
        BY <1>4 DEF Drivers
    <2>3. Frame(d, sessions) = Executed(Current.path, f, s)
        <3> HIDE DEF d, f, s
        <3>1. /\ d.flag = (IF s.op = "flag" THEN s.on ELSE Current.flag)
              /\ d.errors = (s.op = "bad" \/ (s.op = "include" /\ Current.path = Top))
              /\ s.op # "context" /\ s.op # "call"
            BY <2>1, <2>2
        <3> QED
            BY <1>15, <2>2, <3>1
    <2>4. s.op # "call" /\ ~(s.op = "include" /\ s.path \in DOMAIN files)
        BY <2>1
    <2>5. m.driver = Executed(Current.path, f, s) /\ m.done = log
        BY <1>7, <2>4
    <2> HIDE DEF d, m, f, s
    <2> QED
        BY <1>10, <2>1, <2>2, <2>3, <2>5
<1>14. CASE IncludeEmpty
    <2>1. /\ s.op = "include" /\ s.path \in DOMAIN files /\ files[s.path] = <<>> /\ Proceed(Current)
          /\ UNCHANGED sessions
        BY <1>14 DEF IncludeEmpty
    <2>2. Room(files, n)[s.path] = Nothing
        <3> DEFINE r == MaxDepth - n
        <3>1. r \in 0 .. MaxDepth /\ (r # 0 => r - 1 \in 0 .. MaxDepth)
            BY <1>4, DepthAssumption
        <3> HIDE DEF r, s
        <3>2. Room(files, n)[s.path] = IF r = 0 THEN Nothing ELSE Meaning(s.path, Nothing, <<>>, Included(files)[r - 1])
            BY <1>4, <2>1, <3>1, IncludedMeans DEF Room, r
        <3>3. r # 0 => Included(files)[r - 1] \in [DOMAIN files -> Outcomes]
            BY <1>4, <3>1, IncludedMeans
        <3>4. ASSUME r # 0
              PROVE  Meaning(s.path, Nothing, <<>>, Included(files)[r - 1]) = Nothing
            <4> DEFINE included == Included(files)[r - 1]
            <4>1. <<>> \in Seq(TaglStatement) /\ included \in [DOMAIN files -> Outcomes] /\ Nothing \in Outcomes
                BY <3>3, <3>4, NothingType
            <4> HIDE DEF included
            <4>2. Meaning(s.path, Nothing, <<>>, included) = Nothing
                BY <4>1, MeaningOfNothing
            <4> QED
                BY <4>2 DEF included
        <3> QED
            BY <3>2, <3>4
    <2>3. m = Joined(Now, Nothing)
        BY <1>4, <1>5, <2>1, <2>2 DEF Stepped
    <2>4. m.driver = [f EXCEPT !.errors = f.errors \/ FALSE] /\ m.done = log \o <<>>
        BY <2>3 DEF Joined, Nothing, Fresh, Now
    <2>5. m.driver = f
        <3>1. f \in Frames
            BY <1>1, <1>4, FrameType
        <3> HIDE DEF f, m
        <3> QED
            BY <2>4, <3>1 DEF Frames
    <2>6. log \in Seq(Entries)
        BY <1>1 DEF Papers
    <2>7. m.done = log
        BY <2>4, <2>6
    <2> HIDE DEF m, s
    <2> QED
        BY <1>4, <1>10, <2>1, <2>5, <2>7
<1> QED
    BY <1>2, <1>9, <1>11, <1>12, <1>13, <1>14 DEF SetStatement

\* A statement for the store: it is done with what its own driver has set.
LEMMA CommandOnScript ==
    ASSUME OnScript, Command
    PROVE  OnScript'
<1> DEFINE n == Len(stack)
           s == Head(Current.rest)
           f == Frame(Current, sessions)
           e == [Current EXCEPT !.rest = Tail(@)]
           d == HandleCmdError(e, s.outcome)
           stepped == [stack EXCEPT ![n].rest = Tail(@)]
           entry == [statement |-> s, contexts |-> f.contexts, flag |-> f.flag]
<1>1. /\ Running /\ s.op = "call" /\ UNCHANGED <<files, sessions, callback, phase, commands>>
      /\ stack' = [stepped EXCEPT ![callback] = HandleCmdError(@, s.outcome)]
      /\ log' = Append(log, Done(stack[callback], s))
    BY DEF Command
<1>2. WellKept /\ Papers /\ WellKept'
    BY CommandKeeps DEF OnScript
<1>3. /\ n \in Nat \ {0} /\ n \in 1 .. MaxDepth /\ n \in 1 .. n /\ stack \in Seq(Drivers) /\ callback = n
      /\ Current = stack[n] /\ Current \in Drivers /\ s \in TaglStatement
      /\ Current.errors = FALSE /\ Current.code = FALSE /\ ~HasErrors(Now.driver)
      /\ files \in Contents
    BY <1>1, <1>2, AtWorkNow DEF Running
<1>4. stack' = [stack EXCEPT ![n] = d]
    <2>1. n \in DOMAIN stack
        BY <1>3
    <2>2. stepped = [stack EXCEPT ![n] = e]
        BY <1>3
    <2>3. stepped[n] = e /\ DOMAIN stepped = DOMAIN stack
        BY <2>1, <2>2
    <2> HIDE DEF stepped
    <2>4. stack' = [stepped EXCEPT ![n] = d]
        BY <1>1, <1>3, <2>3
    <2> HIDE DEF d, e
    <2> QED
        BY <2>2, <2>4
<1>5. Len(stack') = n /\ stack'[n] = d /\ \A i \in 1 .. n - 1 : stack'[i] = stack[i]
    <2> HIDE DEF d
    <2>1. \A i \in 1 .. n - 1 : i \in 1 .. n /\ i # n
        <3> HIDE DEF n
        <3> QED
            BY <1>3
    <2> QED
        BY <1>3, <1>4, <2>1
<1>6. OthersWait
    BY <1>1, <1>5 DEF OthersWait
<1>7. /\ d.rest = Tail(Current.rest) /\ d.path = Current.path /\ d.session = Current.session
      /\ d.flag = Current.flag /\ d.errors = FALSE
      /\ d.code = (s.outcome = "failed" \/ (s.outcome = "refused" /\ Current.session # NoSession))
    <2> HIDE DEF s
    <2> QED
        BY <1>3 DEF Drivers, HandleCmdError
<1>8. Current' = d
    <2>1. Len(stack') # 0
        BY <1>3, <1>5
    <2> QED
        BY <1>5, <2>1 DEF Current, Last
<1>9. Done(stack[callback], s) = entry
    BY <1>3 DEF Done, Frame
<1>10. f \in Frames
    BY <1>2, <1>3, FrameType
<1>11. log' \in Seq(Entries)
    <2>1. entry \in Entries
        BY <1>3, <1>10 DEF Entries, Frames
    <2> HIDE DEF entry
    <2> QED
        BY <1>1, <1>2, <1>9, <2>1 DEF Papers
<1>12. Stepped(Current.path, Now, s, Room(files, n)) = [driver |-> Executed(Current.path, f, s), done |-> Append(log, entry)]
    <2>1. Now.driver = f /\ Now.done = log
        BY DEF Now
    <2>2. s.op = "call"
        BY <1>1
    <2> HIDE DEF f, s
    <2> QED
        BY <1>3, <2>1, <2>2 DEF Stepped
<1>13. Frame(d, sessions') = Executed(Current.path, f, s)
    <2> DEFINE here == d.session # NoSession
    <2>1. /\ f.contexts = (IF here THEN sessions[d.session] ELSE <<>>) /\ f.session = here
          /\ f.flag = Current.flag /\ f.flag \in BOOLEAN
        BY <1>7, <1>10 DEF Frame, Frames
    <2>2. s.op = "call" /\ here = (Current.session # NoSession)
        BY <1>1, <1>7
    <2> HIDE DEF f, s, d
    <2>3. Executed(Current.path, f, s) =
             [contexts |-> IF here THEN sessions[d.session] ELSE <<>>, session |-> here, flag |-> d.flag,
              errors |-> FALSE, code |-> d.code]
        <3>1. /\ (f.session \/ (s.op = "context" /\ s.ids # <<>>)) = here
              /\ (IF s.op = "flag" THEN s.on ELSE f.flag) = d.flag
              /\ (s.op = "bad" \/ (s.op = "include" /\ Current.path = Top)) = FALSE
            BY <1>7, <2>1, <2>2
        <3>2. (s.op = "call" /\ (s.outcome = "failed" \/ (s.outcome = "refused" /\ f.session))) = d.code
            BY <1>7, <2>1, <2>2
        <3> QED
            BY <2>1, <2>2, <3>1, <3>2 DEF Executed
    <2>4. Frame(d, sessions') =
             [contexts |-> IF here THEN sessions[d.session] ELSE <<>>, session |-> here, flag |-> d.flag,
              errors |-> FALSE, code |-> d.code]
        BY <1>1, <1>7 DEF Frame
    <2> QED
        BY <2>3, <2>4
<1>14. Now' = Stepped(Current.path, Now, s, Room(files, n))
    BY <1>1, <1>8, <1>9, <1>12, <1>13 DEF Now
<1> HIDE DEF d
<1> QED
    BY <1>1, <1>2, <1>5, <1>6, <1>7, <1>11, <1>14, StatementKeepsPromise

\* A driver that is done comes to what it has come to.
LEMMA DoneNow ==
    ASSUME WellKept, Papers, ~Running
    PROVE  Meaning(Current.path, Now, Current.rest, Room(files, Len(stack))) = Now
<1> DEFINE room == Room(files, Len(stack))
           text == Current.rest
           m == Now
<1>1. /\ m \in Outcomes /\ text \in Seq(TaglStatement) /\ files \in Contents /\ Len(stack) \in 1 .. MaxDepth
      /\ HasErrors(m.driver) <=> HasErrors(Current)
    BY AtWorkNow
<1>2. room \in [DOMAIN files -> Outcomes]
    BY <1>1, RoomType
<1>3. text = <<>> \/ HasErrors(m.driver)
    BY <1>1 DEF Running
<1> HIDE DEF room, text, m
<1>4. CASE text = <<>>
    <2>1. Meaning(Current.path, m, text, room) = m
        BY <1>1, <1>2, <1>4, MeaningOfNothing
    <2> QED
        BY <2>1 DEF room, text, m
<1>5. CASE HasErrors(m.driver)
    <2>1. Meaning(Current.path, m, text, room) = m
        BY <1>1, <1>2, <1>5, ErrorsStop
    <2> QED
        BY <2>1 DEF room, text, m
<1> QED
    BY <1>3, <1>4, <1>5

\* A driver that is alone and has nothing to do has come to what was promised.
LEMMA AloneAndDone ==
    ASSUME OnScript, ~Running, Len(stack) = 1
    PROVE  Settled(phase, Now) = Script(files, commands) /\ Now \in Outcomes /\ Current = stack[1]
<1>1. WellKept /\ Papers
    BY DEF OnScript
<1>2. Now \in Outcomes /\ Current = stack[1]
    BY <1>1, AtWorkNow
<1>4. Meaning(Current.path, Now, Current.rest, Room(files, 1)) = Now
    BY <1>1, DoneNow
<1>5. PICK outs : Expects(outs) /\ Settled(phase, outs[1]) = Script(files, commands)
    BY DEF OnScript, Promised
<1>6. outs[1] = Now
    BY <1>4, <1>5 DEF Expects
<1>7. Settled(phase, Now) = Script(files, commands)
    BY <1>5, <1>6
<1> QED
    BY <1>2, <1>7

\* A driver that is alone comes to what its text means.
LEMMA AlonePromises ==
    ASSUME WellKept', Papers', Len(stack') = 1,
           Settled(phase', Meaning(stack'[1].path, Now', stack'[1].rest, Room(files', 1))) = Script(files', commands'),
           (Now \in Outcomes)', (Current = stack[1])', (stack[1].rest \in Seq(TaglStatement))',
           (files \in Contents)'
    PROVE  OnScript'
<1> DEFINE m == Meaning(stack'[1].path, Now', stack'[1].rest, Room(files', 1))
<1>1. Room(files', 1) \in [DOMAIN files' -> Outcomes]
    <2>1. MaxDepth - 1 \in 0 .. MaxDepth
        BY DepthAssumption
    <2> QED
        BY <2>1, IncludedMeans DEF Room
<1>2. m \in Outcomes
    BY <1>1, MeaningType
<1>3. Settled(phase', m) = Script(files', commands')
    OBVIOUS
<1> HIDE DEF m
<1>4. PICK outs : outs \in [1 .. 1 -> Outcomes] /\ outs[1] = m
    <2> DEFINE o == [i \in 1 .. 1 |-> m]
    <2>1. o \in [1 .. 1 -> Outcomes] /\ o[1] = m
        BY <1>2
    <2> QED
        BY <2>1
<1>5. Expects(outs)'
    <2>1. outs[Len(stack')] = Meaning(Current'.path, Now', Current'.rest, Room(files', Len(stack')))
        BY <1>4 DEF m
    <2>2. outs \in [1 .. Len(stack') -> Outcomes] /\ 1 .. Len(stack') - 1 = {}
        BY <1>4
    <2> QED
        BY <2>1, <2>2 DEF Expects
<1>6. Settled(phase', outs[1]) = Script(files', commands')
    BY <1>3, <1>4
<1>7. Promised'
    BY <1>5, <1>6 DEF Promised
<1> QED
    BY <1>7 DEF OnScript

\* A file begins: the driver that includes it has still come to what it had.
LEMMA FileKeepsPromise ==
    ASSUME WellKept, Papers, NEW path, Enter(path), log' = log, NEW outs \in [1 .. Len(stack) -> Outcomes],
           outs[Len(stack)] = Meaning(Current.path, Joined(Now, Room(files, Len(stack))[path]),
                                      AfterFile(Current.rest), Room(files, Len(stack))),
           \A i \in 1 .. Len(stack) - 1 :
               outs[i] = Meaning(stack[i].path, Resumed(Frame(stack[i], sessions), outs[i + 1]),
                                 AfterFile(stack[i].rest), Room(files, i))
    PROVE  (\E o : Expects(o) /\ o[1] = outs[1])' /\ stack'[1] = stack[1]
<1> DEFINE n == Len(stack)
           d == NewDriver(path)
           r == MaxDepth - n
           file == Room(files, n)[path]
<1>1. /\ n \in Nat \ {0} /\ n \in 1 .. MaxDepth /\ n \in 1 .. n /\ 1 \in 1 .. n /\ stack \in Seq(Drivers)
      /\ Current = stack[n] /\ files \in Contents /\ MaxDepth \in Nat
      /\ log \in Seq(Entries)
    BY AtWorkNow DEF Papers
<1>2. path \in DOMAIN files /\ n < MaxDepth /\ stack' = Append(stack, d) /\ UNCHANGED <<files, sessions>>
    BY DEF Enter
<1>3. Len(stack') = n + 1 /\ stack'[n + 1] = d /\ \A i \in 1 .. n : stack'[i] = stack[i]
    BY <1>1, <1>2
<1>4. Current' = d
    <2>1. Len(stack') # 0
        BY <1>1, <1>3
    <2> QED
        BY <1>3, <2>1 DEF Current, Last
<1>5. /\ d.path = path /\ d.rest = files[path] /\ files[path] \in Seq(TaglStatement)
      /\ Frame(d, sessions) = Nothing.driver /\ Nothing.done = <<>>
    BY <1>1, <1>2, TextsAssumption DEF NewDriver, Driver, Frame, Nothing, Fresh
<1>6. Now' = Preceded(log, Nothing)
    <2>1. log \o <<>> = log
        BY <1>1
    <2>2. Now' = [driver |-> Frame(d, sessions), done |-> log]
        BY <1>2, <1>4 DEF Now
    <2> QED
        BY <1>5, <2>1, <2>2 DEF Preceded
<1>7. /\ r \in 0 .. MaxDepth /\ r - 1 \in 0 .. MaxDepth /\ r # 0 /\ MaxDepth - (n + 1) = r - 1
    <2> HIDE DEF n
    <2> QED
        BY <1>1, <1>2
<1>8. file = Meaning(path, Nothing, files[path], Room(files, n + 1))
    BY <1>1, <1>2, <1>7, IncludedMeans DEF Room
<1>9. Room(files, n + 1) \in [DOMAIN files -> Outcomes] /\ file \in Outcomes
    <2>1. Included(files)[r - 1] \in [DOMAIN files -> Outcomes] /\ Included(files)[r] \in [DOMAIN files -> Outcomes]
        BY <1>1, <1>7, IncludedMeans
    <2> QED
        BY <1>2, <1>7, <2>1 DEF Room
<1>10. Preceded(log, file) = Meaning(path, Now', files[path], Room(files, n + 1))
    <2> DEFINE room == Room(files, n + 1)
               text == files[path]
    <2>1. Nothing \in Outcomes /\ text \in Seq(TaglStatement) /\ room \in [DOMAIN files -> Outcomes]
        BY <1>5, <1>9, NothingType
    <2> HIDE DEF room, text
    <2>2. Meaning(path, Preceded(log, Nothing), text, room) = Preceded(log, Meaning(path, Nothing, text, room))
        BY <1>1, <2>1, MeaningPreceded
    <2> QED
        BY <1>6, <1>8, <2>2 DEF room, text
<1>11. Preceded(log, file) \in Outcomes
    <2> HIDE DEF file
    <2>1. file.driver \in Frames /\ file.done \in Seq(Entries)
        BY <1>9 DEF Outcomes
    <2>2. log \o file.done \in Seq(Entries)
        BY <1>1, <2>1
    <2> QED
        BY <2>1, <2>2 DEF Preceded, Outcomes
<1>12. Joined(Now, file) = Resumed(Frame(stack[n], sessions), Preceded(log, file))
    BY <1>1 DEF Joined, Now, Resumed, Preceded
<1> HIDE DEF file, d
<1>13. PICK outs2 :
       /\ outs2 \in [1 .. n + 1 -> Outcomes] /\ outs2[n + 1] = Preceded(log, file)
       /\ \A i \in 1 .. n : outs2[i] = outs[i]
    <2> HIDE DEF n
    <2> DEFINE o == [i \in 1 .. n + 1 |-> IF i = n + 1 THEN Preceded(log, file) ELSE outs[i]]
    <2>1. \A i \in 1 .. n + 1 : i # n + 1 => i \in 1 .. n
        BY <1>1
    <2>2. outs \in [1 .. n -> Outcomes]
        BY DEF n
    <2>3. n + 1 \in 1 .. n + 1 /\ \A i \in 1 .. n : i \in 1 .. n + 1 /\ i # n + 1
        BY <1>1
    <2>4. /\ o \in [1 .. n + 1 -> Outcomes] /\ o[n + 1] = Preceded(log, file)
          /\ \A i \in 1 .. n : o[i] = outs[i]
        BY <1>11, <2>1, <2>2, <2>3
    <2> QED
        BY <2>4
<1>14. ASSUME NEW i \in 1 .. n
       PROVE  outs2[i] = Meaning(stack'[i].path, Resumed(Frame(stack'[i], sessions'), outs2[i + 1]),
                                 AfterFile(stack'[i].rest), Room(files', i))
    <2>1. CASE i = n
        <3>1. outs2[i + 1] = Preceded(log, file) /\ stack'[i] = stack[n] /\ outs2[i] = outs[n]
            BY <1>1, <1>3, <1>13, <2>1
        <3>2. outs[n] = Meaning(stack[n].path, Joined(Now, file), AfterFile(stack[n].rest), Room(files, n))
            BY <1>1 DEF file
        <3> QED
            BY <1>2, <1>12, <2>1, <3>1, <3>2
    <2>2. CASE i # n
        <3>1. i \in 1 .. n - 1 /\ i + 1 \in 1 .. n
            <4> HIDE DEF n
            <4> QED
                BY <1>1, <2>2
        <3>2. outs2[i] = outs[i] /\ outs2[i + 1] = outs[i + 1] /\ stack'[i] = stack[i]
            BY <1>3, <1>13, <3>1
        <3> QED
            BY <1>2, <3>1, <3>2
    <2> QED
        BY <2>1, <2>2
<1>15. Expects(outs2)'
    <2>1. outs2[Len(stack')] = Meaning(Current'.path, Now', Current'.rest, Room(files', Len(stack')))
        BY <1>2, <1>3, <1>4, <1>5, <1>10, <1>13
    <2>2. outs2 \in [1 .. Len(stack') -> Outcomes]
        BY <1>3, <1>13
    <2>3. ASSUME NEW i \in 1 .. Len(stack') - 1
          PROVE  outs2[i] = Meaning(stack'[i].path, Resumed(Frame(stack'[i], sessions'), outs2[i + 1]),
                                    AfterFile(stack'[i].rest), Room(files', i))
        <3>1. i \in 1 .. n
            <4> HIDE DEF n
            <4> QED
                BY <1>1, <1>3
        <3> QED
            BY <1>14, <3>1
    <2> QED
        BY <2>1, <2>2, <2>3 DEF Expects
<1>16. outs2[1] = outs[1]
    BY <1>1, <1>13
<1> QED
    BY <1>1, <1>3, <1>15, <1>16

LEMMA IncludeOnScript ==
    ASSUME OnScript, Set, Include
    PROVE  OnScript'
<1> DEFINE n == Len(stack)
           s == Head(Current.rest)
           room == Room(files, n)
<1>1. /\ Running /\ s.op = "include" /\ Enter(s.path) /\ UNCHANGED <<phase, commands, log>>
      /\ UNCHANGED files
    BY DEF Set, Include, Enter
<1>2. WellKept /\ Papers /\ WellKept'
    BY SetKeeps DEF OnScript
<1>3. /\ n \in 1 .. MaxDepth /\ n \in 1 .. n /\ Current = stack[n] /\ files \in Contents
      /\ Current.rest # <<>> /\ Current.rest \in Seq(TaglStatement)
      /\ Now \in Outcomes /\ ~HasErrors(Now.driver)
    BY <1>1, <1>2, AtWorkNow DEF Running
<1>4. room \in [DOMAIN files -> Outcomes] /\ s.path \in DOMAIN files
    BY <1>1, <1>3, RoomType DEF Enter
<1>5. PICK outs : Expects(outs) /\ Settled(phase, outs[1]) = Script(files, commands)
    BY DEF OnScript, Promised
<1>6. outs[n] = Meaning(Current.path, Joined(Now, room[s.path]), AfterFile(Current.rest), room)
    <2>1. outs[n] = Meaning(Current.path, Now, Current.rest, room)
        BY <1>5 DEF Expects
    <2>2. Meaning(Current.path, Now, Current.rest, room)
            = Meaning(Current.path, Stepped(Current.path, Now, s, room), Tail(Current.rest), room)
        <3> HIDE DEF room
        <3> QED
            BY <1>3, <1>4, MeaningBegins
    <2>3. Stepped(Current.path, Now, s, room) = Joined(Now, room[s.path])
        BY <1>1, <1>3, <1>4 DEF Stepped
    <2>4. AfterFile(Current.rest) = Tail(Current.rest)
        BY <1>3 DEF AfterFile
    <2> QED
        BY <2>1, <2>2, <2>3, <2>4
<1>7. /\ outs \in [1 .. n -> Outcomes]
      /\ \A i \in 1 .. n - 1 :
             outs[i] = Meaning(stack[i].path, Resumed(Frame(stack[i], sessions), outs[i + 1]),
                               AfterFile(stack[i].rest), Room(files, i))
    BY <1>5 DEF Expects
<1>8. (\E o : Expects(o) /\ o[1] = outs[1])' /\ stack'[1] = stack[1]
    BY <1>1, <1>2, <1>6, <1>7, FileKeepsPromise
<1>9. PICK o : Expects(o)' /\ o[1] = outs[1]
    BY <1>8
<1>10. Settled(phase', o[1]) = Script(files', commands')
    BY <1>1, <1>5, <1>9
<1>11. Promised'
    BY <1>9, <1>10 DEF Promised
<1>12. Papers'
    BY <1>1, <1>2, <1>8 DEF Papers, Told
<1> QED
    BY <1>2, <1>11, <1>12 DEF OnScript

\* The end of an included file: the includer goes on with the errors of the file.
LEMMA ReturnOnScript ==
    ASSUME OnScript, ReturnToIncluder
    PROVE  OnScript'
<1> DEFINE n == Len(stack)
           m == n - 1
           f == Frame(stack[m], sessions)
<1>1. Return /\ UNCHANGED <<phase, commands, log>> /\ <<>> \in Seq(Contexts) /\ DriverInv(<<>>)
    BY DEF ReturnToIncluder, OnScript, WellKept
<1>2. WellKept /\ Papers /\ WellKept' /\ ~Running
    BY ReturnKeeps DEF OnScript, ReturnToIncluder, Return
<1>3. /\ n > 1 /\ Len(stack') = m /\ UNCHANGED files
      /\ \A i \in 1 .. n - 2 : stack'[i] = stack[i]
      /\ stack'[m].rest = AfterFile(stack[m].rest)
      /\ stack'[m].flag = stack[m].flag /\ stack'[m].errors = (stack[m].errors \/ Current.errors)
      /\ \A i \in 1 .. m :
             /\ sessions'[i] = sessions[i] /\ stack'[i].path = stack[i].path
             /\ stack'[i].session = stack[i].session /\ stack'[i].code = stack[i].code
    BY <1>1, FileLeft DEF AfterFile
<1>4. n \in Nat /\ n \in 1 .. MaxDepth /\ Current = stack[n] /\ Current.errors \in BOOLEAN
    BY <1>2, AtWorkNow DEF Drivers
<1>5. PICK outs : Expects(outs) /\ Settled(phase, outs[1]) = Script(files, commands)
    BY DEF OnScript, Promised
<1>6. /\ outs \in [1 .. n -> Outcomes] /\ outs[n] = Now
      /\ \A i \in 1 .. n - 1 :
             outs[i] = Meaning(stack[i].path, Resumed(Frame(stack[i], sessions), outs[i + 1]),
                               AfterFile(stack[i].rest), Room(files, i))
    BY <1>2, <1>5, DoneNow DEF Expects
<1>7. /\ m \in Nat /\ m # 0 /\ m \in 1 .. m /\ n = m + 1 /\ m \in 1 .. n - 1 /\ m \in 1 .. n /\ n - 2 = m - 1
      /\ 1 \in 1 .. m /\ \A i \in 1 .. m : i \in 1 .. n
    <2> HIDE DEF n
    <2> QED
        BY <1>3, <1>4
<1>8. Current' = stack'[m]
    BY <1>3, <1>7 DEF Current, Last
<1>9. stack[m].session \in {NoSession, m} /\ f \in Frames
    BY <1>2, <1>7, FrameType
<1>10. Now' = Resumed(f, Now)
    <2> DEFINE d == stack'[m]
               here == stack[m].session # NoSession
    <2>1. /\ d.session = stack[m].session /\ d.code = stack[m].code /\ d.flag = stack[m].flag
          /\ d.errors = (stack[m].errors \/ Current.errors) /\ sessions'[m] = sessions[m]
        BY <1>3, <1>7
    <2>2. Frame(d, sessions') =
             [contexts |-> IF here THEN sessions[m] ELSE <<>>, session |-> here, flag |-> stack[m].flag,
              errors |-> stack[m].errors \/ Current.errors, code |-> stack[m].code]
        <3> HIDE DEF d, m
        <3> QED
            BY <1>9, <2>1 DEF Frame
    <2>3. f = [contexts |-> IF here THEN sessions[m] ELSE <<>>, session |-> here, flag |-> stack[m].flag,
               errors |-> stack[m].errors, code |-> stack[m].code]
        BY <1>9 DEF Frame
    <2>4. Now.driver.errors = Current.errors /\ Now.done = log
        BY DEF Now, Frame
    <2> HIDE DEF d, f
    <2>5. Resumed(f, Now) = [driver |-> Frame(d, sessions'), done |-> log]
        BY <2>2, <2>3, <2>4 DEF Resumed
    <2> QED
        BY <1>1, <1>8, <2>5 DEF Now, d
<1>11. PICK o : o \in [1 .. m -> Outcomes] /\ \A i \in 1 .. m : o[i] = outs[i]
    <2> HIDE DEF m
    <2> DEFINE lower == [i \in 1 .. m |-> outs[i]]
    <2>1. lower \in [1 .. m -> Outcomes] /\ \A i \in 1 .. m : lower[i] = outs[i]
        BY <1>6, <1>7
    <2> QED
        BY <2>1
<1>12. Expects(o)'
    <2>1. o[Len(stack')] = Meaning(Current'.path, Now', Current'.rest, Room(files', Len(stack')))
        <3>1. outs[m] = Meaning(stack[m].path, Resumed(f, Now), AfterFile(stack[m].rest), Room(files, m))
            BY <1>6, <1>7
        <3>2. stack'[m].path = stack[m].path
            BY <1>3, <1>7
        <3>3. o[m] = outs[m]
            BY <1>7, <1>11
        <3> HIDE DEF f, m
        <3> QED
            BY <1>3, <1>8, <1>10, <3>1, <3>2, <3>3
    <2>2. o \in [1 .. Len(stack') -> Outcomes]
        BY <1>3, <1>11
    <2>3. ASSUME NEW i \in 1 .. Len(stack') - 1
          PROVE  o[i] = Meaning(stack'[i].path, Resumed(Frame(stack'[i], sessions'), o[i + 1]),
                                AfterFile(stack'[i].rest), Room(files', i))
        <3>1. i \in 1 .. n - 2 /\ i \in 1 .. m /\ i + 1 \in 1 .. m /\ i \in 1 .. n - 1 /\ i \in 1 .. n
            <4> HIDE DEF n
            <4> QED
                BY <1>3, <1>4
        <3>2. stack'[i] = stack[i] /\ sessions'[i] = sessions[i] /\ o[i] = outs[i] /\ o[i + 1] = outs[i + 1]
            BY <1>3, <1>11, <3>1
        <3>3. Frame(stack'[i], sessions') = Frame(stack[i], sessions)
            BY <1>2, <3>1, <3>2, FramesWait
        <3> QED
            BY <1>3, <1>6, <3>1, <3>2, <3>3
    <2> QED
        BY <2>1, <2>2, <2>3 DEF Expects
<1>13. Settled(phase', o[1]) = Script(files', commands')
    BY <1>1, <1>3, <1>5, <1>7, <1>11
<1>14. Promised'
    BY <1>12, <1>13 DEF Promised
<1>15. Papers'
    <2>1. stack'[1].path = stack[1].path
        BY <1>3, <1>7
    <2> QED
        BY <1>1, <1>2, <1>3, <2>1 DEF Papers, Told
<1> QED
    BY <1>2, <1>14, <1>15 DEF OnScript

\* The shell waits for the user when all that was promised is done.
LEMMA IdleMeans ==
    ASSUME OnScript, phase = "idle"
    PROVE  /\ Now = Script(files, commands) /\ Now \in Outcomes /\ Current = stack[1]
           /\ Len(stack) = 1 /\ Current.rest = <<>> /\ WellKept /\ Papers
<1>1. WellKept /\ Papers /\ Len(stack) = 1 /\ stack[1].rest = <<>>
    BY DEF OnScript, WellKept
<1>2. Current = stack[1]
    BY <1>1 DEF Current, Last
<1>3. ~Running
    BY <1>1, <1>2 DEF Running
<1>4. Settled(phase, Now) = Script(files, commands) /\ Now \in Outcomes
    BY <1>1, <1>3, AloneAndDone
<1> QED
    BY <1>1, <1>2, <1>4 DEF Settled

LEMMA TypeLineOnScript ==
    ASSUME OnScript, NEW line \in Lines, TypeLine(line)
    PROVE  OnScript'
<1> DEFINE d == Start(line)
           c == [op |-> "line", statements |-> line]
           script == Script(files, commands)
<1>1. /\ phase = "idle" /\ phase' = "line" /\ stack' = <<d>> /\ commands' = Append(commands, c)
      /\ UNCHANGED <<files, sessions, callback, log>>
    BY DEF TypeLine, More
<1>2. /\ Now = script /\ Current = stack[1] /\ WellKept /\ Papers /\ Now \in Outcomes
      /\ Current \in Drivers /\ files \in Contents
    BY <1>1, IdleMeans, AtWorkNow
<1>3. WellKept'
    BY <1>2, TypeLineKeeps
<1>4. line \in Seq(TaglStatement)
    BY LinesAssumption
<1>5. /\ d.rest = line /\ d.path = stack[1].path /\ d.session = stack[1].session /\ d.flag = stack[1].flag
      /\ d.errors = stack[1].errors /\ d.code = FALSE
    BY <1>2 DEF Start, Drivers
<1> HIDE DEF d
<1>6. Len(stack') = 1 /\ stack'[1] = d /\ Current' = d
    BY <1>1 DEF Current, Last
<1>7. Now' = LineBegun(Now)
    <2> DEFINE x == stack[1]
               contexts == IF x.session = NoSession THEN <<>> ELSE sessions[x.session]
    <2>1. Now = [driver |-> [contexts |-> contexts, session |-> x.session # NoSession, flag |-> x.flag,
                             errors |-> x.errors, code |-> x.code], done |-> log]
        BY <1>2 DEF Now, Frame
    <2>2. Now' = [driver |-> [contexts |-> contexts, session |-> x.session # NoSession, flag |-> x.flag,
                              errors |-> x.errors, code |-> FALSE], done |-> log]
        BY <1>1, <1>5, <1>6 DEF Now, Frame
    <2> HIDE DEF contexts, x
    <2> DEFINE before == Now.driver
               after == Now'.driver
    <2>3. /\ before = [contexts |-> contexts, session |-> x.session # NoSession, flag |-> x.flag,
                       errors |-> x.errors, code |-> x.code]
          /\ after = [contexts |-> contexts, session |-> x.session # NoSession, flag |-> x.flag,
                       errors |-> x.errors, code |-> FALSE]
          /\ Now.done = log /\ Now' = [driver |-> after, done |-> log]
        BY <2>1, <2>2
    <2> HIDE DEF before, after
    <2>4. after = [before EXCEPT !.code = FALSE]
        <3> DEFINE g == [before EXCEPT !.code = FALSE]
        <3>1. before \in Frames /\ g \in Frames
            BY <1>2 DEF Outcomes, Frames, before
        <3>2. /\ g.contexts = before.contexts /\ g.session = before.session /\ g.flag = before.flag
              /\ g.errors = before.errors /\ g.code = FALSE
            BY <3>1 DEF Frames
        <3>3. after \in Frames
            BY <2>3, <3>1 DEF Frames
        <3> HIDE DEF g
        <3> QED
            BY <2>3, <3>1, <3>2, <3>3, FramesEqual
    <2> QED
        BY <2>3, <2>4 DEF LineBegun, before
<1>8. Now' \in Outcomes
    BY <1>2, <1>7, LineTypes
<1>9. commands \in Seq(Told(files)) /\ c \in Told(files) /\ stack[1].path = Top /\ log \in Seq(Entries)
    BY <1>2 DEF Papers, Told
<1>10. Papers'
    BY <1>1, <1>5, <1>6, <1>9 DEF Papers, Told
<1>11. Settled(phase', Meaning(stack'[1].path, Now', stack'[1].rest, Room(files', 1))) = Script(files', commands')
    <2> DEFINE n == Meaning(Top, LineBegun(script), line, Room(files, 1))
    <2>1. Script(files', commands') = Obeyed(files, script, c)
        BY <1>1, <1>2, <1>9, ScriptAppend
    <2>2. Obeyed(files, script, c) = LineEnded(n)
        BY DEF Obeyed, Room
    <2>3. Meaning(stack'[1].path, Now', stack'[1].rest, Room(files', 1)) = n
        BY <1>1, <1>2, <1>5, <1>6, <1>7, <1>9
    <2>4. Settled(phase', n) = LineEnded(n)
        BY <1>1 DEF Settled
    <2> HIDE DEF n
    <2> QED
        BY <2>1, <2>2, <2>3, <2>4
<1>12. (stack[1].rest \in Seq(TaglStatement))' /\ (files \in Contents)'
    BY <1>1, <1>2, <1>4, <1>5, <1>6
<1> QED
    BY <1>3, <1>6, <1>8, <1>10, <1>11, <1>12, AlonePromises

LEMMA LoadOnScript ==
    ASSUME OnScript, NEW path \in DOMAIN files, Load(path)
    PROVE  OnScript'
<1> DEFINE c == [op |-> "load", path |-> path]
           script == Script(files, commands)
           m == Joined(script, Room(files, 1)[path])
<1>1. /\ phase = "idle" /\ phase' = "load" /\ Enter(path) /\ commands' = Append(commands, c)
      /\ log' = log /\ UNCHANGED files
    BY DEF Load, More, Enter
<1>2. /\ Now = script /\ Current = stack[1] /\ WellKept /\ Papers /\ Now \in Outcomes
      /\ Len(stack) = 1 /\ Current.rest = <<>> /\ files \in Contents /\ 1 \in 1 .. MaxDepth
    BY <1>1, IdleMeans, AtWorkNow
<1>3. WellKept'
    BY <1>2, LoadKeeps
<1>4. Room(files, 1) \in [DOMAIN files -> Outcomes]
    BY <1>2, RoomType
<1>5. m \in Outcomes
    BY <1>2, <1>4, JoinedType
<1>6. Meaning(Current.path, m, AfterFile(Current.rest), Room(files, 1)) = m
    <2> DEFINE room == Room(files, 1)
    <2>1. AfterFile(Current.rest) = <<>> /\ <<>> \in Seq(TaglStatement)
        BY <1>2 DEF AfterFile
    <2> HIDE DEF m, room
    <2>2. Meaning(Current.path, m, <<>>, room) = m
        BY <1>4, <1>5, <2>1, MeaningOfNothing DEF room
    <2> QED
        BY <2>1, <2>2 DEF room
<1>7. PICK outs : outs \in [1 .. 1 -> Outcomes] /\ outs[1] = m
    <2> DEFINE o == [i \in 1 .. 1 |-> m]
    <2> HIDE DEF m
    <2>1. o \in [1 .. 1 -> Outcomes] /\ o[1] = m
        BY <1>5
    <2> QED
        BY <2>1
<1>8. (\E o : Expects(o) /\ o[1] = outs[1])' /\ stack'[1] = stack[1]
    <2>1. outs \in [1 .. Len(stack) -> Outcomes] /\ 1 .. Len(stack) - 1 = {}
        BY <1>2, <1>7
    <2>2. outs[Len(stack)] = Meaning(Current.path, Joined(Now, Room(files, Len(stack))[path]),
                                     AfterFile(Current.rest), Room(files, Len(stack)))
        BY <1>2, <1>6, <1>7
    <2> HIDE DEF m
    <2>3. \A i \in 1 .. Len(stack) - 1 :
               outs[i] = Meaning(stack[i].path, Resumed(Frame(stack[i], sessions), outs[i + 1]),
                                 AfterFile(stack[i].rest), Room(files, i))
        BY <2>1
    <2> QED
        BY <1>1, <1>2, <2>1, <2>2, <2>3, FileKeepsPromise
<1>9. PICK o : Expects(o)' /\ o[1] = outs[1]
    BY <1>8
<1>10. commands \in Seq(Told(files)) /\ c \in Told(files) /\ stack[1].path = Top /\ log \in Seq(Entries)
    BY <1>2 DEF Papers, Told
<1>11. Settled(phase', o[1]) = Script(files', commands')
    <2>1. Script(files', commands') = Obeyed(files, script, c)
        BY <1>1, <1>2, <1>10, ScriptAppend
    <2>2. Obeyed(files, script, c) = m
        BY DEF Obeyed, Room
    <2> HIDE DEF m
    <2> QED
        BY <1>1, <1>7, <1>9, <2>1, <2>2 DEF Settled
<1>12. Promised'
    BY <1>9, <1>11 DEF Promised
<1>13. Papers'
    BY <1>1, <1>8, <1>10 DEF Papers, Told
<1> QED
    BY <1>3, <1>12, <1>13 DEF OnScript

LEMMA LineDoneOnScript ==
    ASSUME OnScript, LineDone
    PROVE  OnScript'
<1> DEFINE d == ClearErrors(stack[1])
<1>1. /\ phase = "line" /\ phase' = "idle" /\ Len(stack) = 1 /\ ~Running /\ stack' = <<d>>
      /\ UNCHANGED <<files, sessions, callback, commands, log>>
    BY DEF LineDone
<1>2. WellKept /\ Papers /\ WellKept'
    BY LineDoneKeeps DEF OnScript
<1>3. /\ Settled(phase, Now) = Script(files, commands) /\ Now \in Outcomes /\ Current = stack[1]
      /\ Current \in Drivers /\ files \in Contents /\ 1 \in 1 .. MaxDepth
    BY <1>1, <1>2, AloneAndDone, AtWorkNow
<1>4. /\ d.rest = <<>> /\ d.path = stack[1].path /\ d.session = stack[1].session /\ d.flag = stack[1].flag
      /\ d.errors = FALSE /\ d.code = FALSE
    BY <1>3 DEF ClearErrors, Drivers
<1> HIDE DEF d
<1>5. Len(stack') = 1 /\ stack'[1] = d /\ Current' = d
    BY <1>1 DEF Current, Last
<1>6. Now' = LineEnded(Now)
    <2> DEFINE x == stack[1]
               contexts == IF x.session = NoSession THEN <<>> ELSE sessions[x.session]
    <2>1. Now = [driver |-> [contexts |-> contexts, session |-> x.session # NoSession, flag |-> x.flag,
                             errors |-> x.errors, code |-> x.code], done |-> log]
        BY <1>3 DEF Now, Frame
    <2>2. Now' = [driver |-> [contexts |-> contexts, session |-> x.session # NoSession, flag |-> x.flag,
                              errors |-> FALSE, code |-> FALSE], done |-> log]
        BY <1>1, <1>4, <1>5 DEF Now, Frame
    <2> HIDE DEF contexts, x
    <2> DEFINE before == Now.driver
               after == Now'.driver
    <2>3. /\ before = [contexts |-> contexts, session |-> x.session # NoSession, flag |-> x.flag,
                       errors |-> x.errors, code |-> x.code]
          /\ after = [contexts |-> contexts, session |-> x.session # NoSession, flag |-> x.flag,
                       errors |-> FALSE, code |-> FALSE]
          /\ Now.done = log /\ Now' = [driver |-> after, done |-> log]
        BY <2>1, <2>2
    <2> HIDE DEF before, after
    <2>4. after = [before EXCEPT !.errors = FALSE, !.code = FALSE]
        <3> DEFINE g == [before EXCEPT !.errors = FALSE, !.code = FALSE]
        <3>1. before \in Frames /\ g \in Frames
            BY <1>3 DEF Outcomes, Frames, before
        <3>2. /\ g.contexts = before.contexts /\ g.session = before.session /\ g.flag = before.flag
              /\ g.errors = FALSE /\ g.code = FALSE
            BY <3>1 DEF Frames
        <3>3. after \in Frames
            BY <2>3, <3>1 DEF Frames
        <3> HIDE DEF g
        <3> QED
            BY <2>3, <3>1, <3>2, <3>3, FramesEqual
    <2> QED
        BY <2>3, <2>4 DEF LineEnded, before
<1>7. Now' \in Outcomes
    BY <1>3, <1>6, LineTypes
<1>8. Papers'
    BY <1>1, <1>2, <1>4, <1>5 DEF Papers, Told
<1>9. Settled(phase', Meaning(stack'[1].path, Now', stack'[1].rest, Room(files', 1))) = Script(files', commands')
    <2> DEFINE room == Room(files, 1)
               m == LineEnded(Now)
    <2>1. room \in [DOMAIN files -> Outcomes] /\ m \in Outcomes /\ <<>> \in Seq(TaglStatement)
        <3>1. m \in Outcomes
            BY <1>3, LineTypes
        <3>2. room \in [DOMAIN files -> Outcomes]
            BY <1>3, RoomType
        <3> QED
            BY <3>1, <3>2
    <2>2. Settled(phase', m) = Script(files, commands)
        BY <1>1, <1>3 DEF Settled
    <2> HIDE DEF m, room
    <2>3. Meaning(Top, m, <<>>, room) = m
        BY <2>1, MeaningOfNothing
    <2>4. stack'[1].path = Top
        BY <1>8 DEF Papers
    <2> QED
        BY <1>1, <1>4, <1>5, <1>6, <2>2, <2>3, <2>4 DEF room, m
<1>10. (stack[1].rest \in Seq(TaglStatement))' /\ (files \in Contents)'
    <2>1. <<>> \in Seq(TaglStatement)
        OBVIOUS
    <2> QED
        BY <1>1, <1>3, <1>4, <1>5, <2>1
<1> QED
    BY <1>2, <1>5, <1>7, <1>8, <1>9, <1>10, AlonePromises

LEMMA LoadDoneOnScript ==
    ASSUME OnScript, LoadDone
    PROVE  OnScript'
<1>1. /\ phase = "load" /\ phase' = "idle" /\ Len(stack) = 1
      /\ UNCHANGED <<files, stack, sessions, callback, commands, log>>
    BY DEF LoadDone, driverVars
<1>2. WellKept /\ Papers /\ WellKept' /\ stack[1].rest = <<>>
    BY <1>1, LoadDoneKeeps DEF OnScript, WellKept
<1>3. Current = stack[1] /\ ~Running
    <2>1. Current = stack[1]
        BY <1>2, AtWorkNow, <1>1
    <2> QED
        BY <1>2, <2>1 DEF Running
<1>4. PICK outs : Expects(outs) /\ Settled(phase, outs[1]) = Script(files, commands)
    BY DEF OnScript, Promised
<1>5. Now' = Now /\ Current' = Current
    BY <1>1 DEF Now, Frame, Current
<1>6. Expects(outs)'
    BY <1>1, <1>4, <1>5 DEF Expects
<1>7. Settled(phase', outs[1]) = Script(files', commands')
    BY <1>1, <1>4 DEF Settled
<1>8. Promised'
    BY <1>6, <1>7 DEF Promised
<1>9. Papers'
    BY <1>1, <1>2 DEF Papers, Told
<1> QED
    BY <1>2, <1>8, <1>9 DEF OnScript

LEMMA OnScriptInit ==
    ASSUME Init
    PROVE  OnScript
<1> DEFINE d == Driver(Top, <<>>, HostSession)
           m == Begun
<1>1. /\ files \in Contents /\ stack = <<d>> /\ phase = "idle" /\ commands = <<>> /\ log = <<>>
      /\ sessions = [s \in 1 .. MaxDepth |-> <<>>]
    BY DEF Init
<1>2. WellKept
    BY WellKeptInit
<1>3. Papers
    <2>1. <<>> \in Seq(Told(files)) /\ <<>> \in Seq(Entries)
        OBVIOUS
    <2>2. stack[1].path = Top
        BY <1>1 DEF Driver
    <2> QED
        BY <1>1, <2>1, <2>2 DEF Papers
<1>4. 1 \in 1 .. MaxDepth /\ m \in Outcomes
    BY DepthAssumption, NothingType
<1>5. Current = d /\ Current.rest = <<>> /\ Len(stack) = 1
    BY <1>1 DEF Current, Last, Driver
<1>6. Now = m
    <2>1. /\ d.session = 1 /\ d.flag = FALSE /\ d.errors = FALSE /\ d.code = FALSE
          /\ sessions[1] = <<>> /\ 1 # NoSession
        BY <1>1, <1>4 DEF Driver, HostSession, NoSession
    <2> HIDE DEF d
    <2>2. Now = [driver |-> [contexts |-> <<>>, session |-> TRUE, flag |-> FALSE, errors |-> FALSE, code |-> FALSE],
                 done |-> <<>>]
        BY <1>1, <1>5, <2>1 DEF Now, Frame
    <2>3. Fresh = [contexts |-> <<>>, session |-> FALSE, flag |-> FALSE, errors |-> FALSE, code |-> FALSE]
        BY DEF Fresh
    <2>4. [Fresh EXCEPT !.session = TRUE] =
             [contexts |-> <<>>, session |-> TRUE, flag |-> FALSE, errors |-> FALSE, code |-> FALSE]
        <3> DEFINE g == [Fresh EXCEPT !.session = TRUE]
                   h == [contexts |-> <<>>, session |-> TRUE, flag |-> FALSE, errors |-> FALSE, code |-> FALSE]
        <3>1. g \in Frames /\ h \in Frames
            <4>1. <<>> \in Seq(Contexts)
                OBVIOUS
            <4>2. Fresh \in Frames
                BY <2>3, <4>1 DEF Frames
            <4> QED
                BY <4>1, <4>2 DEF Frames
        <3>2. g.contexts = <<>> /\ g.session = TRUE /\ g.flag = FALSE /\ g.errors = FALSE /\ g.code = FALSE
            BY <2>3
        <3>3. h.contexts = <<>> /\ h.session = TRUE /\ h.flag = FALSE /\ h.errors = FALSE /\ h.code = FALSE
            OBVIOUS
        <3> HIDE DEF g, h
        <3>4. g = h
            BY <3>1, <3>2, <3>3, FramesEqual
        <3> QED
            BY <3>4 DEF g, h
    <2> QED
        BY <2>2, <2>4 DEF Begun
<1>7. Script(files, commands) = m
    <2>1. commands \in Seq(Told(files)) /\ Len(commands) = 0
        BY <1>1
    <2>2. PICK g : Plays(g, files, commands)
        BY <1>1, <2>1, ScriptSteps
    <2> QED
        BY <2>1, <2>2 DEF Plays
<1>8. Meaning(Current.path, Now, Current.rest, Room(files, 1)) = Now
    BY <1>2, <1>3, <1>5, DoneNow DEF Running
<1> HIDE DEF m, d
<1>9. PICK outs : outs \in [1 .. 1 -> Outcomes] /\ outs[1] = m
    <2> DEFINE o == [i \in 1 .. 1 |-> m]
    <2>1. o \in [1 .. 1 -> Outcomes] /\ o[1] = m
        BY <1>4
    <2> QED
        BY <2>1
<1>10. Expects(outs)
    <2>1. 1 .. Len(stack) - 1 = {}
        BY <1>5
    <2> QED
        BY <1>5, <1>6, <1>8, <1>9, <2>1 DEF Expects
<1>11. Settled(phase, outs[1]) = Script(files, commands)
    BY <1>1, <1>7, <1>9 DEF Settled
<1> QED
    BY <1>2, <1>3, <1>10, <1>11 DEF OnScript, Promised

LEMMA OnScriptNext ==
    ASSUME ~SharedErrors, OnScript, [Next]_vars
    PROVE  OnScript'
<1>1. ASSUME NEW line \in Lines, TypeLine(line) PROVE OnScript'
    BY <1>1, TypeLineOnScript
<1>2. ASSUME NEW path \in DOMAIN files, Load(path) PROVE OnScript'
    BY <1>2, LoadOnScript
<1>3. CASE Set
    BY <1>3, SetOnScript, IncludeOnScript
<1>4. CASE Command
    BY <1>4, CommandOnScript
<1>5. CASE ReturnToIncluder
    BY <1>5, ReturnOnScript
<1>6. CASE LineDone
    BY <1>6, LineDoneOnScript
<1>7. CASE LoadDone
    BY <1>7, LoadDoneOnScript
<1>8. CASE UNCHANGED vars
    <2>1. UNCHANGED <<files, stack, sessions, callback, phase, commands, log>>
        BY <1>8 DEF vars, driverVars
    <2>2. WellKept /\ Papers /\ WellKept'
        BY <1>8, WellKeptNext DEF OnScript
    <2>3. PICK outs : Expects(outs) /\ Settled(phase, outs[1]) = Script(files, commands)
        BY DEF OnScript, Promised
    <2>4. Now' = Now /\ Current' = Current
        BY <2>1 DEF Now, Frame, Current
    <2>5. Expects(outs)' /\ Settled(phase', outs[1]) = Script(files', commands')
        BY <2>1, <2>3, <2>4 DEF Expects
    <2>6. Promised'
        BY <2>5 DEF Promised
    <2>7. Papers'
        BY <2>1, <2>2 DEF Papers, Told
    <2> QED
        BY <2>2, <2>6, <2>7 DEF OnScript
<1> QED
    BY <1>1, <1>2, <1>3, <1>4, <1>5, <1>6, <1>7, <1>8 DEF Next, Work, Quit

\* The shell does what its script says, for every script, every set of files and
\* every depth to which they include each other: the stack of drivers, with a
\* session for each that needs one and one callback for all of them, comes to
\* what the text means.  As in tagsh.cc, the host's driver and its session have
\* lists of errors of their own.
THEOREM ShellDoesItsScript ==
    ASSUME ~SharedErrors
    PROVE  Spec => []DoesTheScript
<1>1. OnScript /\ [Next]_vars => OnScript'
    BY OnScriptNext
<1>2. OnScript => DoesTheScript
    <2> SUFFICES ASSUME OnScript, phase = "idle"
                 PROVE  log = Script(files, commands).done
        BY DEF DoesTheScript
    <2>1. Now = Script(files, commands)
        BY IdleMeans
    <2>2. Now.done = log
        BY DEF Now
    <2> QED
        BY <2>1, <2>2
<1> QED
    BY OnScriptInit, <1>1, <1>2, PTL DEF Spec

=============================================================================
