---------------------------- MODULE HttagdProofs ----------------------------
(***************************************************************************)
(* Proofs about the HTTP server: for all requests, files and contexts.     *)
(***************************************************************************)
EXTENDS Httagd, DriverProofs

-----------------------------------------------------------------------------
(* The invariant. *)

\* What main_cb puts on the session before the driver starts.
HostBase == IF served > 0 /\ ContextPushed(request) THEN <<request.context>> ELSE <<>>

\* The drivers are well kept, and the host's has no path, the session of the
\* transaction, and no code of its own.
HostKept ==
    /\ \E b \in Seq(Contexts) : b = HostBase /\ DriverInv(b)
    /\ stack[1].path = Top /\ stack[1].session = HostSession /\ stack[1].code = FALSE

IncludesFile(r) == \E i \in DOMAIN Statements(r) : Statements(r)[i].op = "include"

Entries == [statement : TaglStatement, contexts : Seq(Contexts), flag : BOOLEAN]

\* The driver of a file is at work only while a request is executed; its end is
\* the only way to a reply before the end of the request.
PhaseKept ==
    /\ phase \in {"idle", "execute", "returned", "replied", "aborted"}
    /\ request \in Requests /\ served \in 0 .. MaxRequests
    /\ status \in {"none", "ok", "error", "not allowed"}
    /\ storeErrors = FALSE
    /\ log \in Seq(Entries)
    /\ phase # "idle" => served > 0
    /\ phase \in {"idle", "returned", "replied"} => Len(stack) = 1
    /\ phase \in {"idle", "replied"} => stack[1].level = 0
    /\ phase = "aborted" \/ (phase = "execute" /\ (replied \/ Len(stack) > 1)) => IncludesFile(request)

\* How many statements of the request are done.
Taken == Len(Statements(request)) - Len(stack[1].rest)

\* What the host's driver has left is the end of what the request gave it, and
\* there are no errors before the first statement but those of the context.
Underway ==
    /\ Len(stack[1].rest) <= Len(Statements(request))
    /\ \A i \in 1 .. Len(stack[1].rest) : stack[1].rest[i] = Statements(request)[Taken + i]
    /\ Len(stack) > 1 => stack[1].rest # <<>>
    /\ stack[1].errors => ContextRefused(request) \/ Taken > 0 \/ log # <<>>

ServerInv == HostKept /\ PhaseKept /\ (phase = "execute" => Underway)

-----------------------------------------------------------------------------
(* The host's driver. *)

LEMMA StatementsType ==
    ASSUME NEW r \in Requests
    PROVE  Statements(r) \in Seq(TaglStatement) /\ r.body \in Seq(TaglStatement)
BY RequestsAssumption DEF Statements

\* The host's driver is there, alone it is the one at work.
LEMMA Host ==
    ASSUME ServerInv
    PROVE  /\ stack \in Seq(Drivers) /\ Len(stack) \in Nat \ {0} /\ callback = Len(stack)
           /\ stack[1] \in Drivers /\ Current \in Drivers /\ Current = stack[Len(stack)]
           /\ stack[1].rest \in Seq(TaglStatement)
           /\ Statements(request) \in Seq(TaglStatement)
           /\ sessions \in [1 .. MaxDepth -> Seq(Contexts)] /\ 1 \in 1 .. MaxDepth
<1>1. PICK b \in Seq(Contexts) : b = HostBase /\ DriverInv(b)
    BY DEF ServerInv, HostKept
<1>2. /\ stack \in Seq(Drivers) /\ Len(stack) \in Nat \ {0} /\ callback = Len(stack)
      /\ Current \in Drivers /\ Current = stack[Len(stack)]
      /\ sessions \in [1 .. MaxDepth -> Seq(Contexts)]
    BY <1>1, AtWork DEF DriverInv, DriverTypeOK
<1>3. 1 \in 1 .. Len(stack)
    <2> DEFINE n == Len(stack)
    <2>1. n \in Nat \ {0}
        BY <1>2
    <2> HIDE DEF n
    <2>2. 1 \in 1 .. n
        BY <2>1
    <2> QED
        BY <2>2 DEF n
<1>4. stack[1] \in Drivers
    BY <1>2, <1>3
<1>5. stack[1].rest \in Seq(TaglStatement)
    BY <1>4 DEF Drivers
<1>6. request \in Requests
    BY DEF ServerInv, PhaseKept
<1>7. 1 \in 1 .. MaxDepth
    BY DepthAssumption
<1> QED
    BY <1>2, <1>4, <1>5, <1>6, <1>7, StatementsType

\* The statement that the host's driver is at, and what is left after it.
LEMMA NextStatement ==
    ASSUME NEW rest \in Seq(TaglStatement), NEW all \in Seq(TaglStatement),
           rest # <<>>, Len(rest) <= Len(all),
           \A i \in 1 .. Len(rest) : rest[i] = all[Len(all) - Len(rest) + i]
    PROVE  LET k == Len(all) - Len(rest)
           IN  /\ k \in Nat /\ k + 1 \in 1 .. Len(all) /\ Head(rest) = all[k + 1]
               /\ Tail(rest) \in Seq(TaglStatement) /\ Len(all) - Len(Tail(rest)) = k + 1
               /\ Len(Tail(rest)) <= Len(all)
               /\ \A i \in 1 .. Len(Tail(rest)) :
                      Tail(rest)[i] = all[Len(all) - Len(Tail(rest)) + i]
<1> DEFINE l == Len(rest)
           n == Len(all)
           t == Tail(rest)
<1>1. l \in Nat /\ n \in Nat /\ l # 0 /\ l <= n
    <2>1. l # 0
        BY EmptySeq
    <2> QED
        BY <2>1
<1>2. t \in Seq(TaglStatement) /\ Len(t) = l - 1 /\ \A i \in 1 .. l - 1 : t[i] = rest[i + 1]
    BY HeadTailProperties
<1>3. Head(rest) = rest[1]
    OBVIOUS
<1>4. \A i \in 1 .. l : rest[i] = all[n - l + i]
    OBVIOUS
<1> HIDE DEF l, n, t
<1>5. n - Len(t) = n - l + 1 /\ n - l \in Nat /\ n - l + 1 \in 1 .. n /\ 1 \in 1 .. l
    BY <1>1, <1>2
<1>6. ASSUME NEW i \in 1 .. Len(t)
      PROVE  t[i] = all[n - Len(t) + i]
    <2>1. i \in 1 .. l - 1 /\ i + 1 \in 1 .. l /\ n - l + (i + 1) = n - Len(t) + i
        BY <1>1, <1>2
    <2> QED
        BY <1>2, <1>4, <2>1
<1>7. Len(t) <= n
    BY <1>1, <1>2
<1> QED
    BY <1>2, <1>3, <1>4, <1>5, <1>6, <1>7 DEF l, n, t

\* The driver goes on after a statement of the request.
LEMMA HostGoesOn ==
    ASSUME ServerInv, phase = "execute", stack[1].rest # <<>>,
           stack'[1].rest = Tail(stack[1].rest), Len(stack') = 1, request' = request
    PROVE  /\ Underway' /\ Taken' = Taken + 1
           /\ Taken \in Nat /\ Taken + 1 \in 1 .. Len(Statements(request))
           /\ Head(stack[1].rest) = Statements(request)[Taken + 1]
<1> DEFINE all == Statements(request)
           rest == stack[1].rest
<1>1. /\ Underway /\ rest \in Seq(TaglStatement) /\ all \in Seq(TaglStatement)
    BY Host DEF ServerInv
<1>2. /\ Len(rest) <= Len(all) /\ Taken = Len(all) - Len(rest)
      /\ \A i \in 1 .. Len(rest) : rest[i] = all[Len(all) - Len(rest) + i]
    BY <1>1 DEF Underway, Taken
<1>3. rest # <<>> /\ stack'[1].rest = Tail(rest)
    OBVIOUS
<1>4. Statements(request') = all
    OBVIOUS
<1> HIDE DEF all, rest
<1>5. /\ Taken \in Nat /\ Taken + 1 \in 1 .. Len(all) /\ Head(rest) = all[Taken + 1]
      /\ Tail(rest) \in Seq(TaglStatement) /\ Len(all) - Len(Tail(rest)) = Taken + 1
      /\ Len(Tail(rest)) <= Len(all)
      /\ \A i \in 1 .. Len(Tail(rest)) : Tail(rest)[i] = all[Len(all) - Len(Tail(rest)) + i]
    BY <1>1, <1>2, <1>3, NextStatement
<1>6. Taken' = Taken + 1
    BY <1>3, <1>4, <1>5 DEF Taken, Statements, WellFormed, Allowed
<1>7. Underway'
    <2>1. Len(stack'[1].rest) <= Len(all)
        BY <1>3, <1>5
    <2>2. \A i \in 1 .. Len(stack'[1].rest) : stack'[1].rest[i] = all[Taken' + i]
        BY <1>3, <1>5, <1>6
    <2>3. ~ (Len(stack') > 1) /\ Taken' > 0
        BY <1>5, <1>6
    <2> QED
        BY <1>4, <2>1, <2>2, <2>3 DEF Underway, Statements, WellFormed, Allowed
<1> QED
    BY <1>5, <1>6, <1>7 DEF all, rest

\* The host's driver stays as it is.
LEMMA HostWaits ==
    ASSUME ServerInv, phase = "execute", stack[1].rest # <<>>,
           stack'[1].rest = stack[1].rest,
           stack'[1].errors = stack[1].errors \/ log' # <<>>, log # <<>> => log' # <<>>,
           request' = request
    PROVE  Underway' /\ Taken' = Taken
<1>1. Taken' = Taken /\ Statements(request') = Statements(request)
    BY DEF Taken, Statements, WellFormed, Allowed
<1>2. Underway
    BY DEF ServerInv
<1> QED
    BY <1>1, <1>2 DEF Underway, Statements, WellFormed, Allowed, ContextRefused

\* What is said of a request is said of it as long as it is the request.
LEMMA SameRequest ==
    ASSUME UNCHANGED <<request, served>>
    PROVE  /\ HostBase' = HostBase /\ (IncludesFile(request))' = IncludesFile(request)
           /\ (ContextRefused(request))' = ContextRefused(request)
BY DEF HostBase, ContextPushed, IncludesFile, ContextRefused, Statements, WellFormed, Allowed

-----------------------------------------------------------------------------
(* One lemma for each kind of action. *)

LEMMA ServerInvInit ==
    ASSUME Init
    PROVE  ServerInv
<1> DEFINE d == Driver(Top, <<>>, HostSession)
<1>1. /\ files \in Contents /\ stack = <<d>> /\ callback = 1 /\ phase = "idle" /\ log = <<>>
      /\ sessions = [s \in 1 .. MaxDepth |-> <<>>] /\ served = 0 /\ storeErrors = FALSE
      /\ status = "none" /\ request = CHOOSE r \in Requests : TRUE
    BY DEF Init
<1>2. 1 \in 1 .. MaxDepth /\ 1 \in 0 .. MaxDepth
    BY DepthAssumption
<1>3. d \in Drivers /\ d.path = Top /\ d.session = 1 /\ d.level = 0 /\ d.code = FALSE
    BY <1>2 DEF Drivers, Driver, HostSession, Paths
<1> HIDE DEF d
<1>4. stack \in Seq(Drivers) /\ Len(stack) = 1 /\ stack[1] = d
    BY <1>1, <1>3
<1>5. DriverTypeOK
    BY <1>1, <1>2, <1>4 DEF DriverTypeOK
<1>6. OwnSessions
    BY <1>3, <1>4 DEF OwnSessions, NoSession
<1>7. ASSUME NEW s \in 1 .. MaxDepth
      PROVE  Accounted(s, <<>>)
    <2>1. Level(s) = 0
        BY <1>3, <1>4 DEF Level
    <2>2. sessions[s] = <<>> \o <<>> /\ Len(<<>>) = 0 /\ <<>> \in Seq(Contexts)
        BY <1>1
    <2> QED
        BY <2>1, <2>2 DEF Accounted, Base
<1>8. DriverInv(<<>>) /\ HostBase = <<>> /\ <<>> \in Seq(Contexts)
    BY <1>1, <1>4, <1>5, <1>6, <1>7 DEF DriverInv, HostBase
<1>9. HostKept
    BY <1>3, <1>4, <1>8 DEF HostKept, HostSession
<1>10. request \in Requests /\ served \in 0 .. MaxRequests /\ log \in Seq(Entries)
    BY <1>1, RequestsAssumption
<1>11. PhaseKept
    BY <1>1, <1>3, <1>4, <1>10 DEF PhaseKept
<1> QED
    BY <1>1, <1>9, <1>11 DEF ServerInv

LEMMA AcceptKeeps ==
    ASSUME ServerInv, Accept
    PROVE  ServerInv'
<1>1. PICK r \in Requests :
          /\ request' = r
          /\ stack' = <<[Driver(Top, Statements(r), HostSession) EXCEPT
                            !.errors = storeErrors \/ ContextRefused(r)]>>
          /\ sessions' = [sessions EXCEPT ![HostSession] = IF ContextPushed(r) THEN <<r.context>> ELSE <<>>]
    BY DEF Accept
<1>2. /\ phase = "idle" /\ served < MaxRequests /\ callback' = 1 /\ served' = served + 1
      /\ replied' = FALSE /\ status' = "none" /\ log' = <<>> /\ phase' = "execute"
      /\ UNCHANGED <<files, storeErrors>>
    BY DEF Accept
<1> DEFINE b == IF ContextPushed(r) THEN <<r.context>> ELSE <<>>
           all == Statements(r)
           d == [Driver(Top, all, HostSession) EXCEPT !.errors = storeErrors \/ ContextRefused(r)]
<1>3. b \in Seq(Contexts) /\ all \in Seq(TaglStatement)
    BY StatementsType DEF ContextPushed
<1>4. storeErrors = FALSE /\ served \in Nat /\ served \in 0 .. MaxRequests /\ MaxRequests \in Nat /\ Len(stack) = 1
    <2>1. MaxRequests \in Nat
        BY RequestsAssumption
    <2>2. storeErrors = FALSE /\ served \in 0 .. MaxRequests /\ Len(stack) = 1
        BY <1>2 DEF ServerInv, PhaseKept
    <2> QED
        BY <2>1, <2>2
<1>5. b = HostBase'
    BY <1>1, <1>2, <1>4 DEF HostBase, ContextPushed
<1>6. 1 \in 0 .. MaxDepth /\ 1 \in 1 .. MaxDepth
    BY DepthAssumption
<1>7. /\ d \in Drivers /\ d.path = Top /\ d.session = 1 /\ d.level = 0 /\ d.code = FALSE /\ d.rest = all
      /\ d.errors = ContextRefused(r)
    <2>1. ContextRefused(r) \in BOOLEAN
        BY DEF ContextRefused
    <2> HIDE DEF all
    <2> QED
        BY <1>3, <1>4, <1>6, <2>1 DEF Drivers, Driver, HostSession, Paths
<1>8. PICK c \in Seq(Contexts) : DriverInv(c)
    BY DEF ServerInv, HostKept
<1>9. files \in Contents /\ sessions \in [1 .. MaxDepth -> Seq(Contexts)]
    BY <1>8 DEF DriverInv, DriverTypeOK
<1>10. stack' = <<d>> /\ sessions' = [sessions EXCEPT ![1] = b]
    BY <1>1 DEF HostSession
<1> HIDE DEF d, b
<1>11. stack' \in Seq(Drivers) /\ Len(stack') = 1 /\ stack'[1] = d
    BY <1>7, <1>10
<1>12. DriverTypeOK'
    BY <1>2, <1>3, <1>6, <1>9, <1>10, <1>11 DEF DriverTypeOK
<1>13. OwnSessions'
    BY <1>7, <1>11 DEF OwnSessions, NoSession
<1>14. ASSUME NEW s \in 1 .. MaxDepth
       PROVE  Accounted(s, b)'
    <2>1. Level(s)' = 0
        BY <1>7, <1>11 DEF Level
    <2> SUFFICES sessions'[s] = Base(s, b) \o <<>>
        <3>1. <<>> \in Seq(Contexts) /\ Len(<<>>) = Level(s)'
            BY <2>1
        <3> QED
            BY <3>1 DEF Accounted, Base
    <2>2. CASE s = 1
        <3>1. sessions'[s] = b /\ Base(s, b) = b
            BY <1>9, <1>10, <2>2 DEF Base, HostSession
        <3> QED
            BY <1>3, <3>1
    <2>3. CASE s # 1
        <3>1. sessions'[s] = sessions[s] /\ Base(s, b) = <<>> /\ Base(s, c) = <<>>
            BY <1>9, <1>10, <2>3 DEF Base, HostSession
        <3>2. Level(s) = 0
            BY <1>4, <2>3 DEF Level
        <3>3. PICK x \in Seq(Contexts) : sessions[s] = Base(s, c) \o x /\ Len(x) = 0
            BY <1>8, <3>2 DEF DriverInv, Accounted
        <3>4. x = <<>>
            BY <3>3, EmptySeq
        <3> QED
            BY <3>1, <3>3, <3>4
    <2> QED
        BY <2>2, <2>3
<1>15. DriverInv(b)'
    BY <1>2, <1>11, <1>12, <1>13, <1>14 DEF DriverInv
<1>16. HostKept'
    BY <1>3, <1>5, <1>7, <1>11, <1>15 DEF HostKept, HostSession
<1>17. PhaseKept'
    <2>1. served' \in 0 .. MaxRequests /\ served' > 0 /\ <<>> \in Seq(Entries)
        BY <1>2, <1>4
    <2>2. Entries' = Entries
        BY DEF Entries
    <2> QED
        BY <1>1, <1>2, <1>4, <1>11, <2>1, <2>2 DEF PhaseKept
<1>18. Underway'
    <2>1. (Statements(request))' = all /\ (ContextRefused(request))' = ContextRefused(r)
        BY <1>1 DEF Statements, WellFormed, Allowed, ContextRefused
    <2>2. stack'[1].rest = all /\ stack'[1].errors = ContextRefused(r)
        BY <1>7, <1>11
    <2> HIDE DEF all
    <2>3. Len(all) \in Nat /\ Taken' = 0
        BY <1>3, <2>1, <2>2 DEF Taken
    <2>4. \A i \in 1 .. Len(all) : all[i] = all[0 + i]
        OBVIOUS
    <2> QED
        BY <1>11, <2>1, <2>2, <2>3, <2>4 DEF Underway
<1> QED
    BY <1>16, <1>17, <1>18 DEF ServerInv

\* A statement that the driver at work executes itself.
LEMMA SetKeeps ==
    ASSUME ServerInv, Set
    PROVE  ServerInv'
<1> DEFINE n == Len(stack)
<1>1. phase = "execute" /\ SetStatement /\ UNCHANGED <<phase, httpVars>>
    BY DEF Set
<1>2. PICK b \in Seq(Contexts) : b = HostBase /\ DriverInv(b)
    BY DEF ServerInv, HostKept
<1>3. /\ DriverInv(b)' /\ OthersWait /\ Running
      /\ \/ Len(stack') = n /\ Executes(Current, stack'[n])
         \/ /\ Len(stack') = n + 1 /\ stack'[n] = stack[n]
            /\ Head(Current.rest).op = "include"
    BY <1>1, <1>2, StatementDone
<1>4. UNCHANGED <<request, served, sessionCode, storeErrors, replied, status, log>>
    BY <1>1 DEF httpVars
<1>5. n \in Nat \ {0} /\ Current = stack[n] /\ stack[1] \in Drivers
    BY Host
<1>6. HostKept /\ PhaseKept /\ Underway
    BY <1>1 DEF ServerInv
<1>7. b = HostBase' /\ (IncludesFile(request))' = IncludesFile(request)
    BY <1>2, <1>4, SameRequest
<1>8. Current.rest # <<>>
    BY <1>3 DEF Running
\* An included file is at work.
<1>9. CASE n > 1
    <2>1. stack'[1] = stack[1] /\ Len(stack') > 1
        <3>1. 1 \in 1 .. n - 1
            <4> HIDE DEF n
            <4> QED
                BY <1>5, <1>9
        <3>2. stack'[1] = stack[1]
            BY <1>3, <3>1 DEF OthersWait
        <3> HIDE DEF n
        <3> QED
            BY <1>3, <1>5, <1>9, <3>2
    <2>2. Underway'
        BY <1>1, <1>4, <1>6, <1>9, <2>1, HostWaits DEF Underway
    <2>3. HostKept'
        BY <1>3, <1>6, <1>7, <2>1 DEF HostKept
    <2>4. PhaseKept'
        BY <1>1, <1>4, <1>6, <1>7, <1>9 DEF PhaseKept, Entries
    <2> QED
        BY <2>2, <2>3, <2>4 DEF ServerInv
\* The host's driver includes a file.
<1>10. CASE n = 1 /\ Len(stack') = n + 1
    <2>1. stack'[1] = stack[1] /\ Head(stack[1].rest).op = "include" /\ stack[1].rest # <<>>
        BY <1>3, <1>5, <1>8, <1>10
    <2>2. Underway'
        BY <1>1, <1>4, <2>1, HostWaits
    <2>3. HostKept'
        BY <1>3, <1>6, <1>7, <2>1 DEF HostKept
    <2>4. IncludesFile(request)
        <3> DEFINE all == Statements(request)
                   rest == stack[1].rest
        <3>1. rest \in Seq(TaglStatement) /\ all \in Seq(TaglStatement) /\ rest # <<>>
            BY <2>1, Host
        <3>2. /\ Len(rest) <= Len(all)
              /\ \A i \in 1 .. Len(rest) : rest[i] = all[Len(all) - Len(rest) + i]
            BY <1>6 DEF Underway, Taken
        <3>3. Head(rest).op = "include"
            BY <2>1
        <3> HIDE DEF all, rest
        <3>4. \E i \in 1 .. Len(all) : Head(rest) = all[i]
            BY <3>1, <3>2, NextStatement
        <3>5. \E i \in DOMAIN all : all[i].op = "include"
            BY <3>1, <3>3, <3>4
        <3> QED
            BY <3>5 DEF IncludesFile, all
    <2>5. PhaseKept'
        BY <1>1, <1>4, <1>6, <1>7, <2>4 DEF PhaseKept, Entries
    <2> QED
        BY <2>2, <2>3, <2>5 DEF ServerInv
\* The host's driver goes on.
<1>11. CASE n = 1 /\ Len(stack') = n
    <2>1. Executes(stack[1], stack'[1]) /\ stack[1].rest # <<>>
        BY <1>3, <1>5, <1>8, <1>11
    <2>2. Underway'
        BY <1>1, <1>4, <1>11, <2>1, HostGoesOn DEF Executes
    <2>3. HostKept'
        BY <1>3, <1>6, <1>7, <2>1 DEF HostKept, Executes, NoSession, HostSession
    <2>4. PhaseKept'
        BY <1>1, <1>4, <1>6, <1>7, <1>11 DEF PhaseKept, Entries
    <2> QED
        BY <2>2, <2>3, <2>4 DEF ServerInv
<1> QED
    <2>1. n > 1 \/ n = 1
        <3> HIDE DEF n
        <3> QED
            BY <1>5
    <2> QED
        BY <1>3, <1>9, <1>10, <1>11, <2>1

\* A statement for the store: the host's driver gets its errors, whatever driver
\* is at work.
LEMMA CommandSteps ==
    ASSUME ServerInv, Command
    PROVE  /\ stack' \in Seq(Drivers) /\ Len(stack') = Len(stack)
           /\ \A i \in 1 .. Len(stack) :
                  /\ stack'[i].session = stack[i].session /\ stack'[i].level = stack[i].level
                  /\ stack'[i].path = stack[i].path /\ stack'[i].code = stack[i].code
                  /\ stack'[i].rest = IF i = Len(stack) THEN Tail(stack[i].rest) ELSE stack[i].rest
           /\ stack'[1].errors = (stack[1].errors \/ Head(Current.rest).outcome \in {"refused", "failed"})
           /\ Current.rest # <<>> /\ Head(Current.rest).op = "call" /\ phase = "execute"
           /\ log' \in Seq(Entries) /\ log' # <<>>
           /\ Len(log') = Len(log) + 1 /\ log'[Len(log) + 1].statement = Head(Current.rest)
           /\ \A i \in 1 .. Len(log) : log'[i] = log[i]
           /\ sessionCode' = (Head(Current.rest).outcome # "done")
<1> DEFINE n == Len(stack)
           s == Head(Current.rest)
           t == Tail(Current.rest)
           stepped == [stack EXCEPT ![n].rest = Tail(@)]
           entry == [statement |-> s, contexts |-> sessions[stack[1].session], flag |-> stack[callback].flag]
<1>1. /\ Running /\ s.op = "call" /\ log' = Append(log, entry) /\ sessionCode' = (s.outcome # "done")
      /\ stack' = [stepped EXCEPT ![1] = Shared(@, s.outcome)] /\ phase = "execute"
    BY DEF Command
<1>2. /\ stack \in Seq(Drivers) /\ n \in Nat \ {0} /\ callback = n /\ stack[1] \in Drivers
      /\ Current \in Drivers /\ Current = stack[n] /\ 1 \in 1 .. MaxDepth
      /\ sessions \in [1 .. MaxDepth -> Seq(Contexts)]
    BY Host
<1>3. Current.rest # <<>> /\ s \in TaglStatement /\ t \in Seq(TaglStatement)
    <2>1. PICK b \in Seq(Contexts) : DriverInv(b)
        BY DEF ServerInv, HostKept
    <2> QED
        BY <1>1, <2>1, AtWork DEF Running
<1>4. stack[1].session = 1 /\ log \in Seq(Entries)
    BY DEF ServerInv, HostKept, PhaseKept, HostSession
<1>5. entry \in Entries
    <2>1. sessions[1] \in Seq(Contexts) /\ stack[callback].flag \in BOOLEAN
        BY <1>2 DEF Drivers
    <2> HIDE DEF s
    <2> QED
        BY <1>3, <1>4, <2>1 DEF Entries
<1>6. log' \in Seq(Entries) /\ Len(log') = Len(log) + 1 /\ log'[Len(log) + 1].statement = s
      /\ \A i \in 1 .. Len(log) : log'[i] = log[i]
    <2> HIDE DEF entry
    <2>1. log' \in Seq(Entries) /\ Len(log') = Len(log) + 1 /\ log'[Len(log) + 1] = entry
          /\ \A i \in 1 .. Len(log) : log'[i] = log[i]
        BY <1>1, <1>4, <1>5, AppendProperties
    <2> QED
        BY <2>1 DEF entry
<1>7. log' # <<>>
    BY <1>4, <1>6
<1> DEFINE e == [Current EXCEPT !.rest = t]
           d(i) == IF i = n THEN e ELSE stack[i]
<1>8. stepped = [stack EXCEPT ![n] = e]
    BY <1>2
<1>9. e \in Drivers /\ e.session = Current.session /\ e.level = Current.level /\ e.path = Current.path
      /\ e.code = Current.code /\ e.rest = t /\ e.errors = Current.errors
    BY <1>2, <1>3 DEF Drivers
<1> HIDE DEF e, t, s, stepped
<1>10. stepped \in Seq(Drivers) /\ Len(stepped) = n
       /\ \A i \in 1 .. n : stepped[i] = IF i = n THEN e ELSE stack[i]
    BY <1>2, <1>8, <1>9
<1> HIDE DEF n
<1>11. 1 \in 1 .. n /\ stepped[1] \in Drivers /\ stepped[1].errors = stack[1].errors
    BY <1>2, <1>9, <1>10
<1> DEFINE h == Shared(stepped[1], s.outcome)
<1>12. h \in Drivers /\ h.session = stepped[1].session /\ h.level = stepped[1].level
       /\ h.path = stepped[1].path /\ h.code = stepped[1].code /\ h.rest = stepped[1].rest
       /\ h.errors = (stack[1].errors \/ s.outcome \in {"refused", "failed"})
    BY <1>11 DEF Shared, Drivers
<1>13. stack' = [stepped EXCEPT ![1] = h]
    BY <1>1
<1> HIDE DEF h
<1>14. stack' \in Seq(Drivers) /\ Len(stack') = n
       /\ \A i \in 1 .. n : stack'[i] = IF i = 1 THEN h ELSE stepped[i]
    BY <1>10, <1>11, <1>12, <1>13
<1>15. ASSUME NEW i \in 1 .. n
       PROVE  /\ stack'[i].session = stack[i].session /\ stack'[i].level = stack[i].level
              /\ stack'[i].path = stack[i].path /\ stack'[i].code = stack[i].code
              /\ stack'[i].rest = IF i = n THEN Tail(stack[i].rest) ELSE stack[i].rest
    <2>1. /\ stack'[i].session = stepped[i].session /\ stack'[i].level = stepped[i].level
          /\ stack'[i].path = stepped[i].path /\ stack'[i].code = stepped[i].code
          /\ stack'[i].rest = stepped[i].rest
        BY <1>12, <1>14
    <2>2. t = Tail(stack[n].rest)
        BY <1>2 DEF t
    <2> QED
        BY <1>2, <1>9, <1>10, <2>1, <2>2
<1>16. stack'[1].errors = (stack[1].errors \/ s.outcome \in {"refused", "failed"})
    BY <1>11, <1>12, <1>14
<1> QED
    BY <1>1, <1>3, <1>6, <1>7, <1>14, <1>15, <1>16 DEF n, s

LEMMA CommandKeeps ==
    ASSUME ServerInv, Command
    PROVE  ServerInv'
<1> DEFINE n == Len(stack)
<1>1. /\ phase = "execute" /\ phase' = "execute" /\ UNCHANGED <<files, sessions, callback>>
      /\ UNCHANGED <<request, served, storeErrors, replied, status>>
    BY DEF Command
<1>2. /\ stack' \in Seq(Drivers) /\ Len(stack') = Len(stack)
      /\ \A i \in 1 .. Len(stack) :
             /\ stack'[i].session = stack[i].session /\ stack'[i].level = stack[i].level
             /\ stack'[i].path = stack[i].path /\ stack'[i].code = stack[i].code
             /\ stack'[i].rest = IF i = Len(stack) THEN Tail(stack[i].rest) ELSE stack[i].rest
      /\ stack'[1].errors = (stack[1].errors \/ Head(Current.rest).outcome \in {"refused", "failed"})
      /\ Current.rest # <<>> /\ log' \in Seq(Entries) /\ log' # <<>>
    BY CommandSteps
<1>3. PICK b \in Seq(Contexts) : b = HostBase /\ DriverInv(b)
    BY DEF ServerInv, HostKept
<1>4. DriverInv(b)'
    BY <1>1, <1>2, <1>3, LevelsStay
<1>5. b = HostBase' /\ (IncludesFile(request))' = IncludesFile(request)
    BY <1>1, <1>3, SameRequest
<1>6. n \in Nat \ {0} /\ Current = stack[n]
    BY Host
<1>7. HostKept /\ PhaseKept /\ Underway
    BY <1>1 DEF ServerInv
<1>8. 1 \in 1 .. n
    <2> HIDE DEF n
    <2> QED
        BY <1>6
<1>9. HostKept'
    <2>1. stack'[1].path = stack[1].path /\ stack'[1].session = stack[1].session /\ stack'[1].code = stack[1].code
        BY <1>2, <1>8
    <2> QED
        BY <1>4, <1>5, <1>7, <2>1 DEF HostKept
<1>10. PhaseKept'
    BY <1>1, <1>2, <1>5, <1>7 DEF PhaseKept, Entries
<1>11. Underway'
    <2>1. CASE n > 1
        <3>1. stack'[1].rest = stack[1].rest
            <4>1. 1 # n
                <5> HIDE DEF n
                <5> QED
                    BY <1>6, <2>1
            <4> QED
                BY <1>2, <1>8, <4>1
        <3>2. stack[1].rest # <<>>
            BY <1>7, <2>1 DEF Underway
        <3>3. Taken' = Taken /\ (Statements(request))' = Statements(request)
            BY <1>1, <3>1 DEF Taken, Statements, WellFormed, Allowed
        <3> QED
            BY <1>2, <1>7, <3>1, <3>2, <3>3 DEF Underway
    <2>2. CASE n = 1
        <3>1. stack'[1].rest = Tail(stack[1].rest) /\ stack[1].rest # <<>> /\ Len(stack') = 1
            BY <1>2, <1>6, <1>8, <2>2
        <3> QED
            BY <1>1, <3>1, HostGoesOn
    <2>3. n > 1 \/ n = 1
        <3> HIDE DEF n
        <3> QED
            BY <1>6
    <2> QED
        BY <2>1, <2>2, <2>3
<1> QED
    BY <1>9, <1>10, <1>11 DEF ServerInv

\* The reply has a status of its kind.
LEMMA StatusType == Status \in {"ok", "error", "not allowed"}
BY DEF Status

LEMMA ReturnKeeps ==
    ASSUME ServerInv, ReturnToIncluder
    PROVE  ServerInv'
<1> DEFINE n == Len(stack)
<1>1. /\ phase = "execute" /\ Return /\ phase' \in {"execute", "aborted"}
      /\ status' \in {status, Status}
      /\ UNCHANGED <<request, served, sessionCode, storeErrors, log>>
    BY DEF ReturnToIncluder, CallbackFinish
<1>2. PICK b \in Seq(Contexts) : b = HostBase /\ DriverInv(b)
    BY DEF ServerInv, HostKept
<1>3. /\ DriverInv(b)' /\ n > 1 /\ Len(stack') = n - 1
      /\ \A i \in 1 .. n - 2 : stack'[i] = stack[i]
      /\ stack'[n - 1].rest = IF stack[n - 1].rest = <<>> THEN <<>> ELSE Tail(stack[n - 1].rest)
      /\ \A i \in 1 .. n - 1 : /\ stack'[i].path = stack[i].path /\ stack'[i].session = stack[i].session
                               /\ stack'[i].code = stack[i].code
    BY <1>1, <1>2, FileLeft
<1>4. n \in Nat
    BY Host
<1>5. HostKept /\ PhaseKept /\ Underway
    BY <1>1 DEF ServerInv
<1>6. b = HostBase' /\ (IncludesFile(request))' = IncludesFile(request) /\ IncludesFile(request)
    BY <1>1, <1>2, <1>3, <1>5, SameRequest DEF PhaseKept
<1>7. stack[1].rest # <<>>
    BY <1>3, <1>5 DEF Underway
<1> HIDE DEF n
<1>8. 1 \in 1 .. n - 1 /\ (n = 2 \/ (1 \in 1 .. n - 2 /\ n - 1 > 1))
    BY <1>3, <1>4
<1>9. HostKept'
    BY <1>2, <1>3, <1>5, <1>6, <1>8 DEF HostKept
<1>10. PhaseKept'
    BY <1>1, <1>5, <1>6, StatusType DEF PhaseKept, Entries
<1>11. Underway'
    <2>1. CASE n = 2
        <3>1. stack'[1].rest = Tail(stack[1].rest) /\ Len(stack') = 1
            BY <1>3, <1>7, <2>1
        <3> QED
            BY <1>1, <1>7, <3>1, HostGoesOn
    <2>2. CASE 1 \in 1 .. n - 2
        <3>1. stack'[1] = stack[1]
            BY <1>3, <2>2
        <3> QED
            BY <1>1, <1>5, <1>7, <3>1, HostWaits DEF Underway
    <2> QED
        BY <1>8, <2>1, <2>2
<1> QED
    BY <1>9, <1>10, <1>11 DEF ServerInv

\* The driver's contexts are cleared, that of the request stays.
LEMMA ContextsCleared ==
    ASSUME ServerInv, Len(stack) = 1, ClearContexts, UNCHANGED <<request, served>>
    PROVE  /\ HostKept' /\ Len(stack') = 1 /\ stack'[1].level = 0
           /\ stack'[1].errors = stack[1].errors
<1> DEFINE d == [stack[1] EXCEPT !.level = 0]
<1>1. /\ sessions' = [sessions EXCEPT ![HostSession] = ClearContextLevels(@, stack[1].level)]
      /\ stack' = [stack EXCEPT ![1].level = 0] /\ UNCHANGED <<files, callback>>
    BY DEF ClearContexts
<1>2. PICK b \in Seq(Contexts) : b = HostBase /\ DriverInv(b)
    BY DEF ServerInv, HostKept
<1>3. /\ stack \in Seq(Drivers) /\ stack[1] \in Drivers /\ 1 \in 1 .. MaxDepth
      /\ sessions \in [1 .. MaxDepth -> Seq(Contexts)]
    BY Host
<1>4. stack[1].path = Top /\ stack[1].session = 1 /\ stack[1].code = FALSE
    BY DEF ServerInv, HostKept, HostSession
<1>5. /\ d \in Drivers /\ d.session = 1 /\ d.level = 0 /\ d.path = Top /\ d.code = FALSE
      /\ d.errors = stack[1].errors
    BY <1>3, <1>4 DEF Drivers
<1>6. stack' = [stack EXCEPT ![Len(stack)] = d]
    BY <1>1, <1>3
<1>7. PICK x \in Seq(Contexts) : sessions[1] = b \o x /\ Len(x) = stack[1].level
    <2>1. Level(1) = stack[1].level
        BY DEF Level
    <2>2. Accounted(1, b)
        BY <1>2, <1>3 DEF DriverInv
    <2> QED
        BY <2>1, <2>2 DEF Accounted, Base, HostSession
<1>8. ClearContextLevels(sessions[1], stack[1].level) = b
    BY <1>7, LevelsCleared
<1>9. sessions' = [sessions EXCEPT ![Len(stack)] = Base(Len(stack), b) \o <<>>]
    <2>1. b \o <<>> = b
        OBVIOUS
    <2>2. Base(Len(stack), b) = b
        BY DEF Base, HostSession
    <2> QED
        BY <1>1, <1>8, <2>1, <2>2 DEF HostSession
<1> HIDE DEF d
<1>10. <<>> \in Seq(Contexts) /\ Len(<<>>) = d.level
    BY <1>5
<1>11. DriverInv(b)' /\ Len(stack') = 1 /\ stack'[1] = d
    <2>1. d.session \in {NoSession, Len(stack)} /\ (d.session = NoSession => d.level = 0)
        BY <1>5
    <2>2. <<>> \in Seq(Contexts)
        OBVIOUS
    <2>3. DriverInv(b)' /\ Len(stack') = Len(stack) /\ stack'[Len(stack)] = d
        BY <1>1, <1>2, <1>5, <1>6, <1>9, <1>10, <2>1, <2>2, TopChanges
    <2> QED
        BY <2>3
<1>12. b = HostBase'
    BY <1>2, SameRequest
<1> QED
    BY <1>5, <1>11, <1>12 DEF HostKept, HostSession

LEMMA BodyDoneKeeps ==
    ASSUME ServerInv, BodyDone
    PROVE  ServerInv'
<1>1. /\ phase = "execute" /\ Len(stack) = 1 /\ ClearContexts
      /\ phase' = IF replied THEN "aborted" ELSE "returned"
      /\ status' \in {status, Status}
      /\ UNCHANGED <<request, served, sessionCode, storeErrors, log>>
    BY DEF BodyDone, CallbackFinish
<1>2. HostKept' /\ Len(stack') = 1
    BY <1>1, ContextsCleared
<1>3. (IncludesFile(request))' = IncludesFile(request)
    BY <1>1, SameRequest
<1>4. PhaseKept'
    BY <1>1, <1>2, <1>3, StatusType DEF ServerInv, PhaseKept, Entries
<1> QED
    BY <1>1, <1>2, <1>4 DEF ServerInv

LEMMA MainFinishKeeps ==
    ASSUME ServerInv, MainFinish
    PROVE  ServerInv'
<1>1. /\ phase = "returned" /\ ClearContexts /\ phase' = "replied"
      /\ status' \in {status, Status}
      /\ UNCHANGED <<request, served, sessionCode, storeErrors, log>>
    BY DEF MainFinish, CallbackFinish, httpVars
<1>2. Len(stack) = 1
    BY <1>1 DEF ServerInv, PhaseKept
<1>3. HostKept' /\ Len(stack') = 1 /\ stack'[1].level = 0
    BY <1>1, <1>2, ContextsCleared
<1>4. PhaseKept'
    BY <1>1, <1>3, StatusType DEF ServerInv, PhaseKept, Entries
<1> QED
    BY <1>1, <1>3, <1>4 DEF ServerInv

\* A step that leaves the drivers and the request as they are.
LEMMA HostKeptStill ==
    ASSUME ServerInv, UNCHANGED <<driverVars, request, served>>
    PROVE  HostKept' /\ stack' = stack /\ (IncludesFile(request))' = IncludesFile(request)
<1>1. PICK b \in Seq(Contexts) : b = HostBase /\ DriverInv(b)
    BY DEF ServerInv, HostKept
<1>2. DriverInv(b)' /\ b = HostBase' /\ stack' = stack
    BY <1>1, Unchanged, SameRequest DEF driverVars
<1> QED
    BY <1>2, SameRequest DEF HostKept, ServerInv

LEMMA OtherSteps ==
    ASSUME ServerInv, NoBody \/ EndRequest \/ UNCHANGED vars
    PROVE  ServerInv'
<1>1. UNCHANGED <<driverVars, request, served>>
    BY DEF NoBody, EndRequest, vars, httpVars
<1>2. HostKept' /\ stack' = stack /\ (IncludesFile(request))' = IncludesFile(request)
    BY <1>1, HostKeptStill
<1>3. CASE NoBody
    <2>1. /\ phase = "execute" /\ phase' = "returned" /\ Len(stack) = 1
          /\ UNCHANGED <<request, served, storeErrors, status, log, replied>>
        BY <1>3 DEF NoBody, httpVars
    <2>2. PhaseKept'
        BY <1>2, <2>1 DEF ServerInv, PhaseKept, Entries
    <2> QED
        BY <1>2, <2>1, <2>2 DEF ServerInv
<1>4. CASE EndRequest
    <2>1. /\ phase = "replied" /\ phase' = "idle" /\ storeErrors' = FALSE
          /\ UNCHANGED <<request, served, status, log, replied>>
        BY <1>4 DEF EndRequest, Cleared
    <2>2. PhaseKept'
        BY <1>2, <2>1 DEF ServerInv, PhaseKept, Entries
    <2> QED
        BY <1>2, <2>1, <2>2 DEF ServerInv
<1>5. CASE UNCHANGED vars
    <2>1. UNCHANGED <<phase, request, served, storeErrors, status, log, replied>>
        BY <1>5 DEF vars, httpVars
    <2>2. PhaseKept'
        BY <1>2, <2>1 DEF ServerInv, PhaseKept, Entries
    <2>3. Underway => Underway'
        <3>1. Taken' = Taken /\ (Statements(request))' = Statements(request)
              /\ (ContextRefused(request))' = ContextRefused(request)
            BY <1>2, <2>1 DEF Taken, Statements, WellFormed, Allowed, ContextRefused
        <3> QED
            BY <1>2, <2>1, <3>1 DEF Underway
    <2> QED
        BY <1>2, <2>1, <2>2, <2>3 DEF ServerInv
<1> QED
    BY <1>3, <1>4, <1>5

LEMMA ServerInvNext ==
    ASSUME ServerInv, [Next]_vars
    PROVE  ServerInv'
<1>1. CASE Accept
    BY <1>1, AcceptKeeps
<1>2. CASE Set
    BY <1>2, SetKeeps
<1>3. CASE Command
    BY <1>3, CommandKeeps
<1>4. CASE ReturnToIncluder
    BY <1>4, ReturnKeeps
<1>5. CASE BodyDone
    BY <1>5, BodyDoneKeeps
<1>6. CASE MainFinish
    BY <1>6, MainFinishKeeps
<1>7. CASE NoBody \/ EndRequest \/ UNCHANGED vars
    BY <1>7, OtherSteps
<1> QED
    BY <1>1, <1>2, <1>3, <1>4, <1>5, <1>6, <1>7 DEF Next, Work, Rest

-----------------------------------------------------------------------------
\* The invariant holds in every state.
THEOREM ServerKept == Spec => []ServerInv
<1>1. ServerInv /\ [Next]_vars => ServerInv'
    BY ServerInvNext
<1> QED
    BY ServerInvInit, <1>1, PTL DEF Spec

\* Every variable of the server has a value of its kind, also when an assertion
\* has ended it: the callback points at a driver that is there.
THEOREM ServerTyped == Spec => []TypeOK
<1>1. ServerInv => TypeOK
    BY DEF ServerInv, HostKept, PhaseKept, DriverInv, TypeOK
<1> QED
    BY ServerKept, <1>1, PTL

\* The context of the URL is under those that the statements set and clear and
\* is left alone when the request ends: clear_context_levels() pops what the
\* driver pushed, not what main_cb pushed.
THEOREM RequestContextKept == Spec => []RequestContextStays
<1>1. ServerInv => RequestContextStays
    <2> SUFFICES ASSUME ServerInv, ContextPushed(request), served > 0
                 PROVE  /\ sessions[HostSession] # <<>> /\ sessions[HostSession][1] = request.context
                        /\ phase \in {"replied", "idle"} => sessions[HostSession] = <<request.context>>
        BY DEF RequestContextStays
    <2> DEFINE c == request.context
    <2>1. PICK b \in Seq(Contexts) : b = <<c>> /\ DriverInv(b)
        BY DEF ServerInv, HostKept, HostBase
    <2>2. c \in Contexts
        BY DEF ContextPushed
    <2>3. PICK x \in Seq(Contexts) : sessions[1] = <<c>> \o x /\ Len(x) = Level(1)
        <3>1. Accounted(1, b)
            BY <2>1, Host DEF DriverInv
        <3> QED
            BY <2>1, <3>1 DEF Accounted, Base, HostSession
    <2>4. phase \in {"replied", "idle"} => Level(1) = 0
        BY DEF Level, ServerInv, PhaseKept
    <2> HIDE DEF c
    <2>5. sessions[1] # <<>> /\ sessions[1][1] = c
        BY <2>2, <2>3
    <2>6. Len(x) = 0 => sessions[1] = <<c>>
        <3>1. Len(x) = 0 => x = <<>>
            BY EmptySeq
        <3> QED
            BY <2>2, <2>3, <3>1
    <2> QED
        BY <2>3, <2>4, <2>5, <2>6 DEF HostSession, c
<1> QED
    BY ServerKept, <1>1, PTL

\* The list of errors that the store keeps is empty when a request starts, so
\* that a request has errors before its first statement only if its own context
\* is refused: main_cb clears the store's errors after every reply.
THEOREM ErrorsStayWithTheirRequest == Spec => []ErrorsDoNotLeak
<1>1. ServerInv => ErrorsDoNotLeak
    <2> SUFFICES ASSUME ServerInv, phase = "execute", stack[1].rest = request.body,
                        log = <<>>, stack[1].errors, request.body # <<>>
                 PROVE  ContextRefused(request)
        BY DEF ErrorsDoNotLeak
    <2>1. Underway /\ request \in Requests
        BY DEF ServerInv, PhaseKept
    <2>2. Len(request.body) \in Nat /\ Len(request.body) # 0
        BY <2>1, StatementsType, EmptySeq
    <2>3. CASE Statements(request) = request.body
        BY <2>1, <2>2, <2>3 DEF Underway, Taken
    <2>4. CASE Statements(request) = <<>>
        BY <2>1, <2>2, <2>4 DEF Underway
    <2> QED
        BY <2>3, <2>4 DEF Statements
<1> QED
    BY ServerKept, <1>1, PTL

\* The assertion in callback::finish() fails for no request but those that
\* include a file, whose driver calls finish() too.
THEOREM OnlyIncludesAbort == Spec => []OneReply
<1>1. ServerInv => OneReply
    <2> SUFFICES ASSUME ServerInv, phase = "aborted"
                 PROVE  Includes(request)
        BY DEF OneReply
    <2>1. PICK i \in DOMAIN Statements(request) : Statements(request)[i].op = "include"
        BY DEF ServerInv, PhaseKept, IncludesFile
    <2>2. Statements(request) = request.body
        BY <2>1 DEF Statements
    <2> QED
        BY <2>1, <2>2 DEF Includes
<1> QED
    BY ServerKept, <1>1, PTL

-----------------------------------------------------------------------------
(* The status of the reply. *)

\* The code of the session after the first k statements of the request.
CodeAfter(r, k) ==
    IF Calls(r, k) = {} THEN ContextRefused(r)
    ELSE \E i \in Calls(r, k) : Statements(r)[i].outcome # "done" /\ \A j \in Calls(r, k) : j <= i

\* The errors, the code and the log tell what the first k statements did.
Faithful(r, k) ==
    /\ stack[1].errors <=> ContextRefused(r) \/ \E i \in 1 .. k : Troubled(Statements(r)[i])
    /\ sessionCode <=> CodeAfter(r, k)
    /\ Reached(r, k)

\* The request deserves an OK.
Served(r) ==
    /\ WellFormed(r)
    /\ ~ContextRefused(r)
    /\ \A i \in DOMAIN Statements(r) : ~Troubled(Statements(r)[i])
    /\ ~LastQuiet(r)
    /\ Reached(r, Len(Statements(r)))

HonestInv ==
    \E r \in Requests :
        /\ r = request
        /\ phase = "execute" /\ ~replied /\ Len(stack) = 1 => \E k \in Nat : k = Taken /\ Faithful(r, k)
        /\ phase = "returned" => ((IF replied THEN status ELSE Status) = "ok" <=> Served(r))
        /\ phase = "replied" => (status = "ok" <=> Served(r))

\* One statement more.
LEMMA CallsStep ==
    ASSUME NEW r, NEW k \in Nat
    PROVE  /\ IsFiniteSet(Calls(r, k)) /\ Cardinality(Calls(r, k)) \in Nat
           /\ k + 1 \notin Calls(r, k)
           /\ Calls(r, k + 1) = IF Statements(r)[k + 1].op = "call" THEN Calls(r, k) \cup {k + 1}
                                                                    ELSE Calls(r, k)
<1> DEFINE C == Calls(r, k)
<1>1. C \subseteq 1 .. k
    BY DEF Calls
<1>2. IsFiniteSet(C) /\ Cardinality(C) \in Nat
    <2>1. IsFiniteSet(1 .. k)
        BY FS_Interval
    <2> HIDE DEF C
    <2> QED
        BY <1>1, <2>1, FS_Subset, FS_CardinalityType
<1>3. k + 1 \notin 1 .. k
    OBVIOUS
<1>4. \A i : i \in 1 .. k + 1 <=> i \in 1 .. k \/ i = k + 1
    OBVIOUS
<1>5. Calls(r, k + 1) = IF Statements(r)[k + 1].op = "call" THEN C \cup {k + 1} ELSE C
    <2> HIDE <1>1, <1>2, <1>3
    <2> QED
        BY <1>4 DEF Calls
<1> QED
    BY <1>1, <1>2, <1>3, <1>5

\* The calls up to a call are as many as its place in the log.
LEMMA PlaceInLog ==
    ASSUME NEW r, NEW k \in Nat, NEW i \in Calls(r, k)
    PROVE  Cardinality(Calls(r, i)) \in 1 .. Cardinality(Calls(r, k))
<1>1. i \in 1 .. k /\ i \in Nat /\ i \in 1 .. i /\ 1 .. i \subseteq 1 .. k
    BY DEF Calls
<1>2. Calls(r, i) \subseteq Calls(r, k) /\ i \in Calls(r, i)
    BY <1>1 DEF Calls
<1>3. /\ IsFiniteSet(Calls(r, k)) /\ Cardinality(Calls(r, k)) \in Nat
      /\ IsFiniteSet(Calls(r, i)) /\ Cardinality(Calls(r, i)) \in Nat
    BY <1>1, CallsStep
<1>4. Cardinality(Calls(r, i)) <= Cardinality(Calls(r, k))
    BY <1>2, <1>3, FS_Subset
<1>5. Cardinality(Calls(r, i)) # 0
    BY <1>2, <1>3, FS_EmptySet
<1> QED
    BY <1>3, <1>4, <1>5

\* A call that reaches the store is the next one in the log.
LEMMA ReachedStep ==
    ASSUME NEW r, NEW k \in Nat, Reached(r, k), log \in Seq(Entries),
           \/ Statements(r)[k + 1].op # "call" /\ log' = log
           \/ /\ Statements(r)[k + 1].op = "call"
              /\ Len(log') = Len(log) + 1 /\ log'[Len(log) + 1].statement = Statements(r)[k + 1]
              /\ \A i \in 1 .. Len(log) : log'[i] = log[i]
    PROVE  Reached(r, k + 1)'
<1> DEFINE m == Len(log)
           C == Calls(r, k)
           D == Calls(r, k + 1)
<1>1. /\ m \in Nat /\ m = Cardinality(C)
      /\ \A i \in C : log[Cardinality(Calls(r, i))].statement = Statements(r)[i]
    BY DEF Reached
<1>2. /\ IsFiniteSet(C) /\ k + 1 \notin C
      /\ D = IF Statements(r)[k + 1].op = "call" THEN C \cup {k + 1} ELSE C
    BY CallsStep
<1>3. \A i \in C : Cardinality(Calls(r, i)) \in 1 .. m
    BY <1>1, PlaceInLog
<1> SUFFICES /\ Len(log') = Cardinality(D)
             /\ \A i \in D : log'[Cardinality(Calls(r, i))].statement = Statements(r)[i]
    BY DEF Reached
<1>4. CASE Statements(r)[k + 1].op # "call" /\ log' = log
    <2>1. D = C
        BY <1>2, <1>4
    <2> HIDE DEF C, D
    <2> QED
        BY <1>1, <1>4, <2>1
<1>5. CASE /\ Statements(r)[k + 1].op = "call"
           /\ Len(log') = m + 1 /\ log'[m + 1].statement = Statements(r)[k + 1]
           /\ \A i \in 1 .. m : log'[i] = log[i]
    <2>1. D = C \cup {k + 1}
        BY <1>2, <1>5
    <2>2. Cardinality(D) = m + 1
        <3> HIDE DEF C, D, m
        <3> QED
            BY <1>1, <1>2, <2>1, FS_AddElement
    <2>3. ASSUME NEW i \in D
          PROVE  log'[Cardinality(Calls(r, i))].statement = Statements(r)[i]
        <3>1. CASE i \in C
            <4> HIDE DEF C, D, m
            <4> QED
                BY <1>1, <1>3, <1>5, <3>1
        <3>2. CASE i = k + 1
            <4>1. Cardinality(Calls(r, i)) = m + 1
                BY <2>2, <3>2
            <4> HIDE DEF C, D, m
            <4> QED
                BY <1>5, <3>2, <4>1
        <3> QED
            BY <2>1, <3>1, <3>2
    <2> QED
        BY <1>5, <2>2, <2>3
<1> QED
    BY <1>4, <1>5

\* What the host's driver takes for an error of its own statements is what
\* troubles the request.
LEMMA RefusedIsTroubled ==
    ASSUME ServerInv, SharedErrors, NEW s, s.op # "call"
    PROVE  Refused(stack[1], s) <=> Troubled(s)
BY DEF ServerInv, HostKept, Refused, Troubled

\* At the end of a request the status tells the truth.
LEMMA StatusNow ==
    ASSUME ServerInv, NEW r \in Requests, r = request, NEW k \in Nat, k = Taken, Faithful(r, k),
           phase = "execute", Len(stack) = 1, ~Running
    PROVE  Status = "ok" <=> Served(r)
<1> DEFINE all == Statements(r)
           n == Len(all)
           errors == stack[1].errors
           last(i) == \A j \in Calls(r, n) : j <= i
<1>1. /\ all \in Seq(TaglStatement) /\ n \in Nat /\ DOMAIN all = 1 .. n
      /\ Current = stack[1] /\ stack[1].rest \in Seq(TaglStatement)
    BY Host, StatementsType
<1> DEFINE l == Len(stack[1].rest)
<1>2. k = n - l /\ l \in Nat /\ (l = 0 <=> stack[1].rest = <<>>)
    <2>1. all = Statements(request)
        OBVIOUS
    <2>2. k = n - l
        BY <2>1 DEF Taken
    <2>3. l \in Nat /\ (l = 0 <=> stack[1].rest = <<>>)
        BY <1>1, EmptySeq
    <2> QED
        BY <2>2, <2>3
<1>3. errors \in BOOLEAN /\ stack[1].code = FALSE
    BY Host DEF Drivers, ServerInv, HostKept
<1>4. stack[1].rest = <<>> \/ errors
    BY <1>1, <1>3 DEF Running, HasErrors
<1>5. k <= n /\ (~errors => k = n)
    <2> HIDE DEF n, l, errors
    <2> QED
        BY <1>1, <1>2, <1>4
<1>6. errors <=> ContextRefused(r) \/ \E i \in 1 .. k : Troubled(all[i])
    BY DEF Faithful
<1>7. Status = "ok" <=> ~errors /\ WellFormed(r) /\ ~sessionCode
    BY <1>3 DEF Status, WellFormed, Allowed
<1>8. ~errors => (sessionCode <=> CodeAfter(r, n)) /\ Reached(r, n)
    BY <1>5 DEF Faithful
<1>9. ~errors <=> ~ContextRefused(r) /\ \A i \in 1 .. n : ~Troubled(all[i])
    <2> HIDE DEF n, all, errors
    <2>1. \A i \in 1 .. k : i \in 1 .. n
        BY <1>1, <1>5
    <2> QED
        BY <1>5, <1>6, <2>1
<1>10. LastQuiet(r) <=> \E i \in Calls(r, n) : all[i].outcome = "quiet" /\ last(i)
    BY DEF LastQuiet
<1>11. CodeAfter(r, n) <=> IF Calls(r, n) = {} THEN ContextRefused(r)
                           ELSE \E i \in Calls(r, n) : all[i].outcome # "done" /\ last(i)
    BY DEF CodeAfter
<1>12. ASSUME NEW i \in Calls(r, n), ~Troubled(all[i])
       PROVE  all[i].outcome # "done" <=> all[i].outcome = "quiet"
    <2>1. i \in 1 .. n /\ all[i].op = "call"
        BY DEF Calls
    <2>2. all[i] \in TaglStatement
        BY <1>1, <2>1
    <2>3. all[i].outcome \in {"done", "quiet", "refused", "failed"}
        BY <2>1, <2>2, RequestsAssumption
    <2> QED
        BY <1>12, <2>1, <2>3 DEF Troubled
<1>13. \A i \in Calls(r, n) : i \in 1 .. n
    BY DEF Calls
<1>14. ~errors => (sessionCode <=> LastQuiet(r))
    <2> HIDE DEF all, n, errors, last
    <2> SUFFICES ASSUME ~errors
                 PROVE  CodeAfter(r, n) <=> LastQuiet(r)
        BY <1>8
    <2>1. ~ContextRefused(r) /\ \A i \in 1 .. n : ~Troubled(all[i])
        BY <1>9
    <2>2. \A i \in Calls(r, n) : all[i].outcome # "done" <=> all[i].outcome = "quiet"
        BY <1>12, <1>13, <2>1
    <2> QED
        BY <1>10, <1>11, <2>1, <2>2
<1>15. Served(r) <=> WellFormed(r) /\ ~errors /\ ~LastQuiet(r) /\ Reached(r, n)
    BY <1>1, <1>9 DEF Served
<1> HIDE DEF all, n, errors, last
<1> QED
    BY <1>7, <1>8, <1>14, <1>15

\* What a request deserves does not change once its statements are done.
LEMMA ServedStays ==
    ASSUME NEW r, UNCHANGED <<files, log>>
    PROVE  Served(r)' <=> Served(r)
<1>1. \A s : Troubled(s)' <=> Troubled(s)
    BY DEF Troubled
<1>2. Reached(r, Len(Statements(r)))' <=> Reached(r, Len(Statements(r)))
    BY DEF Reached
<1> QED
    BY <1>1, <1>2 DEF Served

LEMMA HonestInit ==
    ASSUME Init
    PROVE  HonestInv
<1>1. phase = "idle" /\ request \in Requests
    BY ServerInvInit DEF Init, ServerInv, PhaseKept
<1> QED
    BY <1>1 DEF HonestInv

LEMMA HonestAccept ==
    ASSUME ServerInv, Accept
    PROVE  HonestInv'
<1>1. PICK r \in Requests :
          /\ request' = r
          /\ stack' = <<[Driver(Top, Statements(r), HostSession) EXCEPT
                            !.errors = storeErrors \/ ContextRefused(r)]>>
          /\ sessionCode' = ContextRefused(r)
    BY DEF Accept
<1>2. phase' = "execute" /\ log' = <<>> /\ storeErrors = FALSE
    BY DEF Accept, ServerInv, PhaseKept
<1> DEFINE all == Statements(r)
<1>3. all \in Seq(TaglStatement) /\ ContextRefused(r) \in BOOLEAN
    BY StatementsType DEF ContextRefused
<1>4. stack'[1].rest = all /\ stack'[1].errors = ContextRefused(r)
    BY <1>1, <1>2, <1>3 DEF Driver
<1>5. Taken' = 0
    <2>1. (Statements(request))' = all
        BY <1>1 DEF Statements, WellFormed, Allowed
    <2>2. Len(all) \in Nat
        BY <1>3
    <2> HIDE DEF all
    <2> QED
        BY <1>4, <2>1, <2>2 DEF Taken
<1>6. Calls(r, 0) = {}
    BY DEF Calls
<1>7. Reached(r, 0)'
    <2>1. Cardinality(Calls(r, 0)) = 0
        BY <1>6, FS_EmptySet
    <2> QED
        BY <1>2, <1>6, <2>1 DEF Reached
<1>8. Faithful(r, 0)'
    <2>1. ~ (\E i \in 1 .. 0 : Troubled(Statements(r)[i]))'
        OBVIOUS
    <2>2. CodeAfter(r, 0) <=> ContextRefused(r)
        BY <1>6 DEF CodeAfter
    <2> QED
        BY <1>1, <1>4, <1>7, <2>1, <2>2 DEF Faithful, CodeAfter
<1>9. \E k \in Nat : k = Taken' /\ Faithful(r, k)'
    BY <1>5, <1>8
<1> QED
    BY <1>1, <1>2, <1>9 DEF HonestInv

\* A statement of the host's driver leaves the errors, the code and the log as
\* true as they were.
LEMMA FaithfulStep ==
    ASSUME ServerInv, NEW r \in Requests, r = request, NEW k \in Nat, k = Taken, Faithful(r, k),
           phase = "execute", Running, Len(stack) = 1, Len(stack') = 1,
           stack'[1].rest = Tail(stack[1].rest), UNCHANGED <<files, request>>,
           LET s == Head(stack[1].rest)
           IN  /\ stack'[1].errors <=> Troubled(s)
               /\ \/ s.op # "call" /\ UNCHANGED <<log, sessionCode>>
                  \/ /\ s.op = "call" /\ sessionCode' = (s.outcome # "done")
                     /\ Len(log') = Len(log) + 1 /\ log'[Len(log) + 1].statement = s
                     /\ \A i \in 1 .. Len(log) : log'[i] = log[i]
    PROVE  k + 1 = Taken' /\ Faithful(r, k + 1)'
<1> DEFINE all == Statements(r)
           s == all[k + 1]
           C == Calls(r, k)
           D == Calls(r, k + 1)
<1>1. Current = stack[1] /\ log \in Seq(Entries)
    BY Host DEF ServerInv, PhaseKept
<1>2. stack[1].rest # <<>> /\ ~stack[1].errors
    BY <1>1 DEF Running, HasErrors
<1>3. Taken' = Taken + 1 /\ Head(stack[1].rest) = Statements(request)[Taken + 1]
    BY <1>2, HostGoesOn
<1>4. Head(stack[1].rest) = s
    BY <1>3
<1>5. /\ C \subseteq 1 .. k
      /\ D = IF s.op = "call" THEN C \cup {k + 1} ELSE C
    BY CallsStep DEF Calls
<1>6. /\ ~ContextRefused(r) /\ \A i \in 1 .. k : ~Troubled(all[i])
      /\ sessionCode <=> CodeAfter(r, k)
      /\ Reached(r, k)
    BY <1>2 DEF Faithful
<1>7. Reached(r, k + 1)'
    BY <1>1, <1>4, <1>6, ReachedStep
<1>8. \A i : Troubled(all[i])' <=> Troubled(all[i])
    BY DEF Troubled
<1>9. stack'[1].errors <=> ContextRefused(r) \/ \E i \in 1 .. k + 1 : Troubled(all[i])'
    <2>1. stack'[1].errors <=> Troubled(s)
        BY <1>4
    <2>2. \A i : i \in 1 .. k + 1 <=> i \in 1 .. k \/ i = k + 1
        OBVIOUS
    <2> HIDE DEF all
    <2> QED
        BY <1>6, <1>8, <2>1, <2>2
<1>10. sessionCode' <=> CodeAfter(r, k + 1)
    <2>1. CASE s.op # "call" /\ UNCHANGED sessionCode
        <3>1. D = C
            BY <1>5, <2>1
        <3> QED
            BY <1>6, <2>1, <3>1 DEF CodeAfter
    <2>2. CASE s.op = "call" /\ sessionCode' = (s.outcome # "done")
        <3>1. D = C \cup {k + 1} /\ \A j \in D : j \in Nat /\ j <= k + 1
            BY <1>5, <2>2
        <3>2. k + 1 \in D /\ \A i \in D : k + 1 <= i => i = k + 1
            BY <3>1
        <3>3. CodeAfter(r, k + 1) <=> \E i \in D : all[i].outcome # "done" /\ \A j \in D : j <= i
            BY <3>2 DEF CodeAfter
        <3>4. s = all[k + 1]
            OBVIOUS
        <3> HIDE DEF all, s, C, D
        <3> QED
            BY <2>2, <3>1, <3>2, <3>3, <3>4
    <2> QED
        BY <1>4, <2>1, <2>2
<1>11. Faithful(r, k + 1)'
    <2>1. (ContextRefused(r))' = ContextRefused(r) /\ (CodeAfter(r, k + 1))' = CodeAfter(r, k + 1)
        BY DEF ContextRefused, CodeAfter, Calls, Statements, WellFormed, Allowed
    <2> QED
        BY <1>7, <1>9, <1>10, <2>1 DEF Faithful
<1> QED
    BY <1>3, <1>11

LEMMA HonestSet ==
    ASSUME ServerInv, HonestInv, SharedErrors, Set
    PROVE  HonestInv'
<1>1. /\ phase = "execute" /\ phase' = "execute" /\ SetStatement
      /\ UNCHANGED <<request, served, sessionCode, storeErrors, replied, status, log>>
    BY DEF Set, httpVars
<1>2. PICK r \in Requests :
          /\ r = request
          /\ ~replied /\ Len(stack) = 1 => \E k \in Nat : k = Taken /\ Faithful(r, k)
    BY <1>1 DEF HonestInv
<1> SUFFICES ASSUME ~replied', Len(stack') = 1
             PROVE  \E k \in Nat : k = Taken' /\ Faithful(r, k)'
    BY <1>1, <1>2 DEF HonestInv
<1> DEFINE n == Len(stack)
           s == Head(stack[1].rest)
<1>3. PICK b \in Seq(Contexts) : DriverInv(b)
    BY DEF ServerInv, HostKept
<1>4. /\ Running /\ UNCHANGED files /\ Head(Current.rest).op # "call"
      /\ \/ Len(stack') = n /\ Executes(Current, stack'[n])
         \/ Len(stack') = n + 1
    BY <1>1, <1>3, StatementDone
<1>5. n \in Nat \ {0} /\ Current = stack[n]
    BY Host
<1>6. n = 1 /\ Executes(stack[1], stack'[1]) /\ s.op # "call"
    <2>1. n = 1
        <3> HIDE DEF n
        <3> QED
            BY <1>4, <1>5
    <2>2. Len(stack') # n + 1
        <3> HIDE DEF n
        <3> QED
            BY <2>1
    <2> QED
        BY <1>4, <1>5, <2>1, <2>2
<1>7. PICK k \in Nat : k = Taken /\ Faithful(r, k)
    BY <1>1, <1>2, <1>6
<1>8. stack'[1].rest = Tail(stack[1].rest) /\ (stack'[1].errors <=> Troubled(s))
    <2>1. stack[1].session # NoSession
        BY DEF ServerInv, HostKept, HostSession, NoSession
    <2>2. Refused(stack[1], s) <=> Troubled(s)
        BY <1>6, RefusedIsTroubled
    <2> QED
        BY <1>6, <2>1, <2>2 DEF Executes
<1>9. k + 1 = Taken' /\ Faithful(r, k + 1)'
    BY <1>1, <1>2, <1>4, <1>6, <1>7, <1>8, FaithfulStep
<1> QED
    BY <1>9

LEMMA HonestCommand ==
    ASSUME ServerInv, HonestInv, Command
    PROVE  HonestInv'
<1>1. /\ phase = "execute" /\ phase' = "execute" /\ Running
      /\ UNCHANGED <<files, request, served, storeErrors, replied, status>>
    BY DEF Command
<1>2. PICK r \in Requests :
          /\ r = request
          /\ ~replied /\ Len(stack) = 1 => \E k \in Nat : k = Taken /\ Faithful(r, k)
    BY <1>1 DEF HonestInv
<1> SUFFICES ASSUME ~replied', Len(stack') = 1
             PROVE  \E k \in Nat : k = Taken' /\ Faithful(r, k)'
    BY <1>1, <1>2 DEF HonestInv
<1> DEFINE s == Head(stack[1].rest)
<1>3. /\ Len(stack') = Len(stack)
      /\ \A i \in 1 .. Len(stack) :
             stack'[i].rest = IF i = Len(stack) THEN Tail(stack[i].rest) ELSE stack[i].rest
      /\ stack'[1].errors = (stack[1].errors \/ Head(Current.rest).outcome \in {"refused", "failed"})
      /\ Head(Current.rest).op = "call"
      /\ Len(log') = Len(log) + 1 /\ log'[Len(log) + 1].statement = Head(Current.rest)
      /\ \A i \in 1 .. Len(log) : log'[i] = log[i]
      /\ sessionCode' = (Head(Current.rest).outcome # "done")
    BY CommandSteps
<1>4. Len(stack) = 1 /\ Current = stack[1]
    BY <1>3, Host
<1>5. PICK k \in Nat : k = Taken /\ Faithful(r, k)
    BY <1>1, <1>2, <1>4
<1>6. stack[1].errors = FALSE
    BY <1>1, <1>4, Host DEF Running, HasErrors, Drivers
<1>7. stack'[1].rest = Tail(stack[1].rest) /\ (stack'[1].errors <=> Troubled(s)) /\ s.op = "call"
    <2>1. stack'[1].rest = Tail(stack[1].rest)
        BY <1>3, <1>4
    <2>2. s.op = "call" /\ stack'[1].errors = (FALSE \/ s.outcome \in {"refused", "failed"})
        BY <1>3, <1>4, <1>6
    <2>3. Troubled(s) <=> s.outcome \in {"refused", "failed"}
        BY <2>2 DEF Troubled
    <2> QED
        BY <2>1, <2>2, <2>3
<1>8. sessionCode' = (s.outcome # "done") /\ log'[Len(log) + 1].statement = s
    BY <1>3, <1>4
<1>9. k + 1 = Taken' /\ Faithful(r, k + 1)'
    BY <1>1, <1>2, <1>3, <1>4, <1>5, <1>7, <1>8, FaithfulStep
<1> QED
    BY <1>9

\* The end of an included file has sent the reply.
LEMMA HonestReturn ==
    ASSUME ServerInv, HonestInv, ReturnToIncluder
    PROVE  HonestInv'
<1>1. phase' \in {"execute", "aborted"} /\ replied' = TRUE /\ request' = request
    BY DEF ReturnToIncluder, CallbackFinish
<1>2. request \in Requests
    BY DEF HonestInv
<1> QED
    BY <1>1, <1>2 DEF HonestInv

\* The end of the statements, with the reply or without it.
LEMMA HonestEnd ==
    ASSUME ServerInv, HonestInv, BodyDone \/ NoBody
    PROVE  HonestInv'
<1>1. /\ phase = "execute" /\ Len(stack) = 1 /\ ~Running
      /\ UNCHANGED <<files, request, sessionCode, log>>
    BY DEF BodyDone, NoBody, ClearContexts, CallbackFinish, driverVars, httpVars
<1>2. PICK r \in Requests :
          /\ r = request
          /\ ~replied => \E k \in Nat : k = Taken /\ Faithful(r, k)
    BY <1>1 DEF HonestInv
<1>3. ~replied => (Status = "ok" <=> Served(r))
    BY <1>1, <1>2, StatusNow
<1>4. Served(r)' <=> Served(r)
    BY <1>1, ServedStays
<1>5. CASE BodyDone
    <2>1. phase' = (IF replied THEN "aborted" ELSE "returned") /\ replied' = TRUE
          /\ status' = (IF replied THEN status ELSE Status)
        BY <1>5 DEF BodyDone, CallbackFinish
    <2>2. phase' = "returned" => (status' = "ok" <=> Served(r)')
        BY <1>3, <1>4, <2>1
    <2>3. phase' # "execute" /\ phase' # "replied"
        BY <2>1
    <2> QED
        BY <1>1, <1>2, <2>1, <2>2, <2>3 DEF HonestInv
<1>6. CASE NoBody
    <2>1. phase' = "returned" /\ ~HasBody(request) /\ UNCHANGED <<stack, replied, status>>
        BY <1>6 DEF NoBody, driverVars, httpVars
    <2>2. ~replied
        <3>1. ~IncludesFile(request)
            BY <1>2, <2>1, WrittenAssumption DEF IncludesFile
        <3> QED
            BY <1>1, <3>1 DEF ServerInv, PhaseKept
    <2>3. Status' = Status
        BY <1>1, <2>1 DEF Status, WellFormed, Allowed
    <2> QED
        BY <1>1, <1>2, <1>3, <1>4, <2>1, <2>2, <2>3 DEF HonestInv
<1> QED
    BY <1>5, <1>6

LEMMA HonestMainFinish ==
    ASSUME ServerInv, HonestInv, MainFinish
    PROVE  HonestInv'
<1>1. /\ phase = "returned" /\ phase' = "replied" /\ UNCHANGED <<files, request, log>>
      /\ status' = IF replied THEN status ELSE Status
    BY DEF MainFinish, ClearContexts, CallbackFinish, httpVars
<1>2. PICK r \in Requests : r = request /\ ((IF replied THEN status ELSE Status) = "ok" <=> Served(r))
    BY <1>1 DEF HonestInv
<1>3. Served(r)' <=> Served(r)
    BY <1>1, ServedStays
<1> QED
    BY <1>1, <1>2, <1>3 DEF HonestInv

LEMMA HonestStill ==
    ASSUME ServerInv, HonestInv, UNCHANGED vars
    PROVE  HonestInv'
<1>1. UNCHANGED <<files, stack, request, phase, sessionCode, replied, status, log>>
    BY DEF vars, driverVars, httpVars
<1>2. PICK r \in Requests :
        /\ r = request
        /\ phase = "execute" /\ ~replied /\ Len(stack) = 1 => \E k \in Nat : k = Taken /\ Faithful(r, k)
        /\ phase = "returned" => ((IF replied THEN status ELSE Status) = "ok" <=> Served(r))
        /\ phase = "replied" => (status = "ok" <=> Served(r))
    BY DEF HonestInv
<1>3. Served(r)' <=> Served(r)
    BY <1>1, ServedStays
<1>4. Status' = Status /\ Taken' = Taken
    BY <1>1 DEF Status, Taken, Statements, WellFormed, Allowed
<1>5. ASSUME NEW k \in Nat, Faithful(r, k)
      PROVE  Faithful(r, k)'
    <2>1. \A s : Troubled(s)' <=> Troubled(s)
        BY <1>1 DEF Troubled
    <2>2. Reached(r, k)' <=> Reached(r, k)
        BY <1>1 DEF Reached
    <2>3. (CodeAfter(r, k))' = CodeAfter(r, k) /\ (ContextRefused(r))' = ContextRefused(r)
        BY DEF ContextRefused, CodeAfter, Calls, Statements, WellFormed, Allowed
    <2> QED
        BY <1>1, <1>5, <2>1, <2>2, <2>3 DEF Faithful
<1> QED
    BY <1>1, <1>2, <1>3, <1>4, <1>5 DEF HonestInv

LEMMA HonestNext ==
    ASSUME ServerInv, HonestInv, SharedErrors, [Next]_vars
    PROVE  HonestInv'
<1>1. CASE Accept
    BY <1>1, HonestAccept
<1>2. CASE Set
    BY <1>2, HonestSet
<1>3. CASE Command
    BY <1>3, HonestCommand
<1>4. CASE ReturnToIncluder
    BY <1>4, HonestReturn
<1>5. CASE BodyDone \/ NoBody
    BY <1>5, HonestEnd
<1>6. CASE MainFinish
    BY <1>6, HonestMainFinish
<1>7. CASE EndRequest
    BY <1>7 DEF EndRequest, HonestInv
<1>8. CASE UNCHANGED vars
    BY <1>8, HonestStill
<1> QED
    BY <1>1, <1>2, <1>3, <1>4, <1>5, <1>6, <1>7, <1>8 DEF Next, Work, Rest

\* A client that reads OK knows that its request was well formed, that its
\* context was known and that each of its statements reached the store in order
\* and was done; and a client of such a request reads OK.  The driver and the
\* session of a transaction share their errors, as share_errors() makes them.
THEOREM StatusStaysHonest ==
    ASSUME SharedErrors
    PROVE  Spec => []StatusHonest
<1>1. Init => HonestInv
    BY HonestInit
<1>2. ServerInv /\ HonestInv /\ [Next]_vars => HonestInv'
    BY HonestNext
<1>3. HonestInv => StatusHonest
    BY DEF HonestInv, StatusHonest, Served
<1> QED
    BY ServerKept, <1>1, <1>2, <1>3, PTL DEF Spec

=============================================================================
