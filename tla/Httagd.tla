------------------------------- MODULE Httagd -------------------------------
(***************************************************************************)
(* The HTTP server: one request at a time is turned into TAGL statements,  *)
(* which its driver executes; the callback calls the store for them and    *)
(* sends the reply when the driver has finished.  The transaction, its     *)
(* driver, its session and the store, which outlives it, have one list of  *)
(* errors: here the errors of the first driver.                            *)
(***************************************************************************)
EXTENDS Driver

CONSTANTS
    Requests,       \* [method, path, context, body]: what clients may ask for
    NoContext,      \* the request names no context
    MaxRequests     \* bound: requests in the life of the server

ASSUME RequestsAssumption ==
    /\ Requests # {} /\ \A r \in Requests : r.body \in Seq(TaglStatement)
    /\ NoContext \notin Contexts
    /\ MaxRequests \in Nat
    /\ \A s \in TaglStatement : s.op = "call" => s.outcome \in {"done", "quiet", "refused", "failed"}

VARIABLES
    phase,          \* where main_cb is
    request,        \* the request that is being answered
    served,         \* how many requests have been accepted
    sessionCode,    \* the code of the session is an error
    storeErrors,    \* the store's list has errors between two requests
    replied,        \* res._reply_sent
    status,         \* the status of the reply
    log             \* the statements of the request that reached the store

httpVars == <<request, served, sessionCode, storeErrors, replied, status, log>>
vars == <<driverVars, phase, httpVars>>

Init ==
    /\ files \in Contents
    /\ stack = <<Driver(Top, <<>>, HostSession)>>
    /\ sessions = [s \in 1 .. MaxDepth |-> <<>>]
    /\ callback = 1
    /\ phase = "idle"
    /\ request = CHOOSE r \in Requests : TRUE
    /\ served = 0
    /\ sessionCode = FALSE
    /\ storeErrors = FALSE
    /\ replied = FALSE
    /\ status = "none"
    /\ log = <<>>

\* execute(): what the request gives the driver to do.  A PUT without the id of
\* a tag, and a method that is not supported, are errors of the transaction.
Allowed(r) == r.method # "OTHER"
WellFormed(r) == Allowed(r) /\ (r.method = "PUT" => r.path)
Statements(r) == IF WellFormed(r) THEN r.body ELSE <<>>

\* session::push_context() of the context in the query of the URL.
ContextPushed(r) == r.context \in Contexts
ContextRefused(r) == r.context \notin Contexts \cup {NoContext}

\* main_cb(): the objects of the request share their errors, those the store
\* still has are among them.
Accept ==
    /\ phase = "idle" /\ served < MaxRequests
    /\ \E r \in Requests :
        /\ request' = r
        /\ stack' = <<[Driver(Top, Statements(r), HostSession) EXCEPT
                          !.errors = storeErrors \/ ContextRefused(r)]>>
        /\ sessions' = [sessions EXCEPT ![HostSession] = IF ContextPushed(r) THEN <<r.context>> ELSE <<>>]
        /\ sessionCode' = ContextRefused(r)
    /\ callback' = 1
    /\ served' = served + 1
    /\ replied' = FALSE
    /\ status' = "none"
    /\ log' = <<>>
    /\ phase' = "execute"
    /\ UNCHANGED <<files, storeErrors>>

\* A statement of the driver.
Set == phase = "execute" /\ SetStatement /\ UNCHANGED <<phase, httpVars>>

\* Mutant: the session and the store keep their errors to themselves.
Shared_Not(d, outcome) == d

\* What the store reports, to the session or to itself, the driver has, too; the
\* code of a query that finds nothing comes without an error.
Shared(d, outcome) == [d EXCEPT !.errors = @ \/ outcome \in {"refused", "failed"}]

\* default_cmd_get() and the other callbacks: they use the session of the
\* transaction and the flags of the driver that the callback points at.
Command ==
    /\ phase = "execute"
    /\ Running
    /\ Head(Current.rest).op = "call"
    /\ LET s == Head(Current.rest)
           stepped == [stack EXCEPT ![Len(stack)].rest = Tail(@)]
       IN  /\ log' = Append(log, [statement |-> s, contexts |-> sessions[stack[1].session],
                                  flag |-> stack[callback].flag])
           /\ sessionCode' = (s.outcome # "done")
           /\ stack' = [stepped EXCEPT ![1] = Shared(@, s.outcome)]
    /\ UNCHANGED <<files, sessions, callback, phase, request, served, storeErrors, replied, status>>

-----------------------------------------------------------------------------
\* send_reply(): the code set before, or the most severe of the errors and of
\* the session's code.
Status ==
    IF ~Allowed(request) THEN "not allowed"
    ELSE IF stack[1].errors \/ ~WellFormed(request) \/ sessionCode THEN "error" ELSE "ok"

\* callback::finish(): the reply, or an assertion that fails.
CallbackFinish(next) ==
    /\ phase' = IF replied THEN "aborted" ELSE next
    /\ replied' = TRUE
    /\ status' = IF replied THEN status ELSE Status
    /\ UNCHANGED <<request, served, sessionCode, storeErrors, log>>

\* The end of an included file: its driver calls finish(), too.
ReturnToIncluder == phase = "execute" /\ Return /\ CallbackFinish("execute")

HasBody(r) == r.method \in {"PUT", "POST", "DELETE"} /\ WellFormed(r)

\* Where there is no body the server writes the statement itself: a get or a query.
ASSUME WrittenAssumption ==
    \A r \in Requests : ~HasBody(r) => \A i \in DOMAIN Statements(r) : Statements(r)[i].op # "include"

ClearContexts ==
    /\ sessions' = [sessions EXCEPT ![HostSession] = ClearContextLevels(@, stack[1].level)]
    /\ stack' = [stack EXCEPT ![1].level = 0]
    /\ UNCHANGED <<files, callback>>

\* driver::execute(evbuffer): the end of a body.
BodyDone ==
    /\ phase = "execute" /\ Len(stack) = 1 /\ ~Running
    /\ HasBody(request)
    /\ ClearContexts
    /\ CallbackFinish("returned")

\* A request without a body comes back to main_cb without a reply.
NoBody ==
    /\ phase = "execute" /\ Len(stack) = 1 /\ ~Running
    /\ ~HasBody(request)
    /\ phase' = "returned"
    /\ UNCHANGED <<driverVars, httpVars>>

\* Mutant: main_cb finishes without a look at the reply.
MainFinish_Always ==
    /\ phase = "returned"
    /\ ClearContexts
    /\ CallbackFinish("replied")

\* Mutant: main_cb takes it for granted that there is a reply.
MainFinish_Never ==
    /\ phase = "returned"
    /\ ClearContexts
    /\ phase' = "replied"
    /\ UNCHANGED httpVars

\* main_cb: finish() where there is no reply yet.
MainFinish ==
    /\ phase = "returned"
    /\ ClearContexts
    /\ IF replied THEN phase' = "replied" /\ UNCHANGED httpVars ELSE CallbackFinish("replied")

\* Mutant: the errors of the request stay in the list of the store.
Cleared_Not == stack[1].errors

\* tdb->clear_errors(), where there are any.
Cleared == FALSE

\* The end of main_cb.
EndRequest ==
    /\ phase = "replied"
    /\ phase' = "idle"
    /\ storeErrors' = Cleared
    /\ UNCHANGED <<driverVars, request, served, sessionCode, replied, status, log>>

\* Nobody asks any more, or the assertion has ended the process.
Rest == (phase = "aborted" \/ (phase = "idle" /\ served = MaxRequests)) /\ UNCHANGED vars

Work == Set \/ Command \/ ReturnToIncluder \/ BodyDone \/ NoBody \/ MainFinish \/ EndRequest

Next == Accept \/ Work \/ Rest

\* The event loop is one thread: a callback that has begun is run to its end.
Spec == Init /\ [][Next]_vars /\ WF_vars(Work)

-----------------------------------------------------------------------------
\* Every variable has a value of its kind.
TypeOK ==
    /\ DriverTypeOK
    /\ phase \in {"idle", "execute", "returned", "replied", "aborted"}
    /\ served \in 0 .. MaxRequests
    /\ status \in {"none", "ok", "error", "not allowed"}

\* What is wrong with a statement.
Troubled(s) ==
    \/ s.op = "bad"
    \/ s.op = "call" /\ s.outcome \in {"refused", "failed"}
    \/ s.op = "include" /\ s.path \notin DOMAIN files
    \/ s.op = "context" /\ Pushed(s.ids) # s.ids

\* The calls among the first k statements.
Calls(r, k) == {i \in 1 .. k : Statements(r)[i].op = "call"}

\* The last call, whose code the session has at the end, is a query that finds nothing.
LastQuiet(r) ==
    LET calls == Calls(r, Len(Statements(r)))
    IN  \E i \in calls : Statements(r)[i].outcome = "quiet" /\ \A j \in calls : j <= i

\* What has reached the store is the calls among the first k statements, in order.
Reached(r, k) ==
    /\ Len(log) = Cardinality(Calls(r, k))
    /\ \A i \in Calls(r, k) : log[Cardinality(Calls(r, i))].statement = Statements(r)[i]

\* A reply with status OK means that the request was well formed, its context
\* was known and every one of its statements was done; every other request is
\* answered with an error.
StatusHonest ==
    phase = "replied" =>
        (status = "ok" <=>
            /\ WellFormed(request)
            /\ ~ContextRefused(request)
            /\ \A i \in DOMAIN Statements(request) : ~Troubled(Statements(request)[i])
            /\ ~LastQuiet(request)
            /\ Reached(request, Len(Statements(request))))

\* A request starts without the errors of the requests before it, although the
\* store and its list of errors live on: it is executed whatever they did.
ErrorsDoNotLeak ==
    phase = "execute" /\ stack[1].rest = request.body /\ log = <<>> /\ stack[1].errors =>
        ContextRefused(request) \/ request.body = <<>>

\* The context that the request names stays under all those that its statements
\* set and clear, and is the only one left when they are done.
RequestContextStays ==
    ContextPushed(request) /\ served > 0 =>
        /\ sessions[HostSession] # <<>> /\ sessions[HostSession][1] = request.context
        /\ phase \in {"replied", "idle"} => sessions[HostSession] = <<request.context>>

\* callback::finish() "should only be called once": no request runs into its assertion.
NeverAborts == phase # "aborted"

\* Only a request that includes a file runs into the assertion.
Includes(r) == \E i \in DOMAIN r.body : r.body[i].op = "include"
OneReply == phase = "aborted" => Includes(request)

\* Every request that has been accepted gets a reply.
EveryRequestAnswered == phase = "execute" ~> replied

=============================================================================
