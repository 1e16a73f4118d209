------------------------------ MODULE Scripts ------------------------------
(***************************************************************************)
(* What a script of lines and loads means, defined over its text, without  *)
(* a stack, sessions or a callback.  A driver is what it has set and       *)
(* whether it has errors; an outcome is a driver with the statements that  *)
(* have been done; a file is a driver that starts from nothing.            *)
(***************************************************************************)
EXTENDS Tagsh

Fresh == [contexts |-> <<>>, session |-> FALSE, flag |-> FALSE, errors |-> FALSE, code |-> FALSE]

Nothing == [driver |-> Fresh, done |-> <<>>]

\* The driver d of the file path (Top for none) after a statement that includes
\* no file which is there.
Executed(path, d, s) ==
    [contexts |-> IF s.op = "context" THEN Pushed(s.ids) ELSE d.contexts,
     session |-> d.session \/ (s.op = "context" /\ s.ids # <<>>),
     flag |-> IF s.op = "flag" THEN s.on ELSE d.flag,
     errors |-> s.op = "bad" \/ (s.op = "include" /\ path = Top),
     code |-> s.op = "call" /\ (s.outcome = "failed" \/ (s.outcome = "refused" /\ d.session))]

\* The outcome m, and then all that a file n does: its errors are left.
Joined(m, n) ==
    [driver |-> [m.driver EXCEPT !.errors = @ \/ n.driver.errors], done |-> m.done \o n.done]

\* The outcome m and the statement s; included is what the files mean that it
\* can include.
Stepped(path, m, s, included) ==
    IF HasErrors(m.driver) THEN m
    ELSE IF s.op = "include" /\ s.path \in DOMAIN included THEN Joined(m, included[s.path])
    ELSE [driver |-> Executed(path, m.driver, s),
          done |-> IF s.op # "call" THEN m.done
                   ELSE Append(m.done, [statement |-> s, contexts |-> m.driver.contexts, flag |-> m.driver.flag])]

\* The outcome m and a text.
Meaning(path, m, text, included) ==
    LET after[n \in 0 .. Len(text)] == IF n = 0 THEN m ELSE Stepped(path, after[n - 1], text[n], included)
    IN  after[Len(text)]

\* What the files mean, for each number of drivers that there is room for.
Included(texts) ==
    LET means[room \in 0 .. MaxDepth] ==
          [p \in DOMAIN texts |-> IF room = 0 THEN Nothing ELSE Meaning(p, Nothing, texts[p], means[room - 1])]
    IN  means

\* The shell begins without the code of the line before, and ends without errors.
LineBegun(m) == [driver |-> [m.driver EXCEPT !.code = FALSE], done |-> m.done]
LineEnded(m) == [driver |-> [m.driver EXCEPT !.errors = FALSE, !.code = FALSE], done |-> m.done]

\* The shell m after a command.
Obeyed(texts, m, c) ==
    IF c.op = "line"
    THEN LineEnded(Meaning(Top, LineBegun(m), c.statements, Included(texts)[MaxDepth - 1]))
    ELSE Joined(m, Included(texts)[MaxDepth - 1][c.path])

\* The shell before its first command has a session.
Begun == [driver |-> [Fresh EXCEPT !.session = TRUE], done |-> <<>>]

\* The shell after a script.
Script(texts, cs) ==
    LET after[n \in 0 .. Len(cs)] ==
          IF n = 0 THEN Begun ELSE Obeyed(texts, after[n - 1], cs[n])
    IN  after[Len(cs)]

\* The shell does what its script says: the statements reach the store in the
\* order of the text, an included file in place of its name, each with the
\* contexts and the flags that its own file has set before it, whatever the
\* files around it set; and a file goes no further than its first error.
DoesTheScript == phase = "idle" => log = Script(files, commands).done

=============================================================================
