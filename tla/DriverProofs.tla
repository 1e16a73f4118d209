---------------------------- MODULE DriverProofs ----------------------------
(***************************************************************************)
(* What the steps of TAGL drivers preserve, for stacks of every height,    *)
(* every set of files and every text: each driver has a session of its own *)
(* or none, and takes from a session only what it has put there.  The      *)
(* shell and the HTTP server rest on these lemmas.                         *)
(***************************************************************************)
EXTENDS Driver, SequenceTheorems, FiniteSetTheorems, WellFoundedInduction, TLAPS

\* What is on a session before its driver pushes anything: the host may have
\* put contexts on its own.
Base(s, base) == IF s = HostSession THEN base ELSE <<>>

\* How many contexts the driver of a session has pushed.
Level(s) == IF s \in 1 .. Len(stack) THEN stack[s].level ELSE 0

\* A driver has the session of its place in the stack, or none and no contexts.
OwnSessions ==
    \A i \in 1 .. Len(stack) :
        /\ stack[i].session \in {NoSession, i}
        /\ stack[i].session = NoSession => stack[i].level = 0

\* What a driver counts is on top of what its session had before.
Accounted(s, base) ==
    \E x \in Seq(Contexts) : sessions[s] = Base(s, base) \o x /\ Len(x) = Level(s)

DriverInv(base) ==
    /\ DriverTypeOK
    /\ callback = Len(stack)
    /\ OwnSessions
    /\ \A s \in 1 .. MaxDepth : Accounted(s, base)

-----------------------------------------------------------------------------
(* Contexts. *)

\* A set of numbers has a least one.
LEMMA LeastIndex ==
    ASSUME NEW T \in SUBSET Nat, T # {}
    PROVE  \E n \in T : \A m \in T : n <= m
<1> DEFINE Less == {ss \in Nat \X Nat : ss[1] < ss[2]}
<1>1. IsWellFoundedOn(Less, Nat)
    BY ONLY NatLessThanWellFounded DEF OpToRel
<1>2. PICK n \in T : \A m \in T : ~ (<<m, n>> \in Less)
    <2> HIDE DEF Less
    <2> QED
        BY <1>1, WFMin
<1>3. ASSUME NEW m \in T, m < n
      PROVE  FALSE
    <2>1. <<m, n>>[1] < <<m, n>>[2] /\ m \in Nat /\ n \in Nat
        BY <1>3
    <2>2. <<m, n>> \in Less
        BY <2>1
    <2> QED
        BY <1>2, <2>2
<1> QED
    BY <1>2, <1>3

\* The k-th of the numbers in a set: the one that k - 1 others precede.
LEMMA KthNumber ==
    ASSUME NEW m \in Nat, NEW taken \in SUBSET (1 .. m), NEW k \in 1 .. Cardinality(taken)
    PROVE  /\ IsFiniteSet(taken) /\ Cardinality(taken) \in Nat
           /\ \E i \in taken : Cardinality({j \in taken : j < i}) = k - 1
<1> DEFINE Before(i) == {j \in taken : j < i}
           T == {i \in 1 .. m + 1 : Cardinality(Before(i)) >= k}
<1>1. IsFiniteSet(taken) /\ Cardinality(taken) \in Nat
    <2>1. IsFiniteSet(1 .. m)
        BY FS_Interval
    <2> QED
        BY <2>1, FS_Subset, FS_CardinalityType
<1>2. \A i \in Nat : IsFiniteSet(Before(i)) /\ Cardinality(Before(i)) \in Nat
    <2> SUFFICES ASSUME NEW i \in Nat
                 PROVE  IsFiniteSet(Before(i)) /\ Cardinality(Before(i)) \in Nat
        OBVIOUS
    <2>1. Before(i) \subseteq taken
        OBVIOUS
    <2> HIDE DEF Before
    <2> QED
        BY <1>1, <2>1, FS_Subset, FS_CardinalityType
<1>3. PICK i \in T : \A l \in T : i <= l
    <2>1. Before(m + 1) = taken
        <3>1. \A j \in taken : j \in Nat /\ j < m + 1
            OBVIOUS
        <3> QED
            BY <3>1
    <2>2. m + 1 \in T /\ T \in SUBSET Nat
        BY <1>1, <2>1
    <2> HIDE DEF T
    <2> QED
        BY <2>2, LeastIndex
<1>4. i # 1
    <2>1. Before(1) = {}
        <3>1. \A j \in taken : j \in Nat /\ ~ (j < 1)
            OBVIOUS
        <3> QED
            BY <3>1
    <2>2. Cardinality(Before(1)) = 0
        BY <2>1, FS_EmptySet
    <2> QED
        BY <1>1, <2>2
<1> DEFINE h == i - 1
<1>5. h \in Nat /\ h \in 1 .. m /\ h \notin T /\ i = h + 1 /\ k \in Nat /\ i \in Nat
    BY <1>1, <1>3, <1>4
<1>6. Cardinality(Before(h)) < k /\ Cardinality(Before(i)) >= k
    BY <1>2, <1>5
<1>7. Before(i) = IF h \in taken THEN Before(h) \cup {h} ELSE Before(h)
    <2>1. \A j \in taken : j < i <=> j < h \/ j = h
        <3> HIDE DEF h
        <3> QED
            BY <1>5
    <2> HIDE DEF h
    <2> QED
        BY <2>1
<1>8. h \notin Before(h)
    <2> HIDE DEF h
    <2> QED
        BY <1>5
<1> HIDE DEF Before, T, h
<1>9. h \in taken /\ Cardinality(Before(i)) = Cardinality(Before(h)) + 1
    BY <1>2, <1>5, <1>6, <1>7, <1>8, FS_AddElement
<1>10. Cardinality(Before(h)) = k - 1
    BY <1>2, <1>5, <1>6, <1>9
<1> QED
    BY <1>1, <1>9, <1>10 DEF Before

\* A session takes contexts only.
LEMMA PushedType ==
    ASSUME NEW ids \in Seq(Contexts \cup {Entity})
    PROVE  Pushed(ids) \in Seq(Contexts) /\ Len(Pushed(ids)) = Counted(ids) /\ Counted(ids) \in Nat
<1> DEFINE taken == {i \in DOMAIN ids : ids[i] # Entity}
           n == Cardinality(taken)
           Nth(k) == CHOOSE i \in taken : Cardinality({j \in taken : j < i}) = k - 1
<1>1. Len(ids) \in Nat /\ taken \in SUBSET (1 .. Len(ids))
    OBVIOUS
<1>2. Pushed(ids) = [k \in 1 .. n |-> ids[Nth(k)]]
    BY DEF Pushed
<1>3. n \in Nat
    <2>1. IsFiniteSet(1 .. Len(ids))
        BY <1>1, FS_Interval
    <2> HIDE DEF taken
    <2> QED
        BY <1>1, <2>1, FS_Subset, FS_CardinalityType
<1>4. ASSUME NEW k \in 1 .. n
      PROVE  ids[Nth(k)] \in Contexts
    <2>1. \E i \in taken : Cardinality({j \in taken : j < i}) = k - 1
        <3> HIDE DEF taken
        <3> QED
            BY <1>1, KthNumber
    <2>2. Nth(k) \in taken
        BY <2>1
    <2> HIDE DEF Nth
    <2> QED
        BY <2>2
<1>5. Pushed(ids) \in Seq(Contexts) /\ Len(Pushed(ids)) = n
    <2> DEFINE e(k) == ids[Nth(k)]
               p == [k \in 1 .. n |-> e(k)]
    <2>1. \A k \in 1 .. n : e(k) \in Contexts
        BY <1>4
    <2>2. Pushed(ids) = p
        BY <1>2
    <2> HIDE DEF e, n
    <2>3. p \in [1 .. n -> Contexts] /\ DOMAIN p = 1 .. n
        BY <2>1
    <2> HIDE DEF p
    <2>4. p \in Seq(Contexts) /\ Len(p) = n
        BY <1>3, <2>3
    <2> QED
        BY <2>2, <2>4
<1> QED
    BY <1>3, <1>5 DEF Counted

\* What is read of a sequence is a sequence.
LEMMA ReadType ==
    ASSUME NEW ids \in Seq(Contexts \cup {Entity})
    PROVE  Read(ids) \in Seq(Contexts \cup {Entity})
<1> DEFINE S == {i \in DOMAIN ids : \A j \in 1 .. i - 1 : ids[j] # Entity}
           k == Cardinality(S)
<1>1. Len(ids) \in Nat /\ S \in SUBSET (1 .. Len(ids))
    OBVIOUS
<1>2. k \in Nat /\ k <= Len(ids)
    <2> DEFINE l == Len(ids)
    <2>1. l \in Nat /\ S \in SUBSET (1 .. l)
        BY <1>1
    <2> HIDE DEF l, S
    <2>2. IsFiniteSet(1 .. l) /\ Cardinality(1 .. l) = l
        BY <2>1, FS_Interval
    <2>3. k \in Nat /\ k <= l
        BY <2>1, <2>2, FS_Subset, FS_CardinalityType
    <2> QED
        BY <2>3 DEF l
<1>3. Read(ids) = SubSeq(ids, 1, k)
    BY DEF Read
<1> HIDE DEF k
<1>4. \A i \in 1 .. k : ids[i] \in Contexts \cup {Entity}
    BY <1>2
<1>5. SubSeq(ids, 1, k) \in Seq(Contexts \cup {Entity})
    BY <1>2, <1>4, SubSeqProperties
<1> QED
    BY <1>3, <1>5

\* A driver that clears its contexts leaves what was there before.
LEMMA LevelsCleared ==
    ASSUME NEW b \in Seq(Contexts), NEW x \in Seq(Contexts)
    PROVE  ClearContextLevels(b \o x, Len(x)) = b
<1> DEFINE n == Len(b)
           m == Len(x)
           a == b \o x
           c == SubSeq(a, 1, n)
<1>1. n \in Nat /\ m \in Nat /\ a \in Seq(Contexts)
    OBVIOUS
<1>2. Len(a) = n + m /\ \A i \in 1 .. n + m : a[i] = IF i <= n THEN b[i] ELSE x[i - n]
    BY ConcatProperties
<1>3. c = ClearContextLevels(b \o x, Len(x))
    <2>1. Len(a) - m = n
        <3> HIDE DEF a, n, m
        <3> QED
            BY <1>1, <1>2
    <2> QED
        BY <2>1 DEF ClearContextLevels
<1>4. n \in 0 .. Len(a) /\ \A i \in 1 .. n : a[i] \in Contexts /\ a[i] = b[i]
    BY <1>1, <1>2
<1> HIDE DEF a, n
<1>5. /\ c \in Seq(Contexts)
      /\ Len(c) = IF 1 <= n THEN n - 1 + 1 ELSE 0
      /\ \A i \in 1 .. n - 1 + 1 : c[i] = a[1 + i - 1]
    BY <1>1, <1>4, SubSeqProperties
<1> HIDE DEF c
<1>6. Len(c) = n /\ \A i \in 1 .. n : c[i] = b[i]
    BY <1>1, <1>4, <1>5
<1>7. c = b
    BY <1>5, <1>6, SeqEqual DEF n
<1> QED
    BY <1>3, <1>7

-----------------------------------------------------------------------------
(* The drivers at work. *)

\* What the driver at work does to those that wait for it, and to their contexts.
OthersWait ==
    \A i \in 1 .. Len(stack) - 1 : stack'[i] = stack[i] /\ sessions'[i] = sessions[i]

\* What makes an error of a statement that a driver with a session executes itself.
Refused(d, s) ==
    \/ s.op = "bad"
    \/ s.op = "include" /\ s.path \notin DOMAIN files /\ d.path = Top
    \/ s.op = "context" /\ SharedErrors /\ d.session = HostSession /\ Pushed(s.ids) # s.ids

\* The driver d becomes e with its first statement.
Executes(d, e) ==
    /\ e.rest = Tail(d.rest) /\ e.path = d.path /\ e.code = d.code
    /\ d.session # NoSession => e.session = d.session /\ (e.errors <=> Refused(d, Head(d.rest)))

\* The driver at work is the last one.
LEMMA AtWork ==
    ASSUME NEW base, DriverInv(base)
    PROVE  /\ Len(stack) \in Nat \ {0} /\ Len(stack) \in 1 .. MaxDepth /\ MaxDepth \in Nat
           /\ stack \in Seq(Drivers) /\ Current = stack[Len(stack)] /\ Current \in Drivers
           /\ Current.session \in {NoSession, Len(stack)}
           /\ Current.session = NoSession => Current.level = 0
           /\ Running => Head(Current.rest) \in TaglStatement /\ Tail(Current.rest) \in Seq(TaglStatement)
<1> DEFINE n == Len(stack)
<1>1. stack \in Seq(Drivers) /\ n \in 1 .. MaxDepth /\ MaxDepth \in Nat
    BY DepthAssumption DEF DriverInv, DriverTypeOK
<1>2. n \in Nat \ {0} /\ n \in 1 .. n
    <2> HIDE DEF n
    <2> QED
        BY <1>1
<1>3. Current = stack[n] /\ Current \in Drivers
    BY <1>1, <1>2 DEF Current, Last
<1>4. Current.session \in {NoSession, n} /\ (Current.session = NoSession => Current.level = 0)
    <2> HIDE DEF n
    <2> QED
        BY <1>2, <1>3 DEF DriverInv, OwnSessions, n
<1>5. ASSUME Running
      PROVE  Head(Current.rest) \in TaglStatement /\ Tail(Current.rest) \in Seq(TaglStatement)
    <2> DEFINE rest == Current.rest
    <2>1. rest \in Seq(TaglStatement) /\ rest # <<>>
        BY <1>3, <1>5 DEF Drivers, Running
    <2> HIDE DEF rest
    <2>2. Head(rest) \in TaglStatement /\ Tail(rest) \in Seq(TaglStatement)
        BY <2>1, HeadTailProperties
    <2> QED
        BY <2>2 DEF rest
<1> QED
    BY <1>1, <1>2, <1>3, <1>4, <1>5

\* A step of the driver at work, which leaves x on top of its session.
LEMMA TopChanges ==
    ASSUME NEW base \in Seq(Contexts), DriverInv(base),
           NEW d \in Drivers, d.session \in {NoSession, Len(stack)}, d.session = NoSession => d.level = 0,
           NEW x \in Seq(Contexts), Len(x) = d.level,
           stack' = [stack EXCEPT ![Len(stack)] = d],
           sessions' = [sessions EXCEPT ![Len(stack)] = Base(Len(stack), base) \o x],
           UNCHANGED <<files, callback>>
    PROVE  /\ DriverInv(base)' /\ OthersWait
           /\ Len(stack') = Len(stack) /\ stack'[Len(stack)] = d
<1> DEFINE n == Len(stack)
           y == Base(n, base) \o x
<1>1. n \in Nat \ {0} /\ n \in 1 .. MaxDepth /\ MaxDepth \in Nat /\ stack \in Seq(Drivers)
    BY AtWork
<1>2. stack' \in Seq(Drivers) /\ Len(stack') = n /\ \A i \in 1 .. n : stack'[i] = IF i = n THEN d ELSE stack[i]
    BY <1>1
<1>3. Base(n, base) \in Seq(Contexts)
    BY DEF Base
<1>4. y \in Seq(Contexts)
    BY <1>3
<1>5. sessions \in [1 .. MaxDepth -> Seq(Contexts)] /\ files \in Contents /\ callback = n
    BY DEF DriverInv, DriverTypeOK
<1>6. OwnSessions /\ \A s \in 1 .. MaxDepth : Accounted(s, base)
    BY DEF DriverInv
<1>7. sessions' = [sessions EXCEPT ![n] = y]
    OBVIOUS
<1> HIDE DEF n, y
<1>8. sessions' \in [1 .. MaxDepth -> Seq(Contexts)]
    BY <1>4, <1>5, <1>7
<1>9. DriverTypeOK'
    BY <1>1, <1>2, <1>5, <1>8 DEF DriverTypeOK, n
<1>10. OwnSessions'
    <2> SUFFICES ASSUME NEW i \in 1 .. Len(stack')
                 PROVE  /\ stack'[i].session \in {NoSession, i}
                        /\ stack'[i].session = NoSession => stack'[i].level = 0
        BY DEF OwnSessions
    <2> QED
        BY <1>2, <1>6 DEF OwnSessions, n
<1>11. ASSUME NEW s \in 1 .. MaxDepth
       PROVE  Accounted(s, base)'
    <2> SUFFICES \E z \in Seq(Contexts) : sessions'[s] = Base(s, base) \o z /\ Len(z) = Level(s)'
        BY DEF Accounted, Base
    <2>1. CASE s = n
        <3>1. sessions'[s] = Base(s, base) \o x
            BY <1>1, <1>5, <1>7, <2>1 DEF y
        <3>2. s \in 1 .. Len(stack') /\ stack'[s] = d
            BY <1>1, <1>2, <2>1
        <3>3. Level(s)' = d.level
            BY <3>2 DEF Level
        <3> QED
            BY <3>1, <3>3
    <2>2. CASE s # n
        <3>1. sessions'[s] = sessions[s]
            BY <1>5, <1>7, <2>2
        <3>2. Level(s)' = Level(s)
            <4>1. s \in 1 .. n => stack'[s] = stack[s]
                BY <1>2, <2>2
            <4>2. Len(stack') = Len(stack) /\ (s \in 1 .. Len(stack) => stack'[s] = stack[s])
                BY <1>2, <4>1 DEF n
            <4> QED
                BY ONLY <4>2 DEF Level
        <3> QED
            BY <1>6, <3>1, <3>2 DEF Accounted
    <2> QED
        BY <2>1, <2>2
<1>12. DriverInv(base)'
    <2>1. callback' = Len(stack')
        BY <1>2, <1>5
    <2> QED
        BY <1>9, <1>10, <1>11, <2>1 DEF DriverInv
<1>13. ASSUME NEW i \in 1 .. n - 1
       PROVE  stack'[i] = stack[i] /\ sessions'[i] = sessions[i]
    <2>1. i \in 1 .. n /\ i # n /\ i \in 1 .. MaxDepth
        BY <1>1
    <2> QED
        BY <1>2, <1>5, <1>7, <2>1
<1>14. OthersWait
    BY <1>13 DEF n, OthersWait
<1>15. Len(stack') = n /\ stack'[n] = d
    BY <1>1, <1>2
<1> QED
    BY <1>12, <1>14, <1>15 DEF n

\* A statement that leaves the sessions as they are.
LEMMA TopGoesOn ==
    ASSUME NEW base \in Seq(Contexts), DriverInv(base),
           NEW d \in Drivers, d.session = Current.session, d.level = Current.level,
           stack' = [stack EXCEPT ![Len(stack)] = d],
           UNCHANGED <<files, sessions, callback>>
    PROVE  /\ DriverInv(base)' /\ OthersWait
           /\ Len(stack') = Len(stack) /\ stack'[Len(stack)] = d
<1> DEFINE n == Len(stack)
<1>1. n \in Nat \ {0} /\ n \in 1 .. MaxDepth /\ Current = stack[n] /\ Level(n) = Current.level
    <2>1. n \in Nat \ {0} /\ n \in 1 .. MaxDepth /\ Current = stack[n]
        BY AtWork
    <2>2. n \in 1 .. n
        <3> HIDE DEF n
        <3> QED
            BY <2>1
    <2> QED
        BY <2>1, <2>2 DEF Level
<1>2. PICK x \in Seq(Contexts) : sessions[n] = Base(n, base) \o x /\ Len(x) = d.level
    BY <1>1 DEF DriverInv, Accounted
<1>3. sessions' = [sessions EXCEPT ![n] = Base(n, base) \o x]
    BY <1>1, <1>2 DEF DriverInv, DriverTypeOK
<1>4. d.session \in {NoSession, n} /\ (d.session = NoSession => d.level = 0)
    BY AtWork
<1> QED
    BY <1>2, <1>3, <1>4, TopChanges

\* The contexts of the driver at work are ids, on what its session had before.
Replaced(ids, base) ==
    LET d == stack'[Len(stack)] IN
    /\ d.session \in {NoSession, Len(stack)} /\ d.flag = Current.flag
    /\ d.session # NoSession <=> Current.session # NoSession \/ ids # <<>>
    /\ ~SharedErrors =>
          /\ d.errors = Current.errors
          /\ d.session = NoSession => Pushed(ids) = <<>>
          /\ sessions'[Len(stack)] = Base(Len(stack), base) \o Pushed(ids)

\* What SetContext does to the driver and its session.
LEMMA ContextSet ==
    ASSUME NEW base \in Seq(Contexts), DriverInv(base), SetContext
    PROVE  /\ DriverInv(base)' /\ OthersWait
           /\ Running /\ Len(stack') = Len(stack)
           /\ Executes(Current, stack'[Len(stack)])
           /\ Replaced(Head(Current.rest).ids, base)
<1> DEFINE n == Len(stack)
           ids == Head(Current.rest).ids
           own == Current.session = NoSession /\ ids # <<>>
           s == IF own THEN n ELSE Current.session
           shared == SharedErrors /\ s = HostSession
           taken == IF shared THEN Read(ids) ELSE ids
           e == [Current EXCEPT !.session = s, !.level = Counted(taken),
                                !.errors = @ \/ (shared /\ Pushed(ids) # ids)]
           d == [e EXCEPT !.rest = Tail(@)]
           x == Pushed(taken)
<1>1. /\ Running /\ stack' = [stack EXCEPT ![n] = d] /\ UNCHANGED <<files, callback>>
      /\ sessions' = IF s = NoSession THEN sessions
                     ELSE [sessions EXCEPT ![s] = ClearContextLevels(@, Current.level) \o x]
      /\ Head(Current.rest).op = "context"
    BY DEF SetContext, Proceed
<1>2. /\ n \in Nat \ {0} /\ n \in 1 .. MaxDepth /\ MaxDepth \in Nat /\ Current = stack[n]
      /\ Current \in Drivers /\ Current.session \in {NoSession, n}
      /\ Current.session = NoSession => Current.level = 0
      /\ Head(Current.rest) \in TaglStatement /\ Tail(Current.rest) \in Seq(TaglStatement)
    BY <1>1, AtWork
<1>3. ids \in Seq(Contexts \cup {Entity})
    BY <1>1, <1>2, TextsAssumption
<1>4. taken \in Seq(Contexts \cup {Entity})
    BY <1>3, ReadType
<1>5. x \in Seq(Contexts) /\ Len(x) = Counted(taken) /\ Counted(taken) \in Nat
    <2> HIDE DEF taken
    <2> QED
        BY <1>4, PushedType
<1>6. s \in {NoSession, n} /\ (s = NoSession => Current.session = NoSession /\ ids = <<>>)
    BY <1>2 DEF NoSession
\* A driver that pushes nothing keeps its level.
<1>7. s = NoSession => x = <<>> /\ Counted(taken) = 0
    <2> SUFFICES ASSUME s = NoSession
                 PROVE  x = <<>> /\ Counted(taken) = 0
        OBVIOUS
    <2>1. ids = <<>> /\ taken = ids
        BY <1>6 DEF NoSession, HostSession
    <2>2. {i \in DOMAIN ids : ids[i] # Entity} = {}
        BY <2>1
    <2>3. Cardinality({i \in DOMAIN ids : ids[i] # Entity}) = 0
        BY <2>2, FS_EmptySet
    <2>4. DOMAIN Pushed(ids) = 1 .. 0
        BY <2>3 DEF Pushed
    <2>5. Len(x) = 0
        BY <1>5, <2>1, <2>4
    <2> HIDE DEF x, taken
    <2> QED
        BY <1>5, <2>5, EmptySeq
<1>8. d \in Drivers /\ d.session = s /\ d.level = Counted(taken) /\ d.rest = Tail(Current.rest)
    <2>1. s \in 0 .. MaxDepth
        BY <1>2, <1>6 DEF NoSession
    <2> HIDE DEF s, taken, shared, ids
    <2> QED
        BY <1>2, <1>5, <2>1 DEF Drivers
<1>9. sessions' = [sessions EXCEPT ![n] = Base(n, base) \o x]
    <2>1. PICK y \in Seq(Contexts) : sessions[n] = Base(n, base) \o y /\ Len(y) = Current.level
        <3>1. n \in 1 .. n
            <4> HIDE DEF n
            <4> QED
                BY <1>2
        <3>2. Level(n) = Current.level
            BY <1>2, <3>1 DEF Level
        <3> QED
            BY <1>2, <3>2 DEF DriverInv, Accounted
    <2>2. Base(n, base) \in Seq(Contexts)
        BY DEF Base
    <2>3. sessions \in [1 .. MaxDepth -> Seq(Contexts)]
        BY DEF DriverInv, DriverTypeOK
    <2>4. CASE s = NoSession
        <3>1. Current.level = 0 /\ y = <<>>
            <4>1. Len(y) = 0
                BY <1>2, <1>6, <2>1, <2>4
            <4> QED
                BY <1>2, <1>6, <2>4, <4>1, EmptySeq
        <3> HIDE DEF x, n, s
        <3> QED
            BY <1>1, <1>2, <1>7, <2>1, <2>3, <2>4, <3>1
    <2>5. CASE s = n
        <3>1. ClearContextLevels(sessions[n], Current.level) = Base(n, base)
            BY <2>1, <2>2, LevelsCleared
        <3> HIDE DEF x, n, s
        <3> QED
            BY <1>1, <1>2, <2>3, <2>5, <3>1 DEF NoSession
    <2> QED
        BY <1>6, <2>4, <2>5
<1>10. d.session \in {NoSession, n} /\ (d.session = NoSession => d.level = 0) /\ Len(x) = d.level
    BY <1>5, <1>6, <1>7, <1>8
<1>11. Executes(Current, d)
    <2>1. d.path = Current.path /\ d.code = Current.code
        BY <1>2 DEF Drivers
    <2>2. Current.errors = FALSE /\ d.errors = (Current.errors \/ (shared /\ Pushed(ids) # ids))
        <3> HIDE DEF s, taken, shared, ids
        <3> QED
            BY <1>1, <1>2 DEF Drivers, Running, HasErrors
    <2>3. Current.session # NoSession =>
              s = Current.session /\ (d.errors <=> Refused(Current, Head(Current.rest)))
        BY <1>1, <2>2 DEF Refused
    <2> HIDE DEF d, s, shared, taken, ids
    <2> QED
        BY <1>8, <2>1, <2>3 DEF Executes
<1>13. /\ d.session \in {NoSession, n} /\ d.flag = Current.flag
       /\ d.session # NoSession <=> Current.session # NoSession \/ ids # <<>>
       /\ ~SharedErrors => d.errors = Current.errors /\ x = Pushed(ids)
    <2>1. d.flag = Current.flag /\ d.errors = (Current.errors \/ (shared /\ Pushed(ids) # ids))
        <3> HIDE DEF s, taken, shared, ids
        <3> QED
            BY <1>2 DEF Drivers
    <2>2. ~SharedErrors => ~shared /\ taken = ids
        OBVIOUS
    <2>3. d.errors \in BOOLEAN /\ Current.errors \in BOOLEAN
        BY <1>2, <1>8 DEF Drivers
    <2>4. n # NoSession
        BY <1>2 DEF NoSession
    <2>5. d.session = s /\ s \in {NoSession, n} /\ (s # NoSession <=> Current.session # NoSession \/ ids # <<>>)
        BY <1>6, <1>8, <2>4
    <2> HIDE DEF d, s, shared, taken, ids
    <2> QED
        BY <2>1, <2>2, <2>3, <2>5
<1>14. sessions'[n] = Base(n, base) \o x
    BY <1>2, <1>9 DEF DriverInv, DriverTypeOK
<1> HIDE DEF d, x
<1>12. DriverInv(base)' /\ OthersWait /\ Len(stack') = Len(stack) /\ stack'[n] = d
    BY <1>1, <1>5, <1>8, <1>9, <1>10, TopChanges
<1>15. Replaced(ids, base)
    <2>1. d.session = NoSession => x = <<>>
        BY <1>7, <1>8
    <2> HIDE DEF ids
    <2> QED
        BY <1>12, <1>13, <1>14, <2>1 DEF Replaced
<1> QED
    BY <1>1, <1>11, <1>12, <1>15

\* An included file begins: its driver has no session and no contexts.
LEMMA FileEntered ==
    ASSUME NEW base \in Seq(Contexts), DriverInv(base), NEW path, Enter(path)
    PROVE  /\ DriverInv(base)' /\ OthersWait
           /\ Len(stack') = Len(stack) + 1 /\ stack'[Len(stack)] = stack[Len(stack)]
<1> DEFINE n == Len(stack)
           d == NewDriver(path)
<1>1. /\ n \in Nat \ {0} /\ n \in 1 .. MaxDepth /\ MaxDepth \in Nat /\ stack \in Seq(Drivers)
      /\ files \in Contents /\ sessions \in [1 .. MaxDepth -> Seq(Contexts)]
    BY AtWork DEF DriverInv, DriverTypeOK
<1>2. /\ path \in DOMAIN files /\ n < MaxDepth /\ stack' = Append(stack, d)
      /\ callback' = n + 1 /\ UNCHANGED <<files, sessions>>
    BY DEF Enter
<1>3. d \in Drivers /\ d.session = NoSession /\ d.level = 0
    <2>1. path \in Paths
        BY <1>1, <1>2 DEF Paths
    <2>2. files[path] \in Seq(TaglStatement)
        BY <1>1, <1>2, TextsAssumption
    <2>3. 0 \in 0 .. MaxDepth /\ 0 \in Nat
        BY <1>1
    <2>4. d = [path |-> path, rest |-> files[path], session |-> 0, level |-> 0,
               flag |-> FALSE, errors |-> FALSE, code |-> FALSE]
        BY DEF NewDriver, Driver, NoSession
    <2> HIDE DEF d
    <2> QED
        BY <2>1, <2>2, <2>3, <2>4 DEF Drivers, NoSession
<1> HIDE DEF d
<1>4. stack' \in Seq(Drivers) /\ Len(stack') = n + 1
      /\ \A i \in 1 .. n + 1 : stack'[i] = IF i = n + 1 THEN d ELSE stack[i]
    BY <1>1, <1>2, <1>3, AppendProperties
<1>5. OwnSessions /\ \A s \in 1 .. MaxDepth : Accounted(s, base)
    BY DEF DriverInv
<1> HIDE DEF n
<1>6. DriverTypeOK'
    <2>1. n + 1 \in 1 .. MaxDepth
        BY <1>1, <1>2
    <2> QED
        BY <1>1, <1>2, <1>4, <2>1 DEF DriverTypeOK
<1>7. OwnSessions'
    <2> SUFFICES ASSUME NEW i \in 1 .. Len(stack')
                 PROVE  /\ stack'[i].session \in {NoSession, i}
                        /\ stack'[i].session = NoSession => stack'[i].level = 0
        BY DEF OwnSessions
    <2>1. i \in 1 .. n + 1 /\ (i = n + 1 \/ i \in 1 .. n)
        BY <1>1, <1>4
    <2> QED
        BY <1>3, <1>4, <1>5, <2>1 DEF OwnSessions, n
<1>8. ASSUME NEW s \in 1 .. MaxDepth
      PROVE  Accounted(s, base)'
    <2>1. Level(s)' = Level(s)
        <3>1. /\ s \in 1 .. n => s \in 1 .. n + 1 /\ stack'[s] = stack[s]
              /\ s \in 1 .. n + 1 => s = n + 1 \/ s \in 1 .. n
              /\ s = n + 1 => s \notin 1 .. n /\ s \in 1 .. n + 1 /\ stack'[s] = d
            BY <1>1, <1>4
        <3>2. Level(s)' = IF s \in 1 .. n + 1 THEN stack'[s].level ELSE 0
            BY <1>4 DEF Level
        <3>3. Level(s) = IF s \in 1 .. n THEN stack[s].level ELSE 0
            BY DEF Level, n
        <3> QED
            BY <1>3, <3>1, <3>2, <3>3
    <2> SUFFICES \E z \in Seq(Contexts) : sessions'[s] = Base(s, base) \o z /\ Len(z) = Level(s)'
        BY DEF Accounted, Base
    <2> QED
        BY <1>2, <1>5, <2>1 DEF Accounted
<1>9. DriverInv(base)'
    <2>1. callback' = Len(stack')
        BY <1>2, <1>4
    <2> QED
        BY <1>6, <1>7, <1>8, <2>1 DEF DriverInv
<1>10. \A i \in 1 .. n : i \in 1 .. n + 1 /\ i # n + 1 /\ stack'[i] = stack[i]
    BY <1>1, <1>4
<1>11. OthersWait /\ stack'[n] = stack[n]
    <2>1. \A i \in 1 .. n - 1 : i \in 1 .. n
        BY <1>1
    <2>2. n \in 1 .. n
        BY <1>1
    <2> QED
        BY <1>2, <1>10, <2>1, <2>2 DEF OthersWait, n
<1> QED
    BY <1>4, <1>9, <1>11 DEF n

\* A statement of the driver leaves the drivers that wait, and their contexts,
\* as they are; an INCLUDE leaves its own driver as it is, too.
LEMMA StatementDone ==
    ASSUME NEW base \in Seq(Contexts), DriverInv(base), SetStatement
    PROVE  /\ DriverInv(base)' /\ OthersWait /\ Running /\ UNCHANGED files
           /\ Head(Current.rest).op # "call"
           /\ \/ Len(stack') = Len(stack) /\ Executes(Current, stack'[Len(stack)])
              \/ /\ Len(stack') = Len(stack) + 1 /\ stack'[Len(stack)] = stack[Len(stack)]
                 /\ Head(Current.rest).op = "include"
<1> DEFINE n == Len(stack)
           rest == Tail(Current.rest)
           Done == /\ DriverInv(base)' /\ OthersWait /\ Running /\ UNCHANGED files
                   /\ Head(Current.rest).op # "call"
                   /\ Len(stack') = n /\ Executes(Current, stack'[n])
           Updates(d) == /\ d.session = Current.session /\ d.level = Current.level
                         /\ d.rest = Current.rest /\ d.path = Current.path /\ d.code = Current.code
<1>1. Current \in Drivers /\ (Running => rest \in Seq(TaglStatement))
    BY AtWork
\* Statements that change the flag or the errors.
<1>2. ASSUME NEW d \in Drivers, d.session = Current.session, d.level = Current.level, Proceed(d),
             Running, UNCHANGED <<files, sessions, callback>>, Head(Current.rest).op # "call",
             d.rest = Current.rest, d.path = Current.path, d.code = Current.code,
             d.errors <=> Refused(Current, Head(Current.rest))
      PROVE  Done
    <2> DEFINE e == [d EXCEPT !.rest = Tail(@)]
    <2>1. /\ e \in Drivers /\ e.session = Current.session /\ e.level = Current.level /\ e.rest = rest
          /\ e.path = Current.path /\ e.code = Current.code /\ e.errors = d.errors
        BY <1>1, <1>2 DEF Drivers
    <2>2. stack' = [stack EXCEPT ![Len(stack)] = e]
        BY <1>2 DEF Proceed
    <2> HIDE DEF e
    <2>3. DriverInv(base)' /\ OthersWait /\ Len(stack') = n /\ stack'[n] = e
        BY <1>2, <2>1, <2>2, TopGoesOn
    <2> QED
        BY <1>2, <2>1, <2>3 DEF Executes
<1>3. CASE SetContext
    BY <1>3, ContextSet DEF SetContext
<1>4. CASE SetFlag
    <2> DEFINE d == [Current EXCEPT !.flag = Head(Current.rest).on]
    <2>1. Running /\ Head(Current.rest).op = "flag" /\ Proceed(d) /\ UNCHANGED <<files, sessions, callback>>
        BY <1>4 DEF SetFlag
    <2>0. Head(Current.rest).on \in BOOLEAN
        BY <1>1, <2>1, TextsAssumption DEF Drivers, Running
    <2>2. d \in Drivers /\ Updates(d) /\ d.errors = Current.errors
        BY <1>1, <2>0 DEF Drivers
    <2>3. d.errors <=> Refused(Current, Head(Current.rest))
        BY <2>1, <2>2, <1>1 DEF Refused, Running, HasErrors, Drivers
    <2> HIDE DEF d
    <2>4. Done
        BY <1>2, <2>1, <2>2, <2>3
    <2> QED
        BY <2>4
<1>5. CASE SyntaxError
    <2> DEFINE d == [Current EXCEPT !.errors = TRUE]
    <2>1. Running /\ Head(Current.rest).op = "bad" /\ Proceed(d) /\ UNCHANGED <<files, sessions, callback>>
        BY <1>5 DEF SyntaxError
    <2>2. d \in Drivers /\ Updates(d) /\ d.errors = TRUE
        BY <1>1 DEF Drivers
    <2>3. d.errors <=> Refused(Current, Head(Current.rest))
        BY <2>1, <2>2 DEF Refused
    <2> HIDE DEF d
    <2>4. Done
        BY <1>2, <2>1, <2>2, <2>3
    <2> QED
        BY <2>4
<1>6. CASE Include
    BY <1>6, FileEntered DEF Include, Enter
<1>7. CASE IncludeMissing
    <2> DEFINE d == [Current EXCEPT !.errors = Current.path = Top]
    <2>1. /\ Running /\ Head(Current.rest).op = "include" /\ Head(Current.rest).path \notin DOMAIN files
          /\ Proceed(d) /\ UNCHANGED <<files, sessions, callback>>
        BY <1>7 DEF IncludeMissing
    <2>2. d \in Drivers /\ Updates(d) /\ d.errors = (Current.path = Top)
        BY <1>1 DEF Drivers
    <2>3. d.errors <=> Refused(Current, Head(Current.rest))
        BY <2>1, <2>2 DEF Refused
    <2> HIDE DEF d
    <2>4. Done
        BY <1>2, <2>1, <2>2, <2>3
    <2> QED
        BY <2>4
<1>8. CASE IncludeEmpty
    <2>1. /\ Running /\ Head(Current.rest).op = "include" /\ Head(Current.rest).path \in DOMAIN files
          /\ Proceed(Current) /\ UNCHANGED <<files, sessions, callback>>
        BY <1>8 DEF IncludeEmpty
    <2>2. Current.errors <=> Refused(Current, Head(Current.rest))
        BY <2>1, <1>1 DEF Refused, Running, HasErrors, Drivers
    <2>3. Done
        BY <1>1, <1>2, <2>1, <2>2
    <2> QED
        BY <2>3
<1> QED
    BY <1>3, <1>4, <1>5, <1>6, <1>7, <1>8 DEF SetStatement

\* The end of an included file: its contexts are popped, the includer is at work
\* again, and the drivers below it never noticed.
LEMMA FileLeft ==
    ASSUME NEW base \in Seq(Contexts), DriverInv(base), Return
    PROVE  /\ DriverInv(base)' /\ Len(stack) > 1 /\ Len(stack') = Len(stack) - 1
           /\ \A i \in 1 .. Len(stack) - 2 : stack'[i] = stack[i]
           /\ stack'[Len(stack) - 1].rest =
                  IF stack[Len(stack) - 1].rest = <<>> THEN <<>> ELSE Tail(stack[Len(stack) - 1].rest)
           /\ stack'[Len(stack) - 1].flag = stack[Len(stack) - 1].flag
           /\ stack'[Len(stack) - 1].errors = (stack[Len(stack) - 1].errors \/ Current.errors)
           /\ \A i \in 1 .. Len(stack) - 1 :
                  /\ stack'[i].level = stack[i].level /\ sessions'[i] = sessions[i]
                  /\ stack'[i].path = stack[i].path /\ stack'[i].session = stack[i].session
                  /\ stack'[i].code = stack[i].code
           /\ UNCHANGED files
<1> DEFINE n == Len(stack)
           m == n - 1
           old == stack[m]
           includer == CopyErrors(stack[m], Current)
           d == [includer EXCEPT !.rest = IF @ = <<>> THEN @ ELSE Tail(@)]
           lower == SubSeq(stack, 1, n - 2)
<1>1. /\ n \in Nat \ {0} /\ n \in 1 .. MaxDepth /\ MaxDepth \in Nat /\ stack \in Seq(Drivers)
      /\ files \in Contents /\ sessions \in [1 .. MaxDepth -> Seq(Contexts)]
      /\ Current = stack[n] /\ Current \in Drivers /\ Current.session \in {NoSession, n}
      /\ Current.session = NoSession => Current.level = 0
    BY AtWork DEF DriverInv, DriverTypeOK
<1>2. /\ n > 1 /\ stack' = Append(lower, d) /\ callback' = m /\ UNCHANGED files
      /\ sessions' = IF Current.session = NoSession THEN sessions
                     ELSE [sessions EXCEPT ![Current.session] = ClearContextLevels(@, Current.level)]
    BY DEF Return, Restored
<1>3. OwnSessions /\ \A s \in 1 .. MaxDepth : Accounted(s, base)
    BY DEF DriverInv
<1>4. \A i \in 1 .. n : stack[i] \in Drivers
    BY <1>1
<1> HIDE DEF n
<1>5. m \in 1 .. n /\ m \in Nat /\ n = m + 1 /\ n - 2 = m - 1 /\ m # 0
    BY <1>1, <1>2
<1>6. /\ d \in Drivers /\ d.session = old.session /\ d.level = old.level
      /\ d.path = old.path /\ d.code = old.code
      /\ d.flag = old.flag /\ d.errors = (old.errors \/ Current.errors)
      /\ d.rest = IF old.rest = <<>> THEN <<>> ELSE Tail(old.rest)
    <2>1. old \in Drivers
        BY <1>4, <1>5
    <2>2. old.rest # <<>> => Tail(old.rest) \in Seq(TaglStatement)
        <3> DEFINE rest == old.rest
        <3>1. rest \in Seq(TaglStatement)
            BY <2>1 DEF Drivers
        <3> HIDE DEF rest
        <3>2. rest # <<>> => Tail(rest) \in Seq(TaglStatement)
            BY <3>1, HeadTailProperties
        <3> QED
            BY <3>2 DEF rest
    <2> HIDE DEF old
    <2> QED
        BY <1>1, <2>1, <2>2 DEF Drivers, CopyErrors, old
<1> HIDE DEF d, m
<1>7. lower \in Seq(Drivers) /\ Len(lower) = m - 1 /\ \A i \in 1 .. m - 1 : lower[i] = stack[i]
    <2>1. lower = SubSeq(stack, 1, m - 1) /\ m - 1 \in 0 .. Len(stack)
        BY <1>1, <1>5 DEF n
    <2> DEFINE k == m - 1
               c == SubSeq(stack, 1, k)
    <2>2. k \in Nat /\ k \in 0 .. Len(stack) /\ \A i \in 1 .. k : stack[i] \in Drivers
        BY <1>4, <1>5, <2>1 DEF n
    <2> HIDE DEF k
    <2>3. /\ c \in Seq(Drivers)
          /\ Len(c) = IF 1 <= k THEN k - 1 + 1 ELSE 0
          /\ \A i \in 1 .. k - 1 + 1 : c[i] = stack[1 + i - 1]
        <3>1. k \in Int /\ 1 \in Int /\ \A i \in 1 .. k : stack[i] \in Drivers
            BY <2>2
        <3> QED
            BY ONLY <3>1, SubSeqProperties
    <2> HIDE DEF c
    <2>4. Len(c) = k /\ \A i \in 1 .. k : c[i] = stack[i]
        <3>1. \A i \in 1 .. k : i \in 1 .. k - 1 + 1 /\ 1 + i - 1 = i
            BY <2>2
        <3> QED
            BY ONLY <2>2, <2>3, <3>1
    <2> QED
        BY <2>1, <2>3, <2>4 DEF c, k
<1> HIDE DEF lower
<1>8. stack' \in Seq(Drivers) /\ Len(stack') = m
      /\ \A i \in 1 .. m : stack'[i] = IF i = m THEN d ELSE stack[i]
    <2>1. stack' \in Seq(Drivers) /\ Len(stack') = Len(lower) + 1
          /\ \A i \in 1 .. Len(lower) + 1 : stack'[i] = IF i = Len(lower) + 1 THEN d ELSE lower[i]
        BY <1>2, <1>6, <1>7, AppendProperties
    <2> QED
        BY <1>5, <1>7, <2>1
<1>9. PICK y \in Seq(Contexts) : sessions[n] = Base(n, base) \o y /\ Len(y) = Current.level
    <2>1. n \in 1 .. Len(stack) /\ Level(n) = Current.level
        BY <1>1 DEF Level, n
    <2> QED
        BY <1>1, <1>3, <2>1 DEF Accounted
<1>10. Base(n, base) = <<>> /\ <<>> \in Seq(Contexts)
    BY <1>2, <1>1 DEF Base, HostSession
<1>11. sessions' = [sessions EXCEPT ![n] = <<>>]
    <2>1. <<>> \o y = y
        BY <1>9
    <2>2. CASE Current.session = NoSession
        <3>1. Len(y) = 0
            BY <1>1, <1>9, <2>2
        <3>2. y = <<>>
            BY <3>1, <1>9, EmptySeq
        <3> QED
            BY <1>1, <1>2, <1>9, <1>10, <2>1, <2>2, <3>2
    <2>3. CASE Current.session = n
        <3>1. n # NoSession
            BY <1>1 DEF NoSession
        <3>2. ClearContextLevels(sessions[n], Current.level) = <<>>
            BY <1>9, <1>10, LevelsCleared
        <3> QED
            BY <1>1, <1>2, <2>3, <3>1, <3>2
    <2> QED
        BY <1>1, <2>2, <2>3
<1>12. DriverTypeOK'
    <2>1. m \in 1 .. MaxDepth
        BY <1>1, <1>5
    <2> QED
        BY <1>1, <1>2, <1>8, <1>10, <1>11, <2>1 DEF DriverTypeOK
<1>13. OwnSessions'
    <2> SUFFICES ASSUME NEW i \in 1 .. Len(stack')
                 PROVE  /\ stack'[i].session \in {NoSession, i}
                        /\ stack'[i].session = NoSession => stack'[i].level = 0
        BY DEF OwnSessions
    <2>1. i \in 1 .. m /\ i \in 1 .. n
        BY <1>5, <1>8
    <2>2. stack'[i].session = stack[i].session /\ stack'[i].level = stack[i].level
        BY <1>6, <1>8, <2>1
    <2> QED
        BY <1>3, <2>1, <2>2 DEF OwnSessions, n
<1>14. ASSUME NEW s \in 1 .. MaxDepth
       PROVE  Accounted(s, base)'
    <2> SUFFICES \E z \in Seq(Contexts) : sessions'[s] = Base(s, base) \o z /\ Len(z) = Level(s)'
        BY DEF Accounted, Base
    <2>1. Level(s)' = IF s \in 1 .. m THEN stack'[s].level ELSE 0
        BY <1>8 DEF Level
    <2>2. CASE s = n
        <3>1. Level(s)' = 0 /\ sessions'[s] = <<>> /\ Base(s, base) = <<>>
            BY <1>1, <1>5, <1>10, <1>11, <2>1, <2>2
        <3>2. <<>> \o <<>> = <<>> /\ Len(<<>>) = 0
            OBVIOUS
        <3> QED
            BY <1>10, <3>1, <3>2
    <2>3. CASE s # n
        <3>1. sessions'[s] = sessions[s]
            BY <1>1, <1>11, <2>3
        <3>2. Level(s) = IF s \in 1 .. n THEN stack[s].level ELSE 0
            BY DEF Level, n
        <3>3. s \in 1 .. n <=> s \in 1 .. m
            BY <1>5, <2>3
        <3>4. s \in 1 .. m => stack'[s].level = stack[s].level
            BY <1>6, <1>8
        <3> QED
            BY <1>3, <2>1, <3>1, <3>2, <3>3, <3>4 DEF Accounted
    <2> QED
        BY <2>2, <2>3
<1>15. DriverInv(base)'
    BY <1>2, <1>8, <1>12, <1>13, <1>14 DEF DriverInv
<1>16. ASSUME NEW i \in 1 .. m
       PROVE  /\ stack'[i].level = stack[i].level /\ sessions'[i] = sessions[i]
              /\ stack'[i].path = stack[i].path /\ stack'[i].session = stack[i].session
              /\ stack'[i].code = stack[i].code
    <2>1. i # n /\ i \in 1 .. MaxDepth
        BY <1>1, <1>5
    <2> QED
        BY <1>1, <1>6, <1>8, <1>11, <2>1
<1>17. \A i \in 1 .. m - 1 : i \in 1 .. m /\ i # m /\ stack'[i] = stack[i]
    BY <1>5, <1>8
<1>18. stack'[m].rest = IF stack[m].rest = <<>> THEN <<>> ELSE Tail(stack[m].rest)
    BY <1>5, <1>6, <1>8
<1>20. stack'[m].flag = stack[m].flag /\ stack'[m].errors = (stack[m].errors \/ Current.errors)
    BY <1>5, <1>6, <1>8
<1>19. m = Len(stack) - 1 /\ m - 1 = Len(stack) - 2
    BY <1>5 DEF m, n
<1> HIDE DEF old
<1> QED
    BY <1>2, <1>8, <1>15, <1>16, <1>17, <1>18, <1>19, <1>20 DEF n

\* A step that leaves the drivers alone.
LEMMA Unchanged ==
    ASSUME NEW base \in Seq(Contexts), DriverInv(base), UNCHANGED driverVars
    PROVE  DriverInv(base)'
<1>1. UNCHANGED <<files, stack, sessions, callback>>
    BY DEF driverVars
<1>2. DriverTypeOK' /\ OwnSessions' /\ callback' = Len(stack')
    BY <1>1 DEF DriverInv, DriverTypeOK, OwnSessions
<1>3. ASSUME NEW s \in 1 .. MaxDepth
      PROVE  Accounted(s, base)'
    <2>1. Accounted(s, base)
        BY DEF DriverInv
    <2>2. Level(s)' = Level(s)
        BY <1>1 DEF Level
    <2> SUFFICES \E z \in Seq(Contexts) : sessions'[s] = Base(s, base) \o z /\ Len(z) = Level(s)'
        BY DEF Accounted, Base
    <2> QED
        BY <1>1, <2>1, <2>2 DEF Accounted
<1> QED
    BY <1>2, <1>3 DEF DriverInv

\* A step that leaves every driver its session and its level.
LEMMA LevelsStay ==
    ASSUME NEW base \in Seq(Contexts), DriverInv(base),
           stack' \in Seq(Drivers), Len(stack') = Len(stack),
           \A i \in 1 .. Len(stack) : /\ stack'[i].session = stack[i].session
                                      /\ stack'[i].level = stack[i].level,
           UNCHANGED <<files, sessions, callback>>
    PROVE  DriverInv(base)'
<1>1. DriverTypeOK' /\ callback' = Len(stack')
    BY DEF DriverInv, DriverTypeOK
<1>2. OwnSessions'
    BY DEF DriverInv, OwnSessions
<1>3. ASSUME NEW s \in 1 .. MaxDepth
      PROVE  Accounted(s, base)'
    <2>1. Accounted(s, base)
        BY DEF DriverInv
    <2>2. Level(s)' = Level(s)
        BY DEF Level
    <2> SUFFICES \E z \in Seq(Contexts) : sessions'[s] = Base(s, base) \o z /\ Len(z) = Level(s)'
        BY DEF Accounted, Base
    <2> QED
        BY <2>1, <2>2 DEF Accounted
<1> QED
    BY <1>1, <1>2, <1>3 DEF DriverInv

=============================================================================
