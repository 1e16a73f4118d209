------------------------------ MODULE TagTree ------------------------------
(***************************************************************************)
(* What the tags table of a tagdb promises, apart from ranks, names,       *)
(* relations and errors: a tagspace is one tree (README.md: "It is the     *)
(* *root* of a tagspace (tree structure)").  A tag is added under a tag    *)
(* that is there, moved with everything under it, and removed when nothing *)
(* is under it any more.  Tagdb implements this specification.             *)
(***************************************************************************)
EXTENDS TLAPS

CONSTANTS Node, Root, None

\* What an instance has to give.
TreeConstants == Root \in Node /\ None \notin Node

VARIABLE parent     \* None for a node that is not in the tree

Present == {x \in Node : parent[x] # None}

\* The sets that contain the parents of their members.
UpClosed(S) == \A x \in S : parent[x] \in S

\* x is y or above y: no way up from y avoids x.
Above(x, y) == \A S \in SUBSET Present : UpClosed(S) /\ y \in S => x \in S

\* One tree: the root is its own parent, and from every other place a way
\* leads out towards it.
Rooted ==
    /\ Root \in Present /\ parent[Root] = Root
    /\ \A x \in Present : parent[x] \in Present
    /\ \A S \in SUBSET (Present \ {Root}) : S # {} => \E x \in S : parent[x] \notin S

Init == parent \in [Node -> Node \cup {None}] /\ Rooted

Add(x, p) ==
    /\ x \in Node \ Present /\ p \in Present
    /\ parent' = [parent EXCEPT ![x] = p]

Move(x, p) ==
    /\ x \in Present \ {Root} /\ p \in Present
    /\ ~ Above(x, p)
    /\ parent' = [parent EXCEPT ![x] = p]

Remove(x) ==
    /\ x \in Present \ {Root}
    /\ \A y \in Present \ {x} : parent[y] # x
    /\ parent' = [parent EXCEPT ![x] = None]

Next == \E x \in Node : Remove(x) \/ \E p \in Node : Add(x, p) \/ Move(x, p)

Spec == Init /\ [][Next]_parent

-----------------------------------------------------------------------------
(* Proofs: no sequence of additions, moves and removals cuts a node off from the root. *)

\* What the proofs need of the variable.
Shape == parent \in [Node -> Node \cup {None}]

\* A new node is a leaf: a set that no parent leads out of would be one
\* without it already.
LEMMA AddKeepsRooted ==
    ASSUME TreeConstants, Shape, Rooted, NEW x \in Node, NEW p \in Node, Add(x, p)
    PROVE  Rooted'
<1>1. Present' = Present \cup {x} /\ x \notin Present /\ p \in Present
      BY DEF TreeConstants, Add, Present, Shape
<1>2. \A y \in Present : parent'[y] = parent[y]
      BY <1>1 DEF Add, Present, Shape
<1>3. parent'[x] = p
      BY DEF Add, Shape
<1>4. Root \in Present' /\ parent'[Root] = Root
      BY <1>1, <1>2 DEF Rooted
<1>5. \A y \in Present' : parent'[y] \in Present'
      BY <1>1, <1>2, <1>3 DEF Rooted
<1>6. ASSUME NEW S \in SUBSET (Present' \ {Root}), S # {}
      PROVE  \E y \in S : parent'[y] \notin S
  <2>1. CASE S \ {x} = {}
    <3>1. x \in S /\ p \notin S
          BY <1>1, <1>6, <2>1
    <3> QED BY <3>1, <1>3
  <2>2. CASE S \ {x} # {}
    <3>1. PICK y \in S \ {x} : parent[y] \notin S \ {x}
          BY <1>1, <1>6, <2>2 DEF Rooted
    <3>2. y \in Present /\ parent[y] # x
          BY <1>1, <1>6 DEF Rooted
    <3> QED BY <1>2, <3>1, <3>2
  <2> QED BY <2>1, <2>2
<1> QED BY <1>4, <1>5, <1>6 DEF Rooted

\* A leaf is no node's parent.
LEMMA RemoveKeepsRooted ==
    ASSUME TreeConstants, Shape, Rooted, NEW x \in Node, Remove(x)
    PROVE  Rooted'
<1>1. Present' = Present \ {x} /\ x # Root
      BY DEF TreeConstants, Remove, Present, Shape
<1>2. \A y \in Present \ {x} : parent'[y] = parent[y] /\ parent[y] # x
      BY DEF Remove, Present, Shape
<1>3. Root \in Present' /\ parent'[Root] = Root
      BY <1>1, <1>2 DEF Rooted
<1>4. \A y \in Present' : parent'[y] \in Present'
      BY <1>1, <1>2 DEF Rooted
<1>5. ASSUME NEW S \in SUBSET (Present' \ {Root}), S # {}
      PROVE  \E y \in S : parent'[y] \notin S
  <2>1. PICK y \in S : parent[y] \notin S
        BY <1>1, <1>5 DEF Rooted
  <2> QED BY <1>1, <1>2, <1>5, <2>1
<1> QED BY <1>3, <1>4, <1>5 DEF Rooted

\* A node that moves leaves the way from its new parent to the root as it
\* is: that way avoids the node.  U is a set of nodes which contains the new
\* parent and, with each node, its parent, but not the node that moves.
LEMMA MoveKeepsRooted ==
    ASSUME TreeConstants, Shape, Rooted, NEW x \in Node, NEW p \in Node, Move(x, p)
    PROVE  Rooted'
<1>1. PICK U \in SUBSET Present : UpClosed(U) /\ p \in U /\ x \notin U
      BY DEF Move, Above
<1>2. Present' = Present /\ x # Root /\ x \in Present /\ p \in Present
      BY DEF TreeConstants, Move, Present, Shape
<1>3. \A y \in Present \ {x} : parent'[y] = parent[y]
      BY DEF Move, Present, Shape
<1>4. parent'[x] = p
      BY DEF Move, Shape
<1>5. Root \in Present' /\ parent'[Root] = Root
      BY <1>2, <1>3 DEF Rooted
<1>6. \A y \in Present' : parent'[y] \in Present'
      BY <1>2, <1>3, <1>4 DEF Rooted
<1>7. ASSUME NEW S \in SUBSET (Present' \ {Root}), S # {}
      PROVE  \E y \in S : parent'[y] \notin S
  <2>1. CASE S \cap U # {}
    <3>1. S \cap U \in SUBSET (Present \ {Root})
          BY <1>2, <1>7
    <3>2. PICK y \in S \cap U : parent[y] \notin S \cap U
          BY <2>1, <3>1 DEF Rooted
    <3>3. parent[y] \in U /\ y # x /\ y \in Present
          BY <1>1, <3>2 DEF UpClosed
    <3> QED BY <1>3, <3>2, <3>3
  <2>2. CASE S \cap U = {} /\ x \in S
    <3>1. p \notin S
          BY <1>1, <2>2
    <3> QED BY <1>4, <2>2, <3>1
  <2>3. CASE x \notin S
    <3>1. PICK y \in S : parent[y] \notin S
          BY <1>2, <1>7 DEF Rooted
    <3> QED BY <1>2, <1>3, <1>7, <2>3, <3>1
  <2> QED BY <2>1, <2>2, <2>3
<1> QED BY <1>5, <1>6, <1>7 DEF Rooted

\* The variable keeps its shape.
LEMMA ShapeInvariant ==
    ASSUME Shape, [Next]_parent
    PROVE  Shape'
<1>1. CASE UNCHANGED parent
      BY <1>1 DEF Shape
<1>2. ASSUME NEW x \in Node, Remove(x)
      PROVE  Shape'
      BY <1>2 DEF Remove, Shape
<1>3. ASSUME NEW x \in Node, NEW p \in Node, Add(x, p) \/ Move(x, p)
      PROVE  Shape'
      BY <1>3 DEF Add, Move, Shape
<1> QED BY <1>1, <1>2, <1>3 DEF Next

\* A tagspace is always one tree with _entity as its root (README.md: "It is
\* the *root* of a tagspace"), whatever its nodes and however many.
THEOREM TreeStaysRooted ==
    ASSUME TreeConstants
    PROVE  Spec => []Rooted
<1>1. Init => Shape /\ Rooted
      BY DEF Init, Shape
<1>2. Shape /\ Rooted /\ [Next]_parent => (Shape /\ Rooted)'
  <2> SUFFICES ASSUME Shape, Rooted, [Next]_parent
               PROVE  Rooted'
      BY ShapeInvariant
  <2>1. CASE UNCHANGED parent
        BY <2>1 DEF Rooted, Present
  <2>2. ASSUME NEW x \in Node, Remove(x)
        PROVE  Rooted'
        BY <2>2, RemoveKeepsRooted
  <2>3. ASSUME NEW x \in Node, NEW p \in Node, Add(x, p)
        PROVE  Rooted'
        BY <2>3, AddKeepsRooted
  <2>4. ASSUME NEW x \in Node, NEW p \in Node, Move(x, p)
        PROVE  Rooted'
        BY <2>4, MoveKeepsRooted
  <2> QED BY <2>1, <2>2, <2>3, <2>4 DEF Next
<1> QED BY <1>1, <1>2, PTL DEF Spec

=============================================================================
