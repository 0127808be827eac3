------------------------------ MODULE PageTree ------------------------------
(***************************************************************************)
(* The red-black tree of free pages of mm/page_tree.rs.  The node of a page *)
(* is stored in the page itself, so a link is a page number; Nil is None.  *)
(* The code's left and right halves are mirror images of each other: they  *)
(* are written once, for a direction d and its opposite.                   *)
(*                                                                         *)
(* A tree is a record; its operations are operators from trees to trees.   *)
(* crashed says that an unwrap found None: the kernel stops there.         *)
(***************************************************************************)
EXTENDS PageRuns

CONSTANTS
    NPages,        \* bound: pages 1 .. NPages are handed to the tree
    MaxRun         \* bound: longest run asked for

ASSUME PageTreeAssumption == NPages \in Nat \ {0} /\ MaxRun \in Nat \ {0}

Page == 1 .. NPages
Nil == 0
Inserted == NPages + 1                       \* insert returns nothing
Dir == {"left", "right"}
Other(d) == IF d = "left" THEN "right" ELSE "left"
Link == Page \cup {Nil}

Tree == [root : Link, child : [Dir -> [Page -> Link]], parent : [Page -> Link],
         color : [Page -> {"red", "black"}], crashed : BOOLEAN]

-----------------------------------------------------------------------------
(* Links: reading through None gives None, writing through it does nothing *)

Parent(t, a) == IF a = Nil THEN Nil ELSE t.parent[a]
Child(t, d, a) == IF a = Nil THEN Nil ELSE t.child[d][a]
Color(t, a) == IF a = Nil THEN "none" ELSE t.color[a]

SetParent(t, a, p) == IF a = Nil THEN t ELSE [t EXCEPT !.parent[a] = p]
SetChild(t, d, a, c) == IF a = Nil THEN t ELSE [t EXCEPT !.child[d][a] = c]
SetColor(t, a, c) == IF a = Nil THEN t ELSE [t EXCEPT !.color[a] = c]

Crash(t) == [t EXCEPT !.crashed = TRUE]

\* Which child of its parent a is.
SideOf(t, a) == IF a = Child(t, "left", Parent(t, a)) THEN "left" ELSE "right"

\* The link to a, in its parent or in the root, is made to lead to b.
Relink(t, a, b) ==
    IF Parent(t, a) = Nil THEN [t EXCEPT !.root = b]
    ELSE SetChild(t, SideOf(t, a), Parent(t, a), b)

\* PageTree::empty
empty ==
    [root |-> Nil, child |-> [d \in Dir |-> [a \in Page |-> Nil]],
     parent |-> [a \in Page |-> Nil], color |-> [a \in Page |-> "black"], crashed |-> FALSE]

-----------------------------------------------------------------------------
(* Rotations                                                               *)

\* Mutant: the subtree that changes sides keeps its old parent.
rotate_orphan(t, d, a) ==
    LET b == Child(t, Other(d), a)
        t1 == SetChild(t, Other(d), a, Child(t, d, b))
        t2 == Relink(SetParent(t1, b, Parent(t, a)), a, b)
    IN  IF a = Nil \/ b = Nil THEN Crash(t)
        ELSE SetParent(SetChild(t2, d, b, a), a, b)

\* left_rotate (d = "left") and right_rotate
rotate(t, d, a) ==
    LET b == Child(t, Other(d), a)
        inner == Child(t, d, b)
        t1 == SetParent(SetChild(t, Other(d), a, inner), inner, a)
        t2 == Relink(SetParent(t1, b, Parent(t, a)), a, b)
    IN  IF a = Nil \/ b = Nil THEN Crash(t)
        ELSE SetParent(SetChild(t2, d, b, a), a, b)

transplant(t, a, b) == SetParent(Relink(t, a, b), b, Parent(t, a))

\* A loop is a recursive function of what it changes.
min_link(t, a) ==
    LET from[cur \in Link] ==
            IF Child(t, "left", cur) # Nil THEN from[Child(t, "left", cur)] ELSE cur
    IN  from[a]

\* The climb of next_link; it starts at a node, so it ends at the root at last.
climb(t, a) ==
    LET from[cur \in Link] ==
            IF cur # Nil /\ cur = Child(t, "right", Parent(t, cur))
            THEN from[Parent(t, cur)] ELSE Parent(t, cur)
    IN  from[a]

next_link(t, a) ==
    IF Child(t, "right", a) # Nil THEN min_link(t, Child(t, "right", a)) ELSE climb(t, a)

\* As long as the loop has not returned false, cur is start + i - 1.
is_n_consecutive_link(t, start, n) ==
    \A i \in 1 .. (n - 1) : next_link(t, start + i - 1) = start + i

-----------------------------------------------------------------------------
(* insert                                                                  *)

\* An outer c: its parent turns black and takes the place of the red grandparent.
insert_outer(t, d, c) ==
    LET t1 == SetColor(SetColor(t, Parent(t, c), "black"), Parent(t, Parent(t, c)), "red")
    IN  rotate(t1, Other(d), Parent(t1, Parent(t1, c)))

\* One iteration, for c with a red parent p: the uncle b is red, or it is not
\* and c is an inner or an outer child.
insert_step(t, c) ==
    LET p == Parent(t, c)
        g == Parent(t, p)
        d == SideOf(t, p)
        b == Child(t, Other(d), g)
    IN  IF Color(t, b) = "red"
        THEN <<SetColor(SetColor(SetColor(t, p, "black"), b, "black"), g, "red"), g>>
        ELSE IF c = Child(t, Other(d), p) THEN <<insert_outer(rotate(t, d, p), d, p), p>>
        ELSE <<insert_outer(t, d, c), c>>

insert_fixup[x \in Tree \X Link] ==
    LET t == x[1]
        c == x[2]
    IN  IF ~t.crashed /\ Color(t, Parent(t, c)) = "red" THEN insert_fixup[insert_step(t, c)]
        ELSE SetColor(t, t.root, "black")

\* Where the descent of insert ends: the parent of the new node.
descend(t, n) ==
    LET from[x \in Link \X Link] ==
            LET cur == x[1] IN
            IF cur = Nil THEN x[2]
            ELSE from[<<Child(t, IF n < cur THEN "left" ELSE "right", cur), cur>>]
    IN  from[<<t.root, Nil>>]

\* The new node, a red leaf below p
insert_leaf(t, n, p) ==
    LET t1 == SetColor(SetParent(SetChild(SetChild(t, "left", n, Nil), "right", n, Nil), n, p), n, "red")
    IN  IF p = Nil THEN [t1 EXCEPT !.root = n]
        ELSE SetChild(t1, IF n < p THEN "left" ELSE "right", p, n)

insert(t, n) == insert_fixup[<<insert_leaf(t, n, descend(t, n)), n>>]

-----------------------------------------------------------------------------
(* delete                                                                  *)

\* a red sibling of the child of p on side d is rotated away
sibling_up(t, d, p) ==
    rotate(SetColor(SetColor(t, Child(t, Other(d), p), "black"), p, "red"), d, p)

\* the red near child of the sibling b is rotated up
near_up(t, d, b) ==
    rotate(SetColor(SetColor(t, Child(t, d, b), "black"), b, "red"), Other(d), b)

\* the sibling, whose far child is red, is rotated up
far_up(t, d, p) ==
    LET b == Child(t, Other(d), p) IN
    rotate(SetColor(SetColor(SetColor(t, b, Color(t, p)), p, "black"), Child(t, Other(d), b), "black"),
           d, p)

\* One iteration, for a black node a other than the root, after the first of
\* these: the child of the sibling b on a's side is read first, then the other;
\* unwrap stops the kernel if one that is read is missing.
delete_case(t, d, a) ==
    LET b == Child(t, Other(d), Parent(t, a))
        near == Color(t, Child(t, d, b))
        far == Color(t, Child(t, Other(d), b))
        t1 == IF far = "black" THEN near_up(t, d, b) ELSE t
        t2 == far_up(t1, d, Parent(t1, a))
    IN  IF near = "none" \/ far = "none" THEN <<Crash(t), a>>
        ELSE IF near = "black" /\ far = "black" THEN <<SetColor(t, b, "red"), Parent(t, a)>>
        ELSE <<t2, t2.root>>

delete_step(t, a) ==
    LET p == Parent(t, a)
        d == SideOf(t, a)
    IN  delete_case(IF Color(t, Child(t, Other(d), p)) = "red" THEN sibling_up(t, d, p) ELSE t, d, a)

\* The loop runs only while a is a black node: a missing child, which is
\* black in the textbook, ends it at once.
delete_fixup[x \in Tree \X Link] ==
    LET t == x[1]
        a == x[2]
    IN  IF t.crashed THEN t
        ELSE IF a # t.root /\ Color(t, a) = "black" THEN delete_fixup[delete_step(t, a)]
        ELSE SetColor(t, a, "black")

\* A page taken out belongs to its new owner: its node is wiped.
Wipe(t, c) ==
    SetColor(SetParent(SetChild(SetChild(t, "left", c, Nil), "right", c, Nil), c, Nil), c, "black")

\* The place of c, a node with at most one child, is taken by that child...
splice_one(t, c) ==
    transplant(t, c, IF Child(t, "left", c) = Nil THEN Child(t, "right", c) ELSE Child(t, "left", c))

\* ... and that of a node with two by its successor b, which has left its own.
successor_out(t, c, b) ==
    LET r == Child(t, "right", c) IN
    IF b = r THEN SetParent(t, Child(t, "right", b), b)
    ELSE SetParent(SetChild(transplant(t, b, Child(t, "right", b)), "right", b, r), r, b)

\* Mutant: the successor takes the place but not the colour of the node.
splice_keeps_color(t, c, b) ==
    LET l == Child(t, "left", c)
        t1 == transplant(successor_out(t, c, b), c, b)
    IN  SetParent(SetChild(t1, "left", b, l), l, b)

splice_two(t, c, b) ==
    LET l == Child(t, "left", c)
        t1 == transplant(successor_out(t, c, b), c, b)
    IN  SetParent(SetColor(SetChild(t1, "left", b, l), b, Color(t, c)), l, b)

delete(t, c) ==
    LET l == Child(t, "left", c)
        r == Child(t, "right", c)
        one == l = Nil \/ r = Nil
        b == min_link(t, r)
        a == IF l = Nil THEN r ELSE IF r = Nil THEN l ELSE Child(t, "right", b)
        bcolor == IF one THEN Color(t, c) ELSE Color(t, b)
        t1 == IF one THEN splice_one(t, c) ELSE splice_two(t, c, b)
    IN  Wipe(IF bcolor = "black" THEN delete_fixup[<<t1, a>>] ELSE t1, c)

-----------------------------------------------------------------------------
(* get_multiple                                                            *)

\* The pages whose node is linked into t, from a on down.
Nodes(t, a) ==
    LET below[b \in Link] ==
            IF b = Nil THEN {} ELSE {b} \cup below[Child(t, "left", b)] \cup below[Child(t, "right", b)]
    IN  below[a]

\* The loop goes from node to node.
scan(t, n) ==
    LET from[cur \in Nodes(t, t.root) \cup {Nil}] ==
            IF cur # Nil /\ ~is_n_consecutive_link(t, cur, n) THEN from[next_link(t, cur)] ELSE cur
    IN  from[min_link(t, t.root)]

delete_run(t, p, n) ==
    LET after[i \in 0 .. n] ==
            IF i = 0 THEN t
            ELSE IF after[i - 1].crashed THEN after[i - 1] ELSE delete(after[i - 1], p + i - 1)
    IN  after[n]

-----------------------------------------------------------------------------
VARIABLES
    tree,
    result         \* of the last operation, after the number of pages it was for

vars == <<tree, result>>

Init == tree = empty /\ result = <<0, Nil>>

\* A caller inserts pages that are its own, so not one that is in the tree.
Insert(n) ==
    /\ n \notin Nodes(tree, tree.root)
    /\ tree' = insert(tree, n)
    /\ result' = <<1, Inserted>>

\* Mutant: the last page of a run is returned but stays in the tree.
Get_one_less(npages) ==
    LET found == scan(tree, npages)
        t == delete_run(tree, found, IF npages > 1 THEN npages - 1 ELSE npages)
    IN  IF found = Nil THEN result' = <<npages, Nil>> /\ UNCHANGED tree
        ELSE IF t.crashed THEN tree' = Crash(tree) /\ UNCHANGED result
        ELSE tree' = t /\ result' = <<npages, found>>

\* get_multiple; get is Get(1)
Get(npages) ==
    LET found == scan(tree, npages)
        t == delete_run(tree, found, npages)
    IN  IF found = Nil THEN result' = <<npages, Nil>> /\ UNCHANGED tree
        ELSE IF t.crashed THEN tree' = Crash(tree) /\ UNCHANGED result
        ELSE tree' = t /\ result' = <<npages, found>>

Next ==
    /\ ~tree.crashed
    /\ \/ \E n \in Page : Insert(n)
       \/ \E npages \in 0 .. MaxRun : Get(npages)

Spec == Init /\ [][Next]_vars

-----------------------------------------------------------------------------
(* Properties                                                              *)

TypeOK ==
    /\ tree \in Tree
    /\ result \in Nat \X (Link \cup {Inserted})

\* Through all rotations and transplants, every child knows its parent, the
\* root has none, and what is below a node to the left (right) is smaller
\* (larger) than the node.
WellLinked ==
    LET In == Nodes(tree, tree.root) IN
    /\ Parent(tree, tree.root) = Nil
    /\ \A a \in In, d \in Dir : Child(tree, d, a) # Nil => Parent(tree, Child(tree, d, a)) = a
    /\ \A a \in In : /\ \A b \in Nodes(tree, Child(tree, "left", a)) : b < a
                     /\ \A b \in Nodes(tree, Child(tree, "right", a)) : b > a

\* insert_fixup and delete_fixup leave no red node with a red child, and a
\* black root.
NoRedRed ==
    /\ Color(tree, tree.root) # "red"
    /\ \A a \in Nodes(tree, tree.root), d \in Dir :
          Color(tree, a) = "red" => Color(tree, Child(tree, d, a)) # "red"

\* The tree is a set of free pages: insert adds its page and loses none,
\* get_multiple removes exactly the lowest long enough run and returns its
\* first page, or None if there is none.
F == INSTANCE FreePages WITH pages <- Nodes(tree, tree.root), Initial <- {},
                            None <- Nil, Ok <- Inserted, Refused <- Inserted + 1
IsFreePages == F!Spec

\* No unwrap of the tree meets None: delete_fixup finds both children of the
\* sibling whenever it looks at them.
UnwrapsHold == ~tree.crashed
=============================================================================
