--------------------------- MODULE PageTreeProofs ---------------------------
(***************************************************************************)
(* Theorems about PageTree, for every number of pages.                     *)
(*                                                                         *)
(* The tree is described without recursion: the pages of the tree are a    *)
(* set N, and every node has a bound on each side, between which all pages *)
(* below it are.  A child takes over one bound of its parent, and its      *)
(* other bound is the parent.  Loops end, and do what they are for, by     *)
(* induction on the distance of the bounds, which is written as the choice *)
(* of a least counterexample (Least, Extreme).                             *)
(***************************************************************************)
EXTENDS PageTree, WellFoundedInduction, TLAPS

-----------------------------------------------------------------------------
(* Induction and recursion *)

\* Natural numbers are well ordered.
LEMMA Least ==
  ASSUME NEW T \in SUBSET Nat, T # {}
  PROVE  \E x \in T : \A y \in T : x <= y
<1>. DEFINE R == OpToRel(<, Nat)
<1>1. IsWellFoundedOn(R, Nat)
  BY NatLessThanWellFounded
<1>2. \A x, y \in Nat : <<y, x>> \in R <=> y < x
  BY DEF OpToRel
<1>. HIDE DEF R
<1>3. PICK x \in T : \A y \in T : ~(<<y, x>> \in R)
  BY <1>1, WFMin
<1>4. \A y \in T : ~(y < x)
  BY <1>2, <1>3
<1>5. \A y \in T : x <= y
  BY <1>4
<1>. QED
  BY <1>5

\* Of things with a measure, one has the least.
LEMMA Extreme ==
  ASSUME NEW B, B # {}, NEW m \in [B -> Nat]
  PROVE  \E x \in B : \A y \in B : m[x] <= m[y]
<1>. DEFINE T == {m[x] : x \in B}
<1>1. T \in SUBSET Nat /\ T # {}
  OBVIOUS
<1>2. PICK n \in T : \A k \in T : n <= k
  <2>. HIDE DEF T
  <2>. QED
    BY <1>1, Least
<1>. QED
  BY <1>2

\* What has the first number and, with a number, the next, has all numbers up to n.
LEMMA Upward ==
  ASSUME NEW n \in Nat, NEW T, 0 \in T, \A i \in 0 .. (n - 1) : i \in T => i + 1 \in T
  PROVE  0 .. n \subseteq T
<1>. SUFFICES ASSUME (0 .. n) \ T # {} PROVE FALSE
  OBVIOUS
<1>1. PICK x \in (0 .. n) \ T : \A y \in (0 .. n) \ T : x <= y
  <2>1. (0 .. n) \ T \in SUBSET Nat
    OBVIOUS
  <2>. QED
    BY <2>1, Least
<1>2. x # 0 /\ x - 1 \in 0 .. (n - 1) /\ ~(x <= x - 1) /\ (x - 1) + 1 = x
  BY <1>1
<1>3. x - 1 \in T
  BY <1>1, <1>2
<1>. QED
  BY <1>1, <1>2, <1>3

\* f is what the loop "while x is in Go do x := step[x]" with the result done[x]
\* computes, as a function of x.
Computes(f, X, Go, step, done) ==
    /\ \E Y : f \in [X -> Y]
    /\ \A x \in X : f[x] = IF x \in Go THEN f[step[x]] ELSE done[x]

\* There is such a function, whether the loop ends or not: the recursive functions of
\* PageTree satisfy their equations.
LEMMA LoopComputes ==
  ASSUME NEW X, NEW Go \in SUBSET X, NEW step \in [X -> X], NEW Z, NEW done \in [X -> Z]
  PROVE  \E f : Computes(f, X, Go, step, done)
<1>. DEFINE Closed(T) == \A z \in T : z \in Go => step[z] \in T
            Visited(x) == {y \in X : \A T \in SUBSET X : x \in T /\ Closed(T) => y \in T}
            End(x) == {y \in Visited(x) : y \notin Go}
            f == [x \in X |-> done[CHOOSE y : y \in End(x)]]
<1>1. ASSUME NEW x \in X, x \notin Go PROVE f[x] = done[x]
  <2>1. End(x) = {x}
    <3>1. Closed({x})
      BY <1>1
    <3>2. x \in End(x)
      BY <1>1
    <3>3. ASSUME NEW y \in End(x) PROVE y = x
      BY <3>1, <3>3
    <3>. HIDE DEF End
    <3>. QED
      BY <3>2, <3>3
  <2>. HIDE DEF End
  <2>. QED
    BY <2>1
<1>2. ASSUME NEW x \in X, x \in Go PROVE f[x] = f[step[x]]
  <2>1. ASSUME NEW y \in End(x) PROVE y \in End(step[x])
    <3>1. ASSUME NEW T \in SUBSET X, step[x] \in T, Closed(T) PROVE y \in T
      <4>1. Closed(T \cup {x}) /\ x \in T \cup {x} /\ T \cup {x} \in SUBSET X
        BY <3>1
      <4>. QED
        BY <1>2, <2>1, <4>1
    <3>. QED
      BY <2>1, <3>1
  <2>2. ASSUME NEW y \in End(step[x]) PROVE y \in End(x)
    <3>1. ASSUME NEW T \in SUBSET X, x \in T, Closed(T) PROVE y \in T
      BY <1>2, <2>2, <3>1
    <3>. QED
      BY <2>2, <3>1
  <2>3. End(x) = End(step[x])
    BY <2>1, <2>2
  <2>. HIDE DEF End
  <2>. QED
    BY <2>3
<1>3. f \in [X -> {f[x] : x \in X}]
  OBVIOUS
<1>. HIDE DEF f
<1>4. Computes(f, X, Go, step, done)
  BY <1>1, <1>2, <1>3 DEF Computes
<1>. QED
  BY <1>4

-----------------------------------------------------------------------------
(* Links *)

LEMMA Constants ==
  /\ NPages \in Nat /\ NPages # 0 /\ Page \subseteq Nat /\ Nil = 0 /\ Nil \notin Page
  /\ Page \subseteq Link /\ Nil \in Link /\ Link \subseteq Nat
  /\ \A x \in Link : x # Nil => x \in Page
  /\ \A x \in Page : 0 < x /\ x < NPages + 1
BY PageTreeAssumption DEF Page, Nil, Link

LEMMA Directions ==
  /\ Dir = {"left", "right"}
  /\ \A d \in Dir : Other(d) \in Dir /\ Other(d) # d /\ Other(Other(d)) = d
  /\ \A d, e \in Dir : e = d \/ e = Other(d)
BY DEF Dir, Other

\* What is read from a tree
LEMMA Reads ==
  ASSUME NEW t \in Tree
  PROVE  /\ t.root \in Link /\ t.crashed \in BOOLEAN
         /\ \A x \in Link : Parent(t, x) \in Link
         /\ \A x \in Link, d \in Dir : Child(t, d, x) \in Link
         /\ \A x \in Page : Color(t, x) \in {"red", "black"}
         /\ Parent(t, Nil) = Nil /\ (\A d \in Dir : Child(t, d, Nil) = Nil) /\ Color(t, Nil) = "none"
BY Constants DEF Tree, Parent, Child, Color

\* Two trees with the same links
SameLinks(t, u) ==
    /\ u.root = t.root
    /\ \A x \in Link : Parent(u, x) = Parent(t, x)
    /\ \A x \in Link, d \in Dir : Child(u, d, x) = Child(t, d, x)

\* What the elementary updates do to what is read: u is t after the update
ParentSet(t, u, a, p) ==
    /\ u \in Tree /\ u.root = t.root /\ u.crashed = t.crashed
    /\ \A x \in Link : Parent(u, x) = IF x = a /\ a # Nil THEN p ELSE Parent(t, x)
    /\ \A x \in Link, d \in Dir : Child(u, d, x) = Child(t, d, x)
    /\ \A x \in Link : Color(u, x) = Color(t, x)

ChildSet(t, u, d, a, c) ==
    /\ u \in Tree /\ u.root = t.root /\ u.crashed = t.crashed
    /\ \A x \in Link : Parent(u, x) = Parent(t, x)
    /\ \A x \in Link, e \in Dir :
          Child(u, e, x) = IF e = d /\ x = a /\ a # Nil THEN c ELSE Child(t, e, x)
    /\ \A x \in Link : Color(u, x) = Color(t, x)

Painted(t, u, a, c) ==
    /\ u \in Tree /\ u.root = t.root /\ u.crashed = t.crashed
    /\ \A x \in Link : Parent(u, x) = Parent(t, x)
    /\ \A x \in Link, d \in Dir : Child(u, d, x) = Child(t, d, x)
    /\ \A x \in Link : Color(u, x) = IF x = a /\ a # Nil THEN c ELSE Color(t, x)

Relinked(t, u, a, b) ==
    /\ u \in Tree /\ u.crashed = t.crashed
    /\ u.root = IF Parent(t, a) = Nil THEN b ELSE t.root
    /\ \A x \in Link : Parent(u, x) = Parent(t, x)
    /\ \A x \in Link, e \in Dir :
          Child(u, e, x) = IF x # Nil /\ x = Parent(t, a) /\ e = SideOf(t, a) THEN b ELSE Child(t, e, x)
    /\ \A x \in Link : Color(u, x) = Color(t, x)

LEMMA SetsParent ==
  ASSUME NEW t \in Tree, NEW a \in Link, NEW p \in Link
  PROVE  ParentSet(t, SetParent(t, a, p), a, p)
<1>. DEFINE u == SetParent(t, a, p)
<1>1. /\ u \in Tree /\ u.root = t.root /\ u.crashed = t.crashed
      /\ \A x \in Link : Parent(u, x) = IF x = a /\ a # Nil THEN p ELSE Parent(t, x)
      /\ \A x \in Link, d \in Dir : Child(u, d, x) = Child(t, d, x)
      /\ \A x \in Link : Color(u, x) = Color(t, x)
  BY Constants DEF Tree, Parent, Child, Color, SetParent
<1>. QED
  BY <1>1 DEF ParentSet

LEMMA SetsChild ==
  ASSUME NEW t \in Tree, NEW d \in Dir, NEW a \in Link, NEW c \in Link
  PROVE  ChildSet(t, SetChild(t, d, a, c), d, a, c)
<1>. DEFINE u == SetChild(t, d, a, c)
<1>1. CASE a = Nil
  <2>1. u = t
    BY <1>1 DEF SetChild
  <2>. QED
    BY <1>1, <2>1 DEF ChildSet
<1>2. CASE a # Nil
  <2>1. a \in Page /\ t.child \in [Dir -> [Page -> Link]]
    BY <1>2, Constants DEF Tree
  <2>2. u = [t EXCEPT !.child = [t.child EXCEPT ![d] = [t.child[d] EXCEPT ![a] = c]]]
    BY <1>2 DEF SetChild
  <2>3. u \in Tree /\ u.root = t.root /\ u.crashed = t.crashed /\ u.parent = t.parent /\ u.color = t.color
        /\ u.child = [t.child EXCEPT ![d] = [t.child[d] EXCEPT ![a] = c]]
    <3>. DEFINE v == [t.child EXCEPT ![d] = [t.child[d] EXCEPT ![a] = c]]
    <3>1. v \in [Dir -> [Page -> Link]]
      BY <2>1
    <3>2. u = [t EXCEPT !.child = v]
      BY <2>2
    <3>. HIDE DEF u, v
    <3>3. u \in Tree /\ u.root = t.root /\ u.crashed = t.crashed /\ u.parent = t.parent
          /\ u.color = t.color /\ u.child = v
      BY <3>1, <3>2 DEF Tree
    <3>. QED
      BY <3>3 DEF v
  <2>4. \A x \in Page, e \in Dir : u.child[e][x] = IF e = d /\ x = a THEN c ELSE t.child[e][x]
    BY <2>1, <2>3
  <2>. HIDE DEF u
  <2>5. (\A x \in Link : Parent(u, x) = Parent(t, x)) /\ (\A x \in Link : Color(u, x) = Color(t, x))
    BY <2>3 DEF Parent, Color
  <2>6. \A x \in Link, e \in Dir : Child(u, e, x) = IF e = d /\ x = a /\ a # Nil THEN c ELSE Child(t, e, x)
    BY <1>2, <2>4, Constants DEF Child
  <2>. QED
    BY <2>3, <2>5, <2>6 DEF u, ChildSet
<1>. QED
  BY <1>1, <1>2

\* SetColor as one update of a field
LEMMA SetColorIs ==
  ASSUME NEW t, NEW a, NEW c
  PROVE  SetColor(t, a, c) = IF a = Nil THEN t ELSE [t EXCEPT !.color = [t.color EXCEPT ![a] = c]]
BY DEF SetColor

LEMMA SetsColor ==
  ASSUME NEW t \in Tree, NEW a \in Link, NEW c, c \in {"red", "black"}
  PROVE  Painted(t, SetColor(t, a, c), a, c)
<1>. DEFINE u == SetColor(t, a, c)
<1>1. /\ u \in Tree /\ u.root = t.root /\ u.crashed = t.crashed /\ u.parent = t.parent /\ u.child = t.child
      /\ u.color = IF a = Nil THEN t.color ELSE [t.color EXCEPT ![a] = c]
  <2>1. CASE a = Nil
    <3>1. u = t
      BY <2>1, SetColorIs, Zenon
    <3>. QED
      BY <2>1, <3>1
  <2>2. CASE a # Nil
    <3>. DEFINE v == [t.color EXCEPT ![a] = c]
    <3>1. v \in [Page -> {"red", "black"}]
      BY <2>2, Constants DEF Tree
    <3>2. u = [t EXCEPT !.color = v]
      <4>1. u = [t EXCEPT !.color = [t.color EXCEPT ![a] = c]]
        BY <2>2, SetColorIs, Zenon
      <4>. QED
        BY <4>1
    <3>. HIDE DEF u, v
    <3>3. u \in Tree /\ u.root = t.root /\ u.crashed = t.crashed /\ u.parent = t.parent
          /\ u.child = t.child /\ u.color = v
      BY <3>1, <3>2 DEF Tree
    <3>. QED
      BY <2>2, <3>3 DEF v
  <2>. QED
    BY <2>1, <2>2
<1>2. t.color \in [Page -> {"red", "black"}]
  BY DEF Tree
<1>. HIDE DEF u
<1>3. /\ \A x \in Link : Parent(u, x) = Parent(t, x)
      /\ \A x \in Link, d \in Dir : Child(u, d, x) = Child(t, d, x)
  BY <1>1 DEF Parent, Child
<1>4. \A x \in Link : Color(u, x) = IF x = a /\ a # Nil THEN c ELSE Color(t, x)
  BY <1>1, <1>2, Constants DEF Color
<1>. QED
  BY <1>1, <1>3, <1>4 DEF u, Painted

LEMMA SetsRoot ==
  ASSUME NEW t \in Tree, NEW a \in Link
  PROVE  LET u == [t EXCEPT !.root = a] IN
         /\ u \in Tree /\ u.root = a /\ u.crashed = t.crashed
         /\ \A x \in Link : Parent(u, x) = Parent(t, x)
         /\ \A x \in Link, d \in Dir : Child(u, d, x) = Child(t, d, x)
         /\ \A x \in Link : Color(u, x) = Color(t, x)
BY Constants DEF Tree, Parent, Child, Color

LEMMA Crashes ==
  ASSUME NEW t \in Tree
  PROVE  LET u == Crash(t) IN
         /\ u \in Tree /\ u.root = t.root /\ u.crashed = TRUE
         /\ \A x \in Link : Parent(u, x) = Parent(t, x)
         /\ \A x \in Link, d \in Dir : Child(u, d, x) = Child(t, d, x)
         /\ \A x \in Link : Color(u, x) = Color(t, x)
BY Constants DEF Tree, Parent, Child, Color, Crash

\* Painting None does nothing
LEMMA PaintsNil ==
  ASSUME NEW t, NEW c
  PROVE  SetColor(t, Nil, c) = t
BY DEF SetColor

LEMMA SideOfIs ==
  ASSUME NEW t \in Tree, NEW a \in Link
  PROVE  /\ SideOf(t, a) \in Dir
         /\ a = Child(t, "left", Parent(t, a)) => SideOf(t, a) = "left"
         /\ a # Child(t, "left", Parent(t, a)) => SideOf(t, a) = "right"
BY Directions DEF SideOf

LEMMA Relinks ==
  ASSUME NEW t \in Tree, NEW a \in Link, NEW b \in Link
  PROVE  Relinked(t, Relink(t, a, b), a, b)
<1>1. Parent(t, a) \in Link /\ SideOf(t, a) \in Dir
  BY Reads, SideOfIs
<1>2. CASE Parent(t, a) = Nil
  BY <1>2, SetsRoot DEF Relink, Relinked
<1>3. CASE Parent(t, a) # Nil
  <2>1. Relink(t, a, b) = SetChild(t, SideOf(t, a), Parent(t, a), b)
    BY <1>3 DEF Relink
  <2>2. ChildSet(t, SetChild(t, SideOf(t, a), Parent(t, a), b), SideOf(t, a), Parent(t, a), b)
    BY <1>1, SetsChild
  <2>. QED
    BY <1>3, <2>1, <2>2 DEF ChildSet, Relinked
<1>. QED
  BY <1>2, <1>3

\* transplant
Transplanted(t, u, a, b) ==
    /\ u \in Tree /\ u.crashed = t.crashed
    /\ u.root = IF Parent(t, a) = Nil THEN b ELSE t.root
    /\ \A x \in Link : Parent(u, x) = IF x = b /\ b # Nil THEN Parent(t, a) ELSE Parent(t, x)
    /\ \A x \in Link, e \in Dir :
          Child(u, e, x) = IF x # Nil /\ x = Parent(t, a) /\ e = SideOf(t, a) THEN b ELSE Child(t, e, x)
    /\ \A x \in Link : Color(u, x) = Color(t, x)

LEMMA Transplants ==
  ASSUME NEW t \in Tree, NEW a \in Link, NEW b \in Link
  PROVE  Transplanted(t, transplant(t, a, b), a, b)
<1>. DEFINE v == Relink(t, a, b)
<1>1. Relinked(t, v, a, b) /\ Parent(t, a) \in Link
  BY Relinks, Reads
<1>2. v \in Tree
  BY <1>1 DEF Relinked
<1>3. ParentSet(v, SetParent(v, b, Parent(t, a)), b, Parent(t, a))
  BY <1>1, <1>2, SetsParent
<1>4. transplant(t, a, b) = SetParent(v, b, Parent(t, a))
  BY DEF transplant
<1>. QED
  BY <1>1, <1>3, <1>4 DEF Relinked, ParentSet, Transplanted

\* left_rotate and right_rotate, where the child that comes up is there
Rotated(t, u, d, a) ==
    LET o == Other(d)
        c == Child(t, o, a)
        i == Child(t, d, c)
        p == Parent(t, a)
    IN  /\ u \in Tree /\ u.crashed = t.crashed
        /\ u.root = IF p = Nil THEN c ELSE t.root
        /\ \A x \in Link : Parent(u, x) = IF x = a THEN c ELSE IF x = c THEN p
                                          ELSE IF x = i /\ x # Nil THEN a ELSE Parent(t, x)
        /\ \A x \in Link, e \in Dir :
              Child(u, e, x) = IF x = a /\ e = o THEN i ELSE IF x = c /\ e = d THEN a
                               ELSE IF x # Nil /\ x = p /\ e = SideOf(t, a) THEN c ELSE Child(t, e, x)
        /\ \A x \in Link : Color(u, x) = Color(t, x)

\* A rotation, whatever the tree
LEMMA RotateTyped ==
  ASSUME NEW t \in Tree, NEW d \in Dir, NEW a \in Link
  PROVE  rotate(t, d, a) \in Tree
<1>. DEFINE o == Other(d)
            c == Child(t, o, a)
            i == Child(t, d, c)
            t1 == SetChild(t, o, a, i)
            t2 == SetParent(t1, i, a)
            t3 == SetParent(t2, c, Parent(t, a))
            t4 == Relink(t3, a, c)
            t5 == SetChild(t4, d, c, a)
            t6 == SetParent(t5, a, c)
<1>1. o \in Dir /\ c \in Link /\ i \in Link /\ Parent(t, a) \in Link
  BY Directions, Reads
<1>2. rotate(t, d, a) = IF a = Nil \/ c = Nil THEN Crash(t) ELSE t6
  BY DEF rotate
<1>. HIDE DEF o, c, i
<1>3. t1 \in Tree
  BY <1>1, SetsChild DEF ChildSet
<1>4. t2 \in Tree
  <2>. HIDE DEF t1
  <2>. QED
    BY <1>1, <1>3, SetsParent DEF ParentSet
<1>5. t3 \in Tree
  <2>. HIDE DEF t2
  <2>. QED
    BY <1>1, <1>4, SetsParent DEF ParentSet
<1>6. t4 \in Tree
  <2>. HIDE DEF t3
  <2>. QED
    BY <1>1, <1>5, Relinks DEF Relinked
<1>7. t5 \in Tree
  <2>. HIDE DEF t4
  <2>. QED
    BY <1>1, <1>6, SetsChild DEF ChildSet
<1>8. t6 \in Tree
  <2>. HIDE DEF t5
  <2>. QED
    BY <1>1, <1>7, SetsParent DEF ParentSet
<1>. HIDE DEF t6
<1>. QED
  BY <1>2, <1>8, Crashes

LEMMA RotateLinks ==
  ASSUME NEW t \in Tree, NEW d \in Dir, NEW a \in Page,
         Child(t, Other(d), a) \notin {Nil, a}, Child(t, d, Child(t, Other(d), a)) \notin {a, Child(t, Other(d), a)},
         Parent(t, a) \notin {a, Child(t, Other(d), a)}
  PROVE  Rotated(t, rotate(t, d, a), d, a)
<1>. DEFINE o == Other(d)
            c == Child(t, o, a)
            i == Child(t, d, c)
            p == Parent(t, a)
            t1 == SetChild(t, o, a, i)
            t2 == SetParent(t1, i, a)
            t3 == SetParent(t2, c, p)
            t4 == Relink(t3, a, c)
            t5 == SetChild(t4, d, c, a)
            t6 == SetParent(t5, a, c)
<1>1. o \in Dir /\ o # d /\ c \in Link /\ i \in Link /\ p \in Link /\ a \in Link /\ a # Nil
      /\ c # Nil /\ c # a /\ i # a /\ i # c /\ p # a /\ p # c
  BY Directions, Reads, Constants
<1>2. rotate(t, d, a) = t6
  <2>1. rotate(t, d, a) = IF a = Nil \/ c = Nil THEN Crash(t) ELSE t6
    BY DEF rotate
  <2>. HIDE DEF c, t6
  <2>. QED
    BY <1>1, <2>1
<1>s. SideOf(t, a) = IF a = Child(t, "left", p) THEN "left" ELSE "right"
  BY DEF SideOf
<1>r. Rotated(t, t6, d, a) <=>
        /\ t6 \in Tree /\ t6.crashed = t.crashed
        /\ t6.root = IF p = Nil THEN c ELSE t.root
        /\ \A x \in Link : Parent(t6, x) = IF x = a THEN c ELSE IF x = c THEN p
                                          ELSE IF x = i /\ x # Nil THEN a ELSE Parent(t, x)
        /\ \A x \in Link, e \in Dir :
              Child(t6, e, x) = IF x = a /\ e = o THEN i ELSE IF x = c /\ e = d THEN a
                               ELSE IF x # Nil /\ x = p /\ e = SideOf(t, a) THEN c ELSE Child(t, e, x)
        /\ \A x \in Link : Color(t6, x) = Color(t, x)
  <2>. HIDE DEF t6
  <2>. QED
    BY DEF Rotated
<1>. HIDE DEF o, c, i, p
<1>3. ChildSet(t, t1, o, a, i)
  BY <1>1, SetsChild
<1>. HIDE DEF t1
<1>4. t1 \in Tree
  BY <1>3 DEF ChildSet
<1>5. ParentSet(t1, t2, i, a)
  BY <1>1, <1>4, SetsParent
<1>. HIDE DEF t2
<1>6. t2 \in Tree
  BY <1>5 DEF ParentSet
<1>7. ParentSet(t2, t3, c, p)
  BY <1>1, <1>6, SetsParent
<1>. HIDE DEF t3
<1>8. t3 \in Tree
  BY <1>7 DEF ParentSet
<1>9. Relinked(t3, t4, a, c)
  BY <1>1, <1>8, Relinks
<1>. HIDE DEF t4
<1>10. t4 \in Tree
  BY <1>9 DEF Relinked
<1>11. ChildSet(t4, t5, d, c, a)
  BY <1>1, <1>10, SetsChild
<1>. HIDE DEF t5
<1>12. t5 \in Tree
  BY <1>11 DEF ChildSet
<1>13. ParentSet(t5, t6, a, c)
  BY <1>1, <1>12, SetsParent
<1>. HIDE DEF t6
<1>14. Parent(t3, a) = p
  BY <1>1, <1>3, <1>5, <1>7 DEF ChildSet, ParentSet, p
<1>15. SideOf(t3, a) = SideOf(t, a)
  <2>1. Child(t3, "left", p) = Child(t, "left", p)
    BY <1>1, <1>3, <1>5, <1>7, Directions DEF ChildSet, ParentSet
  <2>. QED
    BY <1>14, <2>1, <1>s DEF SideOf
<1>16. /\ t6 \in Tree /\ t6.crashed = t.crashed
       /\ t6.root = IF p = Nil THEN c ELSE t.root
       /\ \A x \in Link : Color(t6, x) = Color(t, x)
  BY <1>3, <1>5, <1>7, <1>9, <1>11, <1>13, <1>14 DEF ChildSet, ParentSet, Relinked
<1>17. \A x \in Link : Parent(t6, x) = IF x = a THEN c ELSE IF x = c THEN p
                                       ELSE IF x = i /\ x # Nil THEN a ELSE Parent(t, x)
  BY <1>1, <1>3, <1>5, <1>7, <1>9, <1>11, <1>13 DEF ChildSet, ParentSet, Relinked
<1>18. ASSUME NEW x \in Link, NEW e \in Dir
       PROVE  Child(t6, e, x) = IF x = a /\ e = o THEN i ELSE IF x = c /\ e = d THEN a
                               ELSE IF x # Nil /\ x = p /\ e = SideOf(t, a) THEN c ELSE Child(t, e, x)
  <2>1. Child(t6, e, x) = IF e = d /\ x = c THEN a ELSE Child(t4, e, x)
    BY <1>1, <1>11, <1>13 DEF ChildSet, ParentSet
  <2>2. Child(t4, e, x) = IF x # Nil /\ x = p /\ e = SideOf(t, a) THEN c ELSE Child(t3, e, x)
    BY <1>9, <1>14, <1>15 DEF Relinked
  <2>3. Child(t3, e, x) = IF e = o /\ x = a THEN i ELSE Child(t, e, x)
    BY <1>1, <1>3, <1>5, <1>7 DEF ChildSet, ParentSet
  <2>. QED
    BY <1>1, <2>1, <2>2, <2>3
<1>. QED
  BY <1>2, <1>r, <1>16, <1>17, <1>18

-----------------------------------------------------------------------------
(* The shape of the tree *)

Bounds == [Dir -> [Page -> 0 .. (NPages + 1)]]

\* x is on side d of a.
Beside(d, x, a) == IF d = "left" THEN x < a ELSE a < x

\* The nodes of t are the pages N, and what is below a node x is between b["left"][x] and b["right"][x].
Shaped(t, N, b) ==
    /\ N \in SUBSET Page /\ b \in Bounds
    /\ t.root \in N \cup {Nil} /\ (N # {} => t.root # Nil) /\ Parent(t, t.root) = Nil
    /\ t.root # Nil => b["left"][t.root] = 0 /\ b["right"][t.root] = NPages + 1
    /\ \A x \in N, d \in Dir : Beside(d, b[d][x], x)
    /\ \A x \in N, d \in Dir : Child(t, d, x) # Nil => /\ Child(t, d, x) \in N
                                                       /\ Parent(t, Child(t, d, x)) = x
                                                       /\ b[d][Child(t, d, x)] = b[d][x]
                                                       /\ b[Other(d)][Child(t, d, x)] = x
    /\ \A x \in N : x # t.root => /\ Parent(t, x) \in N
                                  /\ \E d \in Dir : Child(t, d, Parent(t, x)) = x

LEMMA BesideIs ==
  ASSUME NEW x \in Nat, NEW y \in Nat, NEW z \in Nat, NEW d \in Dir
  PROVE  /\ ~Beside(d, x, x)
         /\ Beside(d, x, y) <=> Beside(Other(d), y, x)
         /\ Beside(d, x, y) /\ Beside(d, y, z) => Beside(d, x, z)
         /\ x # y => Beside(d, x, y) \/ Beside(Other(d), x, y)
         /\ ~(Beside(d, x, y) /\ Beside(Other(d), x, y))
BY Directions DEF Beside

LEMMA BoundIs ==
  ASSUME NEW b \in Bounds, NEW d \in Dir, NEW x \in Page
  PROVE  b[d][x] \in Nat /\ b[d][x] <= NPages + 1
BY Constants DEF Bounds

\* A shape depends only on the links.
LEMMA SameShape ==
  ASSUME NEW t, NEW u, NEW N, NEW b, Shaped(t, N, b), SameLinks(t, u)
  PROVE  Shaped(u, N, b)
<1>1. N \subseteq Link /\ t.root \in Link
  BY Constants DEF Shaped
<1>2. (\A x \in N : Parent(u, x) = Parent(t, x)) /\ (\A x \in N, d \in Dir : Child(u, d, x) = Child(t, d, x))
      /\ u.root = t.root /\ Parent(u, u.root) = Parent(t, t.root)
  BY <1>1 DEF SameLinks
<1>3. \A x \in N, d \in Dir : Child(u, d, x) # Nil => /\ Child(u, d, x) \in N
                                                       /\ Parent(u, Child(u, d, x)) = x
                                                       /\ b[d][Child(u, d, x)] = b[d][x]
                                                       /\ b[Other(d)][Child(u, d, x)] = x
  BY <1>2 DEF Shaped
<1>4. \A x \in N : x # u.root => /\ Parent(u, x) \in N
                                  /\ \E d \in Dir : Child(u, d, Parent(u, x)) = x
  BY <1>2 DEF Shaped
<1>. QED
  BY <1>2, <1>3, <1>4 DEF Shaped

\* The child of a node
LEMMA ChildFacts ==
  ASSUME NEW t, NEW N, NEW b, Shaped(t, N, b), NEW x \in N, NEW d \in Dir, Child(t, d, x) # Nil
  PROVE  LET y == Child(t, d, x) IN
         /\ y \in N /\ y \in Page /\ x \in Page /\ Parent(t, y) = x /\ y # t.root /\ y # x
         /\ Beside(d, y, x) /\ Beside(d, b[d][x], y)
         /\ b[d][y] = b[d][x] /\ b[Other(d)][y] = x
<1>. DEFINE y == Child(t, d, x)
<1>1. y \in N /\ y \in Page /\ x \in Page /\ Parent(t, y) = x /\ b[d][y] = b[d][x] /\ b[Other(d)][y] = x
      /\ Other(d) \in Dir /\ x \in Nat /\ y \in Nat
  <2>1. N \subseteq Page
    BY DEF Shaped
  <2>2. y \in N /\ Parent(t, y) = x /\ b[d][y] = b[d][x] /\ b[Other(d)][y] = x
    BY DEF Shaped
  <2>. QED
    BY <2>1, <2>2, Constants, Directions
<1>2. Beside(Other(d), x, y) /\ Beside(d, b[d][x], y)
  BY <1>1 DEF Shaped
<1>3. Beside(d, y, x) /\ y # x
  BY <1>1, <1>2, BesideIs
<1>4. y # t.root
  BY <1>1, Constants DEF Shaped
<1>. QED
  BY <1>1, <1>2, <1>3, <1>4

\* The parent of a node
LEMMA ParentFacts ==
  ASSUME NEW t \in Tree, NEW N, NEW b, Shaped(t, N, b), NEW y \in N, Parent(t, y) # Nil \/ y # t.root
  PROVE  LET p == Parent(t, y)
             d == SideOf(t, y)
         IN  /\ p \in N /\ p # Nil /\ p # y /\ y # t.root /\ d \in Dir /\ Child(t, d, p) = y /\ y # Nil
             /\ \A e \in Dir : Child(t, e, p) = y => e = d
<1>. DEFINE p == Parent(t, y)
<1>1. y # t.root
  BY DEF Shaped
<1>2. p \in N /\ y # Nil /\ p # Nil /\ p \in Nat /\ y \in Nat
  BY <1>1, Constants DEF Shaped
<1>3. PICK d \in Dir : Child(t, d, p) = y
  BY <1>1 DEF Shaped
<1>4. Beside(d, y, p)
  BY <1>2, <1>3, ChildFacts
<1>5. ASSUME NEW e \in Dir, Child(t, e, p) = y PROVE e = d
  <2>1. Beside(e, y, p)
    BY <1>2, <1>5, ChildFacts
  <2>. QED
    BY <1>2, <1>4, <2>1, BesideIs, Directions
<1>6. SideOf(t, y) = d
  BY <1>3, <1>5, Directions DEF SideOf
<1>7. p # y
  BY <1>2, <1>4, BesideIs
<1>. QED
  BY <1>1, <1>2, <1>3, <1>5, <1>6, <1>7

\* No node is the child of two nodes, or on two sides.
LEMMA OneParent ==
  ASSUME NEW t \in Tree, NEW N, NEW b, Shaped(t, N, b), NEW x \in N, NEW d \in Dir, Child(t, d, x) # Nil
  PROVE  Parent(t, Child(t, d, x)) = x /\ SideOf(t, Child(t, d, x)) = d
<1>. DEFINE y == Child(t, d, x)
<1>1. y \in N /\ Parent(t, y) = x /\ y # t.root
  BY ChildFacts
<1>2. \A e \in Dir : Child(t, e, Parent(t, y)) = y => e = SideOf(t, y)
  BY <1>1, ParentFacts
<1>. QED
  BY <1>1, <1>2

\* A rotation changes one bound of each of the two nodes it turns.
Turned(b, d, a, c) ==
    [e \in Dir |-> [x \in Page |-> IF e = d /\ x = c THEN b[d][a] ELSE IF e = Other(d) /\ x = a THEN c ELSE b[e][x]]]

LEMMA TurnedIs ==
  ASSUME NEW b \in Bounds, NEW d \in Dir, NEW a \in Page, NEW c \in Page
  PROVE  /\ Turned(b, d, a, c) \in Bounds
         /\ \A e \in Dir, x \in Page :
               Turned(b, d, a, c)[e][x] = IF e = d /\ x = c THEN b[d][a]
                                          ELSE IF e = Other(d) /\ x = a THEN c ELSE b[e][x]
<1>. DEFINE T == Turned(b, d, a, c)
<1>1. \A e \in Dir, x \in Page : T[e][x] = IF e = d /\ x = c THEN b[d][a] ELSE IF e = Other(d) /\ x = a THEN c ELSE b[e][x]
  BY DEF Turned
<1>2. c \in 0 .. (NPages + 1) /\ (\A e \in Dir, x \in Page : b[e][x] \in 0 .. (NPages + 1))
  BY Constants DEF Bounds
<1>3. \A e \in Dir, x \in Page : (IF e = d /\ x = c THEN b[d][a] ELSE IF e = Other(d) /\ x = a THEN c ELSE b[e][x]) \in 0 .. (NPages + 1)
  BY <1>2
<1>4. T \in Bounds
  BY <1>3 DEF Turned, Bounds
<1>. QED
  BY <1>1, <1>4

LEMMA RotateShaped ==
  ASSUME NEW t \in Tree, NEW N, NEW b, Shaped(t, N, b), NEW d \in Dir, NEW a \in N, Child(t, Other(d), a) # Nil
  PROVE  /\ Rotated(t, rotate(t, d, a), d, a)
         /\ Shaped(rotate(t, d, a), N, Turned(b, d, a, Child(t, Other(d), a)))
<1>. DEFINE o == Other(d)
            c == Child(t, o, a)
            i == Child(t, d, c)
            p == Parent(t, a)
            s == SideOf(t, a)
            u == rotate(t, d, a)
            b2 == Turned(b, d, a, c)
<1>1. o \in Dir /\ o # d /\ Other(o) = d /\ N \subseteq Page /\ b \in Bounds /\ N \subseteq Link /\ Nil \notin N
      /\ N \subseteq Nat
  BY Directions, Constants DEF Shaped
<1>2. c \in N /\ c # a /\ Parent(t, c) = a /\ Beside(o, c, a) /\ b[o][c] = b[o][a] /\ b[d][c] = a /\ c # t.root
      /\ Beside(d, a, c)
  <2>1. c \in N /\ c # a /\ Parent(t, c) = a /\ Beside(o, c, a) /\ b[o][c] = b[o][a] /\ b[Other(o)][c] = a /\ c # t.root
    BY <1>1, ChildFacts
  <2>2. Beside(Other(o), a, c)
    BY <1>1, <2>1, BesideIs
  <2>. QED
    BY <1>1, <2>1, <2>2
<1>3. i # Nil => i \in N /\ i # c /\ i # a /\ Parent(t, i) = c /\ b[d][i] = a /\ b[o][i] = c /\ i # t.root
  <2>. SUFFICES ASSUME i # Nil PROVE i \in N /\ i # c /\ i # a /\ Parent(t, i) = c /\ b[d][i] = a /\ b[o][i] = c /\ i # t.root
    OBVIOUS
  <2>1. i \in N /\ i # c /\ Parent(t, i) = c /\ b[d][i] = b[d][c] /\ b[o][i] = c /\ i # t.root /\ Beside(d, b[d][c], i)
    BY <1>2, ChildFacts
  <2>2. i # a
    BY <1>1, <1>2, <2>1, BesideIs
  <2>. QED
    BY <1>2, <2>1, <2>2
<1>4. p # Nil => /\ p \in N /\ a # t.root /\ s \in Dir /\ Child(t, s, p) = a /\ p # a
                 /\ (\A e \in Dir : Child(t, e, p) = a => e = s) /\ b[s][a] = b[s][p] /\ b[Other(s)][a] = p
  <2>. SUFFICES ASSUME p # Nil
                PROVE  /\ p \in N /\ a # t.root /\ s \in Dir /\ Child(t, s, p) = a /\ p # a
                       /\ (\A e \in Dir : Child(t, e, p) = a => e = s) /\ b[s][a] = b[s][p] /\ b[Other(s)][a] = p
    OBVIOUS
  <2>1. /\ p \in N /\ a # t.root /\ s \in Dir /\ Child(t, s, p) = a /\ p # a /\ a # Nil
        /\ (\A e \in Dir : Child(t, e, p) = a => e = s)
    BY ParentFacts
  <2>2. b[s][a] = b[s][p] /\ b[Other(s)][a] = p
    BY <2>1, ChildFacts
  <2>. QED
    BY <2>1, <2>2
<1>5. p = Nil <=> a = t.root
  BY <1>1, <1>4 DEF Shaped
<1>6. p # c
  <2>. SUFFICES ASSUME p = c PROVE FALSE
    OBVIOUS
  <2>1. p # Nil /\ Beside(d, b[d][a], a) /\ a \in Nat /\ c \in Nat
    BY <1>1, <1>2 DEF Shaped
  <2>2. CASE s = d
    BY <1>2, <1>4, <2>1, <2>2, BesideIs
  <2>3. CASE s = o
    BY <1>1, <1>2, <1>4, <2>1, <2>3, BesideIs
  <2>. QED
    BY <1>4, <2>1, <2>2, <2>3, Directions
<1>7. Rotated(t, u, d, a)
  <2>1. a \in Page /\ c \notin {Nil, a} /\ i \notin {a, c} /\ p \notin {a, c}
    BY <1>1, <1>2, <1>3, <1>4, <1>6
  <2>. QED
    BY <2>1, RotateLinks
<1>8. /\ u \in Tree /\ u.root = IF p = Nil THEN c ELSE t.root
      /\ \A x \in Link : Parent(u, x) = IF x = a THEN c ELSE IF x = c THEN p
                                          ELSE IF x = i /\ x # Nil THEN a ELSE Parent(t, x)
      /\ \A x \in Link, e \in Dir :
              Child(u, e, x) = IF x = a /\ e = o THEN i ELSE IF x = c /\ e = d THEN a
                               ELSE IF x # Nil /\ x = p /\ e = s THEN c ELSE Child(t, e, x)
  BY <1>7 DEF Rotated
<1>9. /\ b2 \in Bounds
      /\ \A e \in Dir, x \in Page : b2[e][x] = IF e = d /\ x = c THEN b[d][a] ELSE IF e = o /\ x = a THEN c ELSE b[e][x]
  <2>1. a \in Page /\ c \in Page
    BY <1>1, <1>2
  <2>. HIDE DEF c
  <2>2. b2 \in Bounds
    BY <1>1, <2>1, TurnedIs
  <2>3. \A e \in Dir, x \in Page : b2[e][x] = IF e = d /\ x = c THEN b[d][a] ELSE IF e = o /\ x = a THEN c ELSE b[e][x]
    BY <2>1 DEF Turned
  <2>. QED
    BY <2>2, <2>3
<1>. HIDE DEF o, c, i, p, s, u, b2
<1>10. /\ u.root \in N \cup {Nil} /\ (N # {} => u.root # Nil) /\ Parent(u, u.root) = Nil
       /\ u.root # Nil => b2["left"][u.root] = 0 /\ b2["right"][u.root] = NPages + 1
  <2>1. CASE p = Nil
    <3>1. u.root = c /\ Parent(u, c) = p
      BY <1>1, <1>2, <1>8, <2>1
    <3>2. \A e \in Dir : b2[e][c] = b[e][a]
      <4>1. b2[d][c] = b[d][a]
        BY <1>1, <1>2, <1>9
      <4>2. b2[o][c] = b[o][a]
        BY <1>1, <1>2, <1>9
      <4>. QED
        BY <1>1, <4>1, <4>2, Directions
    <3>. QED
      BY <1>1, <1>2, <1>5, <2>1, <3>1, <3>2, Directions DEF Shaped
  <2>2. CASE p # Nil
    <3>1. u.root = t.root /\ t.root # a /\ t.root # c /\ (t.root = i => i = Nil)
      BY <1>2, <1>3, <1>4, <1>8, <2>2
    <3>2. t.root \in N \cup {Nil} /\ (N # {} => t.root # Nil) /\ Parent(t, t.root) = Nil
      BY DEF Shaped
    <3>3. Parent(u, t.root) = Nil
      BY <1>1, <1>8, <3>1, <3>2, Constants
    <3>4. t.root # Nil => b2["left"][t.root] = 0 /\ b2["right"][t.root] = NPages + 1
      <4>1. t.root # Nil => b["left"][t.root] = 0 /\ b["right"][t.root] = NPages + 1
        BY DEF Shaped
      <4>2. t.root # Nil => \A e \in Dir : b2[e][t.root] = b[e][t.root]
        BY <1>1, <1>9, <3>1, <3>2
      <4>. QED
        BY <4>1, <4>2, Directions
    <3>. QED
      BY <3>1, <3>2, <3>3, <3>4
  <2>. QED
    BY <2>1, <2>2
<1>11. ASSUME NEW x \in N, NEW e \in Dir PROVE Beside(e, b2[e][x], x)
  <2>1. Beside(e, b[e][x], x) /\ Beside(d, b[d][a], a)
    BY DEF Shaped
  <2>2. CASE e = d /\ x = c
    <3>1. b2[e][x] = b[d][a] /\ b[d][a] \in Nat
      BY <1>1, <1>9, <2>2, BoundIs
    <3>. QED
      BY <1>1, <1>2, <2>1, <2>2, <3>1, BesideIs
  <2>3. CASE e = o /\ x = a
    BY <1>1, <1>2, <1>9, <2>3
  <2>4. CASE ~(e = d /\ x = c) /\ ~(e = o /\ x = a)
    BY <1>1, <1>9, <2>1, <2>4
  <2>. QED
    BY <2>2, <2>3, <2>4
<1>12. ASSUME NEW x \in N, NEW e \in Dir, Child(u, e, x) # Nil
       PROVE  /\ Child(u, e, x) \in N /\ Parent(u, Child(u, e, x)) = x
              /\ b2[e][Child(u, e, x)] = b2[e][x] /\ b2[Other(e)][Child(u, e, x)] = x
  <2>1. CASE x = a /\ e = o
    <3>1. Child(u, e, x) = i /\ i # Nil
      BY <1>1, <1>8, <1>12, <2>1
    <3>. QED
      BY <1>1, <1>2, <1>3, <1>8, <1>9, <2>1, <3>1
  <2>2. CASE x = c /\ e = d
    <3>1. Child(u, e, x) = a
      BY <1>1, <1>2, <1>8, <2>2
    <3>2. Parent(u, a) = c
      BY <1>1, <1>8
    <3>3. b2[d][a] = b[d][a] /\ b2[o][a] = c /\ b2[d][c] = b[d][a]
      BY <1>1, <1>2, <1>9
    <3>. QED
      BY <2>2, <3>1, <3>2, <3>3 DEF o
  <2>3. CASE x = p /\ e = s
    <3>1. Child(u, e, x) = c
      BY <1>1, <1>4, <1>6, <1>8, <2>3
    <3>2. Parent(u, c) = x
      BY <1>1, <1>2, <1>8, <2>3
    <3>3. p # Nil /\ Other(e) \in Dir /\ (Other(e) = d \/ Other(e) = o) /\ (e = d \/ e = o)
      BY <1>1, <2>3, Directions
    <3>4. b2[e][c] = b[e][a] /\ b2[Other(e)][c] = b[Other(e)][a]
      BY <1>1, <1>2, <1>9, <3>3
    <3>5. b2[e][x] = b[e][x]
      BY <1>1, <1>4, <1>6, <1>9, <2>3, <3>3
    <3>. QED
      BY <1>2, <1>4, <2>3, <3>1, <3>2, <3>3, <3>4, <3>5
  <2>4. CASE ~(x = a /\ e = o) /\ ~(x = c /\ e = d) /\ ~(x = p /\ e = s)
    <3>. DEFINE y == Child(t, e, x)
    <3>1. Child(u, e, x) = y /\ y # Nil
      BY <1>1, <1>8, <1>12, <2>4
    <3>2. y \in N /\ Parent(t, y) = x /\ b[e][y] = b[e][x] /\ b[Other(e)][y] = x /\ SideOf(t, y) = e
      BY <3>1, ChildFacts, OneParent
    <3>. HIDE DEF y
    <3>3. y # a
      BY <2>4, <3>2 DEF p, s
    <3>4. y # c
      <4>1. SideOf(t, c) = o
        BY <1>1, <1>2, OneParent DEF c
      <4>. QED
        BY <1>2, <2>4, <3>2, <4>1
    <3>5. y # i
      <4>1. i # Nil => SideOf(t, i) = d
        BY <1>2, OneParent DEF i
      <4>. QED
        BY <1>3, <2>4, <3>1, <3>2, <4>1
    <3>6. Parent(u, y) = x
      BY <1>1, <1>8, <3>2, <3>3, <3>4, <3>5
    <3>7. b2[e][y] = b[e][y] /\ b2[Other(e)][y] = b[Other(e)][y]
      BY <1>1, <1>9, <3>2, <3>3, <3>4, Directions
    <3>8. b2[e][x] = b[e][x]
      <4>1. CASE x = c /\ e = o
        BY <1>1, <1>2, <1>9, <4>1
      <4>2. CASE x = a /\ e = d
        BY <1>1, <1>9, <4>2
      <4>. QED
        BY <1>1, <1>9, <2>4, <4>1, <4>2, Directions
    <3>. QED
      BY <3>1, <3>2, <3>6, <3>7, <3>8
  <2>. QED
    BY <2>1, <2>2, <2>3, <2>4
<1>13. ASSUME NEW x \in N, x # u.root
       PROVE  Parent(u, x) \in N /\ \E e \in Dir : Child(u, e, Parent(u, x)) = x
  <2>1. CASE x = a
    <3>1. Parent(u, x) = c /\ Child(u, d, c) = a
      BY <1>1, <1>2, <1>8, <2>1
    <3>. QED
      BY <1>2, <2>1, <3>1
  <2>2. CASE x = c
    <3>1. p # Nil /\ Parent(u, x) = p
      BY <1>1, <1>2, <1>8, <1>13, <2>2
    <3>2. Child(u, s, p) = c
      BY <1>1, <1>4, <1>6, <1>8, <3>1
    <3>. QED
      BY <1>4, <2>2, <3>1, <3>2
  <2>3. CASE x = i /\ x # a /\ x # c
    <3>1. Parent(u, x) = a /\ Child(u, o, a) = i
      BY <1>1, <1>8, <2>3
    <3>. QED
      BY <1>1, <2>3, <3>1
  <2>4. CASE x # a /\ x # c /\ x # i
    <3>1. x # t.root
      <4>1. CASE p = Nil
        BY <1>5, <2>4, <4>1
      <4>2. CASE p # Nil
        BY <1>8, <1>13, <4>2
      <4>. QED
        BY <4>1, <4>2
    <3>2. PICK e \in Dir : Child(t, e, Parent(t, x)) = x
      BY <3>1 DEF Shaped
    <3>3. Parent(t, x) \in N /\ Parent(u, x) = Parent(t, x)
      BY <1>1, <1>8, <2>4, <3>1 DEF Shaped
    <3>4. Child(u, e, Parent(t, x)) = x
      <4>1. ~(Parent(t, x) = a /\ e = o) /\ ~(Parent(t, x) = c /\ e = d)
        BY <2>4, <3>2 DEF c, i
      <4>2. ~(Parent(t, x) = p /\ p # Nil /\ e = s)
        BY <1>4, <2>4, <3>2
      <4>. QED
        BY <1>1, <1>8, <3>2, <3>3, <4>1, <4>2
    <3>. QED
      BY <3>3, <3>4
  <2>. QED
    BY <2>1, <2>2, <2>3, <2>4
<1>14. Shaped(u, N, b2)
  BY <1>1, <1>9, <1>10, <1>11, <1>12, <1>13 DEF Shaped
<1>. QED
  BY <1>7, <1>14 DEF u, b2, c, o

-----------------------------------------------------------------------------
(* What is below a node *)

ClosedDown(t, T) == \A z \in T, d \in Dir : Child(t, d, z) # Nil => Child(t, d, z) \in T

Below(t, x) ==
    IF x = Nil THEN {} ELSE {y \in Page : \A T \in SUBSET Page : x \in T /\ ClosedDown(t, T) => y \in T}

LEMMA BelowLeast ==
  ASSUME NEW t, NEW x \in Page, NEW T \in SUBSET Page, x \in T, ClosedDown(t, T)
  PROVE  Below(t, x) \subseteq T
BY Constants DEF Below

LEMMA BelowClosed ==
  ASSUME NEW t \in Tree, NEW x \in Page
  PROVE  x \in Below(t, x) /\ ClosedDown(t, Below(t, x)) /\ Below(t, x) \subseteq Page
<1>1. x \in Below(t, x) /\ Below(t, x) \subseteq Page
  BY Constants DEF Below
<1>2. ASSUME NEW z \in Below(t, x), NEW d \in Dir, Child(t, d, z) # Nil
      PROVE  Child(t, d, z) \in Below(t, x)
  <2>1. Child(t, d, z) \in Page
    BY <1>1, <1>2, Reads, Constants
  <2>2. ASSUME NEW T \in SUBSET Page, x \in T, ClosedDown(t, T) PROVE Child(t, d, z) \in T
    <3>1. z \in T
      BY <2>2, BelowLeast
    <3>. QED
      BY <1>2, <2>2, <3>1 DEF ClosedDown
  <2>. QED
    BY <2>1, <2>2, Constants DEF Below
<1>. QED
  BY <1>1, <1>2 DEF ClosedDown

LEMMA BelowSplits ==
  ASSUME NEW t \in Tree, NEW x \in Page
  PROVE  Below(t, x) = {x} \cup Below(t, Child(t, "left", x)) \cup Below(t, Child(t, "right", x))
<1>. DEFINE D(d) == Below(t, Child(t, d, x))
            T == {x} \cup D("left") \cup D("right")
<1>1. \A d \in Dir : Child(t, d, x) \in Link
  BY Reads, Constants
<1>2. ASSUME NEW d \in Dir PROVE D(d) \subseteq Page /\ D(d) \subseteq Below(t, x) /\ ClosedDown(t, D(d))
  <2>1. CASE Child(t, d, x) = Nil
    BY <2>1 DEF Below, ClosedDown
  <2>2. CASE Child(t, d, x) # Nil
    <3>1. Child(t, d, x) \in Page
      BY <1>1, <2>2, Constants
    <3>2. Child(t, d, x) \in Below(t, x) /\ ClosedDown(t, Below(t, x)) /\ Below(t, x) \in SUBSET Page
      BY <2>2, BelowClosed DEF ClosedDown
    <3>. QED
      BY <3>1, <3>2, BelowLeast, BelowClosed
  <2>. QED
    BY <2>1, <2>2
<1>3. "left" \in Dir /\ "right" \in Dir
  BY Directions
<1>4. T \in SUBSET Page /\ x \in T
  BY <1>2, <1>3
<1>5. ASSUME NEW d \in Dir, Child(t, d, x) # Nil PROVE Child(t, d, x) \in D(d)
  BY <1>1, <1>5, Constants, BelowClosed
<1>6. ClosedDown(t, T)
  <2>. SUFFICES ASSUME NEW z \in T, NEW d \in Dir, Child(t, d, z) # Nil PROVE Child(t, d, z) \in T
    BY DEF ClosedDown
  <2>. HIDE DEF D
  <2>1. CASE z = x
    BY <1>5, <2>1, Directions
  <2>2. CASE z \in D("left")
    BY <1>2, <1>3, <2>2 DEF ClosedDown
  <2>3. CASE z \in D("right")
    BY <1>2, <1>3, <2>3 DEF ClosedDown
  <2>. QED
    BY <2>1, <2>2, <2>3
<1>7. Below(t, x) \subseteq T
  BY <1>4, <1>6, BelowLeast
<1>8. T \subseteq Below(t, x)
  BY <1>2, <1>3, BelowClosed
<1>. QED
  BY <1>7, <1>8

\* y is within the bounds of x.
Inside(b, x, y) == \A e \in Dir : Beside(e, b[e][x], y)

LEMMA ChildInside ==
  ASSUME NEW t, NEW N, NEW b, Shaped(t, N, b), NEW x \in N, NEW d \in Dir, Child(t, d, x) # Nil, NEW y \in Nat
  PROVE  Inside(b, Child(t, d, x), y) <=> Inside(b, x, y) /\ Beside(d, y, x)
<1>. DEFINE c == Child(t, d, x)
            o == Other(d)
<1>1. o \in Dir /\ o # d /\ Other(o) = d /\ x \in Page /\ x \in Nat /\ b \in Bounds
  BY Directions, Constants DEF Shaped
<1>2. b[d][c] = b[d][x] /\ b[o][c] = x /\ Beside(o, b[o][x], x) /\ b[o][x] \in Nat
  BY <1>1, ChildFacts, BoundIs DEF Shaped
<1>3. \A z : Inside(b, z, y) <=> Beside(d, b[d][z], y) /\ Beside(o, b[o][z], y)
  BY <1>1, Directions DEF Inside
<1>. HIDE DEF c, o
<1>4. Beside(o, x, y) <=> Beside(d, y, x)
  BY <1>1, BesideIs
<1>5. Beside(o, x, y) => Beside(o, b[o][x], y)
  BY <1>1, <1>2, BesideIs
<1>. QED
  BY <1>2, <1>3, <1>4, <1>5 DEF c

LEMMA InsideSelf ==
  ASSUME NEW t, NEW N, NEW b, Shaped(t, N, b), NEW x \in N
  PROVE  Inside(b, x, x)
BY DEF Shaped, Inside

LEMMA NodesClosed ==
  ASSUME NEW t, NEW N, NEW b, Shaped(t, N, b)
  PROVE  ClosedDown(t, N) /\ N \in SUBSET Page
BY DEF Shaped, ClosedDown

\* What is below x is inside its bounds, and x is not inside the bounds of what is below.
LEMMA BelowInside ==
  ASSUME NEW t \in Tree, NEW N, NEW b, Shaped(t, N, b), NEW x \in N, NEW w \in Below(t, x)
  PROVE  w \in N /\ (\A y \in Nat : Inside(b, w, y) => Inside(b, x, y)) /\ (w = x \/ ~Inside(b, w, x))
<1>. DEFINE T == {z \in N : (\A y \in Nat : Inside(b, z, y) => Inside(b, x, y)) /\ (z = x \/ ~Inside(b, z, x))}
<1>1. T \in SUBSET Page /\ x \in T /\ x \in Page /\ N \subseteq Nat
  BY Constants DEF Shaped
<1>2. ASSUME NEW z \in T, NEW d \in Dir, Child(t, d, z) # Nil PROVE Child(t, d, z) \in T
  <2>. DEFINE c == Child(t, d, z)
  <2>1. c \in N
    BY <1>2, ChildFacts
  <2>2. \A y \in Nat : Inside(b, c, y) <=> Inside(b, z, y) /\ Beside(d, y, z)
    BY <1>2, ChildInside
  <2>3. ~Inside(b, c, z) /\ z \in Nat /\ x \in Nat
    BY <1>1, <2>2, BesideIs
  <2>. HIDE DEF c
  <2>. QED
    BY <2>1, <2>2, <2>3 DEF c
<1>3. ClosedDown(t, T)
  BY <1>2 DEF ClosedDown
<1>4. w \in T
  <2>. HIDE DEF T
  <2>. QED
    BY <1>1, <1>3, BelowLeast
<1>. QED
  BY <1>4

Width(b, x) == b["right"][x] - b["left"][x]

LEMMA WidthIs ==
  ASSUME NEW t, NEW N, NEW b, Shaped(t, N, b), NEW x \in N
  PROVE  Width(b, x) \in Nat /\ Width(b, x) <= NPages + 1
<1>1. Beside("left", b["left"][x], x) /\ Beside("right", b["right"][x], x)
  BY Directions DEF Shaped
<1>2. x \in Page /\ b["left"][x] \in Nat /\ b["right"][x] \in Nat /\ b["right"][x] <= NPages + 1
  BY BoundIs, Directions DEF Shaped
<1>. QED
  BY <1>1, <1>2, Constants DEF Width, Beside

LEMMA ChildNarrower ==
  ASSUME NEW t, NEW N, NEW b, Shaped(t, N, b), NEW x \in N, NEW d \in Dir, Child(t, d, x) # Nil
  PROVE  Width(b, Child(t, d, x)) < Width(b, x)
<1>. DEFINE c == Child(t, d, x)
<1>1. x \in Page /\ b["left"][x] \in Nat /\ b["right"][x] \in Nat /\ x \in Nat
  BY BoundIs, Directions, Constants DEF Shaped
<1>2. Beside("left", b["left"][x], x) /\ Beside("right", b["right"][x], x)
  BY Directions DEF Shaped
<1>3. b[d][c] = b[d][x] /\ b[Other(d)][c] = x
  BY ChildFacts
<1>. HIDE DEF c
<1>4. CASE d = "left"
  <2>1. b["left"][c] = b["left"][x] /\ b["right"][c] = x
    BY <1>3, <1>4 DEF Other
  <2>. QED
    BY <1>1, <1>2, <2>1 DEF Width, Beside, c
<1>5. CASE d = "right"
  <2>1. b["right"][c] = b["right"][x] /\ b["left"][c] = x
    BY <1>3, <1>5 DEF Other
  <2>. QED
    BY <1>1, <1>2, <2>1 DEF Width, Beside, c
<1>. QED
  BY <1>4, <1>5, Directions

LEMMA Narrowest ==
  ASSUME NEW t, NEW N, NEW b, Shaped(t, N, b), NEW S \in SUBSET N, S # {}
  PROVE  \E x \in S : \A y \in S : Width(b, x) <= Width(b, y)
<1>. DEFINE m == [x \in S |-> Width(b, x)]
<1>1. m \in [S -> Nat]
  BY WidthIs
<1>2. \A x \in S : m[x] = Width(b, x)
  OBVIOUS
<1>. HIDE DEF m
<1>3. PICK x \in S : \A y \in S : m[x] <= m[y]
  BY <1>1, Extreme
<1>. QED
  BY <1>2, <1>3

LEMMA Widest ==
  ASSUME NEW t, NEW N, NEW b, Shaped(t, N, b), NEW S \in SUBSET N, S # {}
  PROVE  \E x \in S : \A y \in S : Width(b, y) <= Width(b, x)
<1>. DEFINE m == [x \in S |-> NPages + 1 - Width(b, x)]
<1>0. \A x \in S : Width(b, x) \in Nat /\ Width(b, x) <= NPages + 1
  BY WidthIs
<1>1. m \in [S -> Nat]
  BY <1>0, Constants
<1>2. \A x \in S : m[x] = NPages + 1 - Width(b, x)
  OBVIOUS
<1>. HIDE DEF m
<1>3. PICK x \in S : \A y \in S : m[x] <= m[y]
  BY <1>1, Extreme
<1>4. \A y \in S : NPages + 1 - Width(b, x) <= NPages + 1 - Width(b, y)
  BY <1>2, <1>3
<1>. QED
  BY <1>0, <1>3, <1>4, Constants

\* Every node can be reached from the root.
LEMMA BelowRoot ==
  ASSUME NEW t \in Tree, NEW N, NEW b, Shaped(t, N, b), t.root # Nil
  PROVE  N = Below(t, t.root)
<1>1. t.root \in N /\ t.root \in Page
  BY DEF Shaped
<1>2. Below(t, t.root) \subseteq N
  BY <1>1, BelowInside
<1>3. ASSUME N \ Below(t, t.root) # {} PROVE FALSE
  <2>1. PICK x \in N \ Below(t, t.root) : \A y \in N \ Below(t, t.root) : Width(b, y) <= Width(b, x)
    <3>. DEFINE S == N \ Below(t, t.root)
    <3>1. S \in SUBSET N /\ S # {}
      BY <1>3
    <3>. HIDE DEF S
    <3>2. \E x \in S : \A y \in S : Width(b, y) <= Width(b, x)
      BY <3>1, Widest
    <3>. QED
      BY <3>2 DEF S
  <2>2. x # t.root
    BY <1>1, <2>1, BelowClosed
  <2>. DEFINE p == Parent(t, x)
              d == SideOf(t, x)
  <2>3. p \in N /\ d \in Dir /\ Child(t, d, p) = x /\ x # Nil
    BY <2>1, <2>2, ParentFacts
  <2>. HIDE DEF p, d
  <2>4. Width(b, x) < Width(b, p)
    BY <2>3, ChildNarrower
  <2>5. Width(b, x) \in Nat /\ Width(b, p) \in Nat
    BY <2>1, <2>3, WidthIs
  <2>6. p \in Below(t, t.root)
    BY <2>1, <2>3, <2>4, <2>5
  <2>. QED
    BY <1>1, <2>1, <2>3, <2>6, BelowClosed DEF ClosedDown
<1>. QED
  BY <1>2, <1>3

\* Where a child is missing, there is no node between the node and its bound.
LEMMA Gap ==
  ASSUME NEW t \in Tree, NEW N, NEW b, Shaped(t, N, b), NEW w \in N, NEW d \in Dir, Child(t, d, w) = Nil,
         NEW y \in N, Beside(d, b[d][w], y), Beside(d, y, w)
  PROVE  FALSE
<1>. DEFINE o == Other(d)
            G(z) == Beside(d, b[d][w], z) /\ Beside(d, z, w)
            T == {x \in N : w \in Below(t, x) \/ \A z \in Nat : ~(G(z) /\ Inside(b, x, z))}
<1>1. /\ o \in Dir /\ o # d /\ Other(o) = d /\ N \subseteq Page /\ N \subseteq Nat /\ b \in Bounds
      /\ t.root \in N /\ t.root # Nil /\ w \in Page /\ b[d][w] \in Nat /\ b[o][w] \in Nat /\ Beside(o, b[o][w], w)
  <2>1. b \in Bounds /\ N \subseteq Page /\ t.root \in N /\ t.root # Nil /\ o \in Dir
    BY Directions, Constants DEF Shaped
  <2>2. Beside(o, b[o][w], w)
    BY <2>1 DEF Shaped
  <2>. QED
    BY <2>1, <2>2, Directions, Constants, BoundIs
<1>2. ASSUME NEW z \in Nat, G(z) PROVE Inside(b, w, z)
  <2>1. Beside(o, w, z)
    BY <1>1, <1>2, BesideIs
  <2>2. Beside(o, b[o][w], z)
    BY <1>1, <2>1, BesideIs
  <2>. QED
    BY <1>1, <1>2, <2>2, Directions DEF Inside
<1>3. ASSUME NEW x \in N, w \in Below(t, x), G(x) PROVE FALSE
  <2>1. x \in Nat /\ Inside(b, w, x)
    BY <1>1, <1>2, <1>3
  <2>2. w = x
    BY <1>3, <2>1, BelowInside
  <2>. QED
    BY <1>1, <1>3, <2>2, BesideIs
<1>4. ASSUME NEW x \in T, NEW e \in Dir, Child(t, e, x) # Nil PROVE Child(t, e, x) \in T
  <2>. DEFINE c == Child(t, e, x)
              f == Other(e)
  <2>0. x \in N /\ x \in Page /\ f \in Dir /\ x \in Nat
    BY <1>1, Directions
  <2>1. c \in N
    BY <1>4, <2>0, ChildFacts
  <2>2. \A z \in Nat : Inside(b, c, z) <=> Inside(b, x, z) /\ Beside(e, z, x)
    BY <1>4, <2>0, ChildInside
  <2>3. CASE \A z \in Nat : ~(G(z) /\ Inside(b, x, z))
    BY <2>1, <2>2, <2>3
  <2>4. CASE w \in Below(t, x)
    <3>1. w \in {x} \cup Below(t, Child(t, "left", x)) \cup Below(t, Child(t, "right", x))
      BY <2>0, <2>4, BelowSplits
    <3>2. w = x \/ w \in Below(t, c) \/ w \in Below(t, Child(t, f, x))
      <4>1. CASE e = "left"
        BY <3>1, <4>1 DEF Other
      <4>2. CASE e = "right"
        BY <3>1, <4>2 DEF Other
      <4>. QED
        BY <4>1, <4>2, Directions
    <3>3. CASE w = x
      <4>1. e = o
        BY <1>4, <3>3, Directions
      <4>2. \A z \in Nat : ~(Beside(d, z, w) /\ Beside(o, z, w))
        BY <1>1, BesideIs
      <4>. QED
        BY <2>1, <2>2, <3>3, <4>1, <4>2
    <3>4. CASE w \in Below(t, c)
      BY <2>1, <3>4
    <3>5. CASE w \in Below(t, Child(t, f, x))
      <4>1. Child(t, f, x) # Nil
        BY <3>5 DEF Below
      <4>2. Child(t, f, x) \in N
        BY <2>0, <4>1, ChildFacts
      <4>3. \A z \in Nat : Inside(b, Child(t, f, x), z) <=> Inside(b, x, z) /\ Beside(f, z, x)
        BY <2>0, <4>1, ChildInside
      <4>4. \A z \in Nat : Inside(b, w, z) => Inside(b, Child(t, f, x), z)
        BY <3>5, <4>2, BelowInside
      <4>5. \A z \in Nat : ~(Beside(e, z, x) /\ Beside(f, z, x))
        BY <2>0, BesideIs
      <4>6. \A z \in Nat : ~(G(z) /\ Inside(b, c, z))
        <5>. HIDE DEF G, c
        <5>. QED
          BY <1>2, <2>2, <4>3, <4>4, <4>5
      <4>. QED
        BY <2>1, <4>6
    <3>. QED
      BY <3>2, <3>3, <3>4, <3>5
  <2>. QED
    BY <2>3, <2>4
<1>5. t.root \in T /\ T \in SUBSET Page
  BY <1>1, BelowRoot
<1>6. ClosedDown(t, T)
  BY <1>4 DEF ClosedDown
<1>7. y \in T
  <2>1. y \in Below(t, t.root)
    BY <1>1, BelowRoot
  <2>. HIDE DEF T
  <2>. QED
    BY <1>1, <1>5, <1>6, <2>1, BelowLeast
<1>8. w \notin Below(t, y)
  BY <1>3
<1>9. y \in Nat /\ Inside(b, y, y)
  BY <1>1, InsideSelf
<1>. QED
  BY <1>7, <1>8, <1>9

LEMMA NodesEquation ==
  ASSUME NEW t \in Tree
  PROVE  \A x \in Link : Nodes(t, x) = IF x = Nil THEN {}
                                       ELSE {x} \cup Nodes(t, Child(t, "left", x)) \cup Nodes(t, Child(t, "right", x))
<1>. DEFINE P(f) == f = [x \in Link |-> IF x = Nil THEN {}
                                        ELSE {x} \cup f[Child(t, "left", x)] \cup f[Child(t, "right", x)]]
            f0 == [x \in Link |-> Below(t, x)]
            g == CHOOSE f : P(f)
<1>1. \A x \in Link : Child(t, "left", x) \in Link /\ Child(t, "right", x) \in Link
  BY Reads, Directions
<1>2. ASSUME NEW x \in Link
      PROVE  Below(t, x) = IF x = Nil THEN {} ELSE {x} \cup f0[Child(t, "left", x)] \cup f0[Child(t, "right", x)]
  <2>1. CASE x = Nil
    BY <2>1 DEF Below
  <2>2. CASE x # Nil
    BY <1>1, <2>2, BelowSplits, Constants
  <2>. QED
    BY <2>1, <2>2
<1>3. P(f0)
  BY <1>2
<1>4. P(g)
  <2>. HIDE DEF P, f0
  <2>. QED
    BY <1>3
<1>5. \A x : Nodes(t, x) = g[x]
  BY DEF Nodes
<1>. HIDE DEF g
<1>6. \A x \in Link : g[x] = IF x = Nil THEN {} ELSE {x} \cup g[Child(t, "left", x)] \cup g[Child(t, "right", x)]
  BY <1>4
<1>. QED
  BY <1>5, <1>6

\* Nodes are the nodes inside the bounds.
LEMMA NodesInside ==
  ASSUME NEW t \in Tree, NEW N, NEW b, Shaped(t, N, b)
  PROVE  \A x \in N : Nodes(t, x) = {y \in N : Inside(b, x, y)}
<1>. DEFINE I(x) == {y \in N : Inside(b, x, y)}
            S == {x \in N : Nodes(t, x) # I(x)}
<1>. SUFFICES ASSUME S # {} PROVE FALSE
  OBVIOUS
<1>0. N \subseteq Page /\ N \subseteq Nat /\ N \subseteq Link /\ Nil \notin N /\ b \in Bounds
  BY Constants DEF Shaped
<1>1. PICK x \in S : \A y \in S : Width(b, x) <= Width(b, y)
  <2>1. S \in SUBSET N
    OBVIOUS
  <2>. HIDE DEF S
  <2>. QED
    BY <2>1, Narrowest
<1>2. ASSUME NEW d \in Dir PROVE Nodes(t, Child(t, d, x)) = {y \in I(x) : Beside(d, y, x)}
  <2>. DEFINE c == Child(t, d, x)
  <2>0. x \in N /\ Width(b, x) \in Nat
    BY WidthIs
  <2>1. CASE c = Nil
    <3>1. Nodes(t, c) = {}
      BY <2>1, NodesEquation, Constants
    <3>2. ASSUME NEW y \in I(x), Beside(d, y, x) PROVE FALSE
      <4>1. Beside(d, b[d][x], y)
        BY DEF Inside
      <4>. QED
        BY <2>0, <2>1, <3>2, <4>1, Gap
    <3>. QED
      BY <3>1, <3>2
  <2>2. CASE c # Nil
    <3>1. c \in N /\ Width(b, c) < Width(b, x) /\ Width(b, c) \in Nat
      BY <2>0, <2>2, ChildFacts, ChildNarrower, WidthIs
    <3>2. c \notin S
      BY <1>1, <2>0, <3>1
    <3>3. Nodes(t, c) = I(c)
      BY <3>1, <3>2
    <3>4. \A y \in N : Inside(b, c, y) <=> Inside(b, x, y) /\ Beside(d, y, x)
      BY <1>0, <2>0, <2>2, ChildInside
    <3>. QED
      BY <3>3, <3>4
  <2>. QED
    BY <2>1, <2>2
<1>3. Nodes(t, x) = {x} \cup Nodes(t, Child(t, "left", x)) \cup Nodes(t, Child(t, "right", x))
  BY <1>0, NodesEquation
<1>4. x \in I(x)
  BY InsideSelf
<1>5. \A y \in I(x) : y = x \/ Beside("left", y, x) \/ Beside("right", y, x)
  BY <1>0, <1>1 DEF Beside
<1>6. Nodes(t, x) = I(x)
  BY <1>2, <1>3, <1>4, <1>5, Directions
<1>. QED
  BY <1>1, <1>6

LEMMA NodesAre ==
  ASSUME NEW t \in Tree, NEW N, NEW b, Shaped(t, N, b)
  PROVE  Nodes(t, t.root) = N
<1>1. CASE t.root = Nil
  BY <1>1, NodesEquation, Constants DEF Shaped
<1>2. CASE t.root # Nil
  <2>1. t.root \in N /\ b["left"][t.root] = 0 /\ b["right"][t.root] = NPages + 1
    BY <1>2 DEF Shaped
  <2>2. \A y \in N : y \in Nat /\ 0 < y /\ y < NPages + 1
    BY Constants DEF Shaped
  <2>3. \A y \in N : Inside(b, t.root, y)
    BY <2>1, <2>2, Directions DEF Inside, Beside
  <2>4. Nodes(t, t.root) = {y \in N : Inside(b, t.root, y)}
    BY <2>1, NodesInside
  <2>. QED
    BY <2>3, <2>4
<1>. QED
  BY <1>1, <1>2

-----------------------------------------------------------------------------
(* The order of the nodes: min_link, next_link *)

LEMMA MinEquation ==
  ASSUME NEW t \in Tree
  PROVE  \A a \in Link : min_link(t, a) = IF Child(t, "left", a) # Nil THEN min_link(t, Child(t, "left", a)) ELSE a
<1>. DEFINE P(f) == f = [cur \in Link |-> IF Child(t, "left", cur) # Nil THEN f[Child(t, "left", cur)] ELSE cur]
            step == [x \in Link |-> Child(t, "left", x)]
            done == [x \in Link |-> x]
            Go == {x \in Link : Child(t, "left", x) # Nil}
            g == CHOOSE f : P(f)
<1>1. step \in [Link -> Link] /\ done \in [Link -> Link] /\ Go \in SUBSET Link
  BY Reads, Directions
<1>2. \A f : \A x \in Link : (IF x \in Go THEN f[step[x]] ELSE done[x])
                           = IF Child(t, "left", x) # Nil THEN f[Child(t, "left", x)] ELSE x
  OBVIOUS
<1>3. PICK f : Computes(f, Link, Go, step, done)
  <2>. HIDE DEF step, done, Go
  <2>. QED
    BY <1>1, LoopComputes
<1>4. P(f)
  <2>. HIDE DEF step, done, Go
  <2>. QED
    BY <1>2, <1>3 DEF Computes
<1>5. P(g)
  <2>. HIDE DEF P
  <2>. QED
    BY <1>4
<1>6. \A a : min_link(t, a) = g[a]
  BY DEF min_link
<1>. HIDE DEF g
<1>7. \A x \in Link : Child(t, "left", x) \in Link
  BY Reads, Directions
<1>. QED
  BY <1>5, <1>6, <1>7

LEMMA ClimbEquation ==
  ASSUME NEW t \in Tree
  PROVE  \A a \in Link : climb(t, a) = IF a # Nil /\ a = Child(t, "right", Parent(t, a))
                                       THEN climb(t, Parent(t, a)) ELSE Parent(t, a)
<1>. DEFINE P(f) == f = [cur \in Link |-> IF cur # Nil /\ cur = Child(t, "right", Parent(t, cur))
                                          THEN f[Parent(t, cur)] ELSE Parent(t, cur)]
            step == [x \in Link |-> Parent(t, x)]
            Go == {x \in Link : x # Nil /\ x = Child(t, "right", Parent(t, x))}
            g == CHOOSE f : P(f)
<1>1. step \in [Link -> Link] /\ Go \in SUBSET Link
  BY Reads
<1>2. \A f : \A x \in Link : (IF x \in Go THEN f[step[x]] ELSE step[x])
                           = IF x # Nil /\ x = Child(t, "right", Parent(t, x)) THEN f[Parent(t, x)] ELSE Parent(t, x)
  OBVIOUS
<1>3. PICK f : Computes(f, Link, Go, step, step)
  <2>. HIDE DEF step, Go
  <2>. QED
    BY <1>1, LoopComputes
<1>4. P(f)
  <2>. HIDE DEF step, Go
  <2>. QED
    BY <1>2, <1>3 DEF Computes
<1>5. P(g)
  <2>. HIDE DEF P
  <2>. QED
    BY <1>4
<1>6. \A a : climb(t, a) = g[a]
  BY DEF climb
<1>. HIDE DEF g
<1>7. \A x \in Link : Parent(t, x) \in Link
  BY Reads
<1>. QED
  BY <1>5, <1>6, <1>7

\* min_link of a node is the end of its left spine: the lowest page below it.
LEMMA MinIs ==
  ASSUME NEW t \in Tree, NEW N, NEW b, Shaped(t, N, b), NEW a \in N
  PROVE  LET m == min_link(t, a) IN
         /\ m \in N /\ Child(t, "left", m) = Nil /\ b["left"][m] = b["left"][a]
         /\ b["right"][m] <= b["right"][a] /\ m <= a
<1>. DEFINE Good(x) == /\ min_link(t, x) \in N /\ Child(t, "left", min_link(t, x)) = Nil
                       /\ b["left"][min_link(t, x)] = b["left"][x]
                       /\ b["right"][min_link(t, x)] <= b["right"][x] /\ min_link(t, x) <= x
            S == {x \in N : ~Good(x)}
<1>. SUFFICES ASSUME S # {} PROVE FALSE
  OBVIOUS
<1>0. /\ N \subseteq Page /\ N \subseteq Nat /\ N \subseteq Link /\ b \in Bounds
      /\ \A x \in N : b["right"][x] \in Nat
  <2>1. N \subseteq Page /\ b \in Bounds
    BY DEF Shaped
  <2>2. \A x \in N : b["right"][x] \in Nat
    BY <2>1, Directions, BoundIs
  <2>. QED
    BY <2>1, <2>2, Constants
<1>1. PICK x \in S : \A y \in S : Width(b, x) <= Width(b, y)
  <2>1. S \in SUBSET N
    OBVIOUS
  <2>. HIDE DEF S
  <2>. QED
    BY <2>1, Narrowest
<1>2. x \in N /\ ~Good(x)
  BY <1>1
<1>3. CASE Child(t, "left", x) = Nil
  <2>1. min_link(t, x) = x
    BY <1>0, <1>2, <1>3, MinEquation
  <2>. QED
    BY <1>0, <1>2, <1>3, <2>1
<1>4. CASE Child(t, "left", x) # Nil
  <2>. DEFINE c == Child(t, "left", x)
  <2>0. "left" \in Dir /\ Other("left") = "right"
    BY Directions DEF Other
  <2>1. min_link(t, x) = min_link(t, c)
    BY <1>0, <1>2, <1>4, MinEquation
  <2>2. c \in N /\ Beside("left", c, x) /\ b["left"][c] = b["left"][x] /\ b["right"][c] = x
    BY <1>2, <1>4, <2>0, ChildFacts
  <2>3. Width(b, c) < Width(b, x) /\ Width(b, c) \in Nat /\ Width(b, x) \in Nat
    BY <1>2, <1>4, <2>0, <2>2, ChildNarrower, WidthIs
  <2>4. Beside("right", b["right"][x], x)
    BY <1>2, Directions DEF Shaped
  <2>. HIDE DEF c
  <2>5. Good(c)
    <3>1. c \notin S
      BY <1>1, <2>3
    <3>. QED
      BY <2>2, <3>1
  <2>6. min_link(t, c) \in Nat /\ b["right"][min_link(t, c)] \in Nat
    BY <1>0, <2>5
  <2>. QED
    BY <1>0, <1>2, <2>1, <2>2, <2>4, <2>5, <2>6 DEF Beside
<1>. QED
  BY <1>3, <1>4

\* The climb ends at the upper bound, or at None above the root.
LEMMA ClimbIs ==
  ASSUME NEW t \in Tree, NEW N, NEW b, Shaped(t, N, b), NEW a \in N
  PROVE  \/ climb(t, a) \in N /\ climb(t, a) = b["right"][a]
         \/ climb(t, a) = Nil /\ b["right"][a] = NPages + 1
<1>. DEFINE Good(x) == \/ climb(t, x) \in N /\ climb(t, x) = b["right"][x]
                       \/ climb(t, x) = Nil /\ b["right"][x] = NPages + 1
            S == {x \in N : ~Good(x)}
<1>. SUFFICES ASSUME S # {} PROVE FALSE
  OBVIOUS
<1>0. N \subseteq Page /\ N \subseteq Nat /\ N \subseteq Link /\ Nil \notin N /\ "left" \in Dir /\ "right" \in Dir
      /\ Other("left") = "right"
  BY Constants, Directions DEF Shaped, Other
<1>1. PICK x \in S : \A y \in S : Width(b, y) <= Width(b, x)
  <2>1. S \in SUBSET N
    OBVIOUS
  <2>. HIDE DEF S
  <2>. QED
    BY <2>1, Widest
<1>2. x \in N /\ ~Good(x) /\ x # Nil /\ x \in Link
  BY <1>0, <1>1
<1>3. CASE x = t.root
  <2>1. Parent(t, x) = Nil /\ b["right"][x] = NPages + 1 /\ Child(t, "right", Nil) = Nil
    BY <1>0, <1>2, <1>3, Reads DEF Shaped
  <2>2. climb(t, x) = Nil
    BY <1>2, <2>1, ClimbEquation
  <2>. QED
    BY <1>2, <2>1, <2>2
<1>4. CASE x # t.root
  <2>. DEFINE p == Parent(t, x)
              d == SideOf(t, x)
  <2>1. p \in N /\ d \in Dir /\ Child(t, d, p) = x /\ \A e \in Dir : Child(t, e, p) = x => e = d
    BY <1>2, <1>4, ParentFacts
  <2>2. b[d][x] = b[d][p] /\ b[Other(d)][x] = p
    BY <1>2, <2>1, ChildFacts
  <2>3. Width(b, x) < Width(b, p) /\ Width(b, x) \in Nat /\ Width(b, p) \in Nat
    BY <1>2, <2>1, ChildNarrower, WidthIs
  <2>. HIDE DEF p, d
  <2>4. CASE d = "right"
    <3>1. climb(t, x) = climb(t, p)
      BY <1>2, <2>1, <2>4, ClimbEquation DEF p
    <3>2. Good(p)
      <4>1. p \notin S
        BY <1>1, <2>3
      <4>. QED
        BY <2>1, <4>1
    <3>. QED
      BY <1>2, <2>2, <2>4, <3>1, <3>2
  <2>5. CASE d = "left"
    <3>1. climb(t, x) = p
      <4>1. Child(t, "right", p) # x
        BY <1>0, <2>1, <2>5
      <4>. QED
        BY <1>2, <4>1, ClimbEquation DEF p
    <3>. QED
      BY <1>0, <1>2, <2>1, <2>2, <2>5, <3>1
  <2>. QED
    BY <2>1, <2>4, <2>5, Directions
<1>. QED
  BY <1>3, <1>4

\* next_link is the next page in the tree.
LEMMA NextIs ==
  ASSUME NEW t \in Tree, NEW N, NEW b, Shaped(t, N, b), NEW a \in N
  PROVE  LET k == next_link(t, a) IN
         \/ k \in N /\ a < k /\ \A y \in N : ~(a < y /\ y < k)
         \/ k = Nil /\ \A y \in N : ~(a < y)
<1>. DEFINE k == next_link(t, a)
            r == Child(t, "right", a)
<1>0. N \subseteq Page /\ N \subseteq Nat /\ N \subseteq Link /\ Nil \notin N /\ "left" \in Dir /\ "right" \in Dir
      /\ Other("right") = "left"
  BY Constants, Directions DEF Shaped, Other
<1>1. CASE r # Nil
  <2>1. k = min_link(t, r)
    BY <1>1 DEF next_link
  <2>2. r \in N /\ b["left"][r] = a
    BY <1>0, <1>1, ChildFacts
  <2>3. k \in N /\ Child(t, "left", k) = Nil /\ b["left"][k] = a
    <3>. HIDE DEF r
    <3>. QED
      BY <2>1, <2>2, MinIs
  <2>4. Beside("left", a, k)
    <3>. HIDE DEF k
    <3>1. Beside("left", b["left"][k], k)
      BY <1>0, <2>3 DEF Shaped
    <3>. QED
      BY <2>3, <3>1
  <2>5. ASSUME NEW y \in N, a < y, y < k PROVE FALSE
    <3>1. Beside("left", b["left"][k], y) /\ Beside("left", y, k)
      BY <2>3, <2>5 DEF Beside
    <3>. QED
      BY <1>0, <2>3, <3>1, Gap
  <2>. QED
    BY <2>3, <2>4, <2>5 DEF Beside
<1>2. CASE r = Nil
  <2>1. k = climb(t, a)
    BY <1>2 DEF next_link
  <2>2. ASSUME NEW y \in N, a < y, y < b["right"][a] PROVE FALSE
    <3>1. Beside("right", b["right"][a], y) /\ Beside("right", y, a)
      BY <2>2 DEF Beside
    <3>. QED
      BY <1>0, <1>2, <3>1, Gap
  <2>3. Beside("right", b["right"][a], a)
    BY <1>0 DEF Shaped
  <2>4. CASE k \in N /\ k = b["right"][a]
    BY <2>2, <2>3, <2>4 DEF Beside
  <2>5. CASE k = Nil /\ b["right"][a] = NPages + 1
    <3>1. \A y \in N : y < NPages + 1
      BY <1>0, Constants
    <3>. QED
      BY <2>2, <2>5, <3>1
  <2>. QED
    BY <2>1, <2>4, <2>5, ClimbIs
<1>. QED
  BY <1>1, <1>2

\* is_n_consecutive_link finds out whether the run is free.
LEMMA ConsecutiveIs ==
  ASSUME NEW t \in Tree, NEW N, NEW b, Shaped(t, N, b), NEW a \in N, NEW n \in Nat
  PROVE  is_n_consecutive_link(t, a, n) <=> Run(a, n) \subseteq N
<1>0. N \subseteq Page /\ N \subseteq Nat /\ Nil \notin N /\ a \in Nat /\ Nil = 0
  BY Constants DEF Shaped
<1>1. \A x \in N : \/ next_link(t, x) \in N /\ x < next_link(t, x) /\ \A y \in N : ~(x < y /\ y < next_link(t, x))
                   \/ next_link(t, x) = Nil /\ \A y \in N : ~(x < y)
  BY NextIs
<1>2. ASSUME Run(a, n) \subseteq N, NEW i \in 1 .. (n - 1) PROVE next_link(t, a + i - 1) = a + i
  <2>1. a + i - 1 \in Run(a, n) /\ a + i \in Run(a, n) /\ a + i - 1 < a + i
    BY <1>0 DEF Run
  <2>2. a + i - 1 \in N /\ a + i \in N
    BY <1>2, <2>1
  <2>. DEFINE x == a + i - 1
              k == next_link(t, x)
  <2>3. k \in N /\ x < k /\ ~(x < a + i /\ a + i < k)
    BY <1>1, <2>1, <2>2
  <2>4. k \in Nat /\ x \in Nat /\ i \in Nat
    <3>1. k \in Nat
      <4>. HIDE DEF k
      <4>. QED
        BY <1>0, <2>3
    <3>2. x \in Nat
      BY <1>0, <2>2
    <3>3. i \in Nat
      OBVIOUS
    <3>. QED
      BY <3>1, <3>2, <3>3
  <2>. HIDE DEF k
  <2>5. k = a + i
    BY <1>0, <2>1, <2>3, <2>4
  <2>. QED
    BY <2>5 DEF k
<1>3. ASSUME is_n_consecutive_link(t, a, n), n # 0 PROVE Run(a, n) \subseteq N
  <2>. DEFINE T == {i \in Nat : a + i \in N}
  <2>1. \A i \in 1 .. (n - 1) : next_link(t, a + i - 1) = a + i
    BY <1>3 DEF is_n_consecutive_link
  <2>2. 0 \in T /\ n - 1 \in Nat
    BY <1>0, <1>3
  <2>3. ASSUME NEW i \in 0 .. ((n - 1) - 1), i \in T PROVE i + 1 \in T
    <3>1. i + 1 \in 1 .. (n - 1) /\ a + (i + 1) - 1 = a + i /\ i + 1 \in Nat /\ a + i \in N /\ a + (i + 1) # 0
      BY <1>0, <2>3
    <3>2. next_link(t, a + i) = a + (i + 1)
      BY <2>1, <3>1
    <3>3. a + (i + 1) \in N
      BY <1>0, <1>1, <3>1, <3>2
    <3>. QED
      BY <3>1, <3>3
  <2>4. 0 .. (n - 1) \subseteq T
    <3>. HIDE DEF T
    <3>. QED
      BY <2>2, <2>3, Upward
  <2>5. ASSUME NEW x \in Run(a, n) PROVE x \in N
    <3>1. x - a \in 0 .. (n - 1) /\ a + (x - a) = x
      BY <1>0 DEF Run
    <3>2. x - a \in T
      BY <2>4, <3>1
    <3>. QED
      BY <3>1, <3>2
  <2>. QED
    BY <2>5
<1>4. CASE n = 0
  <2>1. Run(a, n) = {} /\ 1 .. (n - 1) = {}
    BY <1>0, <1>4 DEF Run
  <2>. QED
    BY <2>1 DEF is_n_consecutive_link
<1>. QED
  BY <1>2, <1>3, <1>4 DEF is_n_consecutive_link

\* The loop of get_multiple goes from a node that does not begin a long enough run to the next.
LEMMA ScanEquation ==
  ASSUME NEW t \in Tree, NEW N, NEW b, Shaped(t, N, b), NEW n
  PROVE  \E f : /\ \A x \in N \cup {Nil} :
                      f[x] = IF x # Nil /\ ~is_n_consecutive_link(t, x, n) THEN f[next_link(t, x)] ELSE x
                /\ scan(t, n) = f[min_link(t, t.root)]
<1>. DEFINE X == N \cup {Nil}
            P(f) == f = [x \in X |-> IF x # Nil /\ ~is_n_consecutive_link(t, x, n) THEN f[next_link(t, x)] ELSE x]
            Go == {x \in X : x # Nil /\ ~is_n_consecutive_link(t, x, n)}
            step == [x \in X |-> IF x = Nil THEN Nil ELSE next_link(t, x)]
            done == [x \in X |-> x]
            g == CHOOSE f : P(f)
<1>1. step \in [X -> X] /\ done \in [X -> X] /\ Go \in SUBSET X
  BY NextIs
<1>2. \A f : \A x \in X : (IF x \in Go THEN f[step[x]] ELSE done[x])
                        = IF x # Nil /\ ~is_n_consecutive_link(t, x, n) THEN f[next_link(t, x)] ELSE x
  OBVIOUS
<1>3. PICK f : Computes(f, X, Go, step, done)
  <2>. HIDE DEF X, step, done, Go
  <2>. QED
    BY <1>1, LoopComputes
<1>4. P(f)
  <2>. HIDE DEF X, step, done, Go
  <2>. QED
    BY <1>2, <1>3 DEF Computes
<1>5. P(g)
  <2>. HIDE DEF P
  <2>. QED
    BY <1>4
<1>6. Nodes(t, t.root) = N
  BY NodesAre
<1>7. scan(t, n) = g[min_link(t, t.root)]
  BY <1>6 DEF scan
<1>. HIDE DEF g
<1>. QED
  BY <1>5, <1>7

\* What get_multiple finds
LEMMA ScanIs ==
  ASSUME NEW t \in Tree, NEW N, NEW b, Shaped(t, N, b), NEW n \in Nat
  PROVE  LET q == scan(t, n) IN
         \/ q = Nil /\ Fits(N, n) = {}
         \/ q \in Fits(N, n) /\ \A y \in Fits(N, n) : q <= y
<1>1. PICK f : /\ \A x \in N \cup {Nil} :
                      f[x] = IF x # Nil /\ ~is_n_consecutive_link(t, x, n) THEN f[next_link(t, x)] ELSE x
               /\ scan(t, n) = f[min_link(t, t.root)]
  BY ScanEquation
<1>0. N \subseteq Page /\ N \subseteq Nat /\ N \subseteq Link /\ Nil \notin N /\ NPages \in Nat
      /\ (\A x \in N : x <= NPages)
  BY Constants DEF Shaped, Page
<1>2. f[Nil] = Nil
  BY <1>1
<1>3. \A x \in N : x \in Fits(N, n) <=> is_n_consecutive_link(t, x, n)
  BY ConsecutiveIs DEF Fits
<1>. DEFINE Good(x) == \/ f[x] = Nil /\ \A y \in Fits(N, n) : y < x
                       \/ f[x] \in Fits(N, n) /\ x <= f[x] /\ \A y \in Fits(N, n) : y < x \/ f[x] <= y
            S == {x \in N : ~Good(x)}
<1>4. ASSUME S # {} PROVE FALSE
  <2>. DEFINE m == [x \in S |-> NPages - x]
  <2>1. m \in [S -> Nat]
    <3>1. \A x \in N : NPages - x \in Nat
      BY <1>0
    <3>2. S \subseteq N
      OBVIOUS
    <3>. HIDE DEF S
    <3>. QED
      BY <3>1, <3>2
  <2>2. \A x \in S : m[x] = NPages - x
    OBVIOUS
  <2>3. PICK x \in S : \A y \in S : m[x] <= m[y]
    <3>. HIDE DEF m, S
    <3>. QED
      BY <1>4, <2>1, Extreme
  <2>4. x \in N /\ ~Good(x) /\ x \in Nat /\ x # Nil
    BY <1>0, <2>3
  <2>5. \A y \in S : y <= x
    <3>1. \A y \in S : NPages - x <= NPages - y
      BY <2>2, <2>3
    <3>2. S \subseteq Nat
      BY <1>0
    <3>. HIDE DEF S
    <3>. QED
      BY <1>0, <2>4, <3>1, <3>2
  <2>6. Fits(N, n) \subseteq N
    BY DEF Fits
  <2>7. CASE is_n_consecutive_link(t, x, n)
    <3>1. f[x] = x /\ x \in Fits(N, n)
      BY <1>1, <1>3, <2>4, <2>7
    <3>2. \A y \in Fits(N, n) : y < x \/ x <= y
      <4>1. Fits(N, n) \subseteq Nat
        BY <1>0, <2>6
      <4>. QED
        BY <2>4, <4>1
    <3>. QED
      BY <2>4, <3>1, <3>2
  <2>8. CASE ~is_n_consecutive_link(t, x, n)
    <3>. DEFINE k == next_link(t, x)
    <3>1. f[x] = f[k] /\ x \notin Fits(N, n)
      BY <1>1, <1>3, <2>4, <2>8
    <3>2. CASE k = Nil /\ \A y \in N : ~(x < y)
      <4>1. f[x] = Nil
        BY <1>2, <3>1, <3>2
      <4>2. \A y \in Fits(N, n) : y < x
        <5>1. \A y \in Fits(N, n) : y \in Nat /\ y # x /\ ~(x < y)
          BY <1>0, <2>6, <3>1, <3>2
        <5>. QED
          BY <2>4, <5>1
      <4>. QED
        BY <2>4, <4>1, <4>2
    <3>3. CASE k \in N /\ x < k /\ \A y \in N : ~(x < y /\ y < k)
      <4>. HIDE DEF k
      <4>1. k \in Nat /\ Good(k)
        <5>1. k \in Nat
          BY <1>0, <3>3
        <5>2. k \notin S
          BY <2>4, <2>5, <3>3, <5>1
        <5>. QED
          BY <3>3, <5>1, <5>2
      <4>2. \A y \in Fits(N, n) : y < k => y < x
        <5>1. \A y \in Fits(N, n) : y \in Nat /\ y # x /\ ~(x < y /\ y < k)
          BY <1>0, <2>6, <3>1, <3>3
        <5>. QED
          BY <2>4, <4>1, <5>1
      <4>3. CASE f[k] = Nil /\ \A y \in Fits(N, n) : y < k
        BY <2>4, <3>1, <4>2, <4>3
      <4>4. CASE f[k] \in Fits(N, n) /\ k <= f[k] /\ \A y \in Fits(N, n) : y < k \/ f[k] <= y
        <5>1. x <= f[k]
          <6>1. f[k] \in Nat
            BY <1>0, <2>6, <4>4
          <6>. QED
            BY <2>4, <3>3, <4>1, <4>4, <6>1
        <5>. QED
          BY <2>4, <3>1, <4>2, <4>4, <5>1
      <4>. QED
        BY <4>1, <4>3, <4>4
    <3>. QED
      BY <2>4, <3>2, <3>3, NextIs
  <2>. QED
    BY <2>7, <2>8
<1>5. CASE t.root = Nil
  <2>1. N = {} /\ min_link(t, t.root) = Nil
    BY <1>5, MinEquation, Reads, Directions, Constants DEF Shaped
  <2>. QED
    BY <1>1, <1>2, <2>1 DEF Fits
<1>6. CASE t.root # Nil
  <2>. DEFINE m == min_link(t, t.root)
  <2>1. t.root \in N /\ b["left"][t.root] = 0
    BY <1>6 DEF Shaped
  <2>2. m \in N /\ Child(t, "left", m) = Nil /\ b["left"][m] = 0
    BY <2>1, MinIs
  <2>. HIDE DEF m
  <2>3. ASSUME NEW y \in N, y < m PROVE FALSE
    <3>1. Beside("left", b["left"][m], y) /\ Beside("left", y, m)
      <4>1. 0 < y
        BY <1>0, Constants
      <4>. QED
        BY <2>2, <2>3, <4>1 DEF Beside
    <3>. QED
      BY <2>2, <3>1, Gap, Directions
  <2>4. Fits(N, n) \subseteq N
    BY DEF Fits
  <2>5. Good(m)
    BY <1>4, <2>2
  <2>6. scan(t, n) = f[m]
    BY <1>1 DEF m
  <2>. QED
    BY <2>3, <2>4, <2>5, <2>6
<1>. QED
  BY <1>5, <1>6

-----------------------------------------------------------------------------
(* insert *)

Toward(n, x) == IF n < x THEN "left" ELSE "right"

LEMMA DescendEquation ==
  ASSUME NEW t \in Tree, NEW n
  PROVE  \E f : /\ \A x \in Link, y \in Link :
                      f[<<x, y>>] = IF x = Nil THEN y ELSE f[<<Child(t, Toward(n, x), x), x>>]
                /\ descend(t, n) = f[<<t.root, Nil>>]
<1>. DEFINE X == Link \X Link
            P(f) == f = [x \in X |-> IF x[1] = Nil THEN x[2]
                                     ELSE f[<<Child(t, IF n < x[1] THEN "left" ELSE "right", x[1]), x[1]>>]]
            Go == {x \in X : x[1] # Nil}
            step == [x \in X |-> <<Child(t, IF n < x[1] THEN "left" ELSE "right", x[1]), x[1]>>]
            done == [x \in X |-> x[2]]
            g == CHOOSE f : P(f)
<1>1. step \in [X -> X] /\ done \in [X -> Link] /\ Go \in SUBSET X
  BY Reads, Directions
<1>2. \A f : \A x \in X : (IF x \in Go THEN f[step[x]] ELSE done[x])
                        = IF x[1] = Nil THEN x[2] ELSE f[<<Child(t, IF n < x[1] THEN "left" ELSE "right", x[1]), x[1]>>]
  OBVIOUS
<1>3. PICK f : Computes(f, X, Go, step, done)
  <2>. HIDE DEF X, step, done, Go
  <2>. QED
    BY <1>1, LoopComputes
<1>4. P(f)
  <2>. HIDE DEF X, step, done, Go
  <2>. QED
    BY <1>2, <1>3 DEF Computes
<1>5. P(g)
  <2>. HIDE DEF P
  <2>. QED
    BY <1>4
<1>6. descend(t, n) = g[<<t.root, Nil>>]
  BY DEF descend
<1>. HIDE DEF g
<1>7. ASSUME NEW x \in Link, NEW y \in Link
      PROVE  g[<<x, y>>] = IF x = Nil THEN y ELSE g[<<Child(t, Toward(n, x), x), x>>]
  <2>1. <<x, y>> \in X
    OBVIOUS
  <2>2. g[<<x, y>>] = IF <<x, y>>[1] = Nil THEN <<x, y>>[2]
                      ELSE g[<<Child(t, IF n < <<x, y>>[1] THEN "left" ELSE "right", <<x, y>>[1]), <<x, y>>[1]>>]
    BY <1>5, <2>1
  <2>. QED
    BY <2>2 DEF Toward
<1>. QED
  BY <1>6, <1>7

\* The descent ends at the node that is to be the parent of n.
LEMMA DescendIs ==
  ASSUME NEW t \in Tree, NEW N, NEW b, Shaped(t, N, b), NEW n \in Page, n \notin N
  PROVE  LET p == descend(t, n) IN
         IF t.root = Nil THEN p = Nil
         ELSE p \in N /\ Toward(n, p) \in Dir /\ Beside(Toward(n, p), n, p) /\ Child(t, Toward(n, p), p) = Nil
              /\ Inside(b, p, n)
<1>1. PICK f : /\ \A x \in Link, y \in Link :
                      f[<<x, y>>] = IF x = Nil THEN y ELSE f[<<Child(t, Toward(n, x), x), x>>]
               /\ descend(t, n) = f[<<t.root, Nil>>]
  BY DescendEquation
<1>0. N \subseteq Page /\ N \subseteq Nat /\ N \subseteq Link /\ Nil \notin N /\ n \in Nat /\ Nil \in Link
  BY Constants DEF Shaped
<1>2. \A x \in N : Toward(n, x) \in Dir /\ Beside(Toward(n, x), n, x)
  BY <1>0, Directions DEF Toward, Beside
<1>. DEFINE Good(p) == p \in N /\ Child(t, Toward(n, p), p) = Nil /\ Inside(b, p, n)
            S == {x \in N : Inside(b, x, n) /\ \E y \in Link : ~Good(f[<<x, y>>])}
<1>3. ASSUME S # {} PROVE FALSE
  <2>1. PICK x \in S : \A y \in S : Width(b, x) <= Width(b, y)
    <3>1. S \in SUBSET N
      OBVIOUS
    <3>. HIDE DEF S
    <3>. QED
      BY <1>3, <3>1, Narrowest
  <2>. DEFINE d == Toward(n, x)
              c == Child(t, d, x)
  <2>2. x \in N /\ Inside(b, x, n) /\ x # Nil /\ x \in Link /\ d \in Dir /\ Beside(d, n, x) /\ c \in Link
    BY <1>0, <1>2, <2>1, Reads
  <2>3. PICK y \in Link : ~Good(f[<<x, y>>])
    BY <2>1
  <2>4. f[<<x, y>>] = f[<<c, x>>]
    BY <1>1, <2>2
  <2>5. CASE c = Nil
    <3>1. f[<<c, x>>] = x
      BY <1>0, <1>1, <2>2, <2>5
    <3>. QED
      BY <2>2, <2>3, <2>4, <2>5, <3>1
  <2>6. CASE c # Nil
    <3>1. c \in N /\ Width(b, c) < Width(b, x) /\ Width(b, c) \in Nat /\ Width(b, x) \in Nat
      BY <2>2, <2>6, ChildFacts, ChildNarrower, WidthIs
    <3>2. Inside(b, c, n)
      BY <1>0, <2>2, <2>6, ChildInside
    <3>3. c \in S
      BY <2>2, <2>3, <2>4, <3>1, <3>2
    <3>. HIDE DEF c, S
    <3>. QED
      BY <2>1, <3>1, <3>3
  <2>. QED
    BY <2>5, <2>6
<1>4. CASE t.root = Nil
  BY <1>0, <1>1, <1>4
<1>5. CASE t.root # Nil
  <2>1. t.root \in N /\ b["left"][t.root] = 0 /\ b["right"][t.root] = NPages + 1
    BY <1>5 DEF Shaped
  <2>2. Inside(b, t.root, n)
    BY <2>1, Directions, Constants DEF Inside, Beside
  <2>3. Good(f[<<t.root, Nil>>])
    BY <1>0, <1>3, <2>1, <2>2
  <2>. QED
    BY <1>1, <1>2, <1>5, <2>3
<1>. QED
  BY <1>4, <1>5

\* insert_leaf
Leafed(t, u, n, p) ==
    /\ u \in Tree /\ u.crashed = t.crashed
    /\ u.root = IF p = Nil THEN n ELSE t.root
    /\ \A x \in Link : Parent(u, x) = IF x = n THEN p ELSE Parent(t, x)
    /\ \A x \in Link, e \in Dir : Child(u, e, x) = IF x = n THEN Nil
                                                   ELSE IF p # Nil /\ x = p /\ e = Toward(n, p) THEN n ELSE Child(t, e, x)
    /\ \A x \in Link : Color(u, x) = IF x = n THEN "red" ELSE Color(t, x)

LEMMA LeafLinks ==
  ASSUME NEW t \in Tree, NEW n \in Page, NEW p \in Link, p # n
  PROVE  Leafed(t, insert_leaf(t, n, p), n, p)
<1>. DEFINE t1 == SetChild(t, "left", n, Nil)
            t2 == SetChild(t1, "right", n, Nil)
            t3 == SetParent(t2, n, p)
            t4 == SetColor(t3, n, "red")
            t5 == [t4 EXCEPT !.root = n]
            t6 == SetChild(t4, Toward(n, p), p, n)
<1>1. n \in Link /\ n # Nil /\ Nil \in Link /\ "left" \in Dir /\ "right" \in Dir /\ Toward(n, p) \in Dir
  BY Constants, Directions DEF Toward
<1>2. insert_leaf(t, n, p) = IF p = Nil THEN t5 ELSE t6
  BY DEF insert_leaf, Toward
<1>3. ChildSet(t, t1, "left", n, Nil)
  BY <1>1, SetsChild
<1>4. t1 \in Tree
  BY <1>3 DEF ChildSet
<1>. HIDE DEF t1
<1>5. ChildSet(t1, t2, "right", n, Nil)
  BY <1>1, <1>4, SetsChild
<1>6. t2 \in Tree
  BY <1>5 DEF ChildSet
<1>. HIDE DEF t2
<1>7. ParentSet(t2, t3, n, p)
  BY <1>1, <1>6, SetsParent
<1>8. t3 \in Tree
  BY <1>7 DEF ParentSet
<1>. HIDE DEF t3
<1>9. Painted(t3, t4, n, "red")
  BY <1>1, <1>8, SetsColor
<1>10. t4 \in Tree
  BY <1>9 DEF Painted
<1>. HIDE DEF t4
<1>11. /\ t4.crashed = t.crashed /\ t4.root = t.root
       /\ \A x \in Link : Parent(t4, x) = IF x = n THEN p ELSE Parent(t, x)
       /\ \A x \in Link : Color(t4, x) = IF x = n THEN "red" ELSE Color(t, x)
  BY <1>1, <1>3, <1>5, <1>7, <1>9 DEF ChildSet, ParentSet, Painted
<1>12. ASSUME NEW x \in Link, NEW e \in Dir PROVE Child(t4, e, x) = IF x = n THEN Nil ELSE Child(t, e, x)
  <2>1. Child(t4, e, x) = Child(t2, e, x)
    BY <1>7, <1>9 DEF ParentSet, Painted
  <2>2. Child(t2, e, x) = IF e = "right" /\ x = n THEN Nil ELSE Child(t1, e, x)
    BY <1>1, <1>5 DEF ChildSet
  <2>3. Child(t1, e, x) = IF e = "left" /\ x = n THEN Nil ELSE Child(t, e, x)
    BY <1>1, <1>3 DEF ChildSet
  <2>. QED
    BY <2>1, <2>2, <2>3, Directions
<1>13. CASE p = Nil
  <2>1. /\ t5 \in Tree /\ t5.root = n /\ t5.crashed = t4.crashed
        /\ \A x \in Link : Parent(t5, x) = Parent(t4, x)
        /\ \A x \in Link, d \in Dir : Child(t5, d, x) = Child(t4, d, x)
        /\ \A x \in Link : Color(t5, x) = Color(t4, x)
    BY <1>1, <1>10, SetsRoot
  <2>. HIDE DEF t5
  <2>. QED
    BY <1>2, <1>11, <1>12, <1>13, <2>1 DEF Leafed
<1>14. CASE p # Nil
  <2>1. ChildSet(t4, t6, Toward(n, p), p, n)
    BY <1>1, <1>10, SetsChild
  <2>. HIDE DEF t6
  <2>. QED
    BY <1>2, <1>11, <1>12, <1>14, <2>1 DEF Leafed, ChildSet
<1>. QED
  BY <1>13, <1>14

\* The bounds of a leaf
Leaf(b, n, p) ==
    [e \in Dir |-> [x \in Page |->
        IF x # n THEN b[e][x]
        ELSE IF p = Nil THEN (IF e = "left" THEN 0 ELSE NPages + 1)
        ELSE IF e = Toward(n, p) THEN b[e][p] ELSE p]]

LEMMA LeafShaped ==
  ASSUME NEW t \in Tree, NEW N, NEW b, Shaped(t, N, b), NEW n \in Page, n \notin N, NEW u, NEW p \in Link,
         Leafed(t, u, n, p), IF t.root = Nil THEN p = Nil
                             ELSE p \in N /\ Beside(Toward(n, p), n, p) /\ Child(t, Toward(n, p), p) = Nil /\ Inside(b, p, n)
  PROVE  Shaped(u, N \cup {n}, Leaf(b, n, p))
<1>. DEFINE d == Toward(n, p)
            b2 == Leaf(b, n, p)
            M == N \cup {n}
<1>1. N \subseteq Page /\ N \subseteq Link /\ Nil \notin N /\ b \in Bounds /\ d \in Dir /\ n \in Link /\ n # Nil
      /\ N \subseteq Nat /\ n \in Nat /\ n < NPages + 1 /\ 0 < n
  BY Constants, Directions DEF Shaped, Toward
<1>2. /\ \A e \in Dir : \A x \in N : b2[e][x] = b[e][x]
      /\ p = Nil => b2["left"][n] = 0 /\ b2["right"][n] = NPages + 1
      /\ p # Nil => b2[d][n] = b[d][p] /\ b2[Other(d)][n] = p
  <2>1. \A e \in Dir : \A x \in N : b2[e][x] = b[e][x]
    BY <1>1 DEF Leaf
  <2>2. p = Nil => b2["left"][n] = 0 /\ b2["right"][n] = NPages + 1
    BY <1>1, Directions DEF Leaf
  <2>3. p # Nil => b2[d][n] = b[d][p] /\ b2[Other(d)][n] = p
    BY <1>1, Directions DEF Leaf
  <2>. QED
    BY <2>1, <2>2, <2>3
<1>3. b2 \in Bounds
  <2>1. \A e \in Dir, x \in Page : b[e][x] \in 0 .. (NPages + 1)
    BY <1>1 DEF Bounds
  <2>2. 0 \in 0 .. (NPages + 1) /\ NPages + 1 \in 0 .. (NPages + 1) /\ p \in 0 .. (NPages + 1)
    BY Constants
  <2>3. \A e \in Dir, x \in Page :
           (IF x # n THEN b[e][x] ELSE IF p = Nil THEN (IF e = "left" THEN 0 ELSE NPages + 1)
            ELSE IF e = Toward(n, p) THEN b[e][p] ELSE p) \in 0 .. (NPages + 1)
    BY <2>1, <2>2, Constants
  <2>. QED
    BY <2>3 DEF Leaf, Bounds
<1>. HIDE DEF b2, d
<1>4. CASE t.root = Nil
  <2>1. N = {} /\ p = Nil
    BY <1>4 DEF Shaped
  <2>2. u.root = n /\ Parent(u, n) = Nil /\ \A e \in Dir : Child(u, e, n) = Nil
    BY <1>1, <2>1 DEF Leafed
  <2>3. \A e \in Dir : Beside(e, b2[e][n], n)
    BY <1>1, <1>2, <2>1, Directions DEF Beside
  <2>4. Shaped(u, M, b2)
    BY <1>1, <1>2, <1>3, <2>1, <2>2, <2>3 DEF Shaped
  <2>. QED
    BY <2>4 DEF b2
<1>5. CASE t.root # Nil
  <2>1. p \in N /\ p # Nil /\ Beside(d, n, p) /\ Child(t, d, p) = Nil /\ Inside(b, p, n) /\ p # n
    BY <1>1, <1>5 DEF d
  <2>2. /\ u.root = t.root
        /\ \A x \in Link : Parent(u, x) = IF x = n THEN p ELSE Parent(t, x)
        /\ \A x \in Link, e \in Dir : Child(u, e, x) = IF x = n THEN Nil ELSE IF x = p /\ e = d THEN n ELSE Child(t, e, x)
    BY <2>1 DEF Leafed, d
  <2>3. /\ t.root \in N /\ t.root # n /\ Parent(t, t.root) = Nil
        /\ b["left"][t.root] = 0 /\ b["right"][t.root] = NPages + 1
    BY <1>5 DEF Shaped
  <2>4. /\ u.root \in M /\ u.root # Nil /\ Parent(u, u.root) = Nil
        /\ b2["left"][u.root] = 0 /\ b2["right"][u.root] = NPages + 1
    <3>1. u.root = t.root /\ t.root \in M /\ t.root # Nil /\ t.root \in Link
      BY <1>1, <2>2, <2>3
    <3>2. Parent(u, t.root) = Nil
      BY <2>2, <2>3, <3>1
    <3>3. b2["left"][t.root] = b["left"][t.root] /\ b2["right"][t.root] = b["right"][t.root]
      BY <1>2, <2>3, Directions
    <3>. QED
      BY <2>3, <3>1, <3>2, <3>3
  <2>5. ASSUME NEW x \in M, NEW e \in Dir PROVE Beside(e, b2[e][x], x)
    <3>1. CASE x \in N
      BY <1>2, <3>1 DEF Shaped
    <3>2. CASE x = n /\ e = d
      BY <1>2, <2>1, <3>2 DEF Inside
    <3>3. CASE x = n /\ e = Other(d)
      <4>1. p \in Nat
        BY <1>1, <2>1
      <4>2. Beside(Other(d), p, n)
        BY <1>1, <2>1, <4>1, BesideIs
      <4>. QED
        BY <1>2, <2>1, <3>3, <4>2
    <3>. QED
      BY <1>1, <3>1, <3>2, <3>3, Directions
  <2>6. ASSUME NEW x \in M, NEW e \in Dir, Child(u, e, x) # Nil
        PROVE  /\ Child(u, e, x) \in M /\ Parent(u, Child(u, e, x)) = x
               /\ b2[e][Child(u, e, x)] = b2[e][x] /\ b2[Other(e)][Child(u, e, x)] = x
    <3>1. x # n
      BY <1>1, <2>2, <2>6
    <3>2. CASE x = p /\ e = d
      <4>1. Child(u, e, x) = n /\ Parent(u, n) = p
        BY <1>1, <2>1, <2>2, <3>2
      <4>2. b2[d][n] = b[d][p] /\ b2[Other(d)][n] = p /\ b2[d][p] = b[d][p]
        BY <1>1, <1>2, <2>1
      <4>. QED
        BY <3>2, <4>1, <4>2
    <3>3. CASE ~(x = p /\ e = d)
      <4>. DEFINE y == Child(t, e, x)
      <4>1. Child(u, e, x) = y /\ y # Nil /\ x \in N
        BY <1>1, <2>2, <2>6, <3>1, <3>3
      <4>2. y \in N /\ Parent(t, y) = x /\ b[e][y] = b[e][x] /\ b[Other(e)][y] = x /\ Other(e) \in Dir
        BY <4>1, ChildFacts, Directions
      <4>. HIDE DEF y
      <4>3. Parent(u, y) = x
        BY <1>1, <2>2, <4>2
      <4>. QED
        BY <1>2, <4>1, <4>2, <4>3
    <3>. QED
      BY <3>2, <3>3
  <2>7. ASSUME NEW x \in M, x # u.root
        PROVE  Parent(u, x) \in M /\ \E e \in Dir : Child(u, e, Parent(u, x)) = x
    <3>1. CASE x = n
      <4>1. Parent(u, x) = p /\ Child(u, d, p) = n
        BY <1>1, <2>1, <2>2, <3>1
      <4>. QED
        BY <1>1, <2>1, <3>1, <4>1
    <3>2. CASE x # n
      <4>1. x \in N /\ x # t.root
        BY <2>2, <2>7, <3>2
      <4>2. Parent(t, x) \in N /\ Parent(u, x) = Parent(t, x)
        BY <1>1, <2>2, <3>2, <4>1 DEF Shaped
      <4>3. PICK e \in Dir : Child(t, e, Parent(t, x)) = x
        BY <4>1 DEF Shaped
      <4>4. Child(u, e, Parent(t, x)) = x
        BY <1>1, <2>1, <2>2, <4>1, <4>2, <4>3
      <4>. QED
        BY <4>2, <4>4
    <3>. QED
      BY <3>1, <3>2
  <2>8. Shaped(u, M, b2)
    <3>1. M \in SUBSET Page
      BY <1>1
    <3>. QED
      BY <1>3, <2>4, <2>5, <2>6, <2>7, <3>1 DEF Shaped
  <2>. QED
    BY <2>8 DEF b2
<1>. QED
  BY <1>4, <1>5

Colors == {"red", "black"}

TwicePainted(t, u, a, ca, b, cb) ==
    /\ u \in Tree /\ SameLinks(t, u) /\ u.crashed = t.crashed
    /\ \A x \in Link : Color(u, x) = IF x = b /\ b # Nil THEN cb ELSE IF x = a /\ a # Nil THEN ca ELSE Color(t, x)

LEMMA PaintsTwice ==
  ASSUME NEW t \in Tree, NEW a \in Link, NEW ca \in Colors, NEW b \in Link, NEW cb \in Colors
  PROVE  TwicePainted(t, SetColor(SetColor(t, a, ca), b, cb), a, ca, b, cb)
<1>. DEFINE v == SetColor(t, a, ca)
            u == SetColor(v, b, cb)
<1>1. Painted(t, v, a, ca)
  BY SetsColor DEF Colors
<1>. HIDE DEF v
<1>2. v \in Tree
  BY <1>1 DEF Painted
<1>3. Painted(v, u, b, cb)
  BY <1>2, SetsColor DEF Colors
<1>. HIDE DEF u
<1>4. TwicePainted(t, u, a, ca, b, cb)
  BY <1>1, <1>3 DEF Painted, TwicePainted, SameLinks
<1>. QED
  BY <1>4 DEF u, v

\* Colours: no red node has a red child other than c, and the root is not red unless it is c.
OnlyRedChild(t, N, c) ==
    /\ Color(t, t.root) = "red" => t.root = c
    /\ \A x \in N, d \in Dir : Color(t, x) = "red" /\ Color(t, Child(t, d, x)) = "red" => Child(t, d, x) = c

InsertInv(t, N, b, c) ==
    t \in Tree /\ Shaped(t, N, b) /\ ~t.crashed /\ c \in N /\ Color(t, c) = "red" /\ OnlyRedChild(t, N, c)

\* A red parent has a black parent of its own.
LEMMA InsertAbove ==
  ASSUME NEW t, NEW N, NEW b, NEW c, InsertInv(t, N, b, c), Color(t, Parent(t, c)) = "red"
  PROVE  LET p == Parent(t, c)
             g == Parent(t, p)
         IN  /\ p \in N /\ g \in N /\ Color(t, g) = "black" /\ c # p /\ p # g /\ c # g
             /\ SideOf(t, c) \in Dir /\ Child(t, SideOf(t, c), p) = c
             /\ SideOf(t, p) \in Dir /\ Child(t, SideOf(t, p), g) = p
             /\ Color(t, t.root) # "red"
<1>. DEFINE p == Parent(t, c)
            g == Parent(t, p)
<1>1. t \in Tree /\ Shaped(t, N, b) /\ c \in N /\ N \subseteq Page /\ Nil \notin N
  BY Constants DEF InsertInv, Shaped
<1>2. p # Nil
  BY <1>1, Reads
<1>3. p \in N /\ p # c /\ c # t.root /\ SideOf(t, c) \in Dir /\ Child(t, SideOf(t, c), p) = c
  BY <1>1, <1>2, ParentFacts
<1>4. Color(t, t.root) # "red"
  BY <1>3 DEF InsertInv, OnlyRedChild
<1>5. p # t.root
  BY <1>4
<1>6. g \in N /\ g # p /\ SideOf(t, p) \in Dir /\ Child(t, SideOf(t, p), g) = p
  BY <1>1, <1>3, <1>5, ParentFacts
<1>7. Color(t, g) # "red"
  BY <1>3, <1>6 DEF InsertInv, OnlyRedChild
<1>8. Color(t, g) = "black"
  BY <1>1, <1>6, <1>7, Reads
<1>9. c # g
  <2>1. Width(b, c) < Width(b, p)
    BY <1>1, <1>2, <1>3, ChildNarrower
  <2>2. Width(b, p) < Width(b, g)
    BY <1>1, <1>2, <1>6, ChildNarrower
  <2>3. Width(b, c) \in Nat /\ Width(b, p) \in Nat /\ Width(b, g) \in Nat
    BY <1>1, <1>3, <1>6, WidthIs
  <2>. QED
    BY <2>1, <2>2, <2>3
<1>. QED
  BY <1>3, <1>4, <1>6, <1>8, <1>9

\* The last turn of the loop: c is an outer child, and its uncle is not red.
LEMMA InsertOuter ==
  ASSUME NEW t, NEW N, NEW b, NEW c, InsertInv(t, N, b, c), Color(t, Parent(t, c)) = "red",
         NEW d \in Dir, Child(t, d, Parent(t, Parent(t, c))) = Parent(t, c), Child(t, d, Parent(t, c)) = c,
         Color(t, Child(t, Other(d), Parent(t, Parent(t, c)))) # "red"
  PROVE  \E b2 : /\ InsertInv(insert_outer(t, d, c), N, b2, c)
                 /\ Color(insert_outer(t, d, c), Parent(insert_outer(t, d, c), c)) # "red"
<1>. DEFINE o == Other(d)
            p == Parent(t, c)
            g == Parent(t, p)
            i == Child(t, o, p)
            n == Child(t, o, g)
            t1 == SetColor(SetColor(t, p, "black"), g, "red")
            u == rotate(t1, o, g)
            b2 == Turned(b, o, g, p)
<1>1. /\ t \in Tree /\ Shaped(t, N, b) /\ ~t.crashed /\ c \in N /\ N \subseteq Page /\ Nil \notin N /\ N \subseteq Link
      /\ o \in Dir /\ o # d /\ Other(o) = d /\ t.root \in Link
  BY Constants, Directions, Reads DEF InsertInv, Shaped
<1>2. p \in N /\ g \in N /\ Color(t, g) = "black" /\ c # p /\ p # g /\ c # g /\ Color(t, t.root) # "red"
      /\ Color(t, c) = "red" /\ Color(t, p) = "red"
  BY InsertAbove DEF InsertInv
<1>3. TwicePainted(t, t1, p, "black", g, "red")
  BY <1>1, <1>2, PaintsTwice DEF Colors
<1>. HIDE DEF t1
<1>4. /\ t1 \in Tree /\ SameLinks(t, t1) /\ ~t1.crashed
      /\ \A x \in Link : Color(t1, x) = IF x = g THEN "red" ELSE IF x = p THEN "black" ELSE Color(t, x)
  BY <1>1, <1>2, <1>3 DEF TwicePainted
<1>5. Shaped(t1, N, b) /\ Parent(t1, c) = p /\ Parent(t1, p) = g /\ Child(t1, d, g) = p /\ Child(t1, o, p) = i
      /\ t1.root = t.root /\ Parent(t1, g) = Parent(t, g) /\ Child(t1, o, g) = n
      /\ (\A x \in Link, e \in Dir : Child(t1, e, x) = Child(t, e, x))
  BY <1>1, <1>2, <1>4, SameShape DEF SameLinks
<1>6. insert_outer(t, d, c) = u
  BY <1>5 DEF insert_outer, t1
<1>. HIDE DEF o, p, g, i, n, u
<1>7. Rotated(t1, u, o, g) /\ Shaped(u, N, b2)
  <2>1. Child(t1, Other(o), g) = p /\ p # Nil
    BY <1>1, <1>2, <1>5
  <2>. QED
    BY <1>1, <1>2, <1>4, <1>5, <2>1, RotateShaped DEF u
<1>. DEFINE q == Parent(t, g)
<1>8. /\ u \in Tree /\ ~u.crashed
      /\ u.root = IF q = Nil THEN p ELSE t.root
      /\ Parent(u, c) = p
      /\ \A x \in Link, e \in Dir :
            Child(u, e, x) = IF x = g /\ e = d THEN i ELSE IF x = p /\ e = o THEN g
                             ELSE IF x # Nil /\ x = q /\ e = SideOf(t1, g) THEN p ELSE Child(t, e, x)
      /\ \A x \in Link : Color(u, x) = IF x = g THEN "red" ELSE IF x = p THEN "black" ELSE Color(t, x)
  <2>1. c # i
    <3>1. SideOf(t, c) = d /\ (i # Nil => SideOf(t, i) = o)
      BY <1>1, <1>2, OneParent DEF i, p
    <3>. QED
      BY <1>1, <3>1
  <2>2. /\ u \in Tree /\ u.crashed = t1.crashed
        /\ u.root = IF q = Nil THEN p ELSE t.root
        /\ \A x \in Link : Parent(u, x) = IF x = g THEN p ELSE IF x = p THEN q
                                          ELSE IF x = i /\ x # Nil THEN g ELSE Parent(t1, x)
        /\ \A x \in Link, e \in Dir :
              Child(u, e, x) = IF x = g /\ e = d THEN i ELSE IF x = p /\ e = o THEN g
                               ELSE IF x # Nil /\ x = q /\ e = SideOf(t1, g) THEN p ELSE Child(t1, e, x)
        /\ \A x \in Link : Color(u, x) = Color(t1, x)
    BY <1>1, <1>5, <1>7 DEF Rotated
  <2>3. Parent(u, c) = p
    BY <1>1, <1>2, <1>5, <2>1, <2>2
  <2>. QED
    BY <1>4, <1>5, <2>2, <2>3
<1>s. g # t.root => q # Nil /\ q \in N /\ SideOf(t1, g) \in Dir /\ Child(t, SideOf(t1, g), q) = g
  <2>1. g # t1.root => Parent(t1, g) \in N /\ Parent(t1, g) # Nil /\ SideOf(t1, g) \in Dir
                       /\ Child(t1, SideOf(t1, g), Parent(t1, g)) = g
    BY <1>2, <1>4, <1>5, ParentFacts
  <2>. QED
    BY <1>1, <1>5, <2>1
<1>9. ASSUME NEW x \in N, NEW e \in Dir, Color(u, x) = "red", Color(u, Child(u, e, x)) = "red"
      PROVE  Child(u, e, x) = c
  <2>1. x # p /\ Child(u, e, x) \in Link
    BY <1>1, <1>2, <1>8, <1>9, Reads
  <2>2. CASE x = g /\ e = d
    <3>1. Child(u, e, x) = i /\ i # g /\ i # p /\ i # Nil
      <4>1. i # g
        <5>1. i # Nil => Width(b, i) < Width(b, p) /\ Width(b, i) \in Nat /\ i \in N
          BY <1>1, <1>2, ChildFacts, ChildNarrower, WidthIs DEF i
        <5>2. Width(b, p) < Width(b, g) /\ Width(b, p) \in Nat /\ Width(b, g) \in Nat
          BY <1>1, <1>2, ChildNarrower, WidthIs DEF g, p
        <5>. QED
          BY <1>1, <1>2, <5>1, <5>2
      <4>2. i # Nil => i # p
        BY <1>1, <1>2, ChildFacts DEF i
      <4>3. Child(u, e, x) = i
        BY <1>1, <1>2, <1>8, <2>2
      <4>4. i # Nil
        BY <1>8, <1>9, <4>3, Reads
      <4>. QED
        BY <4>1, <4>2, <4>3, <4>4
    <3>2. Color(t, i) = "red"
      BY <1>8, <1>9, <2>1, <3>1
    <3>. QED
      BY <1>1, <1>2, <3>1, <3>2 DEF i, InsertInv, OnlyRedChild
  <2>3. CASE x = g /\ e = o
    <3>1. Child(u, e, x) = n
      <4>1. q # g
        <5>1. CASE q = Nil
          BY <1>1, <1>2, <5>1
        <5>2. CASE q # Nil
          BY <1>1, <1>2, <5>2, ParentFacts
        <5>. QED
          BY <5>1, <5>2
      <4>. QED
        BY <1>1, <1>2, <1>8, <2>3, <4>1 DEF n
    <3>2. n # g /\ n # p
      <4>1. n # Nil => n # g /\ SideOf(t, n) = o
        BY <1>1, <1>2, ChildFacts, OneParent DEF n
      <4>2. SideOf(t, p) = d
        BY <1>1, <1>2, OneParent DEF g, p
      <4>. QED
        BY <1>1, <1>2, <4>1, <4>2
    <3>. QED
      BY <1>8, <1>9, <2>1, <3>1, <3>2 DEF n, g, p, o
  <2>4. CASE x # g
    <3>1. Child(u, e, x) = Child(t, e, x) \/ Child(u, e, x) = p
      BY <1>1, <1>8, <2>1, <2>4
    <3>2. Child(u, e, x) # p
      BY <1>1, <1>2, <1>8, <1>9
    <3>3. Child(t, e, x) # g
      <4>. SUFFICES ASSUME Child(t, e, x) = g PROVE FALSE
        OBVIOUS
      <4>1. Parent(t, g) = x /\ g # t.root
        BY <1>1, <1>2, ChildFacts
      <4>2. SideOf(t, g) = e
        BY <1>1, <1>2, OneParent
      <4>3. SideOf(t1, g) = e
        <5>1. SideOf(t1, g) \in Dir /\ Child(t, SideOf(t1, g), x) = g
          BY <1>s, <4>1
        <5>. QED
          BY <1>1, <1>2, <4>2, <5>1, OneParent
      <4>4. Child(u, e, x) = p
        BY <1>1, <1>8, <2>1, <2>4, <4>1, <4>3
      <4>. QED
        BY <3>2, <4>4
    <3>4. Color(t, x) = "red" /\ Color(t, Child(t, e, x)) = "red"
      BY <1>1, <1>8, <1>9, <2>1, <2>4, <3>1, <3>2, <3>3
    <3>. QED
      BY <3>1, <3>2, <3>4 DEF InsertInv, OnlyRedChild
  <2>. QED
    BY <1>1, <2>2, <2>3, <2>4, Directions
<1>10. Color(u, u.root) # "red"
  <2>1. CASE q = Nil
    BY <1>1, <1>2, <1>8, <2>1
  <2>2. CASE q # Nil
    <3>1. g # t.root
      BY <1>1, <1>2, <2>2, ParentFacts
    <3>. QED
      BY <1>1, <1>2, <1>8, <2>2, <3>1
  <2>. QED
    BY <2>1, <2>2
<1>11. Color(u, c) = "red" /\ Color(u, Parent(u, c)) # "red"
  BY <1>1, <1>2, <1>8
<1>12. InsertInv(u, N, b2, c)
  BY <1>1, <1>7, <1>8, <1>9, <1>10, <1>11 DEF InsertInv, OnlyRedChild
<1>. QED
  BY <1>6, <1>11, <1>12

\* An inner child is made the parent of its parent first.
LEMMA InsertInner ==
  ASSUME NEW t, NEW N, NEW b, NEW c, InsertInv(t, N, b, c), Color(t, Parent(t, c)) = "red",
         NEW d \in Dir, Child(t, d, Parent(t, Parent(t, c))) = Parent(t, c), Child(t, Other(d), Parent(t, c)) = c
  PROVE  LET p == Parent(t, c)
             g == Parent(t, p)
             u == rotate(t, d, p)
         IN  /\ \E b2 : InsertInv(u, N, b2, p)
             /\ Parent(u, p) = c /\ Parent(u, c) = g /\ Child(u, d, g) = c /\ Child(u, d, c) = p
             /\ Color(u, c) = "red" /\ Child(u, Other(d), g) = Child(t, Other(d), g)
             /\ Color(u, Child(u, Other(d), g)) = Color(t, Child(t, Other(d), g))
<1>. DEFINE o == Other(d)
            p == Parent(t, c)
            g == Parent(t, p)
            i == Child(t, d, c)
            n == Child(t, o, g)
            u == rotate(t, d, p)
            b2 == Turned(b, d, p, c)
<1>1. /\ t \in Tree /\ Shaped(t, N, b) /\ ~t.crashed /\ c \in N /\ N \subseteq Page /\ Nil \notin N /\ N \subseteq Link
      /\ o \in Dir /\ o # d /\ Other(o) = d /\ t.root \in Link
  BY Constants, Directions, Reads DEF InsertInv, Shaped
<1>2. p \in N /\ g \in N /\ Color(t, g) = "black" /\ c # p /\ p # g /\ c # g /\ Color(t, t.root) # "red"
      /\ Color(t, c) = "red" /\ Color(t, p) = "red"
  BY InsertAbove DEF InsertInv
<1>3. Rotated(t, u, d, p) /\ Shaped(u, N, b2)
  <2>1. Child(t, o, p) = c /\ c # Nil
    BY <1>1
  <2>. HIDE DEF p
  <2>. QED
    BY <1>1, <1>2, <2>1, RotateShaped
<1>4. SideOf(t, p) = d
  BY <1>1, <1>2, OneParent
<1>. HIDE DEF o, p, g, i, n, u, b2
<1>5. /\ u \in Tree /\ u.crashed = t.crashed
      /\ u.root = t.root
      /\ \A x \in Link : Parent(u, x) = IF x = p THEN c ELSE IF x = c THEN g
                                        ELSE IF x = i /\ x # Nil THEN p ELSE Parent(t, x)
      /\ \A x \in Link, e \in Dir :
            Child(u, e, x) = IF x = p /\ e = o THEN i ELSE IF x = c /\ e = d THEN p
                             ELSE IF x = g /\ e = d THEN c ELSE Child(t, e, x)
      /\ \A x \in Link : Color(u, x) = Color(t, x)
  <2>1. Child(t, o, p) = c /\ Parent(t, p) = g /\ g # Nil /\ Child(t, d, c) = i /\ Other(d) = o
    BY <1>1, <1>2 DEF g, p, o, i
  <2>. QED
    BY <1>1, <1>2, <1>3, <1>4, <2>1 DEF Rotated
<1>6. Parent(u, p) = c /\ Parent(u, c) = g /\ Child(u, d, g) = c /\ Child(u, d, c) = p /\ Child(u, o, g) = n
  BY <1>1, <1>2, <1>5 DEF n
<1>7. ASSUME NEW x \in N, NEW e \in Dir, Color(u, x) = "red", Color(u, Child(u, e, x)) = "red"
      PROVE  Child(u, e, x) = p
  <2>1. Color(t, x) = "red" /\ Color(t, Child(u, e, x)) = "red" /\ x # g
    BY <1>1, <1>2, <1>5, <1>7, Reads
  <2>2. CASE x = p /\ e = o
    <3>1. Color(t, Child(t, d, c)) = "red" /\ Child(u, e, x) = i
      BY <1>1, <1>2, <1>5, <2>1, <2>2 DEF i
    <3>2. Child(t, d, c) = c
      BY <1>1, <1>2, <3>1 DEF InsertInv, OnlyRedChild
    <3>. QED
      BY <1>1, <3>2, ChildFacts
  <2>3. CASE x = c /\ e = d
    BY <1>6, <2>3
  <2>4. CASE ~(x = p /\ e = o) /\ ~(x = c /\ e = d)
    <3>1. Child(u, e, x) = Child(t, e, x)
      BY <1>1, <1>5, <2>1, <2>4
    <3>2. Child(t, e, x) = c
      BY <2>1, <3>1 DEF InsertInv, OnlyRedChild
    <3>3. Parent(t, c) = x /\ SideOf(t, c) = e
      BY <1>1, <3>2, OneParent
    <3>4. SideOf(t, c) = o
      BY <1>1, <1>2, OneParent DEF o, p
    <3>. QED
      BY <2>4, <3>3, <3>4 DEF p
  <2>. QED
    BY <2>2, <2>3, <2>4
<1>8. Color(u, u.root) # "red" /\ Color(u, p) = "red" /\ Color(u, c) = "red"
  BY <1>1, <1>2, <1>5
<1>9. InsertInv(u, N, b2, p)
  BY <1>1, <1>2, <1>3, <1>5, <1>7, <1>8 DEF InsertInv, OnlyRedChild
<1>10. Color(u, n) = Color(t, n)
  BY <1>1, <1>2, <1>5, Reads DEF n
<1>. QED
  BY <1>6, <1>8, <1>9, <1>10 DEF p, g, u, n, o

\* A red uncle: the colours move up, and the loop goes on at the grandparent.
LEMMA InsertUncle ==
  ASSUME NEW t, NEW N, NEW b, NEW c, InsertInv(t, N, b, c), Color(t, Parent(t, c)) = "red",
         NEW d \in Dir, Child(t, d, Parent(t, Parent(t, c))) = Parent(t, c),
         Color(t, Child(t, Other(d), Parent(t, Parent(t, c)))) = "red"
  PROVE  LET p == Parent(t, c)
             g == Parent(t, p)
             n == Child(t, Other(d), g)
         IN  /\ InsertInv(SetColor(SetColor(SetColor(t, p, "black"), n, "black"), g, "red"), N, b, g)
             /\ Width(b, c) < Width(b, g)
<1>. DEFINE o == Other(d)
            p == Parent(t, c)
            g == Parent(t, p)
            n == Child(t, o, g)
            v == SetColor(SetColor(t, p, "black"), n, "black")
            u == SetColor(v, g, "red")
<1>1. /\ t \in Tree /\ Shaped(t, N, b) /\ ~t.crashed /\ c \in N /\ N \subseteq Page /\ Nil \notin N /\ N \subseteq Link
      /\ o \in Dir /\ o # d /\ Other(o) = d /\ t.root \in Link
  BY Constants, Directions, Reads DEF InsertInv, Shaped
<1>2. p \in N /\ g \in N /\ Color(t, g) = "black" /\ c # p /\ p # g /\ c # g /\ Color(t, t.root) # "red"
      /\ Color(t, c) = "red" /\ Color(t, p) = "red" /\ SideOf(t, c) \in Dir /\ Child(t, SideOf(t, c), p) = c
  BY InsertAbove DEF InsertInv
<1>3. n # Nil
  BY <1>1, <1>2, Reads
<1>4. n \in N /\ n # g
  BY <1>1, <1>2, <1>3, ChildFacts
<1>w. Width(b, c) < Width(b, g)
  <2>1. Width(b, c) < Width(b, p)
    BY <1>1, <1>2, ChildNarrower
  <2>2. Width(b, p) < Width(b, g)
    BY <1>1, <1>2, ChildNarrower
  <2>3. Width(b, c) \in Nat /\ Width(b, p) \in Nat /\ Width(b, g) \in Nat
    BY <1>1, <1>2, WidthIs
  <2>. QED
    BY <2>1, <2>2, <2>3
<1>c. \A x \in N, e \in Dir : Child(t, e, x) \in Link
  BY <1>1, Reads
<1>k. ASSUME NEW e \in Dir PROVE Child(t, e, g) = p \/ Child(t, e, g) = n
  BY Directions
<1>. HIDE DEF o, p, g, n
<1>5. TwicePainted(t, v, p, "black", n, "black")
  BY <1>1, <1>2, <1>4, PaintsTwice DEF Colors
<1>. HIDE DEF v
<1>6. v \in Tree
  BY <1>5 DEF TwicePainted
<1>7. Painted(v, u, g, "red")
  BY <1>1, <1>2, <1>6, SetsColor
<1>. HIDE DEF u
<1>8. /\ u \in Tree /\ SameLinks(t, u) /\ ~u.crashed
      /\ \A x \in Link : Color(u, x) = IF x = g THEN "red" ELSE IF x = p \/ x = n THEN "black" ELSE Color(t, x)
  <2>1. u \in Tree /\ ~u.crashed
    BY <1>1, <1>5, <1>7 DEF TwicePainted, Painted
  <2>2. SameLinks(t, u)
    BY <1>5, <1>7 DEF TwicePainted, Painted, SameLinks
  <2>3. \A x \in Link : Color(u, x) = IF x = g THEN "red" ELSE IF x = p \/ x = n THEN "black" ELSE Color(t, x)
    BY <1>1, <1>2, <1>4, <1>5, <1>7 DEF TwicePainted, Painted
  <2>. QED
    BY <2>1, <2>2, <2>3
<1>9. Shaped(u, N, b) /\ u.root = t.root /\ (\A x \in N, e \in Dir : Child(u, e, x) = Child(t, e, x))
  BY <1>1, <1>8, SameShape DEF SameLinks
<1>10. ASSUME NEW x \in N, NEW e \in Dir, Color(u, x) = "red", Color(u, Child(u, e, x)) = "red"
       PROVE  Child(u, e, x) = g
  <2>. DEFINE y == Child(t, e, x)
  <2>. SUFFICES ASSUME y # g PROVE FALSE
    BY <1>9
  <2>1. y \in Link /\ Child(u, e, x) = y
    BY <1>9, <1>c
  <2>. HIDE DEF y
  <2>2. y # p /\ y # n /\ Color(t, y) = "red"
    BY <1>8, <1>10, <2>1
  <2>3. x # g
    BY <1>k, <2>2 DEF y
  <2>4. x # p /\ Color(t, x) = "red"
    BY <1>1, <1>2, <1>8, <1>10, <2>3
  <2>5. y = c
    BY <2>2, <2>4 DEF y, InsertInv, OnlyRedChild
  <2>6. Parent(t, y) = x
    BY <1>1, <2>5, ChildFacts DEF y
  <2>. QED
    BY <2>4, <2>5, <2>6 DEF p
<1>11. Color(u, u.root) = "red" => u.root = g
  BY <1>1, <1>2, <1>8, <1>9
<1>12. InsertInv(u, N, b, g)
  BY <1>1, <1>2, <1>8, <1>9, <1>10, <1>11 DEF InsertInv, OnlyRedChild
<1>. QED
  BY <1>12, <1>w DEF u, v, n, g, p, o

LEMMA PaintTyped ==
  ASSUME NEW t \in Tree, NEW a \in Link, NEW c \in Colors
  PROVE  SetColor(t, a, c) \in Tree
BY SetsColor DEF Painted, Colors

LEMMA InsertOuterTyped ==
  ASSUME NEW t \in Tree, NEW d \in Dir, NEW c \in Link
  PROVE  insert_outer(t, d, c) \in Tree
<1>. DEFINE t1 == SetColor(SetColor(t, Parent(t, c), "black"), Parent(t, Parent(t, c)), "red")
<1>1. t1 \in Tree
  BY Reads, PaintTyped DEF Colors
<1>2. insert_outer(t, d, c) = rotate(t1, Other(d), Parent(t1, Parent(t1, c)))
  BY DEF insert_outer
<1>. HIDE DEF t1
<1>3. Parent(t1, Parent(t1, c)) \in Link
  BY <1>1, Reads
<1>. QED
  BY <1>1, <1>2, <1>3, RotateTyped, Directions

LEMMA InsertStepTyped ==
  ASSUME NEW t \in Tree, NEW c \in Link
  PROVE  insert_step(t, c) \in Tree \X Link
<1>. DEFINE p == Parent(t, c)
            g == Parent(t, p)
            d == SideOf(t, p)
            b == Child(t, Other(d), g)
            t1 == SetColor(SetColor(t, p, "black"), b, "black")
            t2 == SetColor(t1, g, "red")
            t3 == insert_outer(rotate(t, d, p), d, p)
            t4 == insert_outer(t, d, c)
<1>1. p \in Link /\ g \in Link /\ d \in Dir /\ Other(d) \in Dir /\ b \in Link
  BY Reads, SideOfIs, Directions
<1>2. insert_step(t, c) = IF Color(t, b) = "red" THEN <<t2, g>>
                          ELSE IF c = Child(t, Other(d), p) THEN <<t3, p>> ELSE <<t4, c>>
  BY DEF insert_step
<1>. HIDE DEF p, g, d, b
<1>3. t1 \in Tree
  BY <1>1, PaintTyped DEF Colors
<1>. HIDE DEF t1
<1>4. t2 \in Tree
  BY <1>1, <1>3, PaintTyped DEF Colors
<1>5. t3 \in Tree
  BY <1>1, RotateTyped, InsertOuterTyped
<1>6. t4 \in Tree
  BY <1>1, InsertOuterTyped
<1>. HIDE DEF t2, t3, t4
<1>. QED
  BY <1>1, <1>2, <1>4, <1>5, <1>6

LEMMA InsertFixupEquation ==
  ASSUME NEW t \in Tree, NEW c \in Link
  PROVE  insert_fixup[<<t, c>>] = IF ~t.crashed /\ Color(t, Parent(t, c)) = "red" THEN insert_fixup[insert_step(t, c)]
                                  ELSE SetColor(t, t.root, "black")
<1>. DEFINE X == Tree \X Link
            P(f) == f = [x \in X |-> IF ~x[1].crashed /\ Color(x[1], Parent(x[1], x[2])) = "red"
                                     THEN f[insert_step(x[1], x[2])] ELSE SetColor(x[1], x[1].root, "black")]
            Go == {x \in X : ~x[1].crashed /\ Color(x[1], Parent(x[1], x[2])) = "red"}
            step == [x \in X |-> insert_step(x[1], x[2])]
            done == [x \in X |-> SetColor(x[1], x[1].root, "black")]
<1>1. \A x \in X : insert_step(x[1], x[2]) \in X /\ SetColor(x[1], x[1].root, "black") \in Tree
  <2>. SUFFICES ASSUME NEW x \in X PROVE insert_step(x[1], x[2]) \in X /\ SetColor(x[1], x[1].root, "black") \in Tree
    OBVIOUS
  <2>1. x[1] \in Tree /\ x[2] \in Link
    OBVIOUS
  <2>2. x[1].root \in Link
    BY <2>1, Reads
  <2>. QED
    BY <2>1, <2>2, InsertStepTyped, PaintTyped DEF Colors
<1>2. step \in [X -> X] /\ done \in [X -> Tree] /\ Go \in SUBSET X
  <2>. HIDE DEF X
  <2>. QED
    BY <1>1
<1>3. \A f : \A x \in X : (IF x \in Go THEN f[step[x]] ELSE done[x])
                        = IF ~x[1].crashed /\ Color(x[1], Parent(x[1], x[2])) = "red"
                          THEN f[insert_step(x[1], x[2])] ELSE SetColor(x[1], x[1].root, "black")
  <2>. HIDE DEF X
  <2>. QED
    OBVIOUS
<1>4. PICK f : Computes(f, X, Go, step, done)
  <2>. HIDE DEF X, step, done, Go
  <2>. QED
    BY <1>2, LoopComputes
<1>5. P(f)
  <2>. HIDE DEF X, step, done, Go
  <2>. QED
    BY <1>3, <1>4 DEF Computes
<1>6. insert_fixup = CHOOSE h : P(h)
  BY DEF insert_fixup
<1>7. P(insert_fixup)
  <2>. HIDE DEF P
  <2>. QED
    BY <1>5, <1>6
<1>8. <<t, c>> \in X
  OBVIOUS
<1>9. insert_fixup[<<t, c>>] = IF ~<<t, c>>[1].crashed /\ Color(<<t, c>>[1], Parent(<<t, c>>[1], <<t, c>>[2])) = "red"
                               THEN insert_fixup[insert_step(<<t, c>>[1], <<t, c>>[2])]
                               ELSE SetColor(<<t, c>>[1], <<t, c>>[1].root, "black")
  <2>. HIDE DEF X
  <2>. QED
    BY <1>7, <1>8
<1>. QED
  BY <1>9

\* Each turn of the loop keeps the invariant, and ends it or takes it to a wider node.
LEMMA InsertSteps ==
  ASSUME NEW t, NEW N, NEW b, NEW c, InsertInv(t, N, b, c), Color(t, Parent(t, c)) = "red"
  PROVE  LET s == insert_step(t, c) IN
         /\ s = <<s[1], s[2]>>
         /\ \E b2 : /\ InsertInv(s[1], N, b2, s[2])
                    /\ Color(s[1], Parent(s[1], s[2])) # "red" \/ Width(b, c) < Width(b2, s[2])
<1>. DEFINE p == Parent(t, c)
            g == Parent(t, p)
            d == SideOf(t, p)
            n == Child(t, Other(d), g)
            t1 == SetColor(SetColor(SetColor(t, p, "black"), n, "black"), g, "red")
            t2 == rotate(t, d, p)
            t3 == insert_outer(t2, d, p)
            t4 == insert_outer(t, d, c)
            s == insert_step(t, c)
<1>1. /\ p \in N /\ g \in N /\ d \in Dir /\ Child(t, d, g) = p
      /\ SideOf(t, c) \in Dir /\ Child(t, SideOf(t, c), p) = c
  BY InsertAbove
<1>2. s = IF Color(t, n) = "red" THEN <<t1, g>>
          ELSE IF c = Child(t, Other(d), p) THEN <<t3, p>> ELSE <<t4, c>>
  BY DEF insert_step
<1>3. CASE Color(t, n) = "red"
  <2>1. InsertInv(t1, N, b, g) /\ Width(b, c) < Width(b, g)
    <3>. HIDE DEF d
    <3>. QED
      BY <1>1, <1>3, InsertUncle
  <2>2. s = <<t1, g>>
    BY <1>2, <1>3
  <2>. HIDE DEF s, t1, g
  <2>. QED
    BY <2>1, <2>2 DEF s
<1>4. CASE Color(t, n) # "red" /\ c = Child(t, Other(d), p)
  <2>1. /\ \E b2 : InsertInv(t2, N, b2, p)
        /\ Parent(t2, p) = c /\ Parent(t2, c) = g /\ Child(t2, d, g) = c /\ Child(t2, d, c) = p
        /\ Color(t2, c) = "red"
        /\ Color(t2, Child(t2, Other(d), g)) = Color(t, n)
    <3>. HIDE DEF d
    <3>. QED
      BY <1>1, <1>4, InsertInner
  <2>2. PICK b1 : InsertInv(t2, N, b1, p)
    BY <2>1
  <2>. HIDE DEF t2, d, p, g, n
  <2>3. \E b2 : InsertInv(t3, N, b2, p) /\ Color(t3, Parent(t3, p)) # "red"
    BY <1>1, <1>4, <2>1, <2>2, InsertOuter
  <2>4. s = <<t3, p>>
    BY <1>2, <1>4
  <2>. HIDE DEF s, t3
  <2>. QED
    BY <2>3, <2>4 DEF s
<1>5. CASE Color(t, n) # "red" /\ c # Child(t, Other(d), p)
  <2>1. SideOf(t, c) = d
    BY <1>1, <1>5, Directions
  <2>2. \E b2 : InsertInv(t4, N, b2, c) /\ Color(t4, Parent(t4, c)) # "red"
    <3>. HIDE DEF d
    <3>. QED
      BY <1>1, <1>5, <2>1, InsertOuter
  <2>3. s = <<t4, c>>
    BY <1>2, <1>5
  <2>. HIDE DEF s, t4
  <2>. QED
    BY <2>2, <2>3 DEF s
<1>. QED
  BY <1>3, <1>4, <1>5

\* No red node has a red child, and the root is not red.
Calm(t, N) ==
    /\ Color(t, t.root) # "red"
    /\ \A x \in N, d \in Dir : Color(t, x) = "red" => Color(t, Child(t, d, x)) # "red"

\* A red-black tree (but for the balance) of the pages N
Sound(t, N) == t \in Tree /\ Calm(t, N) /\ \E b : Shaped(t, N, b)

\* The loop has ended: the root turns black.
LEMMA InsertEnds ==
  ASSUME NEW t, NEW N, NEW b, NEW c, InsertInv(t, N, b, c), Color(t, Parent(t, c)) # "red"
  PROVE  LET u == SetColor(t, t.root, "black") IN Sound(u, N) /\ ~u.crashed
<1>. DEFINE u == SetColor(t, t.root, "black")
<1>1. t \in Tree /\ Shaped(t, N, b) /\ ~t.crashed /\ N \subseteq Link /\ Nil \notin N /\ t.root \in Link
      /\ t.root # Nil
  BY Constants DEF InsertInv, Shaped
<1>2. Painted(t, u, t.root, "black")
  BY <1>1, SetsColor
<1>. HIDE DEF u
<1>3. /\ u \in Tree /\ ~u.crashed /\ SameLinks(t, u) /\ u.root = t.root
      /\ \A x \in Link : Color(u, x) = IF x = t.root THEN "black" ELSE Color(t, x)
  BY <1>1, <1>2 DEF Painted, SameLinks
<1>4. Shaped(u, N, b)
  BY <1>1, <1>3, SameShape
<1>5. ASSUME NEW x \in N, NEW d \in Dir, Color(u, x) = "red", Color(u, Child(u, d, x)) = "red" PROVE FALSE
  <2>. DEFINE y == Child(t, d, x)
  <2>1. Child(u, d, x) = y /\ y \in Link
    BY <1>1, <1>3, Reads DEF SameLinks
  <2>2. Color(t, x) = "red" /\ Color(t, y) = "red"
    BY <1>1, <1>3, <1>5, <2>1
  <2>3. y = c /\ y # Nil
    BY <2>2, <1>1, Reads DEF InsertInv, OnlyRedChild
  <2>4. Parent(t, c) = x
    BY <1>1, <2>3, ChildFacts
  <2>. QED
    BY <2>2, <2>4
<1>6. Calm(u, N)
  BY <1>1, <1>3, <1>5 DEF Calm
<1>. QED
  BY <1>3, <1>4, <1>6 DEF Sound, u

LEMMA InsertFixupIs ==
  ASSUME NEW t, NEW N, NEW b, NEW c, InsertInv(t, N, b, c)
  PROVE  Sound(insert_fixup[<<t, c>>], N) /\ ~insert_fixup[<<t, c>>].crashed
<1>. DEFINE Good(v, z) == Sound(insert_fixup[<<v, z>>], N) /\ ~insert_fixup[<<v, z>>].crashed
            T == {k \in Nat : \E v \in Tree, z \in N, w \in Bounds :
                                 InsertInv(v, N, w, z) /\ k = NPages + 1 - Width(w, z) /\ ~Good(v, z)}
<1>1. ASSUME T # {} PROVE FALSE
  <2>1. PICK k \in T : \A j \in T : k <= j
    <3>1. T \in SUBSET Nat
      OBVIOUS
    <3>. HIDE DEF T
    <3>. QED
      BY <1>1, <3>1, Least
  <2>2. PICK v \in Tree, z \in N, w \in Bounds :
           InsertInv(v, N, w, z) /\ k = NPages + 1 - Width(w, z) /\ ~Good(v, z)
    BY <2>1
  <2>3. ~v.crashed /\ z \in Link /\ Shaped(v, N, w)
    BY <2>2, Constants DEF InsertInv, Shaped
  <2>4. CASE Color(v, Parent(v, z)) # "red"
    <3>1. insert_fixup[<<v, z>>] = SetColor(v, v.root, "black")
      BY <2>2, <2>3, <2>4, InsertFixupEquation
    <3>2. Sound(SetColor(v, v.root, "black"), N) /\ ~SetColor(v, v.root, "black").crashed
      BY <2>2, <2>4, InsertEnds
    <3>. QED
      BY <2>2, <3>1, <3>2
  <2>5. CASE Color(v, Parent(v, z)) = "red"
    <3>. DEFINE s == insert_step(v, z)
                v1 == s[1]
                z1 == s[2]
    <3>1. s = <<v1, z1>> /\ \E w1 : /\ InsertInv(v1, N, w1, z1)
                                    /\ Color(v1, Parent(v1, z1)) # "red" \/ Width(w, z) < Width(w1, z1)
      BY <2>2, <2>5, InsertSteps
    <3>2. insert_fixup[<<v, z>>] = insert_fixup[s]
      BY <2>2, <2>3, <2>5, InsertFixupEquation
    <3>. HIDE DEF s, v1, z1
    <3>3. insert_fixup[<<v, z>>] = insert_fixup[<<v1, z1>>]
      BY <3>1, <3>2
    <3>4. PICK w1 : /\ InsertInv(v1, N, w1, z1)
                    /\ Color(v1, Parent(v1, z1)) # "red" \/ Width(w, z) < Width(w1, z1)
      BY <3>1
    <3>5. v1 \in Tree /\ ~v1.crashed /\ z1 \in N /\ z1 \in Link /\ Shaped(v1, N, w1) /\ w1 \in Bounds
      BY <3>4, Constants DEF InsertInv, Shaped
    <3>6. ~Good(v1, z1)
      BY <2>2, <3>3
    <3>7. CASE Color(v1, Parent(v1, z1)) # "red"
      <4>1. insert_fixup[<<v1, z1>>] = SetColor(v1, v1.root, "black")
        BY <3>5, <3>7, InsertFixupEquation
      <4>2. Sound(SetColor(v1, v1.root, "black"), N) /\ ~SetColor(v1, v1.root, "black").crashed
        BY <3>4, <3>7, InsertEnds
      <4>. QED
        BY <3>6, <4>1, <4>2
    <3>8. CASE Width(w, z) < Width(w1, z1)
      <4>1. /\ Width(w, z) \in Nat /\ Width(w1, z1) \in Nat /\ Width(w1, z1) <= NPages + 1 /\ NPages \in Nat
        BY <2>2, <2>3, <3>5, WidthIs, Constants
      <4>. DEFINE j == NPages + 1 - Width(w1, z1)
      <4>2. j \in Nat /\ j < k
        BY <2>2, <3>8, <4>1
      <4>3. j \in T
        <5>. HIDE DEF Good
        <5>. QED
          BY <3>4, <3>5, <3>6, <4>2
      <4>. HIDE DEF j, T
      <4>. QED
        BY <2>1, <4>2, <4>3
    <3>. QED
      BY <3>4, <3>7, <3>8
  <2>. QED
    BY <2>4, <2>5
<1>2. t \in Tree /\ c \in N /\ b \in Bounds /\ Shaped(t, N, b)
  BY DEF InsertInv, Shaped
<1>3. NPages + 1 - Width(b, c) \in Nat
  <2>1. Width(b, c) \in Nat /\ Width(b, c) <= NPages + 1 /\ NPages \in Nat
    BY <1>2, WidthIs, Constants
  <2>. HIDE DEF Width
  <2>. QED
    BY <2>1
<1>4. ASSUME ~Good(t, c) PROVE FALSE
  <2>1. NPages + 1 - Width(b, c) \in T
    <3>. HIDE DEF Good
    <3>. QED
      BY <1>2, <1>3, <1>4
  <2>. QED
    BY <1>1, <2>1
<1>. QED
  BY <1>4

\* insert
LEMMA InsertIs ==
  ASSUME NEW t, NEW N, Sound(t, N), ~t.crashed, NEW n \in Page, n \notin N
  PROVE  Sound(insert(t, n), N \cup {n}) /\ ~insert(t, n).crashed
<1>. DEFINE p == descend(t, n)
            u == insert_leaf(t, n, p)
            M == N \cup {n}
<1>1. PICK b : Shaped(t, N, b)
  BY DEF Sound
<1>2. t \in Tree /\ Calm(t, N) /\ N \subseteq Page /\ N \subseteq Link /\ Nil \notin N /\ n \in Link /\ n # Nil
      /\ t.root \in N \cup {Nil}
  BY <1>1, Constants DEF Sound, Shaped
<1>3. IF t.root = Nil THEN p = Nil
      ELSE p \in N /\ Toward(n, p) \in Dir /\ Beside(Toward(n, p), n, p) /\ Child(t, Toward(n, p), p) = Nil
           /\ Inside(b, p, n)
  BY <1>1, <1>2, DescendIs
<1>. HIDE DEF p
<1>4. p \in Link /\ p # n
  BY <1>2, <1>3, Constants
<1>5. Leafed(t, u, n, p)
  BY <1>2, <1>4, LeafLinks
<1>. HIDE DEF u
<1>6. Shaped(u, M, Leaf(b, n, p))
  BY <1>1, <1>2, <1>3, <1>4, <1>5, LeafShaped
<1>7. /\ u \in Tree /\ ~u.crashed /\ u.root = IF p = Nil THEN n ELSE t.root
      /\ \A x \in Link, e \in Dir : Child(u, e, x) = IF x = n THEN Nil
                                                     ELSE IF p # Nil /\ x = p /\ e = Toward(n, p) THEN n ELSE Child(t, e, x)
      /\ \A x \in Link : Color(u, x) = IF x = n THEN "red" ELSE Color(t, x)
  BY <1>5 DEF Leafed
<1>8. Color(u, u.root) = "red" => u.root = n
  BY <1>2, <1>3, <1>7 DEF Calm
<1>9. ASSUME NEW x \in M, NEW d \in Dir, Color(u, x) = "red", Color(u, Child(u, d, x)) = "red", Child(u, d, x) # n
      PROVE  FALSE
  <2>1. x # n
    BY <1>2, <1>7, <1>9, Reads
  <2>2. Child(u, d, x) = Child(t, d, x) /\ x \in N /\ Child(t, d, x) \in Link
    BY <1>2, <1>7, <1>9, <2>1, Reads
  <2>3. Color(t, x) = "red" /\ Color(t, Child(t, d, x)) = "red"
    BY <1>2, <1>7, <1>9, <2>1, <2>2
  <2>. QED
    BY <1>2, <2>2, <2>3 DEF Calm
<1>10. Color(u, n) = "red"
  BY <1>2, <1>7
<1>11. InsertInv(u, M, Leaf(b, n, p), n)
  BY <1>6, <1>7, <1>8, <1>9, <1>10 DEF InsertInv, OnlyRedChild
<1>12. insert(t, n) = insert_fixup[<<u, n>>]
  BY DEF insert, u, p
<1>. QED
  BY <1>11, <1>12, InsertFixupIs

-----------------------------------------------------------------------------
(* delete_fixup *)

\* A rotation that changes three links: what must be known of the colours before it
LEMMA RotateCalm ==
  ASSUME NEW t \in Tree, NEW N, NEW b, Shaped(t, N, b), NEW d \in Dir, NEW a \in N, NEW c, NEW q, NEW u,
         c = Child(t, Other(d), a), c # Nil, q = Parent(t, a), Rotated(t, u, d, a),
         \A x \in N, e \in Dir : Color(t, x) = "red" /\ Color(t, Child(t, e, x)) = "red"
                                 => (x = a /\ e = Other(d)) \/ (x = c /\ e = d) \/ Child(t, e, x) = a,
         ~(Color(t, c) = "red" /\ Color(t, a) = "red"),
         ~(Color(t, a) = "red" /\ Color(t, Child(t, d, c)) = "red"),
         q # Nil => ~(Color(t, q) = "red" /\ Color(t, c) = "red"),
         q = Nil => Color(t, c) # "red",
         q # Nil => Color(t, t.root) # "red"
  PROVE  Calm(u, N)
<1>. DEFINE o == Other(d)
            i == Child(t, d, c)
<1>1. N \subseteq Page /\ N \subseteq Link /\ Nil \notin N /\ o \in Dir /\ o # d /\ t.root \in Link
  BY Constants, Directions, Reads DEF Shaped
<1>2. c \in N /\ c \in Link /\ i \in Link /\ c # a
  <2>1. c \in N /\ c # a
    BY <1>1, ChildFacts
  <2>. QED
    BY <1>1, <2>1, Reads
<1>3. /\ u \in Tree
      /\ u.root = IF q = Nil THEN c ELSE t.root
      /\ \A x \in Link, e \in Dir :
            Child(u, e, x) = IF x = a /\ e = o THEN i ELSE IF x = c /\ e = d THEN a
                             ELSE IF x # Nil /\ x = q /\ e = SideOf(t, a) THEN c ELSE Child(t, e, x)
      /\ \A x \in Link : Color(u, x) = Color(t, x)
  BY DEF Rotated
<1>. HIDE DEF o, i
<1>4. ASSUME NEW x \in N, NEW e \in Dir, Color(u, x) = "red", Color(u, Child(u, e, x)) = "red" PROVE FALSE
  <2>1. Color(t, x) = "red" /\ Color(t, Child(u, e, x)) = "red"
    BY <1>1, <1>3, <1>4, Reads
  <2>2. CASE x = a /\ e = o
    BY <1>1, <1>3, <2>1, <2>2 DEF i
  <2>3. CASE x = c /\ e = d
    BY <1>1, <1>2, <1>3, <2>1, <2>3
  <2>4. CASE x = q /\ e = SideOf(t, a) /\ ~(x = a /\ e = o) /\ ~(x = c /\ e = d)
    BY <1>1, <1>3, <2>1, <2>4
  <2>5. CASE ~(x = a /\ e = o) /\ ~(x = c /\ e = d) /\ ~(x = q /\ e = SideOf(t, a))
    <3>1. Child(u, e, x) = Child(t, e, x)
      BY <1>1, <1>3, <2>5
    <3>2. Child(t, e, x) = a
      BY <2>1, <2>5, <3>1 DEF o
    <3>3. Parent(t, a) = x /\ SideOf(t, a) = e
      BY <1>1, <3>2, OneParent
    <3>. QED
      BY <2>5, <3>3
  <2>. QED
    BY <1>1, <2>2, <2>3, <2>4, <2>5
<1>5. Color(u, u.root) # "red"
  BY <1>1, <1>2, <1>3
<1>. QED
  BY <1>4, <1>5 DEF Calm

\* Where no red node has a red child
LEMMA CalmIs ==
  ASSUME NEW t, NEW N, Calm(t, N), NEW x \in N, NEW d \in Dir, Color(t, x) = "red"
  PROVE  Color(t, Child(t, d, x)) # "red"
BY DEF Calm

\* Generations: nodes at different heights are different.
LEMMA Grandchild ==
  ASSUME NEW t \in Tree, NEW N, NEW b, Shaped(t, N, b), NEW x \in N, NEW d \in Dir, NEW e \in Dir,
         NEW y, y = Child(t, d, x), y # Nil, NEW z, z = Child(t, e, y), z # Nil
  PROVE  z \in N /\ y \in N /\ z # x /\ z # y /\ y # x /\ y # t.root /\ z # t.root
         /\ Parent(t, z) = y /\ Parent(t, y) = x
         /\ Parent(t, x) # y /\ Parent(t, x) # z /\ Parent(t, x) # x
<1>1. y \in N /\ y # x /\ Width(b, y) < Width(b, x) /\ Parent(t, y) = x /\ y # t.root
  BY ChildFacts, ChildNarrower
<1>2. z \in N /\ z # y /\ Width(b, z) < Width(b, y) /\ Parent(t, z) = y /\ z # t.root
  BY <1>1, ChildFacts, ChildNarrower
<1>3. Width(b, x) \in Nat /\ Width(b, y) \in Nat /\ Width(b, z) \in Nat
  BY <1>1, <1>2, WidthIs
<1>4. Parent(t, x) \in N /\ Parent(t, x) # Nil => Width(b, x) < Width(b, Parent(t, x))
  <2>. SUFFICES ASSUME Parent(t, x) # Nil PROVE Width(b, x) < Width(b, Parent(t, x))
    OBVIOUS
  <2>1. Parent(t, x) \in N /\ SideOf(t, x) \in Dir /\ Child(t, SideOf(t, x), Parent(t, x)) = x /\ x # Nil
    BY ParentFacts
  <2>. QED
    BY <2>1, ChildNarrower
<1>5. Nil \notin N
  BY Constants DEF Shaped
<1>. QED
  BY <1>1, <1>2, <1>3, <1>4, <1>5

\* A red sibling is rotated away.
LEMMA SiblingUp ==
  ASSUME NEW t \in Tree, NEW N, NEW b, Shaped(t, N, b), Calm(t, N), ~t.crashed, NEW p \in N, NEW d \in Dir,
         NEW a, a = Child(t, d, p), Color(t, a) = "black", Color(t, Child(t, Other(d), p)) = "red"
  PROVE  LET u == sibling_up(t, d, p) IN
         /\ u \in Tree /\ ~u.crashed /\ Calm(u, N) /\ Parent(u, a) = p /\ Child(u, d, p) = a /\ Color(u, a) = "black"
         /\ \E b2 : Shaped(u, N, b2) /\ Width(b2, a) = Width(b, a)
<1>. DEFINE o == Other(d)
            s == Child(t, o, p)
            i == Child(t, d, s)
            q == Parent(t, p)
            t1 == SetColor(SetColor(t, s, "black"), p, "red")
            u == rotate(t1, d, p)
            b2 == Turned(b, d, p, s)
<1>1. N \subseteq Page /\ N \subseteq Link /\ Nil \notin N /\ o \in Dir /\ o # d /\ Other(o) = d /\ t.root \in Link /\ b \in Bounds
  BY Constants, Directions, Reads DEF Shaped
<1>2. s # Nil /\ a # Nil
  BY <1>1, Reads
<1>3. /\ s \in N /\ a \in N /\ s # p /\ a # p /\ s # a /\ s # t.root /\ a # t.root /\ Parent(t, a) = p
      /\ Parent(t, s) = p /\ q # p /\ q # s
  <2>1. s \in N /\ s # p /\ Parent(t, s) = p /\ s # t.root /\ SideOf(t, s) = o
    BY <1>1, <1>2, ChildFacts, OneParent
  <2>2. a \in N /\ a # p /\ Parent(t, a) = p /\ a # t.root /\ SideOf(t, a) = d
    BY <1>1, <1>2, ChildFacts, OneParent
  <2>3. q # Nil => q # p /\ q # s
    <3>1. q # Nil => q \in N /\ Width(b, p) < Width(b, q)
      <4>. SUFFICES ASSUME q # Nil PROVE q \in N /\ Width(b, p) < Width(b, q)
        OBVIOUS
      <4>1. q \in N /\ SideOf(t, p) \in Dir /\ Child(t, SideOf(t, p), q) = p /\ p # Nil
        BY ParentFacts
      <4>. QED
        BY <4>1, ChildNarrower
    <3>2. Width(b, s) < Width(b, p) /\ Width(b, s) \in Nat /\ Width(b, p) \in Nat
      BY <1>1, <1>2, <2>1, ChildNarrower, WidthIs
    <3>. QED
      BY <3>1, <3>2
  <2>. QED
    BY <1>1, <2>1, <2>2, <2>3
<1>4. i # Nil => i \in N /\ i # p /\ i # s /\ i # a /\ Parent(t, i) = s
  <2>1. i # Nil => i \in N /\ i # p /\ i # s /\ Parent(t, i) = s
    BY <1>1, <1>2, Grandchild
  <2>. QED
    BY <1>3, <2>1
<1>u. sibling_up(t, d, p) = u
  BY DEF sibling_up
<1>. HIDE DEF o, s, i, q
<1>5. TwicePainted(t, t1, s, "black", p, "red")
  BY <1>1, <1>3, PaintsTwice DEF Colors
<1>. HIDE DEF t1
<1>6. /\ t1 \in Tree /\ SameLinks(t, t1) /\ ~t1.crashed
      /\ \A x \in Link : Color(t1, x) = IF x = p THEN "red" ELSE IF x = s THEN "black" ELSE Color(t, x)
  BY <1>1, <1>2, <1>3, <1>5 DEF TwicePainted
<1>7. /\ Shaped(t1, N, b) /\ t1.root = t.root /\ Parent(t1, p) = q /\ Parent(t1, a) = p
      /\ (\A x \in Link, e \in Dir : Child(t1, e, x) = Child(t, e, x))
      /\ Child(t1, o, p) = s /\ Child(t1, d, s) = i
  BY <1>1, <1>3, <1>6, SameShape DEF SameLinks, s, i, q
<1>8. Rotated(t1, u, d, p) /\ Shaped(u, N, b2)
  BY <1>1, <1>2, <1>6, <1>7, RotateShaped DEF u, o
<1>9. /\ u \in Tree /\ ~u.crashed
      /\ Parent(u, a) = p /\ Child(u, d, p) = a /\ Color(u, a) = "black"
  <2>1. /\ u \in Tree /\ u.crashed = t1.crashed
        /\ \A x \in Link : Parent(u, x) = IF x = p THEN s ELSE IF x = s THEN q
                                          ELSE IF x = i /\ x # Nil THEN p ELSE Parent(t1, x)
        /\ \A x \in Link, e \in Dir :
              Child(u, e, x) = IF x = p /\ e = o THEN i ELSE IF x = s /\ e = d THEN p
                               ELSE IF x # Nil /\ x = q /\ e = SideOf(t1, p) THEN s ELSE Child(t1, e, x)
        /\ \A x \in Link : Color(u, x) = Color(t1, x)
    BY <1>7, <1>8 DEF Rotated, o
  <2>2. Parent(u, a) = p
    BY <1>1, <1>3, <1>4, <1>7, <2>1
  <2>3. Child(u, d, p) = a
    BY <1>1, <1>3, <1>7, <2>1
  <2>4. Color(u, a) = "black"
    BY <1>1, <1>3, <1>6, <2>1
  <2>. QED
    BY <1>6, <2>1, <2>2, <2>3, <2>4
<1>10. Width(b2, a) = Width(b, a)
  <2>1. b2["left"][a] = b["left"][a] /\ b2["right"][a] = b["right"][a]
    BY <1>1, <1>3, Directions DEF b2, Turned
  <2>. QED
    BY <2>1 DEF Width
<1>11. Calm(u, N)
  <2>1. ASSUME NEW x \in N, NEW e \in Dir, Color(t1, x) = "red", Color(t1, Child(t1, e, x)) = "red"
        PROVE  (x = p /\ e = o) \/ Child(t1, e, x) = p
    <3>. SUFFICES ASSUME ~(x = p /\ e = o), Child(t1, e, x) # p PROVE FALSE
      OBVIOUS
    <3>1. Child(t1, e, x) = Child(t, e, x) /\ Child(t, e, x) \in Link
      BY <1>1, <1>7, Reads
    <3>2. Color(t, Child(t, e, x)) = "red" /\ Child(t, e, x) # s
      BY <1>6, <2>1, <3>1
    <3>3. x # p
      BY <1>1, <3>2, Directions DEF o
    <3>4. Color(t, x) = "red"
      BY <1>1, <1>6, <2>1, <3>3
    <3>. QED
      BY <3>2, <3>4, CalmIs
  <2>2. Color(t1, s) = "black" /\ Color(t1, i) # "red"
    <3>1. Color(t1, s) = "black"
      BY <1>1, <1>3, <1>6
    <3>2. Color(t, s) = "red" /\ Color(t, i) # "red"
      BY <1>3, CalmIs DEF s, i, o
    <3>3. i \in Link /\ i # p
      BY <1>1, <1>3, <1>4, Constants
    <3>. QED
      BY <1>6, <3>1, <3>2, <3>3
  <2>3. q # Nil => Color(t1, t1.root) # "red"
    <3>1. q # Nil => t.root # p
      BY DEF Shaped, q
    <3>2. Color(t, t.root) # "red"
      BY DEF Calm
    <3>. QED
      BY <1>1, <1>3, <1>6, <1>7, <3>1, <3>2
  <2>4. Other(d) = o /\ s = Child(t1, o, p) /\ q = Parent(t1, p) /\ Child(t1, d, s) = i
    BY <1>7 DEF o
  <2>5. \A x \in N, e \in Dir : Color(t1, x) = "red" /\ Color(t1, Child(t1, e, x)) = "red"
                                 => (x = p /\ e = Other(d)) \/ (x = s /\ e = d) \/ Child(t1, e, x) = p
    BY <2>1, <2>4
  <2>. QED
    BY <1>2, <1>6, <1>7, <1>8, <2>2, <2>3, <2>4, <2>5, RotateCalm
<1>. QED
  BY <1>u, <1>8, <1>9, <1>10, <1>11

\* The red near child r of the sibling s is rotated up.
LEMMA NearUp ==
  ASSUME NEW t \in Tree, NEW N, NEW b, Shaped(t, N, b), Calm(t, N), ~t.crashed, NEW p \in N, NEW d \in Dir,
         NEW a, a = Child(t, d, p), a # Nil, NEW s, s = Child(t, Other(d), p), s # Nil,
         Color(t, Child(t, d, s)) = "red", Color(t, Child(t, Other(d), s)) = "black"
  PROVE  LET u == near_up(t, d, s) IN
         /\ u \in Tree /\ ~u.crashed /\ Calm(u, N) /\ Parent(u, a) = p /\ Child(u, d, p) = a
         /\ Child(u, Other(d), p) = Child(t, d, s) /\ Child(u, Other(d), Child(t, d, s)) = s /\ Color(u, s) = "red"
         /\ \E b2 : Shaped(u, N, b2)
<1>. DEFINE o == Other(d)
            r == Child(t, d, s)
            f == Child(t, o, s)
            i == Child(t, o, r)
            t1 == SetColor(SetColor(t, r, "black"), s, "red")
            u == rotate(t1, o, s)
            b2 == Turned(b, o, s, r)
<1>1. N \subseteq Page /\ N \subseteq Link /\ Nil \notin N /\ o \in Dir /\ o # d /\ Other(o) = d /\ t.root \in Link /\ b \in Bounds
  BY Constants, Directions, Reads DEF Shaped
<1>2. s \in N /\ a \in N /\ s # p /\ a # p /\ Parent(t, s) = p /\ Parent(t, a) = p /\ SideOf(t, s) = o /\ SideOf(t, a) = d
      /\ s # t.root
  BY <1>1, ChildFacts, OneParent
<1>3. r # Nil /\ f # Nil
  BY <1>1, <1>2, Reads
<1>4. r \in N /\ f \in N /\ r # p /\ r # s /\ f # p /\ f # s /\ Parent(t, r) = s /\ Parent(t, f) = s /\ r # t.root
      /\ r # f /\ a # r /\ a # s
  <2>1. r \in N /\ r # p /\ r # s /\ Parent(t, r) = s /\ r # t.root
    BY <1>1, <1>3, Grandchild
  <2>2. f \in N /\ f # p /\ f # s /\ Parent(t, f) = s
    BY <1>1, <1>3, Grandchild
  <2>3. SideOf(t, r) = d /\ SideOf(t, f) = o
    BY <1>1, <1>2, <1>3, OneParent
  <2>. QED
    BY <1>1, <1>2, <2>1, <2>2, <2>3
<1>5. i # Nil => i \in N /\ i # s /\ i # r /\ Parent(t, i) = r /\ i # a
  <2>1. i # Nil => i \in N /\ i # s /\ i # r /\ Parent(t, i) = r
    BY <1>1, <1>2, <1>3, Grandchild
  <2>. QED
    BY <1>2, <1>4, <2>1
<1>u. near_up(t, d, s) = u
  BY DEF near_up
<1>c. Color(t, r) = "red" /\ Color(t, f) = "black"
  OBVIOUS
<1>. HIDE DEF o, r, f, i
<1>6. TwicePainted(t, t1, r, "black", s, "red")
  BY <1>1, <1>2, <1>4, PaintsTwice DEF Colors
<1>. HIDE DEF t1
<1>7. /\ t1 \in Tree /\ SameLinks(t, t1) /\ ~t1.crashed
      /\ \A x \in Link : Color(t1, x) = IF x = s THEN "red" ELSE IF x = r THEN "black" ELSE Color(t, x)
  BY <1>1, <1>2, <1>3, <1>6 DEF TwicePainted
<1>8. /\ Shaped(t1, N, b) /\ t1.root = t.root /\ Parent(t1, s) = p /\ Parent(t1, a) = p
      /\ (\A x \in Link, e \in Dir : Child(t1, e, x) = Child(t, e, x))
      /\ Child(t1, d, s) = r /\ Child(t1, o, r) = i /\ Child(t1, o, p) = s
  BY <1>1, <1>2, <1>4, <1>7, SameShape DEF SameLinks, r, i, o
<1>9. Rotated(t1, u, o, s) /\ Shaped(u, N, b2)
  <2>1. Child(t1, Other(o), s) = r
    BY <1>1, <1>8
  <2>. QED
    BY <1>1, <1>2, <1>3, <1>7, <1>8, <2>1, RotateShaped DEF u
<1>10. /\ u \in Tree /\ u.crashed = t1.crashed
       /\ \A x \in Link : Parent(u, x) = IF x = s THEN r ELSE IF x = r THEN p
                                          ELSE IF x = i /\ x # Nil THEN s ELSE Parent(t1, x)
       /\ \A x \in Link, e \in Dir :
              Child(u, e, x) = IF x = s /\ e = d THEN i ELSE IF x = r /\ e = o THEN s
                               ELSE IF x # Nil /\ x = p /\ e = SideOf(t1, s) THEN r ELSE Child(t1, e, x)
       /\ \A x \in Link : Color(u, x) = Color(t1, x)
  BY <1>1, <1>8, <1>9 DEF Rotated
<1>11. SideOf(t1, s) = o
  BY <1>1, <1>2, <1>7, <1>8, OneParent
<1>12. Parent(u, a) = p /\ Child(u, d, p) = a /\ Child(u, o, p) = r /\ Child(u, o, r) = s /\ Color(u, s) = "red"
  <2>1. Parent(u, a) = p
    BY <1>1, <1>2, <1>4, <1>5, <1>8, <1>10
  <2>2. Child(u, d, p) = a
    BY <1>1, <1>2, <1>4, <1>8, <1>10, <1>11
  <2>3. Child(u, o, p) = r /\ Child(u, o, r) = s
    BY <1>1, <1>2, <1>4, <1>10, <1>11
  <2>4. Color(u, s) = "red"
    BY <1>1, <1>2, <1>7, <1>10
  <2>. QED
    BY <2>1, <2>2, <2>3, <2>4
<1>13. Calm(u, N)
  <2>1. ASSUME NEW x \in N, NEW e \in Dir, Color(t1, x) = "red", Color(t1, Child(t1, e, x)) = "red"
        PROVE  (x = s /\ e = d) \/ Child(t1, e, x) = s
    <3>. SUFFICES ASSUME ~(x = s /\ e = d), Child(t1, e, x) # s PROVE FALSE
      OBVIOUS
    <3>1. Child(t1, e, x) = Child(t, e, x) /\ Child(t, e, x) \in Link
      BY <1>1, <1>8, Reads
    <3>2. Color(t, Child(t, e, x)) = "red"
      BY <1>7, <2>1, <3>1
    <3>3. x # s
      <4>. SUFFICES ASSUME x = s PROVE FALSE
        OBVIOUS
      <4>1. e = o
        BY Directions DEF o
      <4>. QED
        BY <1>c, <3>2, <4>1 DEF f
    <3>4. Color(t, x) = "red"
      BY <1>1, <1>7, <2>1, <3>3
    <3>. QED
      BY <3>2, <3>4, CalmIs
  <2>2. Color(t1, r) = "black" /\ Color(t1, i) # "red"
    <3>1. Color(t1, r) = "black"
      BY <1>1, <1>4, <1>7
    <3>2. Color(t, i) # "red"
      BY <1>1, <1>4, <1>c, CalmIs DEF i
    <3>3. i \in Link /\ i # s
      BY <1>1, <1>2, <1>5, Constants
    <3>. QED
      BY <1>7, <3>1, <3>2, <3>3
  <2>3. Color(t1, t1.root) # "red"
    <3>1. Color(t, t.root) # "red"
      BY DEF Calm
    <3>. QED
      BY <1>1, <1>2, <1>7, <1>8, <3>1
  <2>4. Other(o) = d /\ r = Child(t1, Other(o), s) /\ p = Parent(t1, s) /\ Child(t1, o, r) = i /\ p # Nil
    BY <1>1, <1>8
  <2>5. \A x \in N, e \in Dir : Color(t1, x) = "red" /\ Color(t1, Child(t1, e, x)) = "red"
                                 => (x = s /\ e = Other(o)) \/ (x = r /\ e = o) \/ Child(t1, e, x) = s
    BY <2>1, <2>4
  <2>. QED
    BY <1>1, <1>2, <1>3, <1>7, <1>8, <1>9, <2>2, <2>3, <2>4, <2>5, RotateCalm
<1>. QED
  BY <1>u, <1>7, <1>9, <1>10, <1>12, <1>13 DEF r, o

\* The sibling s, whose far child f is red, takes the place and the colour of p.
LEMMA FarUp ==
  ASSUME NEW t \in Tree, NEW N, NEW b, Shaped(t, N, b), Calm(t, N), ~t.crashed, NEW p \in N, NEW d \in Dir,
         NEW s, s = Child(t, Other(d), p), s # Nil, Color(t, Child(t, Other(d), s)) = "red"
  PROVE  LET u == far_up(t, d, p) IN
         /\ u \in Tree /\ ~u.crashed /\ Calm(u, N) /\ \E b2 : Shaped(u, N, b2)
<1>. DEFINE o == Other(d)
            f == Child(t, o, s)
            q == Parent(t, p)
            v == SetColor(SetColor(t, s, Color(t, p)), p, "black")
            t1 == SetColor(v, f, "black")
            u == rotate(t1, d, p)
            b2 == Turned(b, d, p, s)
<1>1. N \subseteq Page /\ N \subseteq Link /\ Nil \notin N /\ o \in Dir /\ o # d /\ Other(o) = d /\ t.root \in Link /\ b \in Bounds
      /\ Color(t, p) \in Colors
  BY Constants, Directions, Reads DEF Shaped, Colors
<1>2. s \in N /\ s # p /\ Parent(t, s) = p /\ s # t.root
  BY <1>1, ChildFacts
<1>3. f # Nil
  BY <1>1, <1>2, Reads
<1>4. f \in N /\ f # p /\ f # s /\ Parent(t, f) = s /\ f # t.root /\ q # s /\ q # f /\ q # p
  BY <1>1, <1>3, Grandchild
<1>u. far_up(t, d, p) = u
  BY DEF far_up
<1>c. Color(t, f) = "red"
  OBVIOUS
<1>. HIDE DEF o, f, q
<1>5. TwicePainted(t, v, s, Color(t, p), p, "black")
  BY <1>1, <1>2, PaintsTwice DEF Colors
<1>. HIDE DEF v
<1>6. Painted(v, t1, f, "black")
  <2>1. v \in Tree
    BY <1>5 DEF TwicePainted
  <2>. QED
    BY <1>1, <1>4, <2>1, SetsColor
<1>. HIDE DEF t1
<1>7. /\ t1 \in Tree /\ SameLinks(t, t1) /\ ~t1.crashed
      /\ \A x \in Link : Color(t1, x) = IF x = f \/ x = p THEN "black" ELSE IF x = s THEN Color(t, p) ELSE Color(t, x)
  <2>1. t1 \in Tree /\ ~t1.crashed
    BY <1>5, <1>6 DEF TwicePainted, Painted
  <2>2. SameLinks(t, t1)
    BY <1>5, <1>6 DEF TwicePainted, Painted, SameLinks
  <2>3. \A x \in Link : Color(t1, x) = IF x = f \/ x = p THEN "black" ELSE IF x = s THEN Color(t, p) ELSE Color(t, x)
    BY <1>1, <1>2, <1>3, <1>4, <1>5, <1>6 DEF TwicePainted, Painted
  <2>. QED
    BY <2>1, <2>2, <2>3
<1>8. /\ Shaped(t1, N, b) /\ t1.root = t.root /\ Parent(t1, p) = q
      /\ (\A x \in Link, e \in Dir : Child(t1, e, x) = Child(t, e, x))
      /\ Child(t1, o, s) = f /\ Child(t1, o, p) = s
  BY <1>1, <1>2, <1>7, SameShape DEF SameLinks, f, o, q
<1>9. Rotated(t1, u, d, p) /\ Shaped(u, N, b2)
  BY <1>1, <1>2, <1>7, <1>8, RotateShaped DEF u, o
<1>10. u \in Tree /\ ~u.crashed
  BY <1>7, <1>9 DEF Rotated
<1>11. Calm(u, N)
  <2>1. ASSUME NEW x \in N, NEW e \in Dir, Color(t1, x) = "red", Color(t1, Child(t1, e, x)) = "red"
        PROVE  x = s /\ e = d
    <3>. SUFFICES ASSUME ~(x = s /\ e = d) PROVE FALSE
      OBVIOUS
    <3>. DEFINE y == Child(t, e, x)
    <3>1. Child(t1, e, x) = y /\ y \in Link
      BY <1>1, <1>8, Reads
    <3>2. x # p /\ x # f /\ y # p /\ y # f
      BY <1>1, <1>7, <2>1, <3>1
    <3>3. x # s
      <4>. SUFFICES ASSUME x = s PROVE FALSE
        OBVIOUS
      <4>1. e = o
        BY Directions DEF o
      <4>. QED
        BY <3>2, <4>1 DEF f
    <3>4. y # s
      <4>. SUFFICES ASSUME y = s PROVE FALSE
        OBVIOUS
      <4>1. Parent(t, s) = x
        BY ChildFacts
      <4>. QED
        BY <1>2, <3>2, <4>1
    <3>5. Color(t, x) = "red" /\ Color(t, y) = "red"
      BY <1>1, <1>7, <2>1, <3>1, <3>2, <3>3, <3>4
    <3>. QED
      BY <3>5, CalmIs
  <2>2. Color(t1, p) = "black" /\ Color(t1, s) = Color(t, p)
    BY <1>1, <1>2, <1>4, <1>7
  <2>3. q # Nil => Color(t1, t1.root) # "red"
    <3>1. q # Nil => t.root # p
      BY DEF Shaped, q
    <3>2. Color(t, t.root) # "red"
      BY DEF Calm
    <3>. QED
      BY <1>1, <1>2, <1>4, <1>7, <1>8, <3>1, <3>2
  <2>4. Other(d) = o /\ s = Child(t1, o, p) /\ q = Parent(t1, p)
    BY <1>8 DEF o
  <2>5. q # Nil => ~(Color(t1, q) = "red" /\ Color(t1, s) = "red")
    <3>. SUFFICES ASSUME q # Nil, Color(t1, q) = "red", Color(t, p) = "red" PROVE FALSE
      BY <2>2
    <3>1. q \in N /\ SideOf(t, p) \in Dir /\ Child(t, SideOf(t, p), q) = p
      BY ParentFacts DEF q
    <3>2. Color(t, q) = "red"
      BY <1>1, <1>4, <1>7, <3>1
    <3>. QED
      BY <3>1, <3>2, CalmIs
  <2>6. q = Nil => Color(t1, s) # "red"
    <3>1. q = Nil => p = t.root
      BY <1>1 DEF Shaped, q
    <3>. QED
      BY <2>2, <3>1 DEF Calm
  <2>7. \A x \in N, e \in Dir : Color(t1, x) = "red" /\ Color(t1, Child(t1, e, x)) = "red"
                                 => (x = p /\ e = Other(d)) \/ (x = s /\ e = d) \/ Child(t1, e, x) = p
    BY <2>1
  <2>. QED
    BY <1>7, <1>8, <1>9, <2>2, <2>3, <2>4, <2>5, <2>6, <2>7, RotateCalm
<1>. QED
  BY <1>u, <1>9, <1>10, <1>11

\* The invariant of the loop: only a may be red below or above a red node, or as the root.
DeleteInv(t, N, b, a) ==
    /\ t \in Tree /\ Shaped(t, N, b) /\ ~t.crashed /\ a \in N \cup {Nil}
    /\ Color(t, t.root) = "red" => t.root = a
    /\ \A x \in N, d \in Dir : Color(t, x) = "red" /\ Color(t, Child(t, d, x)) = "red" => x = a \/ Child(t, d, x) = a

LEMMA DeleteCalm ==
  ASSUME NEW t, NEW N, NEW b, NEW a, DeleteInv(t, N, b, a), Color(t, a) # "red"
  PROVE  Calm(t, N)
BY DEF DeleteInv, Calm

\* The case analysis once the sibling is not red
LEMMA DeleteCases ==
  ASSUME NEW t \in Tree, NEW N, NEW b, Shaped(t, N, b), Calm(t, N), ~t.crashed, NEW p \in N, NEW d \in Dir,
         NEW a \in N, a = Child(t, d, p), Parent(t, a) = p
  PROVE  LET s == delete_case(t, d, a) IN
         /\ s = <<s[1], s[2]>> /\ s[1] \in Tree /\ s[2] \in Link
         /\ \/ s[1].crashed
            \/ \E b2 : DeleteInv(s[1], N, b2, s[2]) /\ s[2] \in N /\ Width(b, a) < Width(b2, s[2])
<1>. DEFINE o == Other(d)
            k == Child(t, o, p)
            near == Color(t, Child(t, d, k))
            far == Color(t, Child(t, o, k))
            t1 == IF far = "black" THEN near_up(t, d, k) ELSE t
            t2 == far_up(t1, d, Parent(t1, a))
            t3 == SetColor(t, k, "red")
            s == delete_case(t, d, a)
<1>1. N \subseteq Page /\ N \subseteq Link /\ Nil \notin N /\ o \in Dir /\ o # d /\ Other(o) = d /\ t.root \in Link
      /\ k \in Link
  BY Constants, Directions, Reads DEF Shaped
<1>2. s = IF near = "none" \/ far = "none" THEN <<Crash(t), a>>
          ELSE IF near = "black" /\ far = "black" THEN <<t3, p>> ELSE <<t2, t2.root>>
  BY DEF delete_case
<1>3. CASE near = "none" \/ far = "none"
  <2>1. s = <<Crash(t), a>>
    BY <1>2, <1>3
  <2>2. Crash(t) \in Tree /\ Crash(t).crashed
    BY Crashes
  <2>. HIDE DEF s
  <2>. QED
    BY <1>1, <2>1, <2>2 DEF s
<1>4. CASE near # "none" /\ far # "none"
  <2>1. k # Nil
    BY <1>1, <1>4, Reads
  <2>2. k \in N /\ k # p /\ k # t.root /\ Parent(t, k) = p
    BY <1>1, <2>1, ChildFacts
  <2>w. Width(b, a) < Width(b, p) /\ Width(b, a) \in Nat /\ Width(b, p) \in Nat
    BY <1>1, ChildNarrower, WidthIs
  <2>3. CASE near = "black" /\ far = "black"
    <3>1. s = <<t3, p>>
      BY <1>2, <1>4, <2>3
    <3>. HIDE DEF k
    <3>2. Painted(t, t3, k, "red")
      BY <1>1, SetsColor
    <3>. HIDE DEF t3
    <3>3. /\ t3 \in Tree /\ SameLinks(t, t3) /\ ~t3.crashed /\ t3.root = t.root
          /\ \A x \in Link : Color(t3, x) = IF x = k THEN "red" ELSE Color(t, x)
      BY <2>1, <3>2 DEF Painted, SameLinks
    <3>4. Shaped(t3, N, b) /\ (\A x \in Link, e \in Dir : Child(t3, e, x) = Child(t, e, x))
      BY <3>3, SameShape DEF SameLinks
    <3>5. Color(t3, t3.root) # "red"
      <4>1. Color(t, t.root) # "red"
        BY DEF Calm
      <4>. QED
        BY <1>1, <2>2, <3>3, <4>1
    <3>6. ASSUME NEW x \in N, NEW e \in Dir, Color(t3, x) = "red", Color(t3, Child(t3, e, x)) = "red", x # p PROVE FALSE
      <4>. DEFINE y == Child(t, e, x)
      <4>1. Child(t3, e, x) = y /\ y \in Link
        BY <1>1, <3>4, Reads
      <4>2. y # k
        <5>. SUFFICES ASSUME y = k PROVE FALSE
          OBVIOUS
        <5>1. Parent(t, k) = x
          BY <2>1, ChildFacts
        <5>. QED
          BY <2>2, <3>6, <5>1
      <4>3. Color(t, y) = "red"
        BY <3>3, <3>6, <4>1, <4>2
      <4>4. x # k
        <5>. SUFFICES ASSUME x = k PROVE FALSE
          OBVIOUS
        <5>1. e = d \/ e = o
          BY Directions
        <5>. QED
          BY <2>3, <4>3, <5>1 DEF k
      <4>5. Color(t, x) = "red"
        BY <1>1, <3>3, <3>6, <4>4
      <4>. QED
        BY <4>3, <4>5, CalmIs
    <3>7. DeleteInv(t3, N, b, p)
      BY <3>3, <3>4, <3>5, <3>6 DEF DeleteInv
    <3>. HIDE DEF s
    <3>. QED
      BY <1>1, <2>w, <3>1, <3>3, <3>7 DEF s
  <2>4. CASE ~(near = "black" /\ far = "black")
    <3>1. s = <<t2, t2.root>>
      BY <1>2, <1>4, <2>4
    <3>c. near \in Colors /\ far \in Colors
      <4>1. Child(t, d, k) \in Link /\ Child(t, o, k) \in Link
        BY <1>1, Reads
      <4>. QED
        BY <1>4, <4>1, Reads, Constants DEF Colors
    <3>2. /\ t2 \in Tree /\ ~t2.crashed /\ Calm(t2, N) /\ \E b2 : Shaped(t2, N, b2)
      <4>1. CASE far = "black"
        <5>1. near = "red"
          BY <2>4, <3>c, <4>1 DEF Colors
        <5>. DEFINE v == near_up(t, d, k)
                    r == Child(t, d, k)
        <5>2. /\ v \in Tree /\ ~v.crashed /\ Calm(v, N) /\ Parent(v, a) = p /\ Child(v, d, p) = a
              /\ Child(v, o, p) = r /\ Child(v, o, r) = k /\ Color(v, k) = "red"
              /\ \E b2 : Shaped(v, N, b2)
          <6>1. a # Nil /\ k = Child(t, o, p)
            BY <1>1
          <6>. HIDE DEF k
          <6>. QED
            BY <1>1, <2>1, <4>1, <5>1, <6>1, NearUp
        <5>3. r # Nil
          BY <1>1, <5>1, Reads
        <5>4. t2 = far_up(v, d, p)
          BY <4>1, <5>2
        <5>. HIDE DEF v, r, k, t2
        <5>5. PICK b1 : Shaped(v, N, b1)
          BY <5>2
        <5>. QED
          BY <5>2, <5>3, <5>4, <5>5, FarUp
      <4>2. CASE far = "red"
        <5>1. t2 = far_up(t, d, p)
          BY <4>2
        <5>. HIDE DEF t2
        <5>. QED
          BY <2>1, <4>2, <5>1, FarUp
      <4>. QED
        BY <3>c, <4>1, <4>2 DEF Colors
    <3>. HIDE DEF t2, s
    <3>3. PICK b2 : Shaped(t2, N, b2)
      BY <3>2
    <3>4. t2.root \in N /\ b2["left"][t2.root] = 0 /\ b2["right"][t2.root] = NPages + 1 /\ t2.root \in Link
      BY <1>1, <3>3 DEF Shaped
    <3>5. DeleteInv(t2, N, b2, t2.root)
      BY <3>2, <3>3, <3>4 DEF DeleteInv, Calm
    <3>6. Width(b, a) < Width(b2, t2.root)
      <4>1. Width(b2, t2.root) = NPages + 1
        BY <3>4, Constants DEF Width
      <4>2. Width(b, p) <= NPages + 1
        BY WidthIs
      <4>. QED
        BY <2>w, <4>1, <4>2, Constants
    <3>. QED
      BY <3>1, <3>2, <3>4, <3>5, <3>6 DEF s
  <2>. QED
    BY <2>3, <2>4
<1>. QED
  BY <1>3, <1>4

\* Each turn of the loop stops the kernel, or keeps the invariant and goes to a wider node.
LEMMA DeleteSteps ==
  ASSUME NEW t, NEW N, NEW b, NEW a, DeleteInv(t, N, b, a), a # t.root, Color(t, a) = "black"
  PROVE  LET s == delete_step(t, a) IN
         /\ s = <<s[1], s[2]>> /\ s[1] \in Tree /\ s[2] \in Link
         /\ \/ s[1].crashed
            \/ \E b2 : DeleteInv(s[1], N, b2, s[2]) /\ s[2] \in N /\ Width(b, a) < Width(b2, s[2])
<1>. DEFINE p == Parent(t, a)
            d == SideOf(t, a)
            v == IF Color(t, Child(t, Other(d), p)) = "red" THEN sibling_up(t, d, p) ELSE t
            s == delete_step(t, a)
<1>1. t \in Tree /\ Shaped(t, N, b) /\ ~t.crashed /\ Calm(t, N) /\ a # Nil /\ a \in N
  <2>1. t \in Tree /\ Shaped(t, N, b) /\ ~t.crashed /\ a \in N \cup {Nil}
    BY DEF DeleteInv
  <2>. QED
    BY <2>1, Reads, DeleteCalm
<1>2. p \in N /\ d \in Dir /\ Child(t, d, p) = a
  BY <1>1, ParentFacts
<1>3. s = delete_case(v, d, a)
  BY DEF delete_step
<1>4. /\ v \in Tree /\ ~v.crashed /\ Calm(v, N) /\ Parent(v, a) = p /\ Child(v, d, p) = a
      /\ \E b2 : Shaped(v, N, b2) /\ Width(b2, a) = Width(b, a)
  <2>1. CASE Color(t, Child(t, Other(d), p)) = "red"
    <3>1. v = sibling_up(t, d, p)
      BY <2>1
    <3>. HIDE DEF v, d, p
    <3>. QED
      BY <1>1, <1>2, <2>1, <3>1, SiblingUp
  <2>2. CASE Color(t, Child(t, Other(d), p)) # "red"
    <3>1. v = t
      BY <2>2
    <3>. HIDE DEF v
    <3>. QED
      BY <1>1, <1>2, <3>1
  <2>. QED
    BY <2>1, <2>2
<1>. HIDE DEF v, d, p, s
<1>5. PICK b1 : Shaped(v, N, b1) /\ Width(b1, a) = Width(b, a)
  BY <1>4
<1>. DEFINE r == delete_case(v, d, a)
<1>6. /\ r = <<r[1], r[2]>> /\ r[1] \in Tree /\ r[2] \in Link
      /\ \/ r[1].crashed
         \/ \E b2 : DeleteInv(r[1], N, b2, r[2]) /\ r[2] \in N /\ Width(b1, a) < Width(b2, r[2])
  BY <1>1, <1>2, <1>4, <1>5, DeleteCases
<1>. HIDE DEF r
<1>7. r = s
  BY <1>3 DEF r
<1>. QED
  BY <1>5, <1>6, <1>7 DEF s

\* A step, whatever the tree
LEMMA SiblingUpTyped ==
  ASSUME NEW t \in Tree, NEW d \in Dir, NEW p \in Link
  PROVE  sibling_up(t, d, p) \in Tree
<1>. DEFINE v == SetColor(SetColor(t, Child(t, Other(d), p), "black"), p, "red")
<1>1. Child(t, Other(d), p) \in Link
  BY Reads, Directions
<1>2. v \in Tree
  BY <1>1, PaintTyped DEF Colors
<1>3. sibling_up(t, d, p) = rotate(v, d, p)
  BY DEF sibling_up
<1>. HIDE DEF v
<1>. QED
  BY <1>2, <1>3, RotateTyped

LEMMA NearUpTyped ==
  ASSUME NEW t \in Tree, NEW d \in Dir, NEW k \in Link
  PROVE  near_up(t, d, k) \in Tree
<1>. DEFINE v == SetColor(SetColor(t, Child(t, d, k), "black"), k, "red")
<1>1. Child(t, d, k) \in Link /\ Other(d) \in Dir
  BY Reads, Directions
<1>2. v \in Tree
  BY <1>1, PaintTyped DEF Colors
<1>3. near_up(t, d, k) = rotate(v, Other(d), k)
  BY DEF near_up
<1>. HIDE DEF v
<1>. QED
  BY <1>1, <1>2, <1>3, RotateTyped

LEMMA FarUpTyped ==
  ASSUME NEW t \in Tree, NEW d \in Dir, NEW p \in Link
  PROVE  far_up(t, d, p) \in Tree
<1>. DEFINE k == Child(t, Other(d), p)
            f == Child(t, Other(d), k)
            t1 == SetColor(t, k, Color(t, p))
            t2 == SetColor(t1, p, "black")
            t3 == SetColor(t2, f, "black")
<1>1. k \in Link /\ f \in Link /\ (p = Nil => k = Nil)
  BY Reads, Directions
<1>2. far_up(t, d, p) = rotate(t3, d, p)
  BY DEF far_up
<1>. HIDE DEF k, f
<1>3. t1 \in Tree
  <2>1. CASE p = Nil
    BY <1>1, <2>1, PaintsNil
  <2>2. CASE p # Nil
    <3>1. Color(t, p) \in Colors
      BY <2>2, Reads, Constants DEF Colors
    <3>. QED
      BY <1>1, <3>1, PaintTyped
  <2>. QED
    BY <2>1, <2>2
<1>. HIDE DEF t1
<1>4. t2 \in Tree
  BY <1>3, PaintTyped DEF Colors
<1>. HIDE DEF t2
<1>5. t3 \in Tree
  BY <1>1, <1>4, PaintTyped DEF Colors
<1>. HIDE DEF t3
<1>. QED
  BY <1>2, <1>5, RotateTyped

LEMMA DeleteCaseTyped ==
  ASSUME NEW t \in Tree, NEW d \in Dir, NEW a \in Link
  PROVE  delete_case(t, d, a) \in Tree \X Link
<1>. DEFINE p == Parent(t, a)
            k == Child(t, Other(d), p)
            near == Color(t, Child(t, d, k))
            far == Color(t, Child(t, Other(d), k))
            t1 == IF far = "black" THEN near_up(t, d, k) ELSE t
            t2 == far_up(t1, d, Parent(t1, a))
            t3 == SetColor(t, k, "red")
<1>1. p \in Link /\ k \in Link
  BY Reads, Directions
<1>2. delete_case(t, d, a) = IF near = "none" \/ far = "none" THEN <<Crash(t), a>>
                             ELSE IF near = "black" /\ far = "black" THEN <<t3, p>> ELSE <<t2, t2.root>>
  BY DEF delete_case
<1>. HIDE DEF p, k, near, far
<1>3. t1 \in Tree
  BY <1>1, NearUpTyped
<1>. HIDE DEF t1
<1>4. Parent(t1, a) \in Link
  BY <1>3, Reads
<1>5. t2 \in Tree
  BY <1>3, <1>4, FarUpTyped
<1>6. t3 \in Tree
  BY <1>1, PaintTyped DEF Colors
<1>7. Crash(t) \in Tree
  BY Crashes
<1>. HIDE DEF t2, t3
<1>8. t2.root \in Link
  BY <1>5, Reads
<1>. QED
  BY <1>1, <1>2, <1>5, <1>6, <1>7, <1>8

LEMMA DeleteStepTyped ==
  ASSUME NEW t \in Tree, NEW a \in Link
  PROVE  delete_step(t, a) \in Tree \X Link
<1>. DEFINE p == Parent(t, a)
            d == SideOf(t, a)
            v == IF Color(t, Child(t, Other(d), p)) = "red" THEN sibling_up(t, d, p) ELSE t
<1>1. p \in Link /\ d \in Dir
  BY Reads, SideOfIs
<1>2. delete_step(t, a) = delete_case(v, d, a)
  BY DEF delete_step
<1>. HIDE DEF p, d
<1>3. v \in Tree
  BY <1>1, SiblingUpTyped
<1>. HIDE DEF v
<1>. QED
  BY <1>1, <1>2, <1>3, DeleteCaseTyped

LEMMA DeleteFixupEquation ==
  ASSUME NEW t \in Tree, NEW a \in Link
  PROVE  delete_fixup[<<t, a>>] = IF t.crashed THEN t
                                  ELSE IF a # t.root /\ Color(t, a) = "black" THEN delete_fixup[delete_step(t, a)]
                                  ELSE SetColor(t, a, "black")
<1>. DEFINE X == Tree \X Link
            P(f) == f = [x \in X |-> IF x[1].crashed THEN x[1]
                                     ELSE IF x[2] # x[1].root /\ Color(x[1], x[2]) = "black"
                                          THEN f[delete_step(x[1], x[2])] ELSE SetColor(x[1], x[2], "black")]
            Go == {x \in X : ~x[1].crashed /\ x[2] # x[1].root /\ Color(x[1], x[2]) = "black"}
            step == [x \in X |-> delete_step(x[1], x[2])]
            done == [x \in X |-> IF x[1].crashed THEN x[1] ELSE SetColor(x[1], x[2], "black")]
<1>1. \A x \in X : x[1] \in Tree /\ delete_step(x[1], x[2]) \in X /\ SetColor(x[1], x[2], "black") \in Tree
  <2>. SUFFICES ASSUME NEW x \in X
                PROVE  x[1] \in Tree /\ delete_step(x[1], x[2]) \in X /\ SetColor(x[1], x[2], "black") \in Tree
    OBVIOUS
  <2>1. x[1] \in Tree /\ x[2] \in Link
    OBVIOUS
  <2>. QED
    BY <2>1, DeleteStepTyped, PaintTyped DEF Colors
<1>2. step \in [X -> X] /\ done \in [X -> Tree] /\ Go \in SUBSET X
  <2>. HIDE DEF X
  <2>. QED
    BY <1>1
<1>3. \A f : \A x \in X : (IF x \in Go THEN f[step[x]] ELSE done[x])
                        = IF x[1].crashed THEN x[1]
                          ELSE IF x[2] # x[1].root /\ Color(x[1], x[2]) = "black"
                               THEN f[delete_step(x[1], x[2])] ELSE SetColor(x[1], x[2], "black")
  <2>. HIDE DEF X
  <2>. QED
    OBVIOUS
<1>4. PICK f : Computes(f, X, Go, step, done)
  <2>. HIDE DEF X, step, done, Go
  <2>. QED
    BY <1>2, LoopComputes
<1>5. P(f)
  <2>. HIDE DEF X, step, done, Go
  <2>. QED
    BY <1>3, <1>4 DEF Computes
<1>6. delete_fixup = CHOOSE h : P(h)
  BY DEF delete_fixup
<1>7. P(delete_fixup)
  <2>. HIDE DEF P
  <2>. QED
    BY <1>5, <1>6
<1>8. <<t, a>> \in X
  OBVIOUS
<1>9. delete_fixup[<<t, a>>] = IF <<t, a>>[1].crashed THEN <<t, a>>[1]
                               ELSE IF <<t, a>>[2] # <<t, a>>[1].root /\ Color(<<t, a>>[1], <<t, a>>[2]) = "black"
                                    THEN delete_fixup[delete_step(<<t, a>>[1], <<t, a>>[2])]
                               ELSE SetColor(<<t, a>>[1], <<t, a>>[2], "black")
  <2>. HIDE DEF X
  <2>. QED
    BY <1>7, <1>8
<1>. QED
  BY <1>9

\* The loop has ended: a turns black, if it is a node.
LEMMA DeleteEnds ==
  ASSUME NEW t, NEW N, NEW b, NEW a, DeleteInv(t, N, b, a)
  PROVE  LET u == SetColor(t, a, "black") IN Sound(u, N) /\ ~u.crashed
<1>. DEFINE u == SetColor(t, a, "black")
<1>1. t \in Tree /\ Shaped(t, N, b) /\ ~t.crashed /\ N \subseteq Link /\ Nil \notin N /\ t.root \in Link /\ a \in Link
  BY Constants DEF DeleteInv, Shaped
<1>2. Painted(t, u, a, "black")
  BY <1>1, SetsColor
<1>. HIDE DEF u
<1>3. /\ u \in Tree /\ ~u.crashed /\ SameLinks(t, u) /\ u.root = t.root
      /\ \A x \in Link : Color(u, x) = IF x = a /\ a # Nil THEN "black" ELSE Color(t, x)
  BY <1>1, <1>2 DEF Painted, SameLinks
<1>4. Shaped(u, N, b)
  BY <1>1, <1>3, SameShape
<1>5. ASSUME NEW x \in N, NEW d \in Dir, Color(u, x) = "red", Color(u, Child(u, d, x)) = "red" PROVE FALSE
  <2>. DEFINE y == Child(t, d, x)
  <2>1. Child(u, d, x) = y /\ y \in Link
    BY <1>1, <1>3, Reads DEF SameLinks
  <2>2. Color(t, x) = "red" /\ Color(t, y) = "red" /\ x # a /\ (y = a => a = Nil)
    BY <1>1, <1>3, <1>5, <2>1
  <2>3. y # Nil
    BY <2>2, <1>1, Reads
  <2>. QED
    BY <2>2, <2>3 DEF DeleteInv
<1>6. Color(u, u.root) # "red"
  <2>1. Color(t, t.root) = "red" => t.root = a
    BY DEF DeleteInv
  <2>2. Color(t, Nil) # "red"
    BY <1>1, Reads
  <2>. QED
    BY <1>1, <1>3, <2>1, <2>2
<1>7. Calm(u, N)
  BY <1>5, <1>6 DEF Calm
<1>. QED
  BY <1>3, <1>4, <1>7 DEF Sound, u

\* delete_fixup: an unwrap stops the kernel, or the tree is sound again.
LEMMA DeleteFixupIs ==
  ASSUME NEW t, NEW N, NEW b, NEW a, DeleteInv(t, N, b, a)
  PROVE  LET u == delete_fixup[<<t, a>>] IN u \in Tree /\ (u.crashed \/ (Sound(u, N) /\ ~u.crashed))
<1>. DEFINE Good(v, z) == LET u == delete_fixup[<<v, z>>] IN u \in Tree /\ (u.crashed \/ (Sound(u, N) /\ ~u.crashed))
            Goes(v, z) == z # v.root /\ Color(v, z) = "black"
            T == {k \in Nat : \E v \in Tree, z \in N, w \in Bounds :
                                 DeleteInv(v, N, w, z) /\ k = NPages + 1 - Width(w, z) /\ ~Good(v, z)}
<1>1. ASSUME NEW v, NEW w, NEW z, DeleteInv(v, N, w, z), ~Goes(v, z) PROVE Good(v, z)
  <2>1. v \in Tree /\ ~v.crashed /\ z \in Link
    BY <1>1, Constants DEF DeleteInv, Shaped
  <2>2. delete_fixup[<<v, z>>] = SetColor(v, z, "black")
    BY <1>1, <2>1, DeleteFixupEquation
  <2>3. Sound(SetColor(v, z, "black"), N) /\ ~SetColor(v, z, "black").crashed
    BY <1>1, DeleteEnds
  <2>. QED
    BY <2>2, <2>3 DEF Sound
<1>2. ASSUME T # {} PROVE FALSE
  <2>1. PICK k \in T : \A j \in T : k <= j
    <3>1. T \in SUBSET Nat
      OBVIOUS
    <3>. HIDE DEF T
    <3>. QED
      BY <1>2, <3>1, Least
  <2>2. PICK v \in Tree, z \in N, w \in Bounds :
           DeleteInv(v, N, w, z) /\ k = NPages + 1 - Width(w, z) /\ ~Good(v, z)
    BY <2>1
  <2>. HIDE DEF Good
  <2>3. ~v.crashed /\ z \in Link /\ Shaped(v, N, w)
    BY <2>2, Constants DEF DeleteInv, Shaped
  <2>4. z # v.root /\ Color(v, z) = "black"
    BY <1>1, <2>2
  <2>. DEFINE s == delete_step(v, z)
              v1 == s[1]
              z1 == s[2]
  <2>5. /\ s = <<v1, z1>> /\ v1 \in Tree /\ z1 \in Link
        /\ \/ v1.crashed
           \/ \E w1 : DeleteInv(v1, N, w1, z1) /\ z1 \in N /\ Width(w, z) < Width(w1, z1)
    BY <2>2, <2>4, DeleteSteps
  <2>6. delete_fixup[<<v, z>>] = delete_fixup[s]
    BY <2>2, <2>3, <2>4, DeleteFixupEquation
  <2>. HIDE DEF s, v1, z1
  <2>7. delete_fixup[<<v, z>>] = delete_fixup[<<v1, z1>>]
    BY <2>5, <2>6
  <2>8. ~Good(v1, z1)
    BY <2>2, <2>7 DEF Good
  <2>9. ~v1.crashed
    <3>. SUFFICES ASSUME v1.crashed PROVE FALSE
      OBVIOUS
    <3>1. delete_fixup[<<v1, z1>>] = v1
      BY <2>5, DeleteFixupEquation
    <3>. QED
      BY <2>5, <2>8, <3>1 DEF Good
  <2>10. PICK w1 : DeleteInv(v1, N, w1, z1) /\ z1 \in N /\ Width(w, z) < Width(w1, z1)
    BY <2>5, <2>9
  <2>11. Shaped(v1, N, w1) /\ w1 \in Bounds
    BY <2>10 DEF DeleteInv, Shaped
  <2>12. /\ Width(w, z) \in Nat /\ Width(w1, z1) \in Nat /\ Width(w1, z1) <= NPages + 1 /\ NPages \in Nat
    BY <2>2, <2>3, <2>10, <2>11, WidthIs, Constants
  <2>. DEFINE j == NPages + 1 - Width(w1, z1)
  <2>13. j \in Nat /\ j < k
    BY <2>2, <2>10, <2>12
  <2>14. j \in T
    BY <2>5, <2>8, <2>10, <2>11, <2>13
  <2>. HIDE DEF j, T
  <2>. QED
    BY <2>1, <2>13, <2>14
<1>3. CASE a = Nil
  <2>1. ~Goes(t, a)
    <3>1. t \in Tree
      BY DEF DeleteInv
    <3>. QED
      BY <1>3, <3>1, Reads
  <2>. HIDE DEF Good, Goes
  <2>2. Good(t, a)
    BY <1>1, <2>1
  <2>. QED
    BY <2>2 DEF Good
<1>4. CASE a # Nil
  <2>1. t \in Tree /\ a \in N /\ b \in Bounds /\ Shaped(t, N, b)
    BY <1>4 DEF DeleteInv, Shaped
  <2>2. NPages + 1 - Width(b, a) \in Nat
    <3>1. Width(b, a) \in Nat /\ Width(b, a) <= NPages + 1 /\ NPages \in Nat
      BY <2>1, WidthIs, Constants
    <3>. HIDE DEF Width
    <3>. QED
      BY <3>1
  <2>3. ASSUME ~Good(t, a) PROVE FALSE
    <3>1. NPages + 1 - Width(b, a) \in T
      <4>. HIDE DEF Good
      <4>. QED
        BY <2>1, <2>2, <2>3
    <3>. QED
      BY <1>2, <3>1
  <2>. QED
    BY <2>3
<1>. QED
  BY <1>3, <1>4

-----------------------------------------------------------------------------
(* delete *)

\* Without c, what had c as a bound has the bound of c.
Without(b, c) == [e \in Dir |-> [x \in Page |-> IF b[e][x] = c THEN b[e][c] ELSE b[e][x]]]

LEMMA WithoutIs ==
  ASSUME NEW b \in Bounds, NEW c \in Page
  PROVE  /\ Without(b, c) \in Bounds
         /\ \A e \in Dir, x \in Page : Without(b, c)[e][x] = IF b[e][x] = c THEN b[e][c] ELSE b[e][x]
<1>1. \A e \in Dir, x \in Page : b[e][x] \in 0 .. (NPages + 1)
  BY DEF Bounds
<1>2. \A e \in Dir, x \in Page : (IF b[e][x] = c THEN b[e][c] ELSE b[e][x]) \in 0 .. (NPages + 1)
  BY <1>1
<1>3. Without(b, c) \in Bounds
  BY <1>2 DEF Without, Bounds
<1>. QED
  BY <1>3 DEF Without

\* A node c without children but x, which takes its place
LEMMA SpliceShaped ==
  ASSUME NEW t \in Tree, NEW N, NEW b, Shaped(t, N, b), NEW c \in N, NEW g \in Dir, Child(t, Other(g), c) = Nil,
         NEW x, x = Child(t, g, c), NEW u, Transplanted(t, u, c, x)
  PROVE  Shaped(u, N \ {c}, Without(b, c))
<1>. DEFINE M == N \ {c}
            b2 == Without(b, c)
            p == Parent(t, c)
            s == SideOf(t, c)
            o == Other(g)
<1>1. N \subseteq Page /\ N \subseteq Link /\ Nil \notin N /\ b \in Bounds /\ N \subseteq Nat /\ x \in Link /\ o \in Dir
      /\ Other(o) = g /\ t.root \in N /\ 0 < c /\ c < NPages + 1 /\ p \in Link /\ s \in Dir
  BY Constants, Directions, Reads, SideOfIs DEF Shaped
<1>2. /\ b2 \in Bounds
      /\ \A e \in Dir, y \in Page : b2[e][y] = IF b[e][y] = c THEN b[e][c] ELSE b[e][y]
  BY <1>1, WithoutIs
<1>3. \A e \in Dir, y \in N : Beside(e, b[e][y], y) /\ b[e][y] # y /\ b[e][y] \in Nat
  <2>. SUFFICES ASSUME NEW e \in Dir, NEW y \in N PROVE Beside(e, b[e][y], y) /\ b[e][y] # y /\ b[e][y] \in Nat
    OBVIOUS
  <2>1. Beside(e, b[e][y], y)
    BY DEF Shaped
  <2>2. b[e][y] \in Nat /\ y \in Nat
    BY <1>1, BoundIs
  <2>. QED
    BY <2>1, <2>2, BesideIs
<1>4. x # Nil => /\ x \in M /\ Parent(t, x) = c /\ x # t.root
                 /\ \A e \in Dir : b2[e][x] = b[e][c]
  <2>. SUFFICES ASSUME x # Nil PROVE /\ x \in M /\ Parent(t, x) = c /\ x # t.root
                                     /\ \A e \in Dir : b2[e][x] = b[e][c]
    OBVIOUS
  <2>1. x \in N /\ x # c /\ Parent(t, x) = c /\ x # t.root /\ b[g][x] = b[g][c] /\ b[o][x] = c
    BY ChildFacts
  <2>2. b2[g][x] = b[g][c] /\ b2[o][x] = b[o][c]
    BY <1>1, <1>2, <1>3, <2>1
  <2>. QED
    BY <2>1, <2>2, Directions
<1>5. p # Nil => /\ p \in M /\ c # t.root /\ Child(t, s, p) = c
                 /\ (\A e \in Dir : Child(t, e, p) = c => e = s) /\ b[s][c] = b[s][p] /\ b[Other(s)][c] = p
  <2>. SUFFICES ASSUME p # Nil
                PROVE  /\ p \in M /\ c # t.root /\ Child(t, s, p) = c
                       /\ (\A e \in Dir : Child(t, e, p) = c => e = s) /\ b[s][c] = b[s][p] /\ b[Other(s)][c] = p
    OBVIOUS
  <2>1. /\ p \in N /\ c # t.root /\ s \in Dir /\ Child(t, s, p) = c /\ p # c /\ c # Nil
        /\ (\A e \in Dir : Child(t, e, p) = c => e = s)
    BY ParentFacts
  <2>2. b[s][c] = b[s][p] /\ b[Other(s)][c] = p
    BY <2>1, ChildFacts
  <2>. QED
    BY <2>1, <2>2
<1>6. p = Nil <=> c = t.root
  BY <1>1, <1>5 DEF Shaped
<1>7. /\ u \in Tree /\ u.root = IF p = Nil THEN x ELSE t.root
      /\ \A y \in Link : Parent(u, y) = IF y = x /\ x # Nil THEN p ELSE Parent(t, y)
      /\ \A y \in Link, e \in Dir : Child(u, e, y) = IF y # Nil /\ y = p /\ e = s THEN x ELSE Child(t, e, y)
  BY DEF Transplanted
<1>8. \A e \in Dir : Child(t, e, c) # Nil => Child(t, e, c) = x
  BY <1>1, Directions
<1>9. c = t.root /\ x = Nil => M = {}
  <2>. SUFFICES ASSUME c = t.root, x = Nil PROVE N \subseteq {c}
    OBVIOUS
  <2>1. ClosedDown(t, {c})
    BY <1>8 DEF ClosedDown
  <2>2. N = Below(t, c)
    BY <1>1, BelowRoot
  <2>. QED
    BY <1>1, <2>1, <2>2, BelowLeast
<1>r. t.root # Nil => b["left"][t.root] = 0 /\ b["right"][t.root] = NPages + 1
  BY DEF Shaped
<1>. HIDE DEF b2, p, s, o
<1>10. /\ u.root \in M \cup {Nil} /\ (M # {} => u.root # Nil) /\ Parent(u, u.root) = Nil
       /\ u.root # Nil => b2["left"][u.root] = 0 /\ b2["right"][u.root] = NPages + 1
  <2>1. CASE p = Nil
    <3>1. u.root = x /\ c = t.root
      BY <1>6, <1>7, <2>1
    <3>2. Parent(u, x) = Nil
      BY <1>1, <1>7, <2>1, Reads
    <3>3. x # Nil => b2["left"][x] = 0 /\ b2["right"][x] = NPages + 1
      BY <1>1, <1>4, <1>r, <3>1, Directions
    <3>. QED
      BY <1>4, <1>9, <3>1, <3>2, <3>3
  <2>2. CASE p # Nil
    <3>1. u.root = t.root /\ t.root \in M /\ t.root # Nil
      BY <1>1, <1>5, <1>7, <2>2
    <3>2. Parent(t, t.root) = Nil
      BY DEF Shaped
    <3>3. Parent(u, t.root) = Nil
      BY <1>1, <1>4, <1>7, <3>1, <3>2
    <3>4. b2["left"][t.root] = 0 /\ b2["right"][t.root] = NPages + 1
      <4>1. t.root \in Page /\ "left" \in Dir /\ "right" \in Dir
        BY <1>1, Directions
      <4>2. b["left"][t.root] = 0 /\ b["right"][t.root] = NPages + 1 /\ 0 # c /\ NPages + 1 # c
        BY <1>1, <1>r, <3>1, Constants
      <4>. QED
        BY <1>2, <4>1, <4>2
    <3>. QED
      BY <3>1, <3>3, <3>4
  <2>. QED
    BY <2>1, <2>2
<1>11. ASSUME NEW y \in M, NEW e \in Dir PROVE Beside(e, b2[e][y], y)
  <2>1. CASE b[e][y] = c
    <3>1. b2[e][y] = b[e][c] /\ Beside(e, b[e][c], c) /\ Beside(e, c, y) /\ b[e][c] \in Nat /\ c \in Nat /\ y \in Nat
      BY <1>1, <1>2, <1>3, <2>1
    <3>. QED
      BY <3>1, BesideIs
  <2>2. CASE b[e][y] # c
    BY <1>1, <1>2, <1>3, <2>2
  <2>. QED
    BY <2>1, <2>2
<1>12. ASSUME NEW y \in M, NEW e \in Dir, Child(u, e, y) # Nil
       PROVE  /\ Child(u, e, y) \in M /\ Parent(u, Child(u, e, y)) = y
              /\ b2[e][Child(u, e, y)] = b2[e][y] /\ b2[Other(e)][Child(u, e, y)] = y
  <2>1. CASE y = p /\ e = s
    <3>1. Child(u, e, y) = x /\ x # Nil /\ p # Nil
      BY <1>1, <1>7, <1>12, <2>1
    <3>2. Parent(u, x) = y
      BY <1>1, <1>7, <2>1, <3>1
    <3>3. b2[e][x] = b[e][y] /\ b2[Other(e)][x] = y
      BY <1>4, <1>5, <2>1, <3>1, Directions
    <3>4. b[e][y] # c
      BY <1>3, <1>5, <2>1, <3>1
    <3>5. b2[e][y] = b[e][y]
      BY <1>1, <1>2, <3>4
    <3>. QED
      BY <1>4, <3>1, <3>2, <3>3, <3>5
  <2>2. CASE ~(y = p /\ e = s)
    <3>. DEFINE z == Child(t, e, y)
    <3>1. Child(u, e, y) = z /\ z # Nil
      BY <1>1, <1>7, <1>12, <2>2
    <3>2. z \in N /\ Parent(t, z) = y /\ b[e][z] = b[e][y] /\ b[Other(e)][z] = y /\ Other(e) \in Dir
      BY <3>1, ChildFacts, Directions
    <3>3. z # c
      <4>. SUFFICES ASSUME z = c PROVE FALSE
        OBVIOUS
      <4>1. p = y /\ p # Nil
        BY <1>1, <3>2 DEF p
      <4>2. Child(t, e, p) = c
        BY <4>1
      <4>3. e = s
        BY <1>5, <4>1, <4>2
      <4>. QED
        BY <2>2, <4>1, <4>3
    <3>. HIDE DEF z
    <3>4. z # x
      BY <1>4, <3>1, <3>2
    <3>5. Parent(u, z) = y
      BY <1>1, <1>7, <3>2, <3>4
    <3>6. b2[e][z] = b2[e][y] /\ b2[Other(e)][z] = y
      BY <1>1, <1>2, <3>2
    <3>. QED
      BY <3>1, <3>2, <3>3, <3>5, <3>6
  <2>. QED
    BY <2>1, <2>2
<1>13. ASSUME NEW y \in M, y # u.root
       PROVE  Parent(u, y) \in M /\ \E e \in Dir : Child(u, e, Parent(u, y)) = y
  <2>1. CASE y = x
    <3>1. p # Nil /\ x # Nil
      BY <1>1, <1>7, <1>13, <2>1
    <3>2. Parent(u, y) = p /\ Child(u, s, p) = x
      BY <1>1, <1>7, <2>1, <3>1
    <3>. QED
      BY <1>1, <1>5, <2>1, <3>1, <3>2
  <2>2. CASE y # x
    <3>1. y \in N /\ y # t.root
      BY <1>6, <1>7, <1>13
    <3>2. Parent(t, y) \in N /\ Parent(u, y) = Parent(t, y)
      BY <1>1, <1>7, <2>2, <3>1 DEF Shaped
    <3>3. PICK e \in Dir : Child(t, e, Parent(t, y)) = y
      BY <3>1 DEF Shaped
    <3>4. Parent(t, y) # c
      BY <1>1, <1>8, <2>2, <3>3
    <3>5. Child(u, e, Parent(t, y)) = y
      BY <1>1, <1>5, <1>7, <3>2, <3>3
    <3>. QED
      BY <3>2, <3>4, <3>5
  <2>. QED
    BY <2>1, <2>2
<1>14. Shaped(u, M, b2)
  <2>1. M \in SUBSET Page
    BY <1>1
  <2>. QED
    BY <1>2, <1>10, <1>11, <1>12, <1>13, <2>1 DEF Shaped
<1>. QED
  BY <1>14 DEF b2

\* Only x may then be red below a red node, and no node is if c was red.
LEMMA SpliceCalm ==
  ASSUME NEW t \in Tree, NEW N, NEW b, Shaped(t, N, b), Calm(t, N), ~t.crashed, NEW c \in N, NEW g \in Dir,
         Child(t, Other(g), c) = Nil, NEW x, x = Child(t, g, c), NEW u, Transplanted(t, u, c, x)
  PROVE  /\ DeleteInv(u, N \ {c}, Without(b, c), x)
         /\ Color(t, c) = "red" => Calm(u, N \ {c})
<1>. DEFINE M == N \ {c}
            b2 == Without(b, c)
            p == Parent(t, c)
            s == SideOf(t, c)
<1>1. N \subseteq Page /\ N \subseteq Link /\ Nil \notin N /\ x \in Link /\ t.root \in N /\ p \in Link /\ s \in Dir
  BY Constants, Directions, Reads, SideOfIs DEF Shaped
<1>2. Shaped(u, M, b2)
  BY SpliceShaped
<1>3. x \in M \cup {Nil}
  <2>1. x # Nil => x \in N /\ x # c
    BY ChildFacts
  <2>. QED
    BY <2>1
<1>4. /\ u \in Tree /\ ~u.crashed /\ u.root = IF p = Nil THEN x ELSE t.root
      /\ \A y \in Link, e \in Dir : Child(u, e, y) = IF y # Nil /\ y = p /\ e = s THEN x ELSE Child(t, e, y)
      /\ \A y \in Link : Color(u, y) = Color(t, y)
  BY DEF Transplanted
<1>5. Color(t, t.root) # "red"
  BY DEF Calm
<1>6. Color(u, u.root) = "red" => u.root = x /\ p = Nil
  BY <1>1, <1>4, <1>5
<1>7. p # Nil => p \in N /\ Child(t, s, p) = c
  BY ParentFacts
<1>8. p = Nil => c = t.root
  BY <1>1 DEF Shaped
<1>. HIDE DEF p, s
<1>9. ASSUME NEW y \in M, NEW e \in Dir, Color(u, y) = "red", Color(u, Child(u, e, y)) = "red"
      PROVE  Child(u, e, y) = x /\ y = p /\ e = s
  <2>. SUFFICES ASSUME ~(y = p /\ e = s) PROVE FALSE
    BY <1>1, <1>4
  <2>1. Child(u, e, y) = Child(t, e, y) /\ Child(t, e, y) \in Link
    BY <1>1, <1>4, Reads
  <2>2. Color(t, y) = "red" /\ Color(t, Child(t, e, y)) = "red"
    BY <1>1, <1>4, <1>9, <2>1
  <2>. QED
    BY <2>2, CalmIs
<1>10. DeleteInv(u, M, b2, x)
  BY <1>2, <1>3, <1>4, <1>6, <1>9 DEF DeleteInv
<1>11. ASSUME Color(t, c) = "red" PROVE Calm(u, M)
  <2>1. p # Nil
    BY <1>5, <1>8, <1>11
  <2>2. ASSUME Color(t, p) = "red" PROVE FALSE
    <3>1. p \in N /\ Child(t, s, p) = c
      BY <1>7, <2>1
    <3>2. Color(t, Child(t, s, p)) # "red"
      BY <1>1, <2>2, <3>1, CalmIs
    <3>. QED
      BY <1>11, <3>1, <3>2
  <2>3. ASSUME NEW y \in M, NEW e \in Dir, Color(u, y) = "red", Color(u, Child(u, e, y)) = "red" PROVE FALSE
    <3>1. y = p
      BY <1>9, <2>3
    <3>. QED
      BY <1>1, <1>4, <2>2, <2>3, <3>1
  <2>. QED
    BY <1>6, <2>1, <2>3 DEF Calm
<1>. QED
  BY <1>10, <1>11

\* The end of splice_two: s takes the place and the colour k of c, and its left child l.
Replaced(v, u, c, s, l, k) ==
    /\ u \in Tree /\ u.crashed = v.crashed /\ u.root = IF Parent(v, c) = Nil THEN s ELSE v.root
    /\ \A x \in Link : Parent(u, x) = IF x = l THEN s ELSE IF x = s THEN Parent(v, c) ELSE Parent(v, x)
    /\ \A x \in Link, e \in Dir :
          Child(u, e, x) = IF x = s /\ e = "left" THEN l
                           ELSE IF x # Nil /\ x = Parent(v, c) /\ e = SideOf(v, c) THEN s ELSE Child(v, e, x)
    /\ \A x \in Link : Color(u, x) = IF x = s THEN k ELSE Color(v, x)

LEMMA Replaces ==
  ASSUME NEW v \in Tree, NEW c \in Page, NEW s \in Page, NEW l \in Page, l # s, NEW k \in Colors
  PROVE  Replaced(v, SetParent(SetColor(SetChild(transplant(v, c, s), "left", s, l), s, k), l, s), c, s, l, k)
<1>. DEFINE t1 == transplant(v, c, s)
            t2 == SetChild(t1, "left", s, l)
            t3 == SetColor(t2, s, k)
            u == SetParent(t3, l, s)
<1>1. c \in Link /\ s \in Link /\ l \in Link /\ s # Nil /\ l # Nil /\ "left" \in Dir /\ Parent(v, c) \in Link
  BY Constants, Directions, Reads
<1>2. Transplanted(v, t1, c, s)
  BY <1>1, Transplants
<1>. HIDE DEF t1
<1>3. t1 \in Tree
  BY <1>2 DEF Transplanted
<1>4. ChildSet(t1, t2, "left", s, l)
  BY <1>1, <1>3, SetsChild
<1>. HIDE DEF t2
<1>5. t2 \in Tree
  BY <1>4 DEF ChildSet
<1>6. Painted(t2, t3, s, k)
  BY <1>1, <1>5, SetsColor DEF Colors
<1>. HIDE DEF t3
<1>7. t3 \in Tree
  BY <1>6 DEF Painted
<1>8. ParentSet(t3, u, l, s)
  BY <1>1, <1>7, SetsParent
<1>. HIDE DEF u
<1>9. u \in Tree /\ u.crashed = v.crashed /\ u.root = IF Parent(v, c) = Nil THEN s ELSE v.root
  BY <1>2, <1>4, <1>6, <1>8 DEF Transplanted, ChildSet, Painted, ParentSet
<1>10. \A x \in Link : Parent(u, x) = IF x = l THEN s ELSE IF x = s THEN Parent(v, c) ELSE Parent(v, x)
  BY <1>1, <1>2, <1>4, <1>6, <1>8 DEF Transplanted, ChildSet, Painted, ParentSet
<1>11. \A x \in Link, e \in Dir :
          Child(u, e, x) = IF x = s /\ e = "left" THEN l
                           ELSE IF x # Nil /\ x = Parent(v, c) /\ e = SideOf(v, c) THEN s ELSE Child(v, e, x)
  BY <1>1, <1>2, <1>4, <1>6, <1>8 DEF Transplanted, ChildSet, Painted, ParentSet
<1>12. \A x \in Link : Color(u, x) = IF x = s THEN k ELSE Color(v, x)
  BY <1>1, <1>2, <1>4, <1>6, <1>8 DEF Transplanted, ChildSet, Painted, ParentSet
<1>13. Replaced(v, u, c, s, l, k)
  BY <1>9, <1>10, <1>11, <1>12 DEF Replaced
<1>. QED
  BY <1>13 DEF u, t1, t2, t3

\* The tree w of the pages K with the page s in the place of the node c
Substituted(w, u, K, c, s) ==
    /\ u \in Tree /\ u.crashed = w.crashed /\ u.root = IF w.root = c THEN s ELSE w.root
    /\ Parent(u, s) = Parent(w, c)
    /\ \A x \in K \ {c} : Parent(u, x) = IF Parent(w, x) = c THEN s ELSE Parent(w, x)
    /\ \A e \in Dir : Child(u, e, s) = Child(w, e, c)
    /\ \A x \in K \ {c}, e \in Dir : Child(u, e, x) = IF Child(w, e, x) = c THEN s ELSE Child(w, e, x)
    /\ Color(u, s) = Color(w, c)
    /\ \A x \in K \ {c} : Color(u, x) = Color(w, x)

\* Bounds after it
Instead(b, c, s) ==
    [e \in Dir |-> [x \in Page |-> IF x = s THEN b[e][c] ELSE IF b[e][x] = c THEN s ELSE b[e][x]]]

LEMMA InsteadIs ==
  ASSUME NEW b \in Bounds, NEW c \in Page, NEW s \in Page
  PROVE  /\ Instead(b, c, s) \in Bounds
         /\ \A e \in Dir, x \in Page :
               Instead(b, c, s)[e][x] = IF x = s THEN b[e][c] ELSE IF b[e][x] = c THEN s ELSE b[e][x]
<1>1. (\A e \in Dir, x \in Page : b[e][x] \in 0 .. (NPages + 1)) /\ s \in 0 .. (NPages + 1)
  BY Constants DEF Bounds
<1>2. \A e \in Dir, x \in Page : (IF x = s THEN b[e][c] ELSE IF b[e][x] = c THEN s ELSE b[e][x]) \in 0 .. (NPages + 1)
  BY <1>1
<1>3. Instead(b, c, s) \in Bounds
  BY <1>2 DEF Instead, Bounds
<1>. QED
  BY <1>3 DEF Instead

\* The page s may take the place of c if it is between the bounds of c and no node is between c and s.
LEMMA SubstituteShaped ==
  ASSUME NEW w \in Tree, NEW K, NEW b, Shaped(w, K, b), NEW c \in K, NEW s \in Page, s \notin K, NEW u,
         Substituted(w, u, K, c, s), Inside(b, c, s),
         \A x \in K \ {c}, d \in Dir : Beside(d, c, x) => Beside(d, s, x)
  PROVE  Shaped(u, (K \ {c}) \cup {s}, Instead(b, c, s))
<1>. DEFINE M == (K \ {c}) \cup {s}
            b2 == Instead(b, c, s)
<1>1. K \subseteq Page /\ K \subseteq Link /\ Nil \notin K /\ b \in Bounds /\ K \subseteq Nat /\ w.root \in K /\ s # Nil
      /\ s # c /\ 0 < c /\ c < NPages + 1 /\ s \in Nat /\ (w.root # Nil)
  BY Constants DEF Shaped
<1>2. /\ b2 \in Bounds
      /\ \A e \in Dir, x \in Page : b2[e][x] = IF x = s THEN b[e][c] ELSE IF b[e][x] = c THEN s ELSE b[e][x]
  <2>1. c \in Page /\ b \in Bounds
    BY <1>1
  <2>2. b2 \in Bounds
    BY <2>1, InsteadIs
  <2>3. \A e \in Dir, x \in Page : b2[e][x] = IF x = s THEN b[e][c] ELSE IF b[e][x] = c THEN s ELSE b[e][x]
    BY DEF Instead
  <2>. QED
    BY <2>2, <2>3
<1>3. \A e \in Dir, y \in K : Beside(e, b[e][y], y) /\ b[e][y] # y /\ b[e][y] \in Nat
  <2>. SUFFICES ASSUME NEW e \in Dir, NEW y \in K PROVE Beside(e, b[e][y], y) /\ b[e][y] # y /\ b[e][y] \in Nat
    OBVIOUS
  <2>1. Beside(e, b[e][y], y)
    BY DEF Shaped
  <2>2. b[e][y] \in Nat /\ y \in Nat
    BY <1>1, BoundIs
  <2>. QED
    BY <2>1, <2>2, BesideIs
<1>4. /\ u \in Tree /\ u.root = IF w.root = c THEN s ELSE w.root
      /\ Parent(u, s) = Parent(w, c)
      /\ \A x \in K \ {c} : Parent(u, x) = IF Parent(w, x) = c THEN s ELSE Parent(w, x)
      /\ \A e \in Dir : Child(u, e, s) = Child(w, e, c)
      /\ \A x \in K \ {c}, e \in Dir : Child(u, e, x) = IF Child(w, e, x) = c THEN s ELSE Child(w, e, x)
  BY DEF Substituted
<1>5. Parent(w, w.root) = Nil /\ b["left"][w.root] = 0 /\ b["right"][w.root] = NPages + 1
  BY <1>1 DEF Shaped
<1>. HIDE DEF b2
<1>6. /\ u.root \in M \cup {Nil} /\ (M # {} => u.root # Nil) /\ Parent(u, u.root) = Nil
      /\ u.root # Nil => b2["left"][u.root] = 0 /\ b2["right"][u.root] = NPages + 1
  <2>1. CASE w.root = c
    <3>1. u.root = s /\ Parent(u, s) = Nil
      BY <1>4, <1>5, <2>1
    <3>2. b2["left"][s] = 0 /\ b2["right"][s] = NPages + 1
      BY <1>1, <1>2, <1>5, <2>1, Directions
    <3>. QED
      BY <1>1, <3>1, <3>2
  <2>2. CASE w.root # c
    <3>1. u.root = w.root /\ w.root \in K \ {c} /\ w.root # s /\ w.root \in Page
      BY <1>1, <1>4, <2>2
    <3>2. Parent(u, w.root) = Nil
      BY <1>1, <1>4, <1>5, <3>1, Constants
    <3>3. "left" \in Dir /\ "right" \in Dir /\ 0 # c /\ NPages + 1 # c
      BY <1>1, Directions, Constants
    <3>4. b2["left"][w.root] = 0 /\ b2["right"][w.root] = NPages + 1
      BY <1>2, <1>5, <3>1, <3>3
    <3>. QED
      BY <1>1, <3>1, <3>2, <3>4
  <2>. QED
    BY <2>1, <2>2
<1>7. ASSUME NEW y \in M, NEW e \in Dir PROVE Beside(e, b2[e][y], y)
  <2>1. CASE y = s
    BY <1>1, <1>2, <2>1 DEF Inside
  <2>2. CASE y # s /\ b[e][y] = c
    <3>1. b2[e][y] = s /\ y \in K \ {c} /\ Beside(e, c, y)
      BY <1>1, <1>2, <1>3, <2>2
    <3>. QED
      BY <3>1
  <2>3. CASE y # s /\ b[e][y] # c
    BY <1>1, <1>2, <1>3, <2>3
  <2>. QED
    BY <2>1, <2>2, <2>3
<1>8. ASSUME NEW y \in M, NEW e \in Dir, Child(u, e, y) # Nil
      PROVE  /\ Child(u, e, y) \in M /\ Parent(u, Child(u, e, y)) = y
             /\ b2[e][Child(u, e, y)] = b2[e][y] /\ b2[Other(e)][Child(u, e, y)] = y
  <2>1. CASE y = s
    <3>. DEFINE z == Child(w, e, c)
    <3>1. Child(u, e, y) = z /\ z # Nil
      BY <1>4, <1>8, <2>1
    <3>2. z \in K /\ z # c /\ Parent(w, z) = c /\ b[e][z] = b[e][c] /\ b[Other(e)][z] = c /\ Other(e) \in Dir
      BY <3>1, ChildFacts, Directions
    <3>. HIDE DEF z
    <3>3. Parent(u, z) = s
      BY <1>4, <3>2
    <3>4. z \in Page /\ z # s /\ b[e][c] # c
      BY <1>1, <1>3, <3>2
    <3>5. b2[e][z] = b[e][c] /\ b2[Other(e)][z] = s /\ b2[e][s] = b[e][c]
      BY <1>2, <3>2, <3>4
    <3>. QED
      BY <2>1, <3>1, <3>2, <3>3, <3>5
  <2>2. CASE y # s /\ Child(w, e, y) = c
    <3>1. y \in K \ {c} /\ Child(u, e, y) = s
      BY <1>4, <2>2
    <3>2. Parent(w, c) = y /\ b[e][c] = b[e][y] /\ b[Other(e)][c] = y /\ Other(e) \in Dir
      BY <1>1, <2>2, <3>1, ChildFacts, Directions
    <3>3. y \in Page /\ b[e][y] # c
      BY <1>1, <1>3, <3>1, <3>2
    <3>4. b2[e][s] = b[e][y] /\ b2[Other(e)][s] = y /\ b2[e][y] = b[e][y]
      BY <1>2, <2>2, <3>2, <3>3
    <3>. QED
      BY <1>4, <3>1, <3>2, <3>4
  <2>3. CASE y # s /\ Child(w, e, y) # c
    <3>. DEFINE z == Child(w, e, y)
    <3>1. y \in K \ {c} /\ Child(u, e, y) = z /\ z # Nil
      BY <1>4, <1>8, <2>3
    <3>2. z \in K /\ Parent(w, z) = y /\ b[e][z] = b[e][y] /\ b[Other(e)][z] = y /\ Other(e) \in Dir /\ z # c
      BY <2>3, <3>1, ChildFacts, Directions
    <3>. HIDE DEF z
    <3>3. Parent(u, z) = y /\ z # s /\ z \in Page /\ y \in Page /\ y # c
      BY <1>1, <1>4, <3>1, <3>2
    <3>4. b2[e][z] = b2[e][y] /\ b2[Other(e)][z] = y
      BY <1>2, <2>3, <3>2, <3>3
    <3>. QED
      BY <3>1, <3>2, <3>3, <3>4
  <2>. QED
    BY <2>1, <2>2, <2>3
<1>9. ASSUME NEW y \in M, y # u.root
      PROVE  Parent(u, y) \in M /\ \E e \in Dir : Child(u, e, Parent(u, y)) = y
  <2>1. CASE y = s
    <3>1. c # w.root
      BY <1>4, <1>9, <2>1
    <3>. DEFINE q == Parent(w, c)
    <3>2. q \in K /\ q # c /\ SideOf(w, c) \in Dir /\ Child(w, SideOf(w, c), q) = c
      BY <3>1, ParentFacts
    <3>3. Parent(u, y) = q
      BY <1>4, <2>1
    <3>. HIDE DEF q
    <3>4. Child(u, SideOf(w, c), q) = s
      BY <1>4, <3>2
    <3>. QED
      BY <2>1, <3>2, <3>3, <3>4
  <2>2. CASE y # s
    <3>1. y \in K \ {c} /\ y # w.root
      BY <1>4, <1>9, <2>2
    <3>. DEFINE q == Parent(w, y)
    <3>2. q \in K /\ SideOf(w, y) \in Dir /\ Child(w, SideOf(w, y), q) = y
      BY <3>1, ParentFacts
    <3>. HIDE DEF q
    <3>3. CASE q = c
      <4>1. Parent(u, y) = s /\ Child(u, SideOf(w, y), s) = y
        BY <1>4, <3>1, <3>2, <3>3 DEF q
      <4>. QED
        BY <3>2, <4>1
    <3>4. CASE q # c
      <4>1. Parent(u, y) = q /\ Child(u, SideOf(w, y), q) = y
        BY <1>4, <3>1, <3>2, <3>4 DEF q
      <4>. QED
        BY <3>2, <3>4, <4>1
    <3>. QED
      BY <3>3, <3>4
  <2>. QED
    BY <2>1, <2>2
<1>10. Shaped(u, M, b2)
  <2>1. M \in SUBSET Page
    BY <1>1
  <2>. QED
    BY <1>2, <1>6, <1>7, <1>8, <1>9, <2>1 DEF Shaped
<1>. QED
  BY <1>10 DEF b2

\* It has the colours of w.
LEMMA SubstituteColors ==
  ASSUME NEW w \in Tree, NEW K, NEW b, Shaped(w, K, b), NEW c \in K, NEW s \in Page, s \notin K, NEW u,
         Substituted(w, u, K, c, s), NEW x \in (K \ {c}) \cup {s}, NEW y, y = IF x = s THEN c ELSE x, NEW e \in Dir
  PROVE  /\ y \in K /\ Color(u, x) = Color(w, y)
         /\ Child(u, e, x) = IF Child(w, e, y) = c THEN s ELSE Child(w, e, y)
         /\ Color(u, Child(u, e, x)) = Color(w, Child(w, e, y))
         /\ Color(u, u.root) = Color(w, w.root)
<1>1. /\ u \in Tree /\ u.root = IF w.root = c THEN s ELSE w.root
      /\ \A d \in Dir : Child(u, d, s) = Child(w, d, c)
      /\ \A z \in K \ {c}, d \in Dir : Child(u, d, z) = IF Child(w, d, z) = c THEN s ELSE Child(w, d, z)
      /\ Color(u, s) = Color(w, c)
      /\ \A z \in K \ {c} : Color(u, z) = Color(w, z)
  BY DEF Substituted
<1>2. w.root \in K \cup {Nil} /\ Nil \notin K
  BY Constants DEF Shaped
<1>3. Color(u, Nil) = "none" /\ Color(w, Nil) = "none"
  BY <1>1, Reads
<1>4. \A z \in K \cup {Nil} : Color(u, IF z = c THEN s ELSE z) = Color(w, z)
  BY <1>1, <1>2, <1>3
<1>5. y \in K /\ Color(u, x) = Color(w, y)
  BY <1>1
<1>. DEFINE z == Child(w, e, y)
<1>6. z \in K \cup {Nil} /\ (y = c => z # c)
  <2>1. z # Nil => z \in K /\ z # y
    BY <1>5, ChildFacts
  <2>. QED
    BY <1>2, <2>1
<1>7. Child(u, e, x) = IF z = c THEN s ELSE z
  <2>1. CASE x = s
    BY <1>1, <1>6, <2>1
  <2>2. CASE x # s
    BY <1>1, <2>2
  <2>. QED
    BY <2>1, <2>2
<1>. HIDE DEF z
<1>8. Color(u, Child(u, e, x)) = Color(w, z)
  BY <1>4, <1>6, <1>7
<1>9. Color(u, u.root) = Color(w, w.root)
  BY <1>1, <1>2, <1>4
<1>. QED
  BY <1>5, <1>7, <1>8, <1>9 DEF z

LEMMA SubstituteCalm ==
  ASSUME NEW w \in Tree, NEW K, NEW b, Shaped(w, K, b), NEW c \in K, NEW s \in Page, s \notin K, NEW u,
         Substituted(w, u, K, c, s), NEW b2, Shaped(u, (K \ {c}) \cup {s}, b2), NEW a, DeleteInv(w, K, b, a), a # c
  PROVE  /\ DeleteInv(u, (K \ {c}) \cup {s}, b2, a)
         /\ Calm(w, K) => Calm(u, (K \ {c}) \cup {s})
<1>. DEFINE M == (K \ {c}) \cup {s}
            Of(x) == IF x = s THEN c ELSE x
<1>1. \A x \in M, e \in Dir :
         /\ Of(x) \in K /\ Color(u, x) = Color(w, Of(x))
         /\ Child(u, e, x) = IF Child(w, e, Of(x)) = c THEN s ELSE Child(w, e, Of(x))
         /\ Color(u, Child(u, e, x)) = Color(w, Child(w, e, Of(x)))
  BY SubstituteColors
<1>2. Color(u, u.root) = Color(w, w.root)
  BY SubstituteColors, Directions
<1>3. u \in Tree /\ ~u.crashed /\ ~w.crashed /\ u.root = IF w.root = c THEN s ELSE w.root
  BY DEF Substituted, DeleteInv
<1>4. a \in M \cup {Nil} /\ a # c
  BY DEF DeleteInv
<1>5. Color(u, u.root) = "red" => u.root = a
  BY <1>2, <1>3 DEF DeleteInv
<1>6. ASSUME NEW x \in M, NEW e \in Dir, Color(u, x) = "red", Color(u, Child(u, e, x)) = "red"
      PROVE  x = a \/ Child(u, e, x) = a
  <2>1. Of(x) \in K /\ Color(w, Of(x)) = "red" /\ Color(w, Child(w, e, Of(x))) = "red"
    BY <1>1, <1>6
  <2>2. Of(x) = a \/ Child(w, e, Of(x)) = a
    BY <2>1 DEF DeleteInv
  <2>3. CASE Of(x) = a
    BY <1>4, <2>3
  <2>4. CASE Child(w, e, Of(x)) = a
    BY <1>1, <1>4, <2>4
  <2>. QED
    BY <2>2, <2>3, <2>4
<1>7. DeleteInv(u, M, b2, a)
  BY <1>3, <1>4, <1>5, <1>6 DEF DeleteInv
<1>8. Calm(w, K) => Calm(u, M)
  <2>. SUFFICES ASSUME Calm(w, K) PROVE Calm(u, M)
    OBVIOUS
  <2>1. Color(u, u.root) # "red"
    BY <1>2 DEF Calm
  <2>2. ASSUME NEW x \in M, NEW e \in Dir, Color(u, x) = "red" PROVE Color(u, Child(u, e, x)) # "red"
    <3>1. Of(x) \in K /\ Color(w, Of(x)) = "red" /\ Color(u, Child(u, e, x)) = Color(w, Child(w, e, Of(x)))
      BY <1>1, <2>2
    <3>. HIDE DEF Of
    <3>. QED
      BY <3>1, CalmIs
  <2>. QED
    BY <2>1, <2>2 DEF Calm
<1>. QED
  BY <1>7, <1>8

\* The successor of a node with two children is the next page of the tree, and has no left child.
LEMMA SuccessorIs ==
  ASSUME NEW t \in Tree, NEW N, NEW b, Shaped(t, N, b), NEW c \in N, NEW l, l = Child(t, "left", c), l # Nil,
         NEW r, r = Child(t, "right", c), r # Nil, NEW s, s = min_link(t, r), NEW a, a = Child(t, "right", s)
  PROVE  /\ s \in N /\ l \in N /\ r \in N /\ c < s /\ s < b["right"][c] /\ Child(t, "left", s) = Nil
         /\ s # t.root /\ a # c /\ a # s /\ l # s /\ l # c /\ r # c /\ r # a /\ l # r /\ a \in Link
         /\ Parent(t, l) = c /\ Parent(t, r) = c /\ (a # Nil => a \in N /\ Parent(t, a) = s)
         /\ \A y \in N : ~(c < y /\ y < s)
         /\ Parent(t, s) \in N /\ SideOf(t, s) \in Dir /\ Child(t, SideOf(t, s), Parent(t, s)) = s
         /\ Parent(t, s) = c <=> s = r
<1>1. N \subseteq Page /\ N \subseteq Link /\ Nil \notin N /\ N \subseteq Nat /\ "left" \in Dir /\ "right" \in Dir
      /\ "left" # "right" /\ b \in Bounds
      /\ Other("right") = "left" /\ 0 < c
  BY Constants, Directions DEF Shaped, Other
<1>2. l \in N /\ Parent(t, l) = c /\ l # c /\ Beside("left", l, c)
  BY <1>1, ChildFacts
<1>3. r \in N /\ Parent(t, r) = c /\ r # c /\ Beside("right", r, c) /\ b["right"][r] = b["right"][c]
      /\ b["left"][r] = c
  BY <1>1, ChildFacts
<1>4. s \in N /\ Child(t, "left", s) = Nil /\ b["left"][s] = c /\ b["right"][s] <= b["right"][c]
  BY <1>3, MinIs
<1>5. Beside("left", c, s) /\ Beside("right", b["right"][s], s)
  BY <1>1, <1>4 DEF Shaped
<1>6. b["right"][s] \in Nat /\ b["right"][c] \in Nat /\ s \in Nat /\ c \in Nat
  BY <1>1, <1>4, BoundIs
<1>7. c < s /\ s < b["right"][c] /\ l < c
  <2>1. c < s /\ s < b["right"][s] /\ l < c
    BY <1>2, <1>5 DEF Beside
  <2>. QED
    BY <1>4, <1>6, <2>1
<1>8. l # s /\ l # r
  <2>1. c < r /\ r \in Nat /\ l \in Nat
    BY <1>1, <1>2, <1>3 DEF Beside
  <2>. QED
    BY <1>6, <1>7, <2>1
<1>9. s # t.root
  <2>1. s = t.root => b["left"][s] = 0
    BY <1>1, <1>4 DEF Shaped
  <2>. QED
    BY <1>1, <1>4, <2>1
<1>10. a # Nil => a \in N /\ Parent(t, a) = s /\ Beside("right", a, s) /\ a # s
  BY <1>1, <1>4, ChildFacts
<1>11. a # c /\ a # s /\ a # r /\ a \in Link
  <2>1. a \in Link
    BY <1>1, <1>4, Reads
  <2>2. a # s
    BY <1>1, <1>4, <1>10
  <2>3. a # c
    <3>. SUFFICES ASSUME a = c PROVE FALSE
      OBVIOUS
    <3>1. Beside("right", c, s)
      BY <1>1, <1>10
    <3>. QED
      BY <1>1, <1>6, <1>7, <3>1 DEF Beside
  <2>4. a # r
    BY <1>1, <1>3, <1>6, <1>7, <1>10
  <2>. QED
    BY <2>1, <2>2, <2>3, <2>4
<1>12. \A y \in N : ~(c < y /\ y < s)
  <2>. SUFFICES ASSUME NEW y \in N, c < y, y < s PROVE FALSE
    OBVIOUS
  <2>1. Beside("left", b["left"][s], y) /\ Beside("left", y, s)
    BY <1>4 DEF Beside
  <2>. QED
    BY <1>1, <1>4, <2>1, Gap
<1>13. Parent(t, s) \in N /\ SideOf(t, s) \in Dir /\ Child(t, SideOf(t, s), Parent(t, s)) = s
  BY <1>4, <1>9, ParentFacts
<1>14. Parent(t, s) = c <=> s = r
  <2>1. ASSUME Parent(t, s) = c PROVE s = r
    <3>1. SideOf(t, s) = "left" \/ SideOf(t, s) = "right"
      BY <1>13, Directions
    <3>. QED
      BY <1>8, <1>13, <2>1, <3>1
  <2>. QED
    BY <1>3, <2>1
<1>. QED
  BY <1>2, <1>3, <1>4, <1>7, <1>8, <1>9, <1>10, <1>11, <1>12, <1>13, <1>14

\* After successor_out, the successor s has the right child of c in the tree w of the other nodes K.
Stepped(w, v, K, c, s) ==
    /\ v \in Tree /\ v.root = w.root /\ v.crashed = w.crashed
    /\ \A x \in K \ {c}, e \in Dir : Child(v, e, x) = Child(w, e, x)
    /\ Child(v, "right", s) = Child(w, "right", c)
    /\ \A x \in K : Parent(v, x) = IF x = Child(w, "right", c) THEN s ELSE Parent(w, x)
    /\ \A x \in K : Color(v, x) = Color(w, x)

LEMMA SuccessorOut ==
  ASSUME NEW t \in Tree, NEW N, NEW b, Shaped(t, N, b), NEW c \in N, NEW l, l = Child(t, "left", c), l # Nil,
         NEW r, r = Child(t, "right", c), r # Nil, NEW s, s = min_link(t, r), NEW a, a = Child(t, "right", s),
         NEW w, Transplanted(t, w, s, a), w = transplant(t, s, a)
  PROVE  Stepped(w, successor_out(t, c, s), N \ {s}, c, s) /\ Child(w, "left", c) = l
<1>. DEFINE m == Parent(t, s)
            v == successor_out(t, c, s)
<1>1. /\ s \in N /\ l \in N /\ r \in N /\ s # t.root /\ a # c /\ a # s /\ l # s /\ l # c /\ r # c /\ r # a /\ l # r
      /\ Parent(t, l) = c /\ Parent(t, r) = c /\ (a # Nil => a \in N /\ Parent(t, a) = s)
      /\ m \in N /\ SideOf(t, s) \in Dir /\ Child(t, SideOf(t, s), m) = s
      /\ (m = c <=> s = r) /\ a \in Link
  BY SuccessorIs
<1>2. N \subseteq Link /\ N \subseteq Page /\ Nil \notin N /\ "left" \in Dir /\ "right" \in Dir /\ c # s
  <2>1. c < s
    BY SuccessorIs
  <2>2. c \in Nat /\ s \in Nat
    BY <1>1, Constants DEF Shaped
  <2>. QED
    BY <1>1, <2>1, <2>2, Constants, Directions DEF Shaped
<1>3. m = c => SideOf(t, s) = "right"
  BY <1>1, Directions
<1>4. m # Nil /\ m # s
  BY <1>1, <1>2, ParentFacts
<1>5. /\ w \in Tree /\ w.crashed = t.crashed /\ w.root = t.root
      /\ \A x \in Link : Parent(w, x) = IF x = a /\ a # Nil THEN m ELSE Parent(t, x)
      /\ \A x \in Link, e \in Dir : Child(w, e, x) = IF x = m /\ e = SideOf(t, s) THEN a ELSE Child(t, e, x)
      /\ \A x \in Link : Color(w, x) = Color(t, x)
  BY <1>4 DEF Transplanted
<1>. HIDE DEF m
<1>6. Child(w, "left", c) = l
  BY <1>2, <1>3, <1>5
<1>7. CASE s = r
  <2>1. Child(w, "right", c) = a /\ m = c
    BY <1>1, <1>2, <1>3, <1>5, <1>7
  <2>2. v = SetParent(t, a, s)
    BY <1>7 DEF successor_out
  <2>. HIDE DEF v
  <2>3. ParentSet(t, v, a, s)
    BY <1>1, <1>2, <2>2, SetsParent
  <2>4. /\ v \in Tree /\ v.root = t.root /\ v.crashed = t.crashed
        /\ \A x \in Link : Parent(v, x) = IF x = a /\ a # Nil THEN s ELSE Parent(t, x)
        /\ \A x \in Link, e \in Dir : Child(v, e, x) = Child(t, e, x)
        /\ \A x \in Link : Color(v, x) = Color(t, x)
    BY <2>3 DEF ParentSet
  <2>5. \A x \in N \ {s, c}, e \in Dir : Child(v, e, x) = Child(w, e, x)
    BY <1>2, <1>5, <2>1, <2>4
  <2>6. Child(v, "right", s) = Child(w, "right", c)
    BY <1>1, <1>2, <2>1, <2>4
  <2>7. \A x \in N \ {s} : Parent(v, x) = IF x = Child(w, "right", c) THEN s ELSE Parent(w, x)
    BY <1>1, <1>2, <1>5, <2>1, <2>4
  <2>8. \A x \in N \ {s} : Color(v, x) = Color(w, x)
    BY <1>2, <1>5, <2>4
  <2>9. v.root = w.root /\ v.crashed = w.crashed
    BY <1>5, <2>4
  <2>10. Stepped(w, v, N \ {s}, c, s)
    BY <2>4, <2>5, <2>6, <2>7, <2>8, <2>9 DEF Stepped
  <2>. QED
    BY <1>6, <2>10 DEF v
<1>8. CASE s # r
  <2>1. m # c /\ Child(w, "right", c) = r
    BY <1>1, <1>2, <1>5, <1>8
  <2>. DEFINE v1 == SetChild(w, "right", s, r)
  <2>2. v = SetParent(v1, r, s)
    BY <1>8 DEF successor_out
  <2>. HIDE DEF v
  <2>3. ChildSet(w, v1, "right", s, r)
    BY <1>1, <1>2, <1>5, SetsChild
  <2>. HIDE DEF v1
  <2>4. v1 \in Tree
    BY <2>3 DEF ChildSet
  <2>5. ParentSet(v1, v, r, s)
    BY <1>1, <1>2, <2>2, <2>4, SetsParent
  <2>6. /\ v \in Tree /\ v.root = w.root /\ v.crashed = w.crashed
        /\ \A x \in Link : Parent(v, x) = IF x = r THEN s ELSE Parent(w, x)
        /\ \A x \in Link, e \in Dir : Child(v, e, x) = IF e = "right" /\ x = s THEN r ELSE Child(w, e, x)
        /\ \A x \in Link : Color(v, x) = Color(w, x)
    BY <1>1, <1>2, <2>3, <2>5 DEF ChildSet, ParentSet
  <2>7. \A x \in N \ {s, c}, e \in Dir : Child(v, e, x) = Child(w, e, x)
    BY <1>2, <2>6
  <2>8. Child(v, "right", s) = Child(w, "right", c)
    BY <1>1, <1>2, <2>1, <2>6
  <2>9. \A x \in N \ {s} : Parent(v, x) = IF x = Child(w, "right", c) THEN s ELSE Parent(w, x)
    BY <1>2, <2>1, <2>6
  <2>10. \A x \in N \ {s} : Color(v, x) = Color(w, x)
    BY <1>2, <2>6
  <2>11. Stepped(w, v, N \ {s}, c, s)
    BY <2>6, <2>7, <2>8, <2>9, <2>10 DEF Stepped
  <2>. QED
    BY <1>6, <2>11 DEF v
<1>. QED
  BY <1>7, <1>8

\* splice_two is the substitution of the successor for c in the tree of the other nodes.
LEMMA Substitutes ==
  ASSUME NEW w \in Tree, NEW K, NEW b, Shaped(w, K, b), NEW c \in K, NEW s \in Page, s \notin K,
         NEW l, l = Child(w, "left", c), l # Nil, NEW v, Stepped(w, v, K, c, s), NEW u,
         Replaced(v, u, c, s, l, Color(w, c))
  PROVE  Substituted(w, u, K, c, s)
<1>. DEFINE q == Parent(w, c)
            r == Child(w, "right", c)
            e1 == SideOf(w, c)
<1>1. K \subseteq Page /\ K \subseteq Link /\ Nil \notin K /\ s \in Link /\ s # Nil /\ "left" \in Dir /\ "right" \in Dir
      /\ w.root \in K /\ "left" # "right"
  BY Constants, Directions DEF Shaped
<1>2. l \in K /\ l # c /\ Parent(w, l) = c
  BY <1>1, ChildFacts
<1>3. r # Nil => r \in K /\ r # c /\ Parent(w, r) = c
  BY <1>1, ChildFacts
<1>4. \A x \in K : Parent(w, x) = c => x = l \/ x = r
  <2>. SUFFICES ASSUME NEW x \in K, Parent(w, x) = c PROVE x = l \/ x = r
    OBVIOUS
  <2>1. SideOf(w, x) \in Dir /\ Child(w, SideOf(w, x), c) = x
    BY <1>1, ParentFacts
  <2>. QED
    BY <2>1, Directions
<1>5. q = Nil <=> w.root = c
  <2>1. q # Nil => w.root # c
    BY DEF Shaped
  <2>2. w.root # c => q # Nil
    BY <1>1 DEF Shaped
  <2>. QED
    BY <2>1, <2>2
<1>6. q # Nil => q \in K /\ q # c /\ e1 \in Dir /\ Child(w, e1, q) = c /\ (\A e \in Dir : Child(w, e, q) = c => e = e1)
  BY ParentFacts
<1>7. \A x \in K, e \in Dir : Child(w, e, x) = c => x = q /\ e = e1
  <2>. SUFFICES ASSUME NEW x \in K, NEW e \in Dir, Child(w, e, x) = c PROVE x = q /\ e = e1
    OBVIOUS
  <2>1. Parent(w, c) = x /\ SideOf(w, c) = e
    BY <1>1, OneParent
  <2>. QED
    BY <2>1
<1>8. /\ v \in Tree /\ v.root = w.root /\ v.crashed = w.crashed
      /\ \A x \in K \ {c}, e \in Dir : Child(v, e, x) = Child(w, e, x)
      /\ Child(v, "right", s) = r
      /\ \A x \in K : Parent(v, x) = IF x = r THEN s ELSE Parent(w, x)
      /\ \A x \in K : Color(v, x) = Color(w, x)
  BY DEF Stepped
<1>. HIDE DEF r, q, e1
<1>9. Parent(v, c) = q
  BY <1>1, <1>3, <1>8 DEF q
<1>10. q # Nil => SideOf(v, c) = e1
  <2>. SUFFICES ASSUME q # Nil PROVE SideOf(v, c) = e1
    OBVIOUS
  <2>1. Child(v, "left", q) = Child(w, "left", q)
    BY <1>1, <1>6, <1>8
  <2>. QED
    BY <1>9, <2>1 DEF SideOf, e1, q
<1>11. /\ u \in Tree /\ u.crashed = w.crashed /\ u.root = IF q = Nil THEN s ELSE w.root
       /\ \A x \in Link : Parent(u, x) = IF x = l THEN s ELSE IF x = s THEN q ELSE Parent(v, x)
       /\ \A x \in Link, e \in Dir :
             Child(u, e, x) = IF x = s /\ e = "left" THEN l
                              ELSE IF x # Nil /\ x = q /\ e = e1 THEN s ELSE Child(v, e, x)
       /\ \A x \in Link : Color(u, x) = IF x = s THEN Color(w, c) ELSE Color(v, x)
  BY <1>8, <1>9, <1>10 DEF Replaced
<1>12. u.root = IF w.root = c THEN s ELSE w.root
  BY <1>5, <1>11
<1>13. Parent(u, s) = q
  BY <1>1, <1>2, <1>11
<1>14. \A x \in K \ {c} : Parent(u, x) = IF Parent(w, x) = c THEN s ELSE Parent(w, x)
  BY <1>1, <1>2, <1>3, <1>4, <1>8, <1>11
<1>15. \A e \in Dir : Child(u, e, s) = Child(w, e, c)
  <2>1. Child(u, "left", s) = l
    BY <1>1, <1>11
  <2>2. Child(u, "right", s) = r
    BY <1>1, <1>6, <1>8, <1>11
  <2>. QED
    BY <2>1, <2>2, Directions DEF r
<1>16. \A x \in K \ {c}, e \in Dir : Child(u, e, x) = IF Child(w, e, x) = c THEN s ELSE Child(w, e, x)
  BY <1>1, <1>6, <1>7, <1>8, <1>11
<1>17. Color(u, s) = Color(w, c) /\ \A x \in K \ {c} : Color(u, x) = Color(w, x)
  BY <1>1, <1>8, <1>11
<1>. QED
  BY <1>11, <1>12, <1>13, <1>14, <1>15, <1>16, <1>17 DEF Substituted, q

LEMMA SpliceTwo ==
  ASSUME NEW t \in Tree, NEW N, NEW b, Shaped(t, N, b), Calm(t, N), ~t.crashed, NEW c \in N,
         NEW l, l = Child(t, "left", c), l # Nil, NEW r, r = Child(t, "right", c), r # Nil,
         NEW s, s = min_link(t, r), NEW a, a = Child(t, "right", s)
  PROVE  LET u == splice_two(t, c, s) IN
         /\ \E b2 : DeleteInv(u, N \ {c}, b2, a)
         /\ Color(t, s) = "red" => Calm(u, N \ {c})
<1>. DEFINE K == N \ {s}
            w == transplant(t, s, a)
            bw == Without(b, s)
            v == successor_out(t, c, s)
            u == splice_two(t, c, s)
            b2 == Instead(bw, c, s)
<1>1. /\ s \in N /\ l \in N /\ c < s /\ s < b["right"][c] /\ Child(t, "left", s) = Nil
      /\ a # c /\ l # s /\ a \in Link /\ \A y \in N : ~(c < y /\ y < s)
  BY SuccessorIs
<1>2. N \subseteq Page /\ N \subseteq Link /\ Nil \notin N /\ N \subseteq Nat /\ "left" \in Dir /\ "right" \in Dir
      /\ Other("right") = "left" /\ b \in Bounds
  BY Constants, Directions DEF Shaped, Other
<1>3. c \in K /\ c # s /\ s \notin K /\ s \in Page
  BY <1>1, <1>2
<1>4. Transplanted(t, w, s, a)
  BY <1>1, <1>2, Transplants
<1>5. Stepped(w, v, K, c, s) /\ Child(w, "left", c) = l
  BY <1>4, SuccessorOut
<1>6. Shaped(w, K, bw) /\ DeleteInv(w, K, bw, a) /\ (Color(t, s) = "red" => Calm(w, K)) /\ w \in Tree
  BY <1>1, <1>2, <1>4, SpliceShaped, SpliceCalm DEF Transplanted
<1>7. Color(w, c) = Color(t, c) /\ Color(t, c) \in Colors
  BY <1>2, <1>4, Reads DEF Transplanted, Colors
<1>8. v \in Tree
  BY <1>5 DEF Stepped
<1>9. u = SetParent(SetColor(SetChild(transplant(v, c, s), "left", s, l), s, Color(t, c)), l, s)
  BY DEF splice_two
<1>10. bw[ "left"][c] < c /\ bw["right"][c] = b["right"][c] /\ bw["left"][c] \in Nat
  <2>1. Beside("left", bw["left"][c], c) /\ bw \in Bounds
    BY <1>2, <1>3, <1>6 DEF Shaped
  <2>2. bw["left"][c] < c
    BY <2>1 DEF Beside
  <2>3. bw["right"][c] = IF b["right"][c] = s THEN b["right"][s] ELSE b["right"][c]
    BY <1>2, <1>3, WithoutIs
  <2>4. b["right"][c] # s
    BY <1>1, <1>2
  <2>. QED
    BY <1>2, <2>1, <2>2, <2>3, <2>4, BoundIs
<1>. HIDE DEF v, u, w, bw, b2, K
<1>11. Replaced(v, u, c, s, l, Color(w, c))
  BY <1>1, <1>2, <1>3, <1>7, <1>8, <1>9, Replaces
<1>12. Substituted(w, u, K, c, s)
  BY <1>3, <1>5, <1>6, <1>11, Substitutes
<1>13. Inside(bw, c, s)
  <2>1. bw["left"][c] < s /\ s < bw["right"][c]
    BY <1>1, <1>2, <1>10
  <2>. QED
    BY <2>1, Directions DEF Inside, Beside
<1>14. \A x \in K \ {c}, d \in Dir : Beside(d, c, x) => Beside(d, s, x)
  <2>. SUFFICES ASSUME NEW x \in K \ {c}, NEW d \in Dir, Beside(d, c, x) PROVE Beside(d, s, x)
    OBVIOUS
  <2>1. x \in N /\ x # s /\ x \in Nat /\ s \in Nat /\ c \in Nat
    BY <1>1, <1>2 DEF K
  <2>2. CASE d = "left"
    <3>1. c < x
      BY <2>2 DEF Beside
    <3>2. s < x
      BY <1>1, <2>1, <3>1
    <3>. QED
      BY <2>2, <3>2 DEF Beside
  <2>3. CASE d = "right"
    <3>1. x < c
      BY <2>3 DEF Beside
    <3>2. x < s
      BY <1>1, <2>1, <3>1
    <3>. QED
      BY <2>3, <3>2 DEF Beside
  <2>. QED
    BY <2>2, <2>3, Directions
<1>15. Shaped(u, (K \ {c}) \cup {s}, b2)
  BY <1>3, <1>6, <1>12, <1>13, <1>14, SubstituteShaped DEF b2
<1>16. DeleteInv(u, (K \ {c}) \cup {s}, b2, a) /\ (Calm(w, K) => Calm(u, (K \ {c}) \cup {s}))
  BY <1>1, <1>3, <1>6, <1>12, <1>15, SubstituteCalm
<1>17. (K \ {c}) \cup {s} = N \ {c}
  BY <1>1, <1>3 DEF K
<1>. QED
  BY <1>6, <1>16, <1>17 DEF u

\* Wiping the node of a page that is not in the tree
LEMMA WipeLinks ==
  ASSUME NEW t \in Tree, NEW c \in Page
  PROVE  LET u == Wipe(t, c) IN
         /\ u \in Tree /\ u.root = t.root /\ u.crashed = t.crashed
         /\ \A x \in Link \ {c} : Parent(u, x) = Parent(t, x) /\ Color(u, x) = Color(t, x)
         /\ \A x \in Link \ {c}, e \in Dir : Child(u, e, x) = Child(t, e, x)
<1>. DEFINE t1 == SetChild(t, "left", c, Nil)
            t2 == SetChild(t1, "right", c, Nil)
            t3 == SetParent(t2, c, Nil)
            u == SetColor(t3, c, "black")
<1>1. c \in Link /\ c # Nil /\ Nil \in Link /\ "left" \in Dir /\ "right" \in Dir
  BY Constants, Directions
<1>2. Wipe(t, c) = u
  BY DEF Wipe
<1>3. ChildSet(t, t1, "left", c, Nil)
  BY <1>1, SetsChild
<1>. HIDE DEF t1
<1>4. t1 \in Tree
  BY <1>3 DEF ChildSet
<1>5. ChildSet(t1, t2, "right", c, Nil)
  BY <1>1, <1>4, SetsChild
<1>. HIDE DEF t2
<1>6. t2 \in Tree
  BY <1>5 DEF ChildSet
<1>7. ParentSet(t2, t3, c, Nil)
  BY <1>1, <1>6, SetsParent
<1>. HIDE DEF t3
<1>8. t3 \in Tree
  BY <1>7 DEF ParentSet
<1>9. Painted(t3, u, c, "black")
  BY <1>1, <1>8, SetsColor
<1>. HIDE DEF u
<1>10. u \in Tree /\ u.root = t.root /\ u.crashed = t.crashed
  BY <1>3, <1>5, <1>7, <1>9 DEF ChildSet, ParentSet, Painted
<1>11. \A x \in Link \ {c} : Parent(u, x) = Parent(t, x) /\ Color(u, x) = Color(t, x)
  BY <1>3, <1>5, <1>7, <1>9 DEF ChildSet, ParentSet, Painted
<1>12. \A x \in Link \ {c}, e \in Dir : Child(u, e, x) = Child(t, e, x)
  BY <1>3, <1>5, <1>7, <1>9 DEF ChildSet, ParentSet, Painted
<1>. QED
  BY <1>2, <1>10, <1>11, <1>12

LEMMA WipeSound ==
  ASSUME NEW t, NEW N, Sound(t, N), NEW c \in Page, c \notin N
  PROVE  Sound(Wipe(t, c), N)
<1>. DEFINE u == Wipe(t, c)
<1>1. PICK b : Shaped(t, N, b)
  BY DEF Sound
<1>2. t \in Tree /\ Calm(t, N) /\ N \subseteq Link \ {c} /\ N \subseteq Page /\ b \in Bounds /\ t.root \in N \cup {Nil}
      /\ Nil \in Link \ {c} /\ Nil \notin N
  BY <1>1, Constants DEF Sound, Shaped
<1>3. /\ u \in Tree /\ u.root = t.root
      /\ \A x \in N \cup {Nil} : Parent(u, x) = Parent(t, x) /\ Color(u, x) = Color(t, x)
      /\ \A x \in N \cup {Nil}, e \in Dir : Child(u, e, x) = Child(t, e, x)
  <2>1. /\ u \in Tree /\ u.root = t.root
        /\ \A x \in Link \ {c} : Parent(u, x) = Parent(t, x) /\ Color(u, x) = Color(t, x)
        /\ \A x \in Link \ {c}, e \in Dir : Child(u, e, x) = Child(t, e, x)
    BY <1>2, WipeLinks
  <2>. HIDE DEF u
  <2>. QED
    BY <1>2, <2>1
<1>. HIDE DEF u
<1>4. \A x \in N, e \in Dir : Child(t, e, x) \in N \cup {Nil}
  BY <1>1 DEF Shaped
<1>5. ASSUME NEW x \in N, NEW d \in Dir, Child(u, d, x) # Nil
      PROVE  /\ Child(u, d, x) \in N /\ Parent(u, Child(u, d, x)) = x
             /\ b[d][Child(u, d, x)] = b[d][x] /\ b[Other(d)][Child(u, d, x)] = x
  <2>. DEFINE y == Child(t, d, x)
  <2>1. Child(u, d, x) = y
    BY <1>3
  <2>2. y \in N /\ Parent(t, y) = x /\ b[d][y] = b[d][x] /\ b[Other(d)][y] = x
    BY <1>1, <1>5, <2>1, ChildFacts
  <2>. HIDE DEF y
  <2>3. Parent(u, y) = x
    BY <1>3, <2>2
  <2>. QED
    BY <2>1, <2>2, <2>3
<1>6. ASSUME NEW x \in N, x # u.root PROVE Parent(u, x) \in N /\ \E d \in Dir : Child(u, d, Parent(u, x)) = x
  <2>1. Parent(t, x) \in N /\ SideOf(t, x) \in Dir /\ Child(t, SideOf(t, x), Parent(t, x)) = x
    BY <1>1, <1>2, <1>3, <1>6, ParentFacts
  <2>2. Parent(u, x) = Parent(t, x)
    BY <1>3
  <2>3. Child(u, SideOf(t, x), Parent(u, x)) = x
    BY <1>3, <2>1, <2>2
  <2>. QED
    BY <2>1, <2>2, <2>3
<1>7. /\ u.root \in N \cup {Nil} /\ (N # {} => u.root # Nil) /\ Parent(u, u.root) = Nil
      /\ u.root # Nil => b["left"][u.root] = 0 /\ b["right"][u.root] = NPages + 1
  BY <1>1, <1>2, <1>3 DEF Shaped
<1>8. \A x \in N, d \in Dir : Beside(d, b[d][x], x)
  BY <1>1 DEF Shaped
<1>9. Shaped(u, N, b)
  <2>1. N \in SUBSET Page
    BY <1>2
  <2>. QED
    BY <1>2, <1>5, <1>6, <1>7, <1>8, <2>1 DEF Shaped
<1>10. Calm(u, N)
  <2>1. Color(u, u.root) # "red"
    BY <1>2, <1>3 DEF Calm
  <2>2. ASSUME NEW x \in N, NEW d \in Dir, Color(u, x) = "red" PROVE Color(u, Child(u, d, x)) # "red"
    <3>1. Color(t, x) = "red" /\ Child(u, d, x) = Child(t, d, x)
      BY <1>3, <2>2
    <3>2. Color(t, Child(t, d, x)) # "red"
      BY <1>2, <3>1, CalmIs
    <3>. QED
      BY <1>3, <1>4, <3>1, <3>2
  <2>. QED
    BY <2>1, <2>2 DEF Calm
<1>. QED
  BY <1>3, <1>9, <1>10 DEF Sound, u

\* The tree with the node c spliced out
LEMMA SpliceIs ==
  ASSUME NEW t, NEW N, Sound(t, N), ~t.crashed, NEW c \in N
  PROVE  LET l == Child(t, "left", c)
             r == Child(t, "right", c)
             one == l = Nil \/ r = Nil
             s == min_link(t, r)
             a == IF l = Nil THEN r ELSE IF r = Nil THEN l ELSE Child(t, "right", s)
             k == IF one THEN Color(t, c) ELSE Color(t, s)
             u == IF one THEN splice_one(t, c) ELSE splice_two(t, c, s)
         IN  /\ k \in Colors /\ \E b : DeleteInv(u, N \ {c}, b, a)
             /\ k = "red" => Calm(u, N \ {c})
<1>. DEFINE l == Child(t, "left", c)
            r == Child(t, "right", c)
            one == l = Nil \/ r = Nil
            s == min_link(t, r)
            a == IF l = Nil THEN r ELSE IF r = Nil THEN l ELSE Child(t, "right", s)
            k == IF one THEN Color(t, c) ELSE Color(t, s)
            u == IF one THEN splice_one(t, c) ELSE splice_two(t, c, s)
<1>1. PICK b : Shaped(t, N, b)
  BY DEF Sound
<1>2. t \in Tree /\ Calm(t, N) /\ N \subseteq Link /\ N \subseteq Page /\ Nil \notin N /\ l \in Link /\ r \in Link
      /\ Color(t, c) \in Colors
  <2>1. t \in Tree /\ Calm(t, N) /\ N \subseteq Link /\ N \subseteq Page /\ Nil \notin N
    BY <1>1, Constants DEF Sound, Shaped
  <2>. QED
    BY <2>1, Reads, Directions DEF Colors
<1>3. CASE one
  <2>. DEFINE g == IF l = Nil THEN "right" ELSE "left"
              x == Child(t, g, c)
  <2>1. g \in Dir /\ Child(t, Other(g), c) = Nil /\ a = x /\ x \in Link
    BY <1>2, <1>3, Directions DEF Other
  <2>2. u = transplant(t, c, x) /\ k = Color(t, c)
    <3>1. splice_one(t, c) = transplant(t, c, IF l = Nil THEN r ELSE l)
      BY DEF splice_one
    <3>2. x = IF l = Nil THEN r ELSE l
      OBVIOUS
    <3>. HIDE DEF x, l, r
    <3>. QED
      BY <1>3, <3>1, <3>2
  <2>3. Transplanted(t, transplant(t, c, x), c, x)
    BY <1>2, <2>1, Transplants
  <2>4. DeleteInv(transplant(t, c, x), N \ {c}, Without(b, c), x)
        /\ (Color(t, c) = "red" => Calm(transplant(t, c, x), N \ {c}))
    <3>. HIDE DEF g
    <3>. QED
      BY <1>1, <1>2, <2>1, <2>3, SpliceCalm
  <2>. HIDE DEF u, k, a, x, g, l, r
  <2>5. k \in Colors /\ DeleteInv(u, N \ {c}, Without(b, c), a) /\ (k = "red" => Calm(u, N \ {c}))
    BY <1>2, <2>1, <2>2, <2>4
  <2>. QED
    BY <2>5 DEF u, k, a, l, r
<1>4. CASE ~one
  <2>1. a = Child(t, "right", s) /\ u = splice_two(t, c, s) /\ k = Color(t, s)
    BY <1>4
  <2>2. s \in N
    BY <1>1, <1>2, <1>4, SuccessorIs
  <2>3. /\ \E b2 : DeleteInv(splice_two(t, c, s), N \ {c}, b2, Child(t, "right", s))
        /\ Color(t, s) = "red" => Calm(splice_two(t, c, s), N \ {c})
    BY <1>1, <1>2, <1>4, SpliceTwo
  <2>4. Color(t, s) \in Colors
    BY <1>2, <2>2, Reads DEF Colors
  <2>. HIDE DEF u, k, a, s, l, r
  <2>5. k \in Colors /\ (\E b2 : DeleteInv(u, N \ {c}, b2, a)) /\ (k = "red" => Calm(u, N \ {c}))
    BY <2>1, <2>3, <2>4
  <2>. QED
    BY <2>5 DEF u, k, a, s, l, r
<1>. QED
  BY <1>3, <1>4

\* delete: an unwrap stops the kernel, or the tree is sound, without c.
LEMMA DeleteIs ==
  ASSUME NEW t, NEW N, Sound(t, N), ~t.crashed, NEW c \in N
  PROVE  delete(t, c) \in Tree /\ (delete(t, c).crashed \/ Sound(delete(t, c), N \ {c}))
<1>. DEFINE l == Child(t, "left", c)
            r == Child(t, "right", c)
            one == l = Nil \/ r = Nil
            s == min_link(t, r)
            a == IF l = Nil THEN r ELSE IF r = Nil THEN l ELSE Child(t, "right", s)
            k == IF one THEN Color(t, c) ELSE Color(t, s)
            u == IF one THEN splice_one(t, c) ELSE splice_two(t, c, s)
            v == IF k = "black" THEN delete_fixup[<<u, a>>] ELSE u
            M == N \ {c}
<1>1. k \in Colors /\ (\E b : DeleteInv(u, M, b, a)) /\ (k = "red" => Calm(u, M))
  BY SpliceIs
<1>2. delete(t, c) = Wipe(v, c)
  BY DEF delete
<1>3. c \in Page /\ c \notin M
  BY DEF Sound, Shaped
<1>. HIDE DEF a, k, u, M
<1>4. PICK b : DeleteInv(u, M, b, a)
  BY <1>1
<1>5. v \in Tree /\ (v.crashed \/ Sound(v, M))
  <2>1. CASE k = "black"
    <3>1. v = delete_fixup[<<u, a>>]
      BY <2>1
    <3>. HIDE DEF v
    <3>. QED
      BY <1>4, <3>1, DeleteFixupIs
  <2>2. CASE k # "black"
    <3>1. v = u /\ Calm(u, M)
      BY <1>1, <2>2 DEF Colors
    <3>. HIDE DEF v
    <3>. QED
      BY <1>4, <3>1 DEF DeleteInv, Sound
  <2>. QED
    BY <2>1, <2>2
<1>. HIDE DEF v
<1>6. Wipe(v, c) \in Tree /\ Wipe(v, c).crashed = v.crashed
  BY <1>3, <1>5, WipeLinks
<1>7. Sound(v, M) => Sound(Wipe(v, c), M)
  BY <1>3, WipeSound
<1>. QED
  BY <1>2, <1>5, <1>6, <1>7 DEF M

-----------------------------------------------------------------------------
(* get_multiple *)

LEMMA DeleteRunEquation ==
  ASSUME NEW t, NEW p, NEW n \in Nat
  PROVE  \E f : /\ f[0] = t /\ delete_run(t, p, n) = f[n]
                /\ \A i \in 1 .. n : f[i] = IF f[i - 1].crashed THEN f[i - 1] ELSE delete(f[i - 1], p + i - 1)
<1>. DEFINE Body(f, i) == IF i = 0 THEN t ELSE IF f[i - 1].crashed THEN f[i - 1] ELSE delete(f[i - 1], p + i - 1)
            P(f) == f = [i \in 0 .. n |-> Body(f, i)]
            Q(f, m) == \A i \in 0 .. m : f[i] = Body(f, i)
            T == {m \in 0 .. n : \E f : Q(f, m)}
            g == CHOOSE f : P(f)
<1>1. 0 \in T
  <2>. DEFINE f == [i \in 0 .. n |-> t]
  <2>1. Q(f, 0)
    OBVIOUS
  <2>. HIDE DEF Q, f
  <2>. QED
    BY <2>1
<1>2. ASSUME NEW m \in 0 .. (n - 1), m \in T PROVE m + 1 \in T
  <2>1. PICK f : Q(f, m)
    BY <1>2
  <2>. DEFINE h == [i \in 0 .. n |-> IF i = m + 1 THEN Body(f, m + 1) ELSE f[i]]
  <2>2. \A i \in 0 .. m : h[i] = f[i] /\ i \in 0 .. n
    OBVIOUS
  <2>3. h[m + 1] = Body(f, m + 1)
    OBVIOUS
  <2>. HIDE DEF h
  <2>4. ASSUME NEW i \in 0 .. (m + 1) PROVE Body(h, i) = Body(f, i)
    <3>1. CASE i = 0
      BY <3>1
    <3>2. CASE i # 0
      <4>1. h[i - 1] = f[i - 1]
        <5>1. i - 1 \in 0 .. m
          BY <3>2
        <5>. QED
          BY <2>2, <5>1
      <4>. QED
        BY <3>2, <4>1
    <3>. QED
      BY <3>1, <3>2
  <2>5. Q(h, m + 1)
    <3>. SUFFICES ASSUME NEW i \in 0 .. (m + 1) PROVE h[i] = Body(h, i)
      OBVIOUS
    <3>. HIDE DEF Body
    <3>1. CASE i = m + 1
      BY <2>3, <2>4, <3>1
    <3>2. CASE i # m + 1
      <4>1. i \in 0 .. m
        BY <3>2
      <4>. QED
        BY <2>1, <2>2, <2>4, <4>1
    <3>. QED
      BY <3>1, <3>2
  <2>. HIDE DEF Q
  <2>. QED
    BY <2>5
<1>3. PICK f : Q(f, n)
  <2>. HIDE DEF Q
  <2>1. \A m \in 0 .. (n - 1) : m \in T => m + 1 \in T
    BY <1>2
  <2>. HIDE DEF T
  <2>2. 0 .. n \subseteq T
    BY <1>1, <2>1, Upward
  <2>3. n \in T
    BY <2>2
  <2>. QED
    BY <2>3 DEF T
<1>. DEFINE h == [i \in 0 .. n |-> f[i]]
<1>4. \A i \in 0 .. n : Body(h, i) = Body(f, i)
  <2>. SUFFICES ASSUME NEW i \in 0 .. n PROVE Body(h, i) = Body(f, i)
    OBVIOUS
  <2>1. i # 0 => h[i - 1] = f[i - 1]
    OBVIOUS
  <2>. HIDE DEF h
  <2>. QED
    BY <2>1
<1>5. P(h)
  <2>. HIDE DEF Body
  <2>. QED
    BY <1>3, <1>4
<1>6. P(g)
  <2>. HIDE DEF P, h
  <2>. QED
    BY <1>5
<1>7. delete_run(t, p, n) = g[n]
  BY DEF delete_run
<1>. HIDE DEF g
<1>8. \A i \in 0 .. n : g[i] = Body(g, i)
  <2>. HIDE DEF Body
  <2>. QED
    BY <1>6
<1>9. g[0] = t
  BY <1>8
<1>10. \A i \in 1 .. n : g[i] = IF g[i - 1].crashed THEN g[i - 1] ELSE delete(g[i - 1], p + i - 1)
  <2>. SUFFICES ASSUME NEW i \in 1 .. n
                PROVE  g[i] = IF g[i - 1].crashed THEN g[i - 1] ELSE delete(g[i - 1], p + i - 1)
    OBVIOUS
  <2>1. i \in 0 .. n /\ i # 0
    OBVIOUS
  <2>. QED
    BY <1>8, <2>1
<1>. QED
  BY <1>7, <1>9, <1>10

\* Deleting a run of pages of the tree, one by one
LEMMA DeleteRunIs ==
  ASSUME NEW t, NEW N, Sound(t, N), ~t.crashed, NEW p \in Nat, NEW n \in Nat, Run(p, n) \subseteq N
  PROVE  LET u == delete_run(t, p, n) IN u \in Tree /\ (u.crashed \/ Sound(u, N \ Run(p, n)))
<1>1. PICK f : /\ f[0] = t /\ delete_run(t, p, n) = f[n]
               /\ \A i \in 1 .. n : f[i] = IF f[i - 1].crashed THEN f[i - 1] ELSE delete(f[i - 1], p + i - 1)
  BY DeleteRunEquation
<1>. DEFINE T == {i \in 0 .. n : f[i] \in Tree /\ (f[i].crashed \/ Sound(f[i], N \ Run(p, i)))}
<1>2. 0 \in T
  <2>1. N \ Run(p, 0) = N
    BY DEF Run
  <2>2. t \in Tree
    BY DEF Sound
  <2>3. 0 \in 0 .. n
    OBVIOUS
  <2>4. f[0] \in Tree /\ Sound(f[0], N \ Run(p, 0))
    BY <1>1, <2>1, <2>2, Zenon
  <2>. QED
    BY <2>3, <2>4, Zenon
<1>3. ASSUME NEW i \in 0 .. (n - 1), i \in T PROVE i + 1 \in T
  <2>. DEFINE u == f[i]
              K == N \ Run(p, i)
  <2>1. u \in Tree /\ (u.crashed \/ Sound(u, K))
    BY <1>3
  <2>2. i + 1 \in 1 .. n /\ (i + 1) - 1 = i /\ p + (i + 1) - 1 = p + i /\ i + 1 \in 0 .. n
    OBVIOUS
  <2>3. f[i + 1] = IF u.crashed THEN u ELSE delete(u, p + i)
    BY <1>1, <2>2
  <2>4. p + i \in N /\ p + i \in K /\ K \ {p + i} = N \ Run(p, i + 1)
    <3>1. p + i \in Run(p, n)
      BY DEF Run
    <3>2. p + i \notin Run(p, i)
      BY DEF Run
    <3>3. Run(p, i + 1) = Run(p, i) \cup {p + i}
      BY DEF Run
    <3>. QED
      BY <3>1, <3>2, <3>3
  <2>. HIDE DEF K, u
  <2>5. CASE u.crashed
    BY <2>1, <2>2, <2>3, <2>5
  <2>6. CASE ~u.crashed
    <3>1. delete(u, p + i) \in Tree /\ (delete(u, p + i).crashed \/ Sound(delete(u, p + i), K \ {p + i}))
      BY <2>1, <2>4, <2>6, DeleteIs
    <3>. QED
      BY <2>2, <2>3, <2>4, <2>6, <3>1
  <2>. QED
    BY <2>5, <2>6
<1>4. n \in T
  <2>1. \A i \in 0 .. (n - 1) : i \in T => i + 1 \in T
    BY <1>3, Zenon
  <2>. HIDE DEF T
  <2>2. 0 .. n \subseteq T
    BY <1>2, <2>1, Upward
  <2>. QED
    BY <2>2
<1>. QED
  BY <1>1, <1>4

-----------------------------------------------------------------------------
(* Theorems *)

\* The inductive invariant: the tree is a search tree of some set of pages, and has no red node below a
\* red one.
IInv == TypeOK /\ \E N : Sound(tree, N)

LEMMA EmptySound == Sound(empty, {})
<1>1. empty \in Tree /\ empty.root = Nil
  BY Constants DEF empty, Tree
<1>. HIDE DEF empty
<1>2. Color(empty, Nil) = "none" /\ Parent(empty, Nil) = Nil
  BY <1>1, Reads
<1>. DEFINE b == [e \in Dir |-> [x \in Page |-> 0]]
<1>3. b \in Bounds
  BY Constants DEF Bounds
<1>. HIDE DEF b
<1>4. Shaped(empty, {}, b)
  BY <1>1, <1>2, <1>3 DEF Shaped
<1>5. Calm(empty, {})
  BY <1>1, <1>2 DEF Calm
<1>. QED
  BY <1>1, <1>4, <1>5 DEF Sound

LEMMA CrashSound ==
  ASSUME NEW t, NEW N, Sound(t, N)
  PROVE  Sound(Crash(t), N)
<1>. DEFINE u == Crash(t)
<1>1. PICK b : Shaped(t, N, b)
  BY DEF Sound
<1>2. t \in Tree /\ Calm(t, N) /\ N \subseteq Link /\ t.root \in Link
  BY <1>1, Constants DEF Sound, Shaped
<1>3. /\ u \in Tree /\ u.root = t.root /\ SameLinks(t, u)
      /\ \A x \in Link : Color(u, x) = Color(t, x)
      /\ \A x \in Link, d \in Dir : Child(u, d, x) = Child(t, d, x)
  BY <1>2, Crashes DEF SameLinks
<1>. HIDE DEF u
<1>4. Shaped(u, N, b)
  BY <1>1, <1>3, SameShape
<1>5. Calm(u, N)
  BY <1>2, <1>3, Reads DEF Calm
<1>. QED
  BY <1>3, <1>4, <1>5 DEF Sound, u

\* The nodes of a sound tree are the pages it is a tree of.
LEMMA SoundNodes ==
  ASSUME NEW t, NEW N, Sound(t, N)
  PROVE  Nodes(t, t.root) = N /\ N \subseteq Page
<1>1. PICK b : Shaped(t, N, b)
  BY DEF Sound
<1>2. t \in Tree /\ N \subseteq Page
  BY <1>1 DEF Sound, Shaped
<1>. QED
  BY <1>1, <1>2, NodesAre

\* What get_multiple does to a sound tree
LEMMA GetIs ==
  ASSUME NEW t, NEW N, Sound(t, N), ~t.crashed, NEW n \in Nat, NEW q, q = scan(t, n), NEW u, u = delete_run(t, q, n)
  PROVE  \/ q = Nil /\ Fits(N, n) = {}
         \/ /\ q \in N /\ q # Nil /\ q \in Fits(N, n) /\ (\A y \in Fits(N, n) : q <= y)
            /\ u \in Tree /\ (u.crashed \/ Sound(u, N \ Run(q, n)))
<1>1. PICK b : Shaped(t, N, b)
  BY DEF Sound
<1>2. t \in Tree /\ N \subseteq Page /\ N \subseteq Nat /\ Nil \notin N
  BY <1>1, Constants DEF Sound, Shaped
<1>3. \/ q = Nil /\ Fits(N, n) = {}
      \/ q \in Fits(N, n) /\ \A y \in Fits(N, n) : q <= y
  BY <1>1, <1>2, ScanIs
<1>4. ASSUME q \in Fits(N, n) PROVE q \in N /\ q # Nil /\ u \in Tree /\ (u.crashed \/ Sound(u, N \ Run(q, n)))
  <2>1. q \in N /\ Run(q, n) \subseteq N
    BY <1>4 DEF Fits
  <2>2. q \in Nat /\ q # Nil
    BY <1>2, <2>1
  <2>. QED
    BY <2>1, <2>2, DeleteRunIs, Zenon
<1>. QED
  BY <1>3, <1>4

LEMMA InitInv == Init => IInv
<1>. SUFFICES ASSUME Init PROVE IInv
  OBVIOUS
<1>1. tree = empty /\ result = <<0, Nil>>
  BY DEF Init
<1>2. Sound(tree, {})
  BY <1>1, EmptySound
<1>3. TypeOK
  <2>1. tree \in Tree
    BY <1>2 DEF Sound
  <2>2. result \in Nat \X (Link \cup {Inserted})
    BY <1>1, Constants
  <2>. QED
    BY <2>1, <2>2 DEF TypeOK
<1>. QED
  BY <1>2, <1>3 DEF IInv

LEMMA InsertKeeps ==
  ASSUME IInv, ~tree.crashed, NEW n \in Page, Insert(n)
  PROVE  IInv' /\ Nodes(tree, tree.root)' = Nodes(tree, tree.root) \cup {n}
<1>1. PICK N : Sound(tree, N)
  BY DEF IInv
<1>2. Nodes(tree, tree.root) = N
  BY <1>1, SoundNodes
<1>3. n \notin N /\ tree' = insert(tree, n) /\ result' = <<1, Inserted>>
  BY <1>2 DEF Insert
<1>4. Sound(tree', N \cup {n})
  BY <1>1, <1>3, InsertIs
<1>5. Nodes(tree', tree'.root) = N \cup {n}
  BY <1>4, SoundNodes
<1>6. tree' \in Tree /\ result' \in Nat \X (Link \cup {Inserted})
  BY <1>3, <1>4 DEF Sound
<1>. QED
  BY <1>2, <1>4, <1>5, <1>6 DEF IInv, TypeOK

LEMMA GetKeeps ==
  ASSUME IInv, ~tree.crashed, NEW npages \in 0 .. MaxRun, Get(npages)
  PROVE  /\ IInv'
         /\ LET N == Nodes(tree, tree.root)
                M == Nodes(tree, tree.root)'
            IN  \/ Fits(N, npages) = {} /\ M = N /\ result' = <<npages, Nil>>
                \/ M = N /\ result' = result
                \/ \E q \in Fits(N, npages) : /\ \A y \in Fits(N, npages) : q <= y
                                              /\ M = N \ Run(q, npages) /\ result' = <<npages, q>>
<1>. DEFINE q == scan(tree, npages)
            u == delete_run(tree, q, npages)
<1>1. PICK N : Sound(tree, N)
  BY DEF IInv
<1>2. Nodes(tree, tree.root) = N /\ N \subseteq Page
  BY <1>1, SoundNodes
<1>3. npages \in Nat
  OBVIOUS
<1>4. \/ q = Nil /\ Fits(N, npages) = {}
      \/ /\ q \in N /\ q # Nil /\ q \in Fits(N, npages) /\ (\A y \in Fits(N, npages) : q <= y)
         /\ u \in Tree /\ (u.crashed \/ Sound(u, N \ Run(q, npages)))
  BY <1>1, <1>3, GetIs, Zenon
<1>5. IF q = Nil THEN result' = <<npages, Nil>> /\ UNCHANGED tree
      ELSE IF u.crashed THEN tree' = Crash(tree) /\ UNCHANGED result
      ELSE tree' = u /\ result' = <<npages, q>>
  BY DEF Get
<1>t. tree \in Tree /\ result \in Nat \X (Link \cup {Inserted})
  BY DEF IInv, TypeOK
<1>. HIDE DEF q, u
<1>6. CASE q = Nil
  <2>1. Fits(N, npages) = {} /\ result' = <<npages, Nil>> /\ tree' = tree
    BY <1>4, <1>5, <1>6
  <2>2. result' \in Nat \X (Link \cup {Inserted}) /\ tree' \in Tree /\ Sound(tree', N)
    BY <1>1, <1>3, <1>t, <2>1, Constants
  <2>3. Nodes(tree', tree'.root) = N
    BY <2>2, SoundNodes
  <2>. QED
    BY <1>2, <2>1, <2>2, <2>3 DEF IInv, TypeOK
<1>7. CASE q # Nil /\ u.crashed
  <2>1. tree' = Crash(tree) /\ result' = result
    BY <1>5, <1>7
  <2>2. Sound(tree', N)
    BY <1>1, <2>1, CrashSound
  <2>3. Nodes(tree', tree'.root) = N /\ tree' \in Tree
    BY <2>2, SoundNodes DEF Sound
  <2>. QED
    BY <1>2, <1>t, <2>1, <2>2, <2>3 DEF IInv, TypeOK
<1>8. CASE q # Nil /\ ~u.crashed
  <2>1. tree' = u /\ result' = <<npages, q>>
    BY <1>5, <1>8
  <2>2. Sound(tree', N \ Run(q, npages)) /\ q \in N /\ q \in Fits(N, npages) /\ (\A y \in Fits(N, npages) : q <= y)
    BY <1>4, <1>8, <2>1
  <2>3. Nodes(tree', tree'.root) = N \ Run(q, npages) /\ tree' \in Tree
    BY <2>2, SoundNodes DEF Sound
  <2>4. result' \in Nat \X (Link \cup {Inserted})
    BY <1>2, <1>3, <2>1, <2>2, Constants
  <2>. QED
    BY <1>2, <2>1, <2>2, <2>3, <2>4 DEF IInv, TypeOK
<1>. QED
  BY <1>6, <1>7, <1>8

LEMMA NextInv == IInv /\ [Next]_vars => IInv'
<1>. SUFFICES ASSUME IInv, [Next]_vars PROVE IInv'
  OBVIOUS
<1>1. ASSUME Next PROVE IInv'
  <2>1. ~tree.crashed
    BY <1>1 DEF Next
  <2>2. ASSUME NEW n \in Page, Insert(n) PROVE IInv'
    BY <2>1, <2>2, InsertKeeps
  <2>3. ASSUME NEW npages \in 0 .. MaxRun, Get(npages) PROVE IInv'
    BY <2>1, <2>3, GetKeeps
  <2>. QED
    BY <1>1, <2>2, <2>3 DEF Next
<1>2. ASSUME UNCHANGED vars PROVE IInv'
  BY <1>2 DEF vars, IInv, TypeOK
<1>. QED
  BY <1>1, <1>2

\* The tree is a sound search tree in every reachable state, also when the kernel has stopped.
THEOREM Invariance == Spec => []IInv
BY InitInv, NextInv, PTL DEF Spec

\* The links stay links to pages, and what get_multiple returns is a page or None.
THEOREM TypeCorrect == Spec => []TypeOK
<1>1. IInv => TypeOK
  BY DEF IInv
<1>. QED
  BY <1>1, Invariance, PTL

\* Through all rotations and transplants the links of parents and children agree, and the pages stay in
\* search order: the shape, of which these are what a reader of the tree relies on.
THEOREM LinksRight == Spec => []WellLinked
<1>1. IInv => WellLinked
  <2>. SUFFICES ASSUME IInv PROVE WellLinked
    OBVIOUS
  <2>1. PICK N : Sound(tree, N)
    BY DEF IInv
  <2>2. PICK b : Shaped(tree, N, b)
    BY <2>1 DEF Sound
  <2>3. tree \in Tree /\ N \subseteq Page /\ N \subseteq Link /\ N \subseteq Nat /\ Nodes(tree, tree.root) = N
        /\ "left" \in Dir /\ "right" \in Dir /\ Other("left") = "right" /\ Other("right") = "left" /\ Nil \in Link
    BY <2>1, <2>2, SoundNodes, Constants, Directions DEF Sound, Shaped, Other
  <2>4. Parent(tree, tree.root) = Nil
    BY <2>2 DEF Shaped
  <2>5. \A a \in N, d \in Dir : Child(tree, d, a) # Nil => Parent(tree, Child(tree, d, a)) = a
    BY <2>2 DEF Shaped
  <2>6. ASSUME NEW a \in N, NEW d \in Dir, NEW y \in Nodes(tree, Child(tree, d, a)) PROVE Beside(d, y, a)
    <3>. DEFINE c == Child(tree, d, a)
    <3>1. c # Nil
      <4>1. Nodes(tree, Nil) = {}
        BY <2>3, NodesEquation
      <4>. QED
        BY <2>6, <4>1
    <3>2. c \in N /\ b[Other(d)][c] = a
      BY <2>2, <3>1, ChildFacts
    <3>3. y \in N /\ Inside(b, c, y)
      BY <2>2, <2>3, <2>6, <3>2, NodesInside
    <3>4. Beside(Other(d), a, y)
      BY <3>2, <3>3, Directions DEF Inside
    <3>5. a \in Nat /\ y \in Nat
      BY <2>3, <3>3
    <3>. QED
      BY <3>4, <3>5, BesideIs
  <2>7. \A a \in N : /\ \A y \in Nodes(tree, Child(tree, "left", a)) : y < a
                     /\ \A y \in Nodes(tree, Child(tree, "right", a)) : y > a
    <3>. SUFFICES ASSUME NEW a \in N
                  PROVE  /\ \A y \in Nodes(tree, Child(tree, "left", a)) : y < a
                         /\ \A y \in Nodes(tree, Child(tree, "right", a)) : y > a
      OBVIOUS
    <3>1. ASSUME NEW y \in Nodes(tree, Child(tree, "left", a)) PROVE y < a
      BY <2>3, <2>6, <3>1 DEF Beside
    <3>2. ASSUME NEW y \in Nodes(tree, Child(tree, "right", a)) PROVE y > a
      <4>1. Beside("right", y, a)
        BY <2>3, <2>6
      <4>2. a < y
        BY <4>1 DEF Beside
      <4>. QED
        BY <4>2
    <3>. QED
      BY <3>1, <3>2
  <2>. QED
    BY <2>3, <2>4, <2>5, <2>7 DEF WellLinked
<1>. QED
  BY <1>1, Invariance, PTL

\* The fixups repair the colours whatever they find: no red node has a red child, and the root is black.
THEOREM ColorsRight == Spec => []NoRedRed
<1>1. IInv => NoRedRed
  <2>. SUFFICES ASSUME IInv PROVE NoRedRed
    OBVIOUS
  <2>1. PICK N : Sound(tree, N)
    BY DEF IInv
  <2>2. Nodes(tree, tree.root) = N /\ Calm(tree, N)
    BY <2>1, SoundNodes DEF Sound
  <2>. QED
    BY <2>2 DEF NoRedRed, Calm
<1>. QED
  BY <1>1, Invariance, PTL

\* Whatever deletions have made of the tree, insert_fixup finds the nodes it unwraps: only a deletion can stop
\* the kernel.
UnwrapsOfInsert == (\E n \in Page : Insert(n)) => ~tree'.crashed

\* No unwrap of insert_fixup and of the rotations it makes meets None.
THEOREM InsertUnwraps == Spec => [][UnwrapsOfInsert]_vars
<1>1. IInv /\ [Next]_vars => [UnwrapsOfInsert]_vars
  <2>. SUFFICES ASSUME IInv, Next, NEW n \in Page, Insert(n) PROVE ~tree'.crashed
    BY DEF UnwrapsOfInsert
  <2>1. PICK N : Sound(tree, N)
    BY DEF IInv
  <2>2. n \notin N /\ tree' = insert(tree, n) /\ ~tree.crashed
    BY <2>1, SoundNodes DEF Insert, Next
  <2>. QED
    BY <2>1, <2>2, InsertIs
<1>. QED
  BY <1>1, Invariance, PTL DEF Spec

\* The steps of FreePages, in terms of the runs of this module
LEMMA FreePagesRuns ==
  ASSUME NEW M, NEW p, NEW n
  PROVE  /\ F!Run(p, n) = Run(p, n) /\ F!Fits(M, n) = Fits(M, n)
BY DEF F!Run, Run, F!Fits, Fits

\* insert gives a page back to the set of free pages, get_multiple takes the lowest run of consecutive pages
\* that is long enough, and nothing else changes the set: no page is lost in a rotation or a transplant, and
\* none appears.
THEOREM ImplementsFreePages == Spec => IsFreePages
<1>1. Init => F!Init
  <2>. SUFFICES ASSUME Init PROVE F!Init
    OBVIOUS
  <2>1. tree = empty /\ result = <<0, Nil>>
    BY DEF Init
  <2>2. Nodes(tree, tree.root) = {}
    BY <2>1, EmptySound, SoundNodes
  <2>. QED
    BY <2>1, <2>2 DEF F!Init
<1>2. IInv /\ [Next]_vars => [F!Next]_(F!vars)
  <2>. SUFFICES ASSUME IInv, [Next]_vars PROVE F!Next \/ UNCHANGED F!vars
    OBVIOUS
  <2>. DEFINE S == Nodes(tree, tree.root)
  <2>1. ASSUME NEW n \in Page, Insert(n), ~tree.crashed PROVE F!Next
    <3>1. S' = S \cup {n} /\ n \notin S /\ result' = <<1, Inserted>>
      BY <2>1, InsertKeeps DEF Insert
    <3>2. n \in Nat /\ 1 \in 1 .. MaxRun
      BY PageTreeAssumption, Constants
    <3>3. Run(n, 1) = {n}
      BY <3>2 DEF Run
    <3>4. F!Run(n, 1) = {n}
      BY <3>3, FreePagesRuns
    <3>. HIDE DEF S
    <3>5. F!Run(n, 1) \cap S = {} /\ S' = S \cup F!Run(n, 1) /\ F!Run(n, 1) \subseteq Page
      BY <3>1, <3>4
    <3>6. F!put_multiple(n, 1)
      BY <3>1, <3>5 DEF F!put_multiple, S
    <3>. QED
      BY <3>2, <3>5, <3>6 DEF F!Next
  <2>2. ASSUME NEW npages \in 0 .. MaxRun, Get(npages), ~tree.crashed PROVE F!Next \/ UNCHANGED F!vars
    <3>1. \/ Fits(S, npages) = {} /\ S' = S /\ result' = <<npages, Nil>>
          \/ S' = S /\ result' = result
          \/ \E q \in Fits(S, npages) : /\ \A y \in Fits(S, npages) : q <= y
                                        /\ S' = S \ Run(q, npages) /\ result' = <<npages, q>>
      BY <2>2, GetKeeps
    <3>2. npages # 0 => npages \in 1 .. MaxRun
      BY PageTreeAssumption
    <3>3. S \subseteq Nat
      BY SoundNodes, Constants DEF IInv
    <3>. HIDE DEF S
    <3>4. CASE Fits(S, npages) = {} /\ S' = S /\ result' = <<npages, Nil>>
      <4>1. CASE npages = 0
        <5>1. F!no_pages
          BY <3>4, <4>1 DEF F!no_pages, S
        <5>. QED
          BY <5>1 DEF F!Next
      <4>2. CASE npages # 0
        <5>1. F!get_multiple(npages)
          BY <3>4, FreePagesRuns DEF F!get_multiple, S
        <5>. QED
          BY <3>2, <4>2, <5>1 DEF F!Next
      <4>. QED
        BY <4>1, <4>2
    <3>5. CASE S' = S /\ result' = result
      BY <3>5 DEF F!vars, S
    <3>6. ASSUME NEW q \in Fits(S, npages), \A y \in Fits(S, npages) : q <= y,
                 S' = S \ Run(q, npages), result' = <<npages, q>>
          PROVE  F!Next
      <4>1. CASE npages = 0
        <5>1. q \in Nat
          BY <3>3 DEF Fits
        <5>2. Run(q, npages) = {}
          BY <4>1, <5>1 DEF Run
        <5>3. S' = S /\ result'[1] = 0
          BY <3>6, <4>1, <5>2
        <5>4. F!no_pages
          BY <5>3 DEF F!no_pages, S
        <5>. QED
          BY <5>4 DEF F!Next
      <4>2. CASE npages # 0
        <5>1. F!FirstFit(S, npages) = q
          <6>1. \A p \in Fits(S, npages) : p \in Nat
            BY <3>3 DEF Fits
          <6>2. ASSUME NEW p \in Fits(S, npages), \A y \in Fits(S, npages) : p <= y PROVE p = q
            BY <3>6, <6>1, <6>2
          <6>3. (CHOOSE p \in Fits(S, npages) : \A y \in Fits(S, npages) : p <= y) = q
            <7>. HIDE DEF S
            <7>. QED
              BY <3>6, <6>2, Zenon
          <6>. QED
            BY <6>3, FreePagesRuns DEF F!FirstFit
        <5>2. F!Fits(S, npages) # {} /\ F!Run(q, npages) = Run(q, npages)
          BY <3>6, FreePagesRuns
        <5>3. F!get_multiple(npages)
          BY <3>6, <5>1, <5>2 DEF F!get_multiple, S
        <5>. QED
          BY <3>2, <4>2, <5>3 DEF F!Next
      <4>. QED
        BY <4>1, <4>2
    <3>. QED
      BY <3>1, <3>4, <3>5, <3>6
  <2>3. CASE UNCHANGED vars
    BY <2>3 DEF vars, F!vars
  <2>. QED
    BY <2>1, <2>2, <2>3 DEF Next
<1>. QED
  BY <1>1, <1>2, Invariance, PTL DEF Spec, IsFreePages, F!Spec
=============================================================================
