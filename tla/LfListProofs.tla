---------------------------- MODULE LfListProofs ----------------------------
(***************************************************************************)
(* Proof of the safety of the list, for every number of threads, of        *)
(* addresses and of elements: pushes may run at any time, a removal as     *)
(* long as no other removal and no iteration is under way when it unlinks  *)
(* its node.                                                               *)
(* In the second part, the search that walks such lists, for every graph   *)
(* of containers.                                                          *)
(***************************************************************************)
EXTENDS LfList, Search, SequenceTheorems, TLAPS

\* Type correctness.
TypeOK ==
    /\ next \in [Node -> Addr \cup {Null}] /\ elem \in [Node -> Nat] /\ live \in SUBSET Node
    /\ pushed \in Nat /\ items \in Seq(Addr) /\ taken \in SUBSET Nat /\ clash \in BOOLEAN
    /\ pc \in [Thread -> {"idle", "push", "exchange", "count", "seek", "found", "unlink", "iter"}]
    /\ cur \in [Thread -> Node \cup {Null}] /\ prev \in [Thread -> Node \cup {Null}]
    /\ val \in [Thread -> Addr \cup {Null}] /\ arg \in [Thread -> Nat]
    /\ \A t \in Thread : pc[t] = "count" => arg[t] > 0
    /\ seen \in [Thread -> Seq(Nat)] /\ first \in [Thread -> Seq(Nat)]

Pushing(t) == pc[t] \in {"push", "exchange"}
Listed(a) == \E i \in 1 .. Len(items) : items[i] = a

\* Every node is in one place: once in the list, or with the one thread that
\* pushes it.
Nodes ==
    /\ Dummy \in live
    /\ \A i \in 1 .. Len(items) : items[i] \in live
    /\ \A i, j \in 1 .. Len(items) : items[i] = items[j] => i = j
    /\ \A t \in Thread : Pushing(t) => cur[t] \in Addr /\ cur[t] \in live /\ ~Listed(cur[t])
    /\ \A t, u \in Thread : Pushing(t) /\ Pushing(u) /\ cur[t] = cur[u] => t = u

\* No two pushes bring the same element.
Elements ==
    \A t, u \in Thread : Pushing(t) /\ Pushing(u) /\ elem[cur[t]] = elem[cur[u]] => t = u

\* What a thread knows of the list while it is preempted.
PointersOf(t) ==
    /\ pc[t] = "exchange" => next[cur[t]] = val[t]
    /\ pc[t] \in {"count", "seek"} => cur[t] = Dummy \/ Listed(cur[t])
    /\ pc[t] \in {"found", "unlink"} =>
          Listed(cur[t]) /\ (prev[t] = Dummy \/ Listed(prev[t]))
    /\ pc[t] = "unlink" => val[t] = next[cur[t]]
    /\ prev[t] = Null \/ prev[t] = Dummy \/ Listed(prev[t])
    /\ ~Removing(t) => prev[t] = Null
Pointers == ~clash => \A t \in Thread : PointersOf(t)

\* IterExact of one thread.
Exact(t) ==
    \/ cur[t] = Null /\ seen[t] = first[t]
    \/ \E i \in Behind(cur[t]) :
          first[t] = seen[t] \o Elems(SubSeq(items, i, Len(items)))

IInv == TypeOK /\ Nodes /\ Elements /\ NothingLost /\ Linked /\ Pointers /\ IterExact

-----------------------------------------------------------------------------
(* Nodes and the list                                                      *)

\* An address is neither the dummy node nor null.
LEMMA Addresses ==
    /\ NAddr \in Nat /\ Addr \subseteq Nat /\ Dummy \in Nat /\ Null \in Nat
    /\ Dummy \notin Addr /\ Null \notin Addr /\ Null # Dummy /\ Null \notin Node
    /\ Addr \subseteq Node /\ Dummy \in Node /\ Node = Addr \cup {Dummy}
BY LfListAssumption DEF Addr, Dummy, Null, Node

\* The list without its kth node: the nodes after it move up by one.
LEMMA WithoutKth ==
    ASSUME TypeOK, Nodes, NEW k \in 1 .. Len(items)
    PROVE  LET s == Without(items[k])
           IN  /\ s \in Seq(Addr) /\ Len(s) = Len(items) - 1
               /\ \A i \in 1 .. Len(items) - 1 : s[i] = IF i < k THEN items[i] ELSE items[i + 1]
<1>1. items \in Seq(Addr) /\ Len(items) \in Nat
  BY DEF TypeOK
<1>2. Behind(items[k]) = {k}
  BY <1>1 DEF Nodes, Behind
<1>3. Without(items[k]) = SubSeq(items, 1, k - 1) \o SubSeq(items, k + 1, Len(items))
  BY <1>2 DEF Without
<1> DEFINE a == SubSeq(items, 1, k - 1)
           b == SubSeq(items, k + 1, Len(items))
<1>4. /\ a \in Seq(Addr) /\ Len(a) = k - 1
      /\ \A i \in 1 .. k - 1 : a[i] = items[i]
  BY <1>1
<1>5. /\ b \in Seq(Addr) /\ Len(b) = Len(items) - k
      /\ \A i \in 1 .. Len(items) - k : b[i] = items[k + i]
  BY <1>1
<1> HIDE DEF a, b
<1>6. /\ a \o b \in Seq(Addr) /\ Len(a \o b) = Len(items) - 1
      /\ \A i \in 1 .. Len(a) + Len(b) : (a \o b)[i] = IF i <= Len(a) THEN a[i] ELSE b[i - Len(a)]
  <2>1. /\ a \o b \in Seq(Addr) /\ Len(a \o b) = Len(a) + Len(b)
        /\ \A i \in 1 .. Len(a) + Len(b) : (a \o b)[i] = IF i <= Len(a) THEN a[i] ELSE b[i - Len(a)]
    BY <1>4, <1>5, ConcatProperties
  <2> QED BY <1>1, <1>4, <1>5, <2>1
<1>8. ASSUME NEW i \in 1 .. Len(items) - 1
      PROVE  (a \o b)[i] = IF i < k THEN items[i] ELSE items[i + 1]
  <2>0. i \in Nat /\ k \in Nat
    BY <1>1
  <2>1. (a \o b)[i] = IF i <= k - 1 THEN a[i] ELSE b[i - (k - 1)]
    BY <1>1, <1>4, <1>5, <1>6
  <2>2. CASE i < k
    BY <1>1, <1>4, <2>1, <2>2
  <2>3. CASE i >= k
    <3>1. i - (k - 1) \in 1 .. Len(items) - k /\ k + (i - (k - 1)) = i + 1
      BY <1>1, <2>3
    <3>2. b[i - (k - 1)] = items[i + 1]
      BY <1>5, <3>1
    <3> QED BY <1>1, <2>1, <2>3, <3>2
  <2>4. i < k \/ i >= k
    BY <2>0
  <2> QED BY <2>2, <2>3, <2>4, Zenon
<1> QED BY <1>3, <1>6, <1>8 DEF a, b

\* From a node of the list the next pointer leads into the list or to its end.
LEMMA NextInList ==
    ASSUME IInv, ~clash, NEW a, a = Dummy \/ Listed(a)
    PROVE  /\ a \in Node /\ next[a] \in Addr \cup {Null}
           /\ next[a] # Null => Listed(next[a])
<1>1. items \in Seq(Addr) /\ Len(items) \in Nat /\ next \in [Node -> Addr \cup {Null}]
  BY DEF IInv, TypeOK
<1>2. PICK i \in 0 .. Len(items) : a = At(i)
  <2>1. CASE a = Dummy
    BY <1>1, <2>1 DEF At
  <2>2. CASE Listed(a)
    BY <1>1, <2>2 DEF At, Listed
  <2> QED BY <2>1, <2>2
<1>3. next[a] = At(i + 1)
  BY <1>1, <1>2 DEF IInv, Linked
<1>4. At(i + 1) = Null \/ Listed(At(i + 1))
  BY <1>1 DEF At, Listed
<1>5. a \in Node
  BY <1>1, <1>2, Addresses DEF Listed
<1> QED BY <1>1, <1>3, <1>4, <1>5

\* What an iteration has seen grows by the first of what is left.
LEMMA TakeOne ==
    ASSUME NEW s \in Seq(Nat), NEW x \in Nat, NEW r \in Seq(Nat)
    PROVE  Append(s, x) \o r = s \o (<<x>> \o r)
<1> DEFINE a == Append(s, x) \o r
           b == s \o (<<x>> \o r)
<1>1. Len(s) \in Nat /\ Len(r) \in Nat
  BY LenProperties
<1>2. /\ Append(s, x) \in Seq(Nat) /\ Len(Append(s, x)) = Len(s) + 1
      /\ Append(s, x)[Len(s) + 1] = x /\ \A i \in 1 .. Len(s) : Append(s, x)[i] = s[i]
  BY AppendProperties
<1>3. /\ <<x>> \o r \in Seq(Nat) /\ Len(<<x>> \o r) = Len(r) + 1
      /\ (<<x>> \o r)[1] = x /\ \A i \in 2 .. Len(r) + 1 : (<<x>> \o r)[i] = r[i - 1]
  BY <1>1
<1>4. a \in Seq(Nat) /\ b \in Seq(Nat) /\ Len(a) = Len(s) + Len(r) + 1 /\ Len(b) = Len(a)
  BY <1>1, <1>2, <1>3
<1>5. ASSUME NEW i \in 1 .. Len(a) PROVE a[i] = b[i]
  <2>0. i \in Nat /\ i <= Len(s) + Len(r) + 1
    BY <1>1, <1>4
  <2>1. a[i] = IF i <= Len(s) + 1 THEN Append(s, x)[i] ELSE r[i - (Len(s) + 1)]
    BY <1>1, <1>2, <1>4
  <2>2. b[i] = IF i <= Len(s) THEN s[i] ELSE (<<x>> \o r)[i - Len(s)]
    BY <1>1, <1>3, <1>4
  <2> HIDE DEF a, b
  <2>3. CASE i <= Len(s)
    BY <1>1, <1>2, <2>1, <2>2, <2>3
  <2>4. CASE i = Len(s) + 1
    BY <1>1, <1>2, <1>3, <2>1, <2>2, <2>4
  <2>5. CASE i > Len(s) + 1
    <3>1. i - Len(s) \in 2 .. Len(r) + 1 /\ i - Len(s) - 1 = i - (Len(s) + 1)
      BY <1>1, <1>4, <2>5
    <3>2. (<<x>> \o r)[i - Len(s)] = r[i - (Len(s) + 1)]
      BY <1>3, <3>1
    <3>3. ~(i <= Len(s) + 1) /\ ~(i <= Len(s))
      BY <1>1, <2>0, <2>5
    <3> QED BY <2>1, <2>2, <3>2, <3>3
  <2> QED BY <1>1, <2>0, <2>3, <2>4, <2>5
<1> HIDE DEF a, b
<1>6. a = b
  BY <1>4, <1>5, SeqEqual
<1> QED BY <1>6 DEF a, b

\* The elements of a sequence of nodes.
LEMMA ElemsOf ==
    ASSUME elem \in [Node -> Nat], NEW s \in Seq(Addr)
    PROVE  /\ Elems(s) \in Seq(Nat) /\ Len(Elems(s)) = Len(s)
           /\ \A i \in 1 .. Len(s) : Elems(s)[i] = elem[s[i]]
<1>1. Len(s) \in Nat /\ \A i \in 1 .. Len(s) : s[i] \in Node
  BY Addresses
<1> QED BY <1>1, IsASeq DEF Elems

\* The elements from the ith node on.
LEMMA ElemsFrom ==
    ASSUME elem \in [Node -> Nat], items \in Seq(Addr), NEW i \in 1 .. Len(items)
    PROVE  /\ elem[items[i]] \in Nat
           /\ Elems(SubSeq(items, i + 1, Len(items))) \in Seq(Nat)
           /\ Elems(SubSeq(items, i, Len(items))) =
                 <<elem[items[i]]>> \o Elems(SubSeq(items, i + 1, Len(items)))
<1> DEFINE n == Len(items)
           a == SubSeq(items, i, n)
           b == SubSeq(items, i + 1, n)
           e == elem[items[i]]
<1>0. items[i] \in Addr
  BY ElementOfSeq
<1>1. n \in Nat /\ i \in Nat /\ items[i] \in Addr /\ e \in Nat
  <2>1. n \in Nat
    BY LenProperties
  <2>2. items[i] \in Node
    BY <1>0, Addresses
  <2> QED BY <1>0, <2>1, <2>2
<1>2. /\ a \in Seq(Addr) /\ Len(a) = n - i + 1
      /\ \A j \in 1 .. n - i + 1 : a[j] = items[i + j - 1]
  BY <1>1
<1>3. /\ b \in Seq(Addr) /\ Len(b) = n - i
      /\ \A j \in 1 .. n - i : b[j] = items[i + 1 + j - 1]
  BY <1>1
<1> HIDE DEF n, a, b, e
<1>4. /\ Elems(a) \in Seq(Nat) /\ Len(Elems(a)) = Len(a)
      /\ \A j \in 1 .. Len(a) : Elems(a)[j] = elem[a[j]]
  BY <1>2, ElemsOf
<1>5. /\ Elems(b) \in Seq(Nat) /\ Len(Elems(b)) = Len(b)
      /\ \A j \in 1 .. Len(b) : Elems(b)[j] = elem[b[j]]
  BY <1>3, ElemsOf
<1>6. /\ <<e>> \in Seq(Nat) /\ Len(<<e>>) = 1 /\ <<e>>[1] = e
  BY <1>1
<1>7. /\ <<e>> \o Elems(b) \in Seq(Nat) /\ Len(<<e>> \o Elems(b)) = Len(<<e>>) + Len(Elems(b))
      /\ \A j \in 1 .. Len(<<e>>) + Len(Elems(b)) : (<<e>> \o Elems(b))[j] =
                 IF j <= Len(<<e>>) THEN <<e>>[j] ELSE Elems(b)[j - Len(<<e>>)]
  BY <1>5, <1>6, ConcatProperties
<1>8. Len(<<e>> \o Elems(b)) = n - i + 1
  BY <1>1, <1>3, <1>5, <1>6, <1>7
<1>9. ASSUME NEW j \in 1 .. n - i + 1
      PROVE  Elems(a)[j] = (<<e>> \o Elems(b))[j]
  <2>1. CASE j = 1
    <3>1. Elems(a)[1] = e
      BY <1>1, <1>2, <1>4, <2>1 DEF e
    <3> QED BY <1>1, <1>3, <1>5, <1>6, <1>7, <2>1, <3>1
  <2>2. CASE j # 1
    <3>1. j - 1 \in 1 .. n - i /\ i + 1 + (j - 1) - 1 = i + j - 1
      BY <1>1, <2>2
    <3>2. Elems(a)[j] = elem[items[i + j - 1]]
      BY <1>1, <1>2, <1>4
    <3>3. Elems(b)[j - 1] = elem[items[i + j - 1]]
      BY <1>1, <1>3, <1>5, <3>1
    <3>4. (<<e>> \o Elems(b))[j] = Elems(b)[j - 1]
      BY <1>1, <1>3, <1>5, <1>6, <1>7, <2>2
    <3> QED BY <3>2, <3>3, <3>4
  <2> QED BY <2>1, <2>2
<1>10. Elems(a) = <<e>> \o Elems(b)
  BY <1>2, <1>4, <1>7, <1>8, <1>9, SeqEqual
<1> QED BY <1>1, <1>5, <1>10 DEF a, b, n, e

-----------------------------------------------------------------------------
(* Steps that leave the shared state alone                                 *)

\* What is said of the list holds as long as no node comes, goes or moves.
LEMMA Frame ==
    ASSUME IInv, UNCHANGED <<heap, pushed, history>>,
           \A u \in Thread : Pushing(u)' = Pushing(u) /\ (Pushing(u) => cur'[u] = cur[u])
    PROVE  Nodes' /\ Elements' /\ NothingLost' /\ Linked'
<1>1. /\ next' = next /\ elem' = elem /\ live' = live /\ pushed' = pushed
      /\ items' = items /\ taken' = taken /\ clash' = clash
  BY DEF heap, history
<1>2. Nodes'
  BY <1>1 DEF IInv, Nodes, Listed
<1>3. Elements'
  BY <1>1 DEF IInv, Elements
<1>4. Pending' = Pending
  BY <1>1 DEF Pending, Pushing
<1>5. NothingLost'
  BY <1>1, <1>4 DEF IInv, NothingLost, InList
<1>6. Linked'
  BY <1>1 DEF IInv, Linked, At
<1> QED BY <1>2, <1>3, <1>5, <1>6

Kept(u) ==
    /\ pc'[u] = pc[u] /\ cur'[u] = cur[u] /\ prev'[u] = prev[u] /\ val'[u] = val[u]
    /\ arg'[u] = arg[u] /\ seen'[u] = seen[u] /\ first'[u] = first[u]

\* Nor does such a step change what the other threads know.
LEMMA Others ==
    ASSUME IInv, ~clash, UNCHANGED <<heap, pushed, history>>, NEW t \in Thread,
           \A u \in Thread \ {t} : Kept(u),
           PointersOf(t)', Iterating(t)' => Exact(t)'
    PROVE  Pointers' /\ IterExact'
<1>1. /\ next' = next /\ elem' = elem /\ items' = items /\ clash' = clash
  BY DEF heap, history
<1>2. ASSUME NEW u \in Thread \ {t} PROVE PointersOf(u)'
  <2>1. PointersOf(u)
    BY DEF IInv, Pointers
  <2> QED BY <1>1, <1>2, <2>1 DEF PointersOf, Kept, Listed, Removing
<1>3. ASSUME NEW u \in Thread \ {t}, Iterating(u)' PROVE Exact(u)'
  <2>1. Exact(u)
    BY <1>3 DEF IInv, IterExact, Exact, Iterating, Kept
  <2>2. cur'[u] = cur[u] /\ seen'[u] = seen[u] /\ first'[u] = first[u]
    BY <1>3 DEF Kept
  <2>3. \A i : Elems(SubSeq(items, i, Len(items)))' = Elems(SubSeq(items, i, Len(items)))
    BY <1>1 DEF Elems
  <2>4. Behind(cur[u])' = Behind(cur[u])
    BY <1>1, <2>2 DEF Behind
  <2> QED BY <1>1, <2>1, <2>2, <2>3, <2>4 DEF Exact
<1>4. Pointers'
  BY <1>2 DEF Pointers
<1> QED BY <1>3, <1>4 DEF IterExact, Exact

\* The steps of remove and remove_nth before the exchange.
LEMMA SearchSteps ==
    ASSUME IInv, ~clash, NEW t \in Thread,
           \/ \E nth \in 1 .. MaxNth : remove_nth(t, nth)
           \/ \E e \in 1 .. MaxPush : remove(t, e)
           \/ step(t) \/ step_end(t) \/ load_new(t) \/ unlink_fails(t)
    PROVE  IInv'
<1>a. UNCHANGED <<heap, pushed, history>> /\ UNCHANGED <<seen, first>>
  BY DEF remove_nth, remove, step, step_end, load_new, unlink_fails, iteration
<1>b. \A u \in Thread \ {t} : Kept(u)
  BY <1>a DEF IInv, TypeOK, Kept, remove_nth, remove, step, step_end, load_new, unlink_fails, Goto, Return
<1>c. ~Pushing(t) /\ ~Pushing(t)' /\ ~Iterating(t)'
  BY DEF IInv, TypeOK, Pushing, Iterating, remove_nth, remove, step, step_end, load_new,
         unlink_fails, Goto, Return
<1>d. PointersOf(t)
  BY DEF IInv, Pointers
<1>e. items' = items /\ next' = next
  BY <1>a DEF history, heap
<1>1. TypeOK' /\ PointersOf(t)'
  <2>a. /\ items \in Seq(Addr) /\ Len(items) \in Nat /\ next \in [Node -> Addr \cup {Null}]
        /\ pc \in [Thread -> {"idle", "push", "exchange", "count", "seek", "found", "unlink", "iter"}]
        /\ cur \in [Thread -> Node \cup {Null}] /\ prev \in [Thread -> Node \cup {Null}]
        /\ val \in [Thread -> Addr \cup {Null}] /\ arg \in [Thread -> Nat]
    BY DEF IInv, TypeOK
  <2>1. CASE \E nth \in 1 .. MaxNth : remove_nth(t, nth)
    <3>1. TypeOK'
      <4>1. PICK nth \in 1 .. MaxNth : remove_nth(t, nth)
        BY <2>1
      <4>2. nth \in Nat /\ nth > 0 /\ Dummy \in Node
        BY Addresses, LfListAssumption
      <4>3. /\ pc' = [pc EXCEPT ![t] = pc'[t]] /\ pc'[t] \in {"count", "seek"}
            /\ cur' = [cur EXCEPT ![t] = Dummy] /\ arg' = [arg EXCEPT ![t] = arg'[t]]
            /\ arg'[t] \in Nat /\ (pc'[t] = "count" => arg'[t] > 0) /\ prev' = prev /\ val' = val
        BY <2>a, <4>1, <4>2 DEF remove_nth, Goto
      <4>4. /\ pc' \in [Thread -> {"idle", "push", "exchange", "count", "seek", "found", "unlink", "iter"}]
            /\ arg' \in [Thread -> Nat]
        BY <2>a, <4>3
      <4>5. cur' \in [Thread -> Node \cup {Null}]
        BY <2>a, <4>2, <4>3
      <4>6. \A u \in Thread : pc'[u] = "count" => arg'[u] > 0
        BY <1>b, <4>3 DEF Kept, IInv, TypeOK
      <4> QED BY <1>a, <4>3, <4>4, <4>5, <4>6 DEF IInv, TypeOK, heap, history
    <3>2. PointersOf(t)'
      BY <1>d, <1>e, <2>a, <2>1 DEF PointersOf, Removing, Listed, remove_nth, Goto
    <3> QED BY <3>1, <3>2
  <2>2. CASE \E e \in 1 .. MaxPush : remove(t, e)
    <3>1. TypeOK'
      <4>1. PICK e \in 1 .. MaxPush : remove(t, e)
        BY <2>2
      <4>2. e \in Nat /\ e > 0 /\ Dummy \in Node
        BY Addresses, LfListAssumption
      <4>3. /\ pc' = [pc EXCEPT ![t] = pc'[t]] /\ pc'[t] \in {"count", "seek"}
            /\ cur' = [cur EXCEPT ![t] = Dummy] /\ arg' = [arg EXCEPT ![t] = arg'[t]]
            /\ arg'[t] \in Nat /\ (pc'[t] = "count" => arg'[t] > 0) /\ prev' = prev /\ val' = val
        BY <2>a, <4>1, <4>2 DEF remove, Goto
      <4>4. /\ pc' \in [Thread -> {"idle", "push", "exchange", "count", "seek", "found", "unlink", "iter"}]
            /\ arg' \in [Thread -> Nat]
        BY <2>a, <4>3
      <4>5. cur' \in [Thread -> Node \cup {Null}]
        BY <2>a, <4>2, <4>3
      <4>6. \A u \in Thread : pc'[u] = "count" => arg'[u] > 0
        BY <1>b, <4>3 DEF Kept, IInv, TypeOK
      <4> QED BY <1>a, <4>3, <4>4, <4>5, <4>6 DEF IInv, TypeOK, heap, history
    <3>2. PointersOf(t)'
      BY <1>d, <1>e, <2>a, <2>2 DEF PointersOf, Removing, Listed, remove, Goto
    <3> QED BY <3>1, <3>2
  <2>3. CASE step(t)
    <3> DEFINE node == next[cur[t]]
    <3>0. cur[t] = Dummy \/ Listed(cur[t])
      BY <1>d, <2>3 DEF PointersOf, step
    <3>a. cur[t] \in Node /\ node \in Addr /\ Listed(node)
      BY <2>3, <3>0, NextInList, Addresses DEF step
    <3>b. /\ pc'[t] = "count" => pc[t] = "count" /\ arg[t] > 1
          /\ pc'[t] \in {"count", "seek", "found"}
          /\ pc' = [pc EXCEPT ![t] = pc'[t]]
      BY <2>a, <2>3 DEF step, Goto, IInv, TypeOK
    <3>c. arg'[t] \in Nat /\ (pc'[t] = "count" => arg'[t] > 0) /\ arg' = [arg EXCEPT ![t] = arg'[t]]
      BY <2>a, <2>3, <3>b DEF step, IInv, TypeOK
    <3>d. cur' = [cur EXCEPT ![t] = node] /\ prev' = [prev EXCEPT ![t] = cur[t]] /\ val' = val
      BY <2>3 DEF step
    <3> HIDE DEF node
    <3>1. TypeOK'
      <4>1. /\ pc' \in [Thread -> {"idle", "push", "exchange", "count", "seek", "found", "unlink", "iter"}]
            /\ arg' \in [Thread -> Nat]
            /\ cur' \in [Thread -> Node \cup {Null}] /\ prev' \in [Thread -> Node \cup {Null}]
        <5>1. pc' \in [Thread -> {"idle", "push", "exchange", "count", "seek", "found", "unlink", "iter"}]
          BY <2>a, <3>b
        <5>2. arg' \in [Thread -> Nat]
          BY <2>a, <3>c
        <5>3. node \in Node
          BY <3>a, Addresses
        <5>4. cur' \in [Thread -> Node \cup {Null}] /\ prev' \in [Thread -> Node \cup {Null}]
          BY <2>a, <3>a, <3>d, <5>3
        <5> QED BY <5>1, <5>2, <5>4
      <4>2. \A u \in Thread : pc'[u] = "count" => arg'[u] > 0
        BY <1>b, <3>c DEF Kept, IInv, TypeOK
      <4> QED BY <1>a, <3>d, <4>1, <4>2 DEF IInv, TypeOK, heap, history
    <3>2. PointersOf(t)'
      <4>1. cur'[t] = node /\ prev'[t] = cur[t]
        BY <2>a, <3>d
      <4>2. Listed(cur[t])' /\ (prev'[t] = Dummy \/ Listed(prev[t])')
        BY <1>e, <3>0, <3>a, <4>1 DEF Listed
      <4> QED BY <3>b, <4>1, <4>2 DEF PointersOf, Removing
    <3> QED BY <3>1, <3>2
  <2>4. CASE step_end(t)
    <3>1. TypeOK'
      BY <1>a, <2>4, Addresses DEF IInv, TypeOK, step_end, Return, heap, history
    <3>2. PointersOf(t)'
      BY <1>d, <1>e, <2>a, <2>4 DEF PointersOf, Removing, Listed, step_end, Return
    <3> QED BY <3>1, <3>2
  <2>5. CASE load_new(t)
    <3>0. next[cur[t]] \in Addr \cup {Null}
      BY <1>d, <2>5, NextInList DEF PointersOf, load_new
    <3>1. TypeOK'
      BY <1>a, <2>5, <3>0, Addresses DEF IInv, TypeOK, load_new, Goto, heap, history
    <3>2. PointersOf(t)'
      BY <1>d, <1>e, <2>a, <2>5 DEF PointersOf, Removing, Listed, load_new, Goto
    <3> QED BY <3>1, <3>2
  <2>6. CASE unlink_fails(t)
    <3>1. TypeOK'
      BY <1>a, <2>6, Addresses DEF IInv, TypeOK, unlink_fails, Return, heap, history
    <3>2. PointersOf(t)'
      BY <1>d, <1>e, <2>a, <2>6 DEF PointersOf, Removing, Listed, unlink_fails, Return
    <3> QED BY <3>1, <3>2
  <2> QED BY <2>1, <2>2, <2>3, <2>4, <2>5, <2>6
<1>2. Nodes' /\ Elements' /\ NothingLost' /\ Linked'
  <2>1. \A u \in Thread : Pushing(u)' = Pushing(u) /\ (Pushing(u) => cur'[u] = cur[u])
    BY <1>b, <1>c DEF Kept, Pushing
  <2> QED BY <1>a, <2>1, Frame
<1>3. Pointers' /\ IterExact'
  BY <1>a, <1>b, <1>c, <1>1, Others
<1> QED BY <1>1, <1>2, <1>3 DEF IInv

\* The steps of an iteration.
LEMMA IterSteps ==
    ASSUME IInv, ~clash, NEW t \in Thread, iter(t) \/ iter_next(t) \/ iter_end(t)
    PROVE  IInv'
<1>a. UNCHANGED <<heap, pushed, history>>
  BY DEF iter, iter_next, iter_end
<1>b. \A u \in Thread \ {t} : Kept(u)
  BY <1>a DEF IInv, TypeOK, Kept, iter, iter_next, iter_end, Goto, Return
<1>c. ~Pushing(t) /\ ~Pushing(t)' /\ ~Removing(t)'
  BY DEF IInv, TypeOK, Pushing, Removing, iter, iter_next, iter_end, Goto, Return
<1>d. PointersOf(t) /\ (Iterating(t) => Exact(t))
  BY DEF IInv, Pointers, IterExact, Exact
<1>e. items' = items /\ next' = next /\ elem' = elem
  BY <1>a DEF history, heap
<1>f. /\ items \in Seq(Addr) /\ Len(items) \in Nat /\ next \in [Node -> Addr \cup {Null}]
      /\ elem \in [Node -> Nat]
      /\ pc \in [Thread -> {"idle", "push", "exchange", "count", "seek", "found", "unlink", "iter"}]
      /\ cur \in [Thread -> Node \cup {Null}] /\ prev \in [Thread -> Node \cup {Null}]
      /\ val \in [Thread -> Addr \cup {Null}] /\ arg \in [Thread -> Nat]
      /\ seen \in [Thread -> Seq(Nat)] /\ first \in [Thread -> Seq(Nat)]
  BY DEF IInv, TypeOK
<1>g. \A i \in 1 .. Len(items) : items[i] \in Addr /\ items[i] # Null /\ items[i] \in Node
  BY <1>f, Addresses
<1>h. PointersOf(t)'
  BY <1>c, <1>d, <1>f DEF PointersOf, Pushing, Removing, iter, iter_next, iter_end, Goto, Return
<1>i. \A i \in 0 .. Len(items) : next[At(i)] = At(i + 1)
  BY DEF IInv, Linked
<1>1. TypeOK' /\ (Iterating(t)' => Exact(t)')
  <2>1. CASE iter(t)
    <3>1. Elems(items) \in Seq(Nat)
      BY <1>f, ElemsOf
    <3>2. /\ cur' = [cur EXCEPT ![t] = next[Dummy]] /\ seen' = [seen EXCEPT ![t] = <<>>]
          /\ first' = [first EXCEPT ![t] = Elems(items)] /\ pc' = [pc EXCEPT ![t] = "iter"]
          /\ prev' = prev /\ val' = val /\ arg' = arg
      BY <2>1 DEF iter, Goto
    <3>3. next[Dummy] \in Addr \cup {Null} /\ <<>> \in Seq(Nat)
      BY <1>f, Addresses
    <3>4. TypeOK'
      BY <1>a, <3>1, <3>2, <3>3, Addresses DEF IInv, TypeOK, heap, history
    <3>5. /\ cur'[t] = At(1) /\ seen'[t] = <<>> /\ first'[t] = Elems(items)
      <4>1. next[At(0)] = At(0 + 1) /\ At(0) = Dummy
        BY <1>f, <1>i DEF At
      <4> QED BY <1>f, <3>2, <4>1
    <3>6. CASE Len(items) = 0
      <4>1. items = <<>> /\ cur'[t] = Null
        BY <1>f, <3>5, <3>6 DEF At
      <4>2. Elems(items) = <<>>
        BY <1>f, <3>1, <3>6, ElemsOf, EmptySeq
      <4> QED BY <3>4, <3>5, <4>1, <4>2 DEF Exact
    <3>7. CASE Len(items) # 0
      <4>1. 1 \in 1 .. Len(items) /\ cur'[t] = items[1]
        BY <1>f, <3>5, <3>7 DEF At
      <4>2. SubSeq(items, 1, Len(items)) = items
        BY <1>f, SubSeqFull
      <4>3. first'[t] = seen'[t] \o Elems(SubSeq(items, 1, Len(items)))
        BY <3>1, <3>5, <4>2, ConcatEmptySeq
      <4>4. 1 \in Behind(cur[t])' /\ first'[t] = seen'[t] \o Elems(SubSeq(items, 1, Len(items)))'
        BY <1>e, <4>1, <4>3 DEF Behind, Elems
      <4> QED BY <3>4, <4>4 DEF Exact
    <3> QED BY <3>6, <3>7
  <2>2. CASE iter_next(t)
    <3>1. Iterating(t) /\ cur[t] # Null
      BY <2>2 DEF iter_next, Iterating
    <3>2. PICK i \in 1 .. Len(items) :
             /\ cur[t] = items[i]
             /\ first[t] = seen[t] \o Elems(SubSeq(items, i, Len(items)))
      BY <1>d, <3>1 DEF Exact, Behind
    <3> DEFINE e == elem[items[i]]
               rest == Elems(SubSeq(items, i + 1, Len(items)))
    <3>3. e \in Nat /\ rest \in Seq(Nat) /\ Elems(SubSeq(items, i, Len(items))) = <<e>> \o rest
      BY <1>f, ElemsFrom
    <3>4. /\ cur' = [cur EXCEPT ![t] = next[items[i]]] /\ seen' = [seen EXCEPT ![t] = Append(seen[t], e)]
          /\ first' = first /\ pc' = pc /\ prev' = prev /\ val' = val /\ arg' = arg
      BY <2>2, <3>2 DEF iter_next
    <3>5. next[items[i]] = At(i + 1) /\ At(i + 1) \in Addr \cup {Null}
      <4>1. At(i) = items[i] /\ i \in 0 .. Len(items)
        BY <1>f DEF At
      <4>2. next[At(i)] = At(i + 1)
        BY <1>i, <4>1
      <4> QED BY <1>f, <1>g, <4>1, <4>2
    <3> HIDE DEF e, rest
    <3>6. Append(seen[t], e) \in Seq(Nat) /\ Append(seen[t], e) = seen[t] \o <<e>>
      <4>1. seen[t] \in Seq(Nat)
        BY <1>f
      <4> QED BY <3>3, <4>1, AppendIsConcat, AppendProperties
    <3>7. TypeOK'
      <4>1. TypeOK /\ At(i + 1) \in Node \cup {Null}
        BY <3>5, Addresses DEF IInv
      <4>2. cur' \in [Thread -> Node \cup {Null}]
        BY <3>4, <3>5, <4>1 DEF TypeOK
      <4>3. seen' \in [Thread -> Seq(Nat)]
        BY <3>4, <3>6, <4>1 DEF TypeOK
      <4>4. UNCHANGED <<next, elem, live, pushed, items, taken, clash>>
        BY <1>a DEF heap, history
      <4> QED BY <3>4, <4>1, <4>2, <4>3, <4>4 DEF TypeOK
    <3>8. cur'[t] = At(i + 1) /\ seen'[t] = seen[t] \o <<e>> /\ first'[t] = first[t]
      BY <1>f, <3>4, <3>5, <3>6
    <3>9. first'[t] = seen'[t] \o rest
      <4>1. seen[t] \in Seq(Nat) /\ <<e>> \in Seq(Nat) /\ rest \in Seq(Nat)
        BY <1>f, <3>3
      <4>2. Append(seen[t], e) \o rest = seen[t] \o (<<e>> \o rest)
        BY <3>3, <4>1, TakeOne
      <4> QED BY <3>2, <3>3, <3>6, <3>8, <4>2
    <3>10. CASE i = Len(items)
      <4>1. cur'[t] = Null
        BY <1>f, <3>8, <3>10 DEF At
      <4>2. SubSeq(items, i + 1, Len(items)) = <<>>
        BY <1>f, <3>10, SubSeqEmpty
      <4>3. Len(rest) = 0
        BY <1>f, <4>2, ElemsOf, EmptySeq DEF rest
      <4>4. rest = <<>>
        BY <3>3, <4>3, EmptySeq
      <4>5. seen'[t] \in Seq(Nat)
        BY <3>7 DEF TypeOK
      <4>6. first'[t] = seen'[t]
        BY <3>9, <4>4, <4>5, ConcatEmptySeq
      <4> QED BY <3>7, <4>1, <4>6 DEF Exact
    <3>11. CASE i # Len(items)
      <4>1. i + 1 \in 1 .. Len(items) /\ cur'[t] = items[i + 1]
        BY <1>f, <3>8, <3>11 DEF At
      <4>2. i + 1 \in Behind(cur[t])' /\ rest = Elems(SubSeq(items, i + 1, Len(items)))'
        BY <1>e, <4>1 DEF Behind, Elems, rest
      <4> QED BY <3>7, <3>9, <4>2 DEF Exact
    <3> QED BY <3>10, <3>11
  <2>3. CASE iter_end(t)
    <3>1. TypeOK'
      BY <1>a, <2>3, Addresses DEF IInv, TypeOK, iter_end, Return, heap, history
    <3>2. ~Iterating(t)'
      BY <1>f, <2>3 DEF iter_end, Return, Iterating
    <3> QED BY <3>1, <3>2
  <2> QED BY <2>1, <2>2, <2>3
<1>2. Nodes' /\ Elements' /\ NothingLost' /\ Linked'
  <2>1. \A u \in Thread : Pushing(u)' = Pushing(u) /\ (Pushing(u) => cur'[u] = cur[u])
    BY <1>b, <1>c DEF Kept, Pushing
  <2> QED BY <1>a, <2>1, Frame
<1>3. Pointers' /\ IterExact'
  BY <1>a, <1>b, <1>h, <1>1, Others
<1> QED BY <1>1, <1>2, <1>3 DEF IInv

-----------------------------------------------------------------------------
(* Steps of a push                                                         *)

\* A node that is not in the list yet is written to by the thread that owns it.
LEMMA OwnNode ==
    ASSUME IInv, ~clash, NEW t \in Thread, NEW a \in Addr, ~Listed(a),
           \A u \in Thread \ {t} : Kept(u) /\ (Pushing(u) => cur[u] # a),
           items' = items, clash' = clash,
           \A n \in Node \ {a} : next'[n] = next[n] /\ elem'[n] = elem[n]
    PROVE  /\ Linked'
           /\ \A u \in Thread \ {t} : PointersOf(u)' /\ (Iterating(u)' => Exact(u)')
<1>1. /\ items \in Seq(Addr) /\ Len(items) \in Nat /\ cur \in [Thread -> Node \cup {Null}]
  BY DEF IInv, TypeOK
<1>2. \A i \in 1 .. Len(items) : items[i] \in Node \ {a}
  BY <1>1, Addresses DEF Listed
<1>3. Dummy \in Node \ {a}
  BY Addresses
<1>4. Linked'
  <2>1. \A i \in 0 .. Len(items) : next'[At(i)] = At(i + 1)
    BY <1>1, <1>2, <1>3 DEF At, IInv, Linked
  <2> QED BY <2>1 DEF Linked, At
<1>5. ASSUME NEW u \in Thread \ {t} PROVE PointersOf(u)'
  <2>1. PointersOf(u) /\ Kept(u)
    BY DEF IInv, Pointers
  <2>2. pc[u] = "exchange" => cur[u] \in Node \ {a}
    BY Addresses DEF IInv, Nodes, Pushing
  <2>3. \A n : Listed(n) => n \in Node \ {a}
    BY <1>2 DEF Listed
  <2> QED BY <2>1, <2>2, <2>3 DEF PointersOf, Kept, Listed, Removing
<1>6. ASSUME NEW u \in Thread \ {t}, Iterating(u)' PROVE Exact(u)'
  <2>1. Exact(u) /\ cur'[u] = cur[u] /\ seen'[u] = seen[u] /\ first'[u] = first[u]
    BY <1>6 DEF IInv, IterExact, Exact, Iterating, Kept
  <2>2. Behind(cur[u])' = Behind(cur[u])
    BY <2>1 DEF Behind
  <2>3. ASSUME NEW i \in 1 .. Len(items)
        PROVE  Elems(SubSeq(items, i, Len(items)))' = Elems(SubSeq(items, i, Len(items)))
    <3> DEFINE s == SubSeq(items, i, Len(items))
    <3>1. \A j \in 1 .. Len(s) : s[j] \in Node \ {a}
      BY <1>1, <1>2
    <3>2. s' = s
      OBVIOUS
    <3> HIDE DEF s
    <3>3. Elems(s)' = [j \in 1 .. Len(s) |-> elem'[s[j]]]
      BY <3>2 DEF Elems
    <3>4. Elems(s) = [j \in 1 .. Len(s) |-> elem[s[j]]]
      BY DEF Elems
    <3>5. Elems(s)' = Elems(s)
      BY <3>1, <3>3, <3>4
    <3> QED BY <3>5 DEF s
  <2> QED BY <2>1, <2>2, <2>3 DEF Exact, Behind
<1> QED BY <1>4, <1>5, <1>6

\* push allocates its node.
LEMMA Push ==
    ASSUME IInv, ~clash, NEW t \in Thread, push(t)
    PROVE  IInv'
<1>1. PICK a \in Addr \ live :
         /\ live' = live \cup {a} /\ elem' = [elem EXCEPT ![a] = pushed + 1]
         /\ next' = [next EXCEPT ![a] = Null] /\ cur' = [cur EXCEPT ![t] = a]
  BY DEF push
<1>2. /\ pc[t] = "idle" /\ pushed' = pushed + 1 /\ pc' = [pc EXCEPT ![t] = "push"]
      /\ items' = items /\ taken' = taken /\ clash' = clash
      /\ prev' = prev /\ val' = val /\ arg' = arg /\ seen' = seen /\ first' = first
  BY DEF push, Goto, history, iteration
<1>3. TypeOK
  BY DEF IInv
<1>4. /\ items \in Seq(Addr) /\ Len(items) \in Nat /\ cur \in [Thread -> Node \cup {Null}]
      /\ elem \in [Node -> Nat] /\ pushed \in Nat /\ a \in Node /\ taken \in SUBSET Nat
      /\ pc \in [Thread -> {"idle", "push", "exchange", "count", "seek", "found", "unlink", "iter"}]
  BY <1>3, Addresses DEF TypeOK
<1>5. TypeOK'
  <2>1. next' \in [Node -> Addr \cup {Null}] /\ elem' \in [Node -> Nat]
    BY <1>1, <1>3, <1>4 DEF TypeOK
  <2>2. live' \in SUBSET Node /\ pushed' \in Nat
    BY <1>1, <1>2, <1>3, <1>4 DEF TypeOK
  <2>3. cur' \in [Thread -> Node \cup {Null}]
    BY <1>1, <1>4
  <2>4. pc' \in [Thread -> {"idle", "push", "exchange", "count", "seek", "found", "unlink", "iter"}]
    BY <1>2, <1>4
  <2>5. \A u \in Thread : pc'[u] = "count" => arg'[u] > 0
    BY <1>2, <1>3, <1>4 DEF TypeOK
  <2> QED BY <1>2, <1>3, <2>1, <2>2, <2>3, <2>4, <2>5 DEF TypeOK
<1>6. \A u \in Thread \ {t} : Kept(u)
  BY <1>1, <1>2, <1>4 DEF Kept
<1>7. ~Pushing(t) /\ Pushing(t)' /\ cur'[t] = a /\ elem'[a] = pushed + 1
  BY <1>1, <1>2, <1>4 DEF Pushing
<1>8. ~Listed(a) /\ \A u \in Thread : Pushing(u) => cur[u] # a /\ cur[u] \in Node
  BY <1>1, Addresses DEF IInv, Nodes, Listed
<1>9. \A u \in Thread \ {t} : Pushing(u)' = Pushing(u) /\ cur'[u] = cur[u]
  BY <1>6 DEF Kept, Pushing
<1>10. Nodes'
  <2>1. Dummy \in live' /\ \A i \in 1 .. Len(items') : items'[i] \in live'
    BY <1>1, <1>2 DEF IInv, Nodes
  <2>2. \A i, j \in 1 .. Len(items') : items'[i] = items'[j] => i = j
    BY <1>2 DEF IInv, Nodes
  <2>3. ASSUME NEW u \in Thread, Pushing(u)'
        PROVE  cur'[u] \in Addr /\ cur'[u] \in live' /\ ~Listed(cur[u])'
    <3>1. CASE u = t
      BY <1>1, <1>2, <1>7, <1>8, <3>1 DEF Listed
    <3>2. CASE u # t
      BY <1>1, <1>2, <1>9, <2>3, <3>2 DEF IInv, Nodes, Listed
    <3> QED BY <3>1, <3>2
  <2>4. \A u, v \in Thread : Pushing(u)' /\ Pushing(v)' /\ cur'[u] = cur'[v] => u = v
    BY <1>7, <1>8, <1>9 DEF IInv, Nodes
  <2> QED BY <2>1, <2>2, <2>3, <2>4 DEF Nodes
<1>11. \A n \in Node \ {a} : next'[n] = next[n] /\ elem'[n] = elem[n]
  BY <1>1, <1>3 DEF TypeOK
<1>12. \A i \in 1 .. Len(items) : elem'[items[i]] = elem[items[i]]
  <2>1. \A i \in 1 .. Len(items) : items[i] \in Node \ {a}
    BY <1>4, <1>8, Addresses DEF Listed
  <2> QED BY <1>11, <2>1
<1>13. \A u \in Thread \ {t} : Pushing(u) => elem'[cur'[u]] = elem[cur[u]] /\ elem[cur[u]] \in Pending
  BY <1>8, <1>9, <1>11 DEF Pending, Pushing
<1>14. InList' = InList
  BY <1>2, <1>12 DEF InList
<1>15. Pending' = Pending \cup {pushed + 1}
  <2>1. ASSUME NEW e, e \in Pending' PROVE e \in Pending \cup {pushed + 1}
    <3>1. PICK u \in Thread : Pushing(u)' /\ e = elem'[cur'[u]]
      BY <2>1 DEF Pending, Pushing
    <3> QED BY <1>7, <1>9, <1>13, <3>1
  <2>2. ASSUME NEW e, e \in Pending PROVE e \in Pending'
    <3>1. PICK u \in Thread : Pushing(u) /\ e = elem[cur[u]]
      BY <2>2 DEF Pending, Pushing
    <3>2. Pushing(u)' /\ e = elem'[cur'[u]]
      BY <1>7, <1>9, <1>13, <3>1
    <3> QED BY <3>2 DEF Pending, Pushing
  <2>3. pushed + 1 \in Pending'
    BY <1>7 DEF Pending, Pushing
  <2> QED BY <2>1, <2>2, <2>3
<1>16. /\ 1 .. pushed = InList \cup taken \cup Pending
       /\ InList \cap taken = {} /\ InList \cap Pending = {} /\ taken \cap Pending = {}
       /\ \A i, j \in 1 .. Len(items) : elem[items[i]] = elem[items[j]] => i = j
  BY DEF IInv, NothingLost
<1>17. pushed + 1 \notin 1 .. pushed /\ 1 .. pushed + 1 = (1 .. pushed) \cup {pushed + 1}
  BY <1>4
<1>18. Elements'
  <2>1. \A u \in Thread \ {t} : Pushing(u) => elem'[cur'[u]] # elem'[cur'[t]]
    BY <1>7, <1>13, <1>16, <1>17
  <2>2. \A u, v \in Thread \ {t} : Pushing(u)' /\ Pushing(v)' /\ elem'[cur'[u]] = elem'[cur'[v]] => u = v
    BY <1>9, <1>13 DEF IInv, Elements
  <2> QED BY <1>9, <2>1, <2>2 DEF Elements
<1>19. NothingLost'
  <2>1. 1 .. pushed' = InList' \cup taken' \cup Pending'
    BY <1>2, <1>14, <1>15, <1>16, <1>17
  <2>2. InList' \cap taken' = {} /\ InList' \cap Pending' = {} /\ taken' \cap Pending' = {}
    BY <1>2, <1>14, <1>15, <1>16, <1>17
  <2>3. \A i, j \in 1 .. Len(items') : elem'[items'[i]] = elem'[items'[j]] => i = j
    BY <1>2, <1>12, <1>16
  <2> QED BY <2>1, <2>2, <2>3 DEF NothingLost
<1>20. /\ Linked'
       /\ \A u \in Thread \ {t} : PointersOf(u)' /\ (Iterating(u)' => Exact(u)')
  BY <1>2, <1>6, <1>8, <1>11, OwnNode
<1>21. PointersOf(t)' /\ ~Iterating(t)'
  <2>1. prev[t] = Null
    BY <1>2 DEF IInv, Pointers, PointersOf, Removing
  <2> QED BY <1>2, <1>4, <2>1 DEF PointersOf, Removing, Iterating
<1>22. Pointers' /\ IterExact'
  BY <1>20, <1>21 DEF Pointers, IterExact, Exact
<1> QED BY <1>5, <1>10, <1>18, <1>19, <1>20, <1>22 DEF IInv

\* try_push links the node to the head it has read.
LEMMA PushLink ==
    ASSUME IInv, ~clash, NEW t \in Thread, push_link(t)
    PROVE  IInv'
<1>1. /\ pc[t] = "push" /\ val' = [val EXCEPT ![t] = next[Dummy]]
      /\ next' = [next EXCEPT ![cur[t]] = next[Dummy]] /\ pc' = [pc EXCEPT ![t] = "exchange"]
      /\ elem' = elem /\ live' = live /\ pushed' = pushed /\ items' = items /\ taken' = taken
      /\ clash' = clash /\ cur' = cur /\ prev' = prev /\ arg' = arg /\ seen' = seen /\ first' = first
  BY DEF push_link, Goto, history, iteration
<1>2. TypeOK
  BY DEF IInv
<1>3. /\ pc \in [Thread -> {"idle", "push", "exchange", "count", "seek", "found", "unlink", "iter"}]
      /\ next \in [Node -> Addr \cup {Null}] /\ val \in [Thread -> Addr \cup {Null}]
  BY <1>2 DEF TypeOK
<1>4. Pushing(t) /\ Pushing(t)' /\ \A u \in Thread : Pushing(u)' = Pushing(u)
  BY <1>1, <1>3 DEF Pushing
<1>5. cur[t] \in Addr /\ cur[t] \in Node /\ ~Listed(cur[t])
  BY <1>4, Addresses DEF IInv, Nodes
<1>6. TypeOK'
  <2>1. next[Dummy] \in Addr \cup {Null}
    BY <1>3, Addresses
  <2> QED BY <1>1, <1>2, <1>5, <2>1 DEF TypeOK
<1>7. \A u \in Thread \ {t} : Kept(u)
  BY <1>1, <1>3 DEF Kept
<1>8. \A u \in Thread \ {t} : Pushing(u) => cur[u] # cur[t]
  BY <1>4 DEF IInv, Nodes
<1>9. \A n \in Node \ {cur[t]} : next'[n] = next[n] /\ elem'[n] = elem[n]
  BY <1>1, <1>3
<1>10. Nodes' /\ Elements'
  BY <1>1, <1>4 DEF IInv, Nodes, Elements, Listed
<1>11. Pending' = Pending
  BY <1>1, <1>4 DEF Pending, Pushing
<1>12. NothingLost'
  BY <1>1, <1>11 DEF IInv, NothingLost, InList
<1>13. /\ Linked'
       /\ \A u \in Thread \ {t} : PointersOf(u)' /\ (Iterating(u)' => Exact(u)')
  BY <1>1, <1>5, <1>7, <1>8, <1>9, OwnNode
<1>14. PointersOf(t)' /\ ~Iterating(t)'
  <2>1. prev[t] = Null
    BY <1>1 DEF IInv, Pointers, PointersOf, Removing
  <2>2. next'[cur'[t]] = val'[t]
    BY <1>1, <1>3, <1>5
  <2> QED BY <1>1, <1>3, <2>1, <2>2 DEF PointersOf, Removing, Iterating
<1>15. Pointers' /\ IterExact'
  BY <1>13, <1>14 DEF Pointers, IterExact, Exact
<1> QED BY <1>6, <1>10, <1>12, <1>13, <1>15 DEF IInv

\* The exchange fails: the head has changed.
LEMMA PushRetry ==
    ASSUME IInv, ~clash, NEW t \in Thread, push_retry(t)
    PROVE  IInv'
<1>1. /\ pc[t] = "exchange" /\ pc' = [pc EXCEPT ![t] = "push"]
      /\ UNCHANGED <<heap, pushed, history>> /\ UNCHANGED <<cur, prev, val, arg, seen, first>>
  BY DEF push_retry, Goto, locals, iteration
<1>2. TypeOK
  BY DEF IInv
<1>3. pc \in [Thread -> {"idle", "push", "exchange", "count", "seek", "found", "unlink", "iter"}]
  BY <1>2 DEF TypeOK
<1>4. TypeOK'
  BY <1>1, <1>2 DEF TypeOK, heap, history
<1>5. \A u \in Thread \ {t} : Kept(u)
  BY <1>1, <1>3 DEF Kept
<1>6. \A u \in Thread : Pushing(u)' = Pushing(u) /\ (Pushing(u) => cur'[u] = cur[u])
  BY <1>1, <1>3 DEF Pushing
<1>7. Nodes' /\ Elements' /\ NothingLost' /\ Linked'
  BY <1>1, <1>6, Frame
<1>8. PointersOf(t)' /\ ~Iterating(t)'
  <2>1. prev[t] = Null
    BY <1>1 DEF IInv, Pointers, PointersOf, Removing
  <2> QED BY <1>1, <1>3, <2>1 DEF PointersOf, Removing, Iterating
<1>9. Pointers' /\ IterExact'
  BY <1>1, <1>5, <1>8, Others
<1> QED BY <1>4, <1>7, <1>9 DEF IInv

\* The list with a new first node: the others move down by one.
LEMMA NewFirst ==
    ASSUME items \in Seq(Addr), NEW c \in Addr
    PROVE  LET s == <<c>> \o items
           IN  /\ s \in Seq(Addr) /\ Len(s) = Len(items) + 1 /\ s[1] = c
               /\ \A i \in 1 .. Len(items) : s[i + 1] = items[i]
               /\ \A i \in 1 .. Len(items) : SubSeq(s, i + 1, Len(s)) = SubSeq(items, i, Len(items))
<1> DEFINE s == <<c>> \o items
<1>1. Len(items) \in Nat /\ <<c>> \in Seq(Addr) /\ Len(<<c>>) = 1
  BY LenProperties
<1>2. s \in Seq(Addr) /\ Len(s) = Len(items) + 1 /\ s[1] = c
  BY <1>1
<1>3. \A i \in 1 .. Len(items) : s[i + 1] = items[i]
  BY <1>1
<1>4. ASSUME NEW i \in 1 .. Len(items)
      PROVE  SubSeq(s, i + 1, Len(items) + 1) = SubSeq(items, i, Len(items))
  <2>1. /\ i + 1 \in Len(<<c>>) + 1 .. Len(<<c>>) + Len(items)
        /\ Len(items) + 1 \in Len(<<c>>) + 1 .. Len(<<c>>) + Len(items)
        /\ (i + 1) - Len(<<c>>) = i /\ (Len(items) + 1) - Len(<<c>>) = Len(items)
    BY <1>1
  <2>2. SubSeq(s, i + 1, Len(items) + 1) =
           SubSeq(items, (i + 1) - Len(<<c>>), (Len(items) + 1) - Len(<<c>>))
    BY <1>1, <2>1, SubSeqOfConcat2
  <2> QED BY <2>1, <2>2
<1> QED BY <1>2, <1>3, <1>4

\* The exchange puts the node in front.
LEMMA PushDone ==
    ASSUME IInv, ~clash, NEW t \in Thread, push_done(t)
    PROVE  IInv'
<1> DEFINE c == cur[t]
<1>1. /\ pc[t] = "exchange" /\ next[Dummy] = val[t] /\ next' = [next EXCEPT ![Dummy] = c]
      /\ items' = <<c>> \o items /\ pc' = [pc EXCEPT ![t] = "idle"]
      /\ cur' = [cur EXCEPT ![t] = Null] /\ prev' = [prev EXCEPT ![t] = Null]
      /\ val' = [val EXCEPT ![t] = Null] /\ arg' = [arg EXCEPT ![t] = 0]
      /\ elem' = elem /\ live' = live /\ pushed' = pushed /\ taken' = taken /\ clash' = clash
      /\ seen' = seen /\ first' = first
  BY DEF push_done, Return, iteration
<1>2. TypeOK
  BY DEF IInv
<1>3. /\ pc \in [Thread -> {"idle", "push", "exchange", "count", "seek", "found", "unlink", "iter"}]
      /\ next \in [Node -> Addr \cup {Null}] /\ cur \in [Thread -> Node \cup {Null}]
      /\ prev \in [Thread -> Node \cup {Null}] /\ items \in Seq(Addr) /\ Len(items) \in Nat
      /\ val \in [Thread -> Addr \cup {Null}] /\ arg \in [Thread -> Nat]
      /\ elem \in [Node -> Nat]
  BY <1>2 DEF TypeOK
<1>4. Pushing(t) /\ ~Pushing(t)'
  BY <1>1, <1>3 DEF Pushing
<1>5. c \in Addr /\ c \in live /\ c \in Node /\ ~Listed(c) /\ c # Dummy
  BY <1>4, Addresses DEF IInv, Nodes
<1>6. next[c] = val[t]
  BY <1>1 DEF IInv, Pointers, PointersOf
<1>7. \A u \in Thread \ {t} : Kept(u) /\ Pushing(u)' = Pushing(u) /\ cur'[u] = cur[u]
  BY <1>1, <1>3 DEF Kept, Pushing
<1>8. \A n \in Node \ {Dummy} : next'[n] = next[n]
  BY <1>1, <1>3
<1>9. next'[Dummy] = c
  BY <1>1, <1>3, Addresses
<1>10. /\ items' \in Seq(Addr) /\ Len(items') = Len(items) + 1 /\ items'[1] = c
       /\ \A i \in 1 .. Len(items) : items'[i + 1] = items[i]
       /\ \A i \in 1 .. Len(items) : SubSeq(items', i + 1, Len(items')) = SubSeq(items, i, Len(items))
  BY <1>1, <1>3, <1>5, NewFirst
<1> HIDE DEF c
<1>11. \A i \in 1 .. Len(items') : \/ i = 1 /\ items'[i] = c
                                   \/ i - 1 \in 1 .. Len(items) /\ items'[i] = items[i - 1]
  <2> SUFFICES ASSUME NEW i \in 1 .. Len(items'), i # 1
               PROVE  i - 1 \in 1 .. Len(items) /\ items'[i] = items[i - 1]
    BY <1>10
  <2>1. i - 1 \in 1 .. Len(items) /\ (i - 1) + 1 = i
    BY <1>3, <1>10
  <2> QED BY <1>10, <2>1
<1>12. \A n : (\E i \in 1 .. Len(items') : items'[i] = n) <=> Listed(n) \/ n = c
  <2>1. ASSUME NEW n, \E i \in 1 .. Len(items') : items'[i] = n PROVE Listed(n) \/ n = c
    BY <1>11, <2>1 DEF Listed
  <2>2. ASSUME NEW n, Listed(n) PROVE \E i \in 1 .. Len(items') : items'[i] = n
    <3>1. PICK i \in 1 .. Len(items) : items[i] = n
      BY <2>2 DEF Listed
    <3>2. i + 1 \in 1 .. Len(items') /\ items'[i + 1] = n
      BY <1>3, <1>10, <3>1
    <3> QED BY <3>2
  <2>3. 1 \in 1 .. Len(items')
    BY <1>3, <1>10
  <2> QED BY <1>10, <2>1, <2>2, <2>3
<1>13. TypeOK'
  <2>1. next' \in [Node -> Addr \cup {Null}]
    BY <1>1, <1>3, <1>5
  <2> QED BY <1>1, <1>2, <1>10, <2>1 DEF TypeOK
<1>14. Nodes'
  <2>1. Dummy \in live' /\ \A i \in 1 .. Len(items') : items'[i] \in live'
    BY <1>1, <1>5, <1>11 DEF IInv, Nodes
  <2>2. ASSUME NEW i \in 1 .. Len(items'), NEW j \in 1 .. Len(items'), items'[i] = items'[j]
        PROVE  i = j
    <3>1. \A m \in 1 .. Len(items) : items[m] # c
      BY <1>5 DEF Listed
    <3>2. CASE i = 1 \/ j = 1
      BY <1>11, <2>2, <3>1, <3>2
    <3>3. CASE i # 1 /\ j # 1
      <4>1. i - 1 = j - 1
        BY <1>11, <2>2, <3>3 DEF IInv, Nodes
      <4> QED BY <1>3, <1>10, <4>1
    <3> QED BY <3>2, <3>3
  <2>3. ASSUME NEW u \in Thread, Pushing(u)'
        PROVE  cur'[u] \in Addr /\ cur'[u] \in live' /\ ~Listed(cur[u])'
    <3>1. u # t /\ Pushing(u) /\ cur'[u] = cur[u] /\ cur[u] # c
      BY <1>4, <1>7, <2>3 DEF IInv, Nodes, c
    <3>2. ~Listed(cur[u])' <=> ~(\E i \in 1 .. Len(items') : items'[i] = cur'[u])
      BY DEF Listed
    <3> QED BY <1>1, <1>12, <3>1, <3>2 DEF IInv, Nodes
  <2>4. \A u, v \in Thread : Pushing(u)' /\ Pushing(v)' /\ cur'[u] = cur'[v] => u = v
    BY <1>4, <1>7 DEF IInv, Nodes
  <2> QED BY <2>1, <2>2, <2>3, <2>4 DEF Nodes
<1>15. Elements'
  BY <1>1, <1>4, <1>7 DEF IInv, Elements
<1>16. NothingLost'
  <2>1. /\ 1 .. pushed = InList \cup taken \cup Pending
        /\ InList \cap taken = {} /\ InList \cap Pending = {} /\ taken \cap Pending = {}
        /\ \A i, j \in 1 .. Len(items) : elem[items[i]] = elem[items[j]] => i = j
    BY DEF IInv, NothingLost
  <2>2. elem[c] \in Pending
    BY <1>4 DEF Pending, Pushing, c
  <2>3. InList' = InList \cup {elem[c]}
    <3>1. \A e : e \in InList' <=> \E n : (\E i \in 1 .. Len(items') : items'[i] = n) /\ e = elem[n]
      BY <1>1 DEF InList
    <3>2. \A e : e \in InList <=> \E n : Listed(n) /\ e = elem[n]
      BY DEF InList, Listed
    <3> QED BY <1>12, <3>1, <3>2
  <2>4. Pending' = Pending \ {elem[c]}
    <3>1. \A e : e \in Pending' <=> \E u \in Thread : Pushing(u)' /\ e = elem[cur'[u]]
      BY <1>1 DEF Pending, Pushing
    <3>2. \A e : e \in Pending <=> \E u \in Thread : Pushing(u) /\ e = elem[cur[u]]
      BY DEF Pending, Pushing
    <3>3. \A u \in Thread \ {t} : Pushing(u) => elem[cur[u]] # elem[c]
      BY <1>4 DEF IInv, Elements, c
    <3> QED BY <1>4, <1>7, <3>1, <3>2, <3>3 DEF c
  <2>5. 1 .. pushed' = InList' \cup taken' \cup Pending'
    BY <1>1, <2>1, <2>2, <2>3, <2>4
  <2>6. InList' \cap taken' = {} /\ InList' \cap Pending' = {} /\ taken' \cap Pending' = {}
    BY <1>1, <2>1, <2>2, <2>3, <2>4
  <2>7. ASSUME NEW i \in 1 .. Len(items'), NEW j \in 1 .. Len(items'), elem'[items'[i]] = elem'[items'[j]]
        PROVE  i = j
    <3>1. \A m \in 1 .. Len(items) : elem[items[m]] # elem[c]
      BY <2>1, <2>2 DEF InList
    <3>2. CASE i = 1 \/ j = 1
      <4>1. \A m \in 1 .. Len(items') : m # 1 => elem[items'[m]] # elem[c]
        BY <1>11, <3>1
      <4>2. items'[1] = c
        BY <1>10
      <4>3. elem[items'[i]] = elem[items'[j]]
        BY <1>1, <2>7
      <4> QED BY <3>2, <4>1, <4>2, <4>3
    <3>3. CASE i # 1 /\ j # 1
      <4>1. /\ i - 1 \in 1 .. Len(items) /\ items'[i] = items[i - 1]
            /\ j - 1 \in 1 .. Len(items) /\ items'[j] = items[j - 1]
        BY <1>11, <3>3
      <4>2. elem[items[i - 1]] = elem[items[j - 1]]
        BY <1>1, <2>7, <4>1
      <4>3. i - 1 = j - 1
        BY <2>1, <4>1, <4>2
      <4> QED BY <1>3, <1>10, <4>3
    <3> QED BY <3>2, <3>3
  <2> QED BY <2>5, <2>6, <2>7 DEF NothingLost
<1>17. Linked'
  <2>1. At(0)' = Dummy /\ At(1)' = c
    BY <1>3, <1>10 DEF At
  <2>2. ASSUME NEW i \in 1 .. Len(items) + 1 PROVE At(i + 1)' = At(i)
    BY <1>3, <1>10 DEF At
  <2>3. \A i \in 0 .. Len(items) : next[At(i)] = At(i + 1)
    BY DEF IInv, Linked
  <2>4. ASSUME NEW i \in 0 .. Len(items') PROVE next'[At(i)'] = At(i + 1)'
    <3>1. CASE i = 0
      BY <1>9, <2>1, <3>1
    <3>2. CASE i = 1
      <4>1. next'[c] = next[Dummy]
        BY <1>1, <1>5, <1>6, <1>8
      <4>2. next[Dummy] = At(1)
        BY <1>3, <2>3 DEF At
      <4>3. At(2)' = At(1)
        BY <1>3, <2>2
      <4> QED BY <2>1, <3>2, <4>1, <4>2, <4>3
    <3>3. CASE i > 1
      <4>1. i - 1 \in 1 .. Len(items) /\ (i - 1) + 1 = i
        BY <1>3, <1>10, <3>3
      <4>2. At(i)' = At(i - 1) /\ At(i + 1)' = At(i)
        BY <1>3, <1>10, <3>3, <4>1 DEF At
      <4>3. At(i - 1) \in Node \ {Dummy}
        <5>1. At(i - 1) = items[i - 1] /\ items[i - 1] \in Addr
          BY <1>3, <4>1 DEF At
        <5> QED BY <5>1, Addresses
      <4>4. next[At(i - 1)] = At(i)
        BY <1>3, <2>3, <4>1
      <4> QED BY <1>8, <4>2, <4>3, <4>4
    <3> QED BY <1>3, <1>10, <3>1, <3>2, <3>3
  <2> QED BY <2>4 DEF Linked
<1>18. Pointers'
  <2>1. ASSUME NEW u \in Thread \ {t} PROVE PointersOf(u)'
    <3>1. PointersOf(u) /\ Kept(u)
      BY <1>7 DEF IInv, Pointers
    <3>2. pc[u] = "exchange" => cur[u] \in Node \ {Dummy}
      BY Addresses DEF IInv, Nodes, Pushing
    <3>3. \A n : Listed(n) => n \in Node \ {Dummy}
      BY <1>3, Addresses DEF Listed
    <3>4. (Listed(cur[u]) => Listed(cur[u])') /\ (Listed(prev[u]) => Listed(prev[u])')
      BY <1>12, <3>1, ZenonT(60) DEF Listed, Kept
    <3> QED BY <1>8, <3>1, <3>2, <3>3, <3>4 DEF PointersOf, Kept, Removing
  <2>2. PointersOf(t)'
    BY <1>1, <1>3 DEF PointersOf, Removing
  <2> QED BY <2>1, <2>2 DEF Pointers
<1>19. IterExact'
  <2>1. ASSUME NEW u \in Thread, Iterating(u)' PROVE Exact(u)'
    <3>1. u # t
      BY <1>1, <1>3, <2>1 DEF Iterating
    <3>2. Exact(u) /\ cur'[u] = cur[u] /\ seen'[u] = seen[u] /\ first'[u] = first[u]
      BY <1>7, <2>1, <3>1 DEF IInv, IterExact, Exact, Iterating, Kept
    <3>3. ASSUME NEW i \in Behind(cur[u]),
                 first[u] = seen[u] \o Elems(SubSeq(items, i, Len(items)))
          PROVE  \E j \in Behind(cur[u])' :
                    first'[u] = seen'[u] \o Elems(SubSeq(items, j, Len(items)))'
      <4>1. i \in 1 .. Len(items) /\ items[i] = cur[u]
        BY DEF Behind
      <4>2. i + 1 \in Behind(cur[u])'
        BY <1>3, <1>10, <3>2, <4>1 DEF Behind
      <4>3. SubSeq(items', i + 1, Len(items')) = SubSeq(items, i, Len(items))
        BY <1>10, <4>1
      <4>4. Elems(SubSeq(items, i + 1, Len(items)))' = Elems(SubSeq(items, i, Len(items)))
        BY <1>1, <4>3 DEF Elems
      <4> QED BY <3>2, <3>3, <4>2, <4>4
    <3> QED BY <3>2, <3>3 DEF Exact
  <2> QED BY <2>1 DEF IterExact, Exact
<1> QED BY <1>13, <1>14, <1>15, <1>16, <1>17, <1>18, <1>19 DEF IInv

-----------------------------------------------------------------------------
(* The exchange of a removal                                               *)

\* No node is twice among the dummy node and the list.
LEMMA AtInjective ==
    ASSUME IInv, NEW i \in 0 .. Len(items), NEW j \in 0 .. Len(items), At(i) = At(j)
    PROVE  i = j
<1>1. items \in Seq(Addr) /\ Len(items) \in Nat
  BY DEF IInv, TypeOK
<1>2. \A m \in 1 .. Len(items) : At(m) = items[m] /\ items[m] # Dummy
  BY <1>1, Addresses DEF At
<1>3. At(0) = Dummy
  BY DEF At
<1>4. CASE i = 0 \/ j = 0
  BY <1>1, <1>2, <1>3, <1>4
<1>5. CASE i # 0 /\ j # 0
  <2>1. i \in 1 .. Len(items) /\ j \in 1 .. Len(items)
    BY <1>1, <1>5
  <2> QED BY <1>2, <2>1 DEF IInv, Nodes
<1> QED BY <1>4, <1>5

\* A removal takes its node out of the list.
LEMMA Unlink ==
    ASSUME IInv, ~clash, NEW t \in Thread, unlink(t)
    PROVE  IInv'
<1> DEFINE c == cur[t]
           n == Len(items)
<1>1. /\ pc[t] = "unlink" /\ next[prev[t]] = c
      /\ next' = [next EXCEPT ![prev[t]] = val[t], ![c] = Null]
      /\ elem' = [elem EXCEPT ![c] = 0] /\ items' = Without(c) /\ taken' = taken \cup {elem[c]}
      /\ live' = live \ {c} /\ clash' = \E u \in Thread \ {t} : Removing(u) \/ Iterating(u)
      /\ pc' = [pc EXCEPT ![t] = "idle"]
      /\ cur' = [cur EXCEPT ![t] = Null] /\ prev' = [prev EXCEPT ![t] = Null]
      /\ val' = [val EXCEPT ![t] = Null] /\ arg' = [arg EXCEPT ![t] = 0]
      /\ pushed' = pushed /\ seen' = seen /\ first' = first
  BY DEF unlink, Return, iteration
<1>2. TypeOK
  BY DEF IInv
<1>3. /\ pc \in [Thread -> {"idle", "push", "exchange", "count", "seek", "found", "unlink", "iter"}]
      /\ next \in [Node -> Addr \cup {Null}] /\ cur \in [Thread -> Node \cup {Null}]
      /\ prev \in [Thread -> Node \cup {Null}] /\ items \in Seq(Addr) /\ n \in Nat
      /\ val \in [Thread -> Addr \cup {Null}] /\ arg \in [Thread -> Nat]
      /\ elem \in [Node -> Nat] /\ taken \in SUBSET Nat
  BY <1>2 DEF TypeOK
<1>4. /\ Listed(c) /\ (prev[t] = Dummy \/ Listed(prev[t])) /\ val[t] = next[c]
  BY <1>1 DEF IInv, Pointers, PointersOf
<1>5. PICK k \in 1 .. n : c = items[k]
  BY <1>4 DEF Listed
<1>6. \A i \in 0 .. n : next[At(i)] = At(i + 1)
  BY DEF IInv, Linked
<1>7. \A i \in 1 .. n : items[i] \in Addr /\ items[i] \in Node /\ items[i] # Null /\ items[i] # Dummy
                        /\ At(i) = items[i]
  BY <1>3, Addresses DEF At
<1>8. prev[t] = At(k - 1) /\ k - 1 \in 0 .. n
  <2>1. PICK i \in 0 .. n : prev[t] = At(i)
    <3>1. CASE prev[t] = Dummy
      BY <1>3, <3>1 DEF At
    <3>2. CASE Listed(prev[t])
      BY <1>3, <1>7, <3>2 DEF Listed
    <3> QED BY <1>4, <3>1, <3>2
  <2>2. At(i + 1) = items[k]
    BY <1>1, <1>5, <1>6, <2>1
  <2>3. i + 1 \in 0 .. n /\ At(k) = items[k]
    BY <1>3, <1>7, <2>2 DEF At
  <2>4. i + 1 = k
    BY <1>3, <2>2, <2>3, AtInjective
  <2> QED BY <1>3, <2>1, <2>4
<1>9. val[t] = At(k + 1) /\ k \in 0 .. n /\ At(k) = c
  BY <1>3, <1>4, <1>5, <1>6, <1>7
<1>10. prev[t] # c /\ prev[t] \in Node /\ c \in Node /\ c \in Addr
  <2>1. k - 1 # k
    BY <1>3
  <2>2. prev[t] # c
    BY <1>8, <1>9, <2>1, AtInjective
  <2> QED BY <1>4, <1>5, <1>7, <2>2, Addresses DEF Listed
<1>11. /\ items' \in Seq(Addr) /\ Len(items') = n - 1
       /\ \A i \in 1 .. n - 1 : items'[i] = IF i < k THEN items[i] ELSE items[i + 1]
  BY <1>1, <1>2, <1>5, WithoutKth DEF IInv
<1>12. \A u \in Thread \ {t} : Kept(u) /\ Pushing(u)' = Pushing(u) /\ cur'[u] = cur[u]
  BY <1>1, <1>3 DEF Kept, Pushing
<1>13. ~Pushing(t) /\ ~Pushing(t)'
  BY <1>1, <1>3 DEF Pushing
<1>14. \A u \in Thread : Pushing(u) => cur[u] \in Addr /\ cur[u] \in live /\ ~Listed(cur[u]) /\ cur[u] # c
  BY <1>4 DEF IInv, Nodes
<1> HIDE DEF c, n
<1>15. \A i \in 1 .. n - 1 : \E j \in 1 .. n :
          j = (IF i < k THEN i ELSE i + 1) /\ j # k /\ items'[i] = items[j]
  BY <1>3, <1>11
<1>16. \A j \in 1 .. n : j # k => \E i \in 1 .. n - 1 : items'[i] = items[j]
  <2> SUFFICES ASSUME NEW j \in 1 .. n, j # k PROVE \E i \in 1 .. n - 1 : items'[i] = items[j]
    OBVIOUS
  <2>1. CASE j < k
    <3>1. j \in 1 .. n - 1
      BY <1>3, <2>1
    <3> QED BY <1>11, <2>1, <3>1
  <2>2. CASE j > k
    <3>1. j - 1 \in 1 .. n - 1 /\ ~(j - 1 < k) /\ (j - 1) + 1 = j
      BY <1>3, <2>2
    <3> QED BY <1>11, <3>1
  <2>3. j < k \/ j > k
    BY <1>3
  <2> QED BY <2>1, <2>2, <2>3
<1>17. \A i, j \in 1 .. n : items[i] = items[j] => i = j
  BY DEF IInv, Nodes, n
<1>18. \A a : (\E i \in 1 .. Len(items') : items'[i] = a) <=> Listed(a) /\ a # c
  <2>1. ASSUME NEW a, \E i \in 1 .. Len(items') : items'[i] = a PROVE Listed(a) /\ a # c
    <3>1. PICK j \in 1 .. n : j # k /\ a = items[j]
      BY <1>11, <1>15, <2>1
    <3> QED BY <1>5, <1>17, <3>1 DEF Listed, n
  <2>2. ASSUME NEW a, Listed(a), a # c PROVE \E i \in 1 .. Len(items') : items'[i] = a
    <3>1. PICK j \in 1 .. n : items[j] = a
      BY <2>2 DEF Listed, n
    <3> QED BY <1>5, <1>11, <1>16, <2>2, <3>1
  <2> QED BY <2>1, <2>2
<1>19. TypeOK'
  <2>1. next' \in [Node -> Addr \cup {Null}] /\ elem' \in [Node -> Nat]
    BY <1>1, <1>3
  <2>2. taken' \in SUBSET Nat /\ live' \in SUBSET Node
    <3>1. elem[c] \in Nat
      BY <1>3, <1>10
    <3> QED BY <1>1, <1>2, <1>3, <3>1 DEF TypeOK
  <2>3. clash' \in BOOLEAN
    BY <1>1, Zenon
  <2>4. pc' \in [Thread -> {"idle", "push", "exchange", "count", "seek", "found", "unlink", "iter"}]
    BY <1>1, <1>3
  <2>5. /\ cur' \in [Thread -> Node \cup {Null}] /\ prev' \in [Thread -> Node \cup {Null}]
        /\ val' \in [Thread -> Addr \cup {Null}] /\ arg' \in [Thread -> Nat]
    BY <1>1, <1>3
  <2>6. \A u \in Thread : pc'[u] = "count" => arg'[u] > 0
    BY <1>1, <1>2, <1>3 DEF TypeOK
  <2> QED BY <1>1, <1>2, <1>11, <2>1, <2>2, <2>3, <2>4, <2>5, <2>6 DEF TypeOK
<1>20. Nodes'
  <2>1. Dummy \in live' /\ \A i \in 1 .. Len(items') : items'[i] \in live'
    <3>1. Dummy # c
      BY <1>5, <1>7
    <3>2. \A i \in 1 .. Len(items') : Listed(items'[i]) /\ items'[i] # c
      BY <1>18
    <3> QED BY <1>1, <3>1, <3>2 DEF IInv, Nodes, Listed
  <2>2. ASSUME NEW i \in 1 .. Len(items'), NEW j \in 1 .. Len(items'), items'[i] = items'[j]
        PROVE  i = j
    <3>1. (IF i < k THEN i ELSE i + 1) = (IF j < k THEN j ELSE j + 1)
      BY <1>11, <1>15, <1>17, <2>2
    <3> QED BY <1>3, <1>11, <3>1
  <2>3. ASSUME NEW u \in Thread, Pushing(u)'
        PROVE  cur'[u] \in Addr /\ cur'[u] \in live' /\ ~Listed(cur[u])'
    <3>1. u # t /\ Pushing(u) /\ cur'[u] = cur[u] /\ cur[u] # c
      BY <1>12, <1>13, <1>14, <2>3
    <3>2. ~Listed(cur[u])' <=> ~(\E i \in 1 .. Len(items') : items'[i] = cur'[u])
      BY DEF Listed
    <3> QED BY <1>1, <1>14, <1>18, <3>1, <3>2
  <2>4. \A u, v \in Thread : Pushing(u)' /\ Pushing(v)' /\ cur'[u] = cur'[v] => u = v
    BY <1>12, <1>13 DEF IInv, Nodes
  <2> QED BY <2>1, <2>2, <2>3, <2>4 DEF Nodes
<1>21. \A a \in Node \ {c} : elem'[a] = elem[a]
  BY <1>1, <1>3
<1>22. \A u \in Thread : Pushing(u) => elem'[cur[u]] = elem[cur[u]]
  BY <1>14, <1>21, Addresses
<1>23. Elements'
  BY <1>12, <1>13, <1>22 DEF IInv, Elements
<1>24. NothingLost'
  <2>1. /\ 1 .. pushed = InList \cup taken \cup Pending
        /\ InList \cap taken = {} /\ InList \cap Pending = {} /\ taken \cap Pending = {}
        /\ \A i, j \in 1 .. n : elem[items[i]] = elem[items[j]] => i = j
    BY DEF IInv, NothingLost, n
  <2>2. Pending' = Pending
    <3>1. \A e : e \in Pending' <=> \E u \in Thread : Pushing(u)' /\ e = elem'[cur'[u]]
      BY DEF Pending, Pushing
    <3>2. \A e : e \in Pending <=> \E u \in Thread : Pushing(u) /\ e = elem[cur[u]]
      BY DEF Pending, Pushing
    <3> QED BY <1>12, <1>13, <1>22, <3>1, <3>2
  <2>3. elem[c] \in InList
    BY <1>5 DEF InList, n
  <2>4. \A i \in 1 .. n - 1 : elem'[items'[i]] = elem[items'[i]]
    <3>1. \A i \in 1 .. n - 1 : items'[i] \in Node \ {c}
      BY <1>7, <1>11, <1>15, <1>18
    <3> QED BY <1>21, <3>1
  <2>5. InList' = InList \ {elem[c]}
    <3>1. \A e : e \in InList' <=> \E i \in 1 .. n - 1 : e = elem[items'[i]]
      BY <1>11, <2>4 DEF InList
    <3>2. \A e : e \in InList <=> \E j \in 1 .. n : e = elem[items[j]]
      BY DEF InList, n
    <3>3. \A j \in 1 .. n : elem[items[j]] = elem[c] <=> j = k
      BY <1>5, <2>1
    <3>4. ASSUME NEW e, e \in InList' PROVE e \in InList /\ e # elem[c]
      <4>1. PICK i \in 1 .. n - 1 : e = elem[items'[i]]
        BY <3>1, <3>4
      <4>2. PICK j \in 1 .. n : j # k /\ items'[i] = items[j]
        BY <1>15
      <4> QED BY <3>2, <3>3, <4>1, <4>2
    <3>5. ASSUME NEW e, e \in InList, e # elem[c] PROVE e \in InList'
      <4>1. PICK j \in 1 .. n : e = elem[items[j]]
        BY <3>2, <3>5
      <4>2. PICK i \in 1 .. n - 1 : items'[i] = items[j]
        BY <1>16, <3>3, <3>5, <4>1
      <4> QED BY <3>1, <4>1, <4>2
    <3> QED BY <3>4, <3>5
  <2>6. 1 .. pushed' = InList' \cup taken' \cup Pending'
    BY <1>1, <2>1, <2>2, <2>3, <2>5
  <2>7. InList' \cap taken' = {} /\ InList' \cap Pending' = {} /\ taken' \cap Pending' = {}
    BY <1>1, <2>1, <2>2, <2>3, <2>5
  <2>8. ASSUME NEW i \in 1 .. Len(items'), NEW j \in 1 .. Len(items'), elem'[items'[i]] = elem'[items'[j]]
        PROVE  i = j
    <3> DEFINE up(m) == IF m < k THEN m ELSE m + 1
    <3>1. /\ up(i) \in 1 .. n /\ items'[i] = items[up(i)]
          /\ up(j) \in 1 .. n /\ items'[j] = items[up(j)]
      BY <1>11, <1>15
    <3>2. elem[items[up(i)]] = elem[items[up(j)]]
      BY <1>11, <2>4, <2>8, <3>1
    <3>3. up(i) = up(j)
      BY <2>1, <3>1, <3>2
    <3> QED BY <1>3, <1>11, <3>3
  <2> QED BY <2>6, <2>7, <2>8 DEF NothingLost
<1>25. Linked'
  <2>1. ASSUME NEW i \in 0 .. n PROVE At(i)' = IF i < k THEN At(i) ELSE At(i + 1)
    <3>1. CASE i = 0
      BY <1>3, <3>1 DEF At
    <3>2. CASE i \in 1 .. n - 1
      <4>1. At(i)' = items'[i]
        BY <1>3, <1>11, <3>2 DEF At
      <4>2. CASE i < k
        <5>1. i \in 1 .. n
          BY <1>3, <3>2
        <5> QED BY <1>7, <1>11, <3>2, <4>1, <4>2, <5>1
      <4>3. CASE ~(i < k)
        <5>1. i + 1 \in 1 .. n
          BY <1>3, <3>2
        <5> QED BY <1>7, <1>11, <3>2, <4>1, <4>3, <5>1
      <4> QED BY <4>2, <4>3
    <3>3. CASE i = n
      BY <1>3, <1>11, <3>3 DEF At, n
    <3> QED BY <1>3, <3>1, <3>2, <3>3
  <2>2. /\ next'[At(k - 1)] = At(k + 1)
        /\ \A a \in Node : a # At(k - 1) /\ a # At(k) => next'[a] = next[a]
    BY <1>1, <1>3, <1>8, <1>9, <1>10
  <2>3. \A i \in 0 .. n : At(i) \in Node
    <3>1. At(0) \in Node
      BY Addresses DEF At
    <3> QED BY <1>3, <1>7, <3>1
  <2>4. \A i, j \in 0 .. n : At(i) = At(j) => i = j
    BY AtInjective DEF n
  <2>5. ASSUME NEW i \in 0 .. n - 1 PROVE next'[At(i)'] = At(i + 1)'
    <3>0. i \in 0 .. n /\ i + 1 \in 0 .. n /\ k \in 0 .. n /\ k - 1 \in 0 .. n
      BY <1>3, <1>8
    <3>1. CASE i < k - 1
      <4>1. At(i)' = At(i) /\ At(i + 1)' = At(i + 1)
        BY <1>3, <2>1, <3>0, <3>1
      <4>2. next'[At(i)] = next[At(i)]
        BY <1>3, <2>2, <2>3, <2>4, <3>0, <3>1
      <4> QED BY <1>6, <3>0, <4>1, <4>2
    <3>2. CASE i = k - 1
      <4>1. At(i)' = At(k - 1) /\ At(i + 1)' = At(k + 1)
        BY <1>3, <2>1, <3>0, <3>2
      <4> QED BY <2>2, <4>1
    <3>3. CASE i >= k
      <4>1. At(i)' = At(i + 1) /\ At(i + 1)' = At(i + 2)
        BY <1>3, <2>1, <3>0, <3>3
      <4>2. next'[At(i + 1)] = next[At(i + 1)]
        BY <1>3, <2>2, <2>3, <2>4, <3>0, <3>3
      <4>3. next[At(i + 1)] = At(i + 2)
        BY <1>3, <1>6, <3>0
      <4> QED BY <4>1, <4>2, <4>3
    <3> QED BY <1>3, <3>1, <3>2, <3>3
  <2> QED BY <1>11, <2>5 DEF Linked
<1>26. ASSUME ~clash', NEW u \in Thread PROVE PointersOf(u)' /\ ~Iterating(u)'
  <2>1. CASE u = t
    BY <1>1, <1>3, <2>1 DEF PointersOf, Removing, Iterating
  <2>2. CASE u # t
    <3>1. ~Removing(u) /\ ~Iterating(u)
      BY <1>1, <1>26, <2>2
    <3>2. PointersOf(u) /\ Kept(u)
      BY <1>12, <2>2 DEF IInv, Pointers
    <3>3. pc[u] = "exchange" => next'[cur[u]] = next[cur[u]]
      <4> SUFFICES ASSUME pc[u] = "exchange" PROVE next'[cur[u]] = next[cur[u]]
        OBVIOUS
      <4>1. cur[u] \in Addr /\ ~Listed(cur[u]) /\ cur[u] # c
        BY <1>14 DEF Pushing
      <4>2. cur[u] # prev[t] /\ cur[u] \in Node
        BY <1>4, <4>1, Addresses
      <4> QED BY <1>1, <1>3, <1>10, <4>1, <4>2
    <3> QED BY <3>1, <3>2, <3>3 DEF PointersOf, Kept, Removing, Iterating
  <2> QED BY <2>1, <2>2
<1>27. Pointers' /\ IterExact'
  BY <1>26 DEF Pointers, IterExact
<1> QED BY <1>19, <1>20, <1>23, <1>24, <1>25, <1>27 DEF IInv

-----------------------------------------------------------------------------
(* The theorems                                                            *)

\* The list is empty at first.
LEMMA InitInv == Init => IInv
<1> SUFFICES ASSUME Init PROVE IInv
  OBVIOUS
<1>1. items = <<>> /\ Len(items) = 0 /\ items \in Seq(Addr) /\ taken = {} /\ pushed = 0
  BY DEF Init
<1>2. TypeOK
  <2>1. /\ next \in [Node -> Addr \cup {Null}] /\ elem \in [Node -> Nat] /\ live \in SUBSET Node
        /\ clash \in BOOLEAN
        /\ pc \in [Thread -> {"idle", "push", "exchange", "count", "seek", "found", "unlink", "iter"}]
        /\ \A t \in Thread : pc[t] # "count"
    BY Addresses DEF Init
  <2>2. /\ cur \in [Thread -> Node \cup {Null}] /\ prev \in [Thread -> Node \cup {Null}]
        /\ val \in [Thread -> Addr \cup {Null}] /\ arg \in [Thread -> Nat]
    BY DEF Init
  <2>3. <<>> \in Seq(Nat)
    OBVIOUS
  <2>4. seen \in [Thread -> Seq(Nat)] /\ first \in [Thread -> Seq(Nat)]
    BY <2>3 DEF Init
  <2> QED BY <1>1, <2>1, <2>2, <2>4 DEF TypeOK
<1>3. \A t \in Thread : pc[t] = "idle" /\ prev[t] = Null /\ ~Pushing(t) /\ ~Removing(t) /\ ~Iterating(t)
  BY DEF Init, Pushing, Removing, Iterating
<1>4. Nodes /\ Elements
  BY <1>1, <1>3 DEF Init, Nodes, Elements
<1>5. Pending = {} /\ InList = {}
  BY <1>1, <1>3 DEF Pending, Pushing, InList
<1>6. NothingLost
  BY <1>1, <1>5 DEF NothingLost
<1>7. Linked
  BY <1>1, Addresses DEF Init, Linked, At
<1>8. Pointers /\ IterExact
  BY <1>3 DEF Pointers, PointersOf, IterExact
<1> QED BY <1>2, <1>4, <1>6, <1>7, <1>8 DEF IInv

\* Every step preserves the invariant.
LEMMA NextInv == IInv /\ [Next]_vars => IInv'
<1> SUFFICES ASSUME IInv, [Next]_vars PROVE IInv'
  OBVIOUS
<1>1. CASE UNCHANGED vars
  <2>1. /\ UNCHANGED <<heap, pushed, history>>
        /\ UNCHANGED <<pc, cur, prev, val, arg, seen, first>>
    BY <1>1 DEF vars, locals, iteration
  <2>2. TypeOK' /\ Pointers'
    BY <2>1 DEF IInv, TypeOK, Pointers, PointersOf, Listed, Removing, heap, history
  <2>3. Nodes' /\ Elements' /\ NothingLost' /\ Linked'
    BY <2>1, Frame DEF Pushing
  <2>4. IterExact'
    <3>1. /\ clash' = clash /\ items' = items /\ elem' = elem /\ pc' = pc /\ cur' = cur
          /\ seen' = seen /\ first' = first
      BY <2>1 DEF heap, history
    <3>2. \A i : Elems(SubSeq(items, i, Len(items)))' = Elems(SubSeq(items, i, Len(items)))
      BY <3>1 DEF Elems
    <3>3. \A u \in Thread : /\ Iterating(u)' = Iterating(u) /\ Behind(cur[u])' = Behind(cur[u])
                            /\ cur'[u] = cur[u] /\ seen'[u] = seen[u] /\ first'[u] = first[u]
      BY <3>1 DEF Iterating, Behind
    <3>4. IterExact
      BY DEF IInv
    <3> QED BY <3>1, <3>2, <3>3, <3>4 DEF IterExact
  <2> QED BY <2>2, <2>3, <2>4 DEF IInv
<1>2. CASE Next
  <2>1. PICK t \in Thread : ~clash /\ (call(t) \/ run(t))
    BY <1>2 DEF Next
  <2>2. CASE push(t)
    BY <2>1, <2>2, Push
  <2>3. CASE push_link(t)
    BY <2>1, <2>3, PushLink
  <2>4. CASE push_done(t)
    BY <2>1, <2>4, PushDone
  <2>5. CASE push_retry(t)
    BY <2>1, <2>5, PushRetry
  <2>6. CASE \/ \E nth \in 1 .. MaxNth : remove_nth(t, nth)
             \/ \E e \in 1 .. MaxPush : remove(t, e)
             \/ step(t) \/ step_end(t) \/ load_new(t) \/ unlink_fails(t)
    BY <2>1, <2>6, SearchSteps
  <2>7. CASE unlink(t)
    BY <2>1, <2>7, Unlink
  <2>8. CASE iter(t) \/ iter_next(t) \/ iter_end(t)
    BY <2>1, <2>8, IterSteps
  <2> QED BY <2>1, <2>2, <2>3, <2>4, <2>5, <2>6, <2>7, <2>8 DEF call, run
<1> QED BY <1>1, <1>2

\* Whatever the threads do, the invariant holds: pushes at any time and any
\* number of failed exchanges included.
THEOREM Invariance == Spec => []IInv
<1>1. Init => IInv
  BY InitInv
<1>2. IInv /\ [Next]_vars => IInv'
  BY NextInv
<1> QED BY <1>1, <1>2, PTL DEF Spec

\* The links lead through the nodes of the list in order, up to the first
\* removal during another removal or an iteration: no compare_exchange of push
\* or remove cuts off or revives a node.
THEOREM ListLinked == Spec => []Linked
<1>1. IInv => Linked
  BY DEF IInv
<1> QED BY <1>1, Invariance, PTL

\* Every pushed element is in the list, was returned by one removal, or is
\* still on its way, although addresses are used again.
THEOREM ElementsKept == Spec => []NothingLost
<1>1. IInv => NothingLost
  BY DEF IInv
<1> QED BY <1>1, Invariance, PTL

\* No thread holds a pointer to a node that is freed, up to the first removal
\* during another removal or an iteration.
THEOREM Safe == Spec => []MemorySafe
<1>1. ASSUME IInv PROVE MemorySafe
  <2> SUFFICES ASSUME ~clash, NEW t \in Thread, pc[t] # "idle", NEW a \in {cur[t], prev[t]}, a # Null
               PROVE  a \in live
    BY DEF MemorySafe, Held
  <2>1. Dummy \in live /\ \A n : Listed(n) => n \in live
    BY <1>1 DEF IInv, Nodes, Listed
  <2>2. PointersOf(t)
    BY <1>1 DEF IInv, Pointers
  <2>3. CASE a = prev[t]
    BY <2>1, <2>2, <2>3 DEF PointersOf
  <2>4. CASE a = cur[t]
    <3>1. CASE Pushing(t)
      BY <1>1, <2>4, <3>1 DEF IInv, Nodes
    <3>2. CASE Removing(t)
      BY <2>1, <2>2, <2>4, <3>2 DEF PointersOf, Removing
    <3>3. CASE Iterating(t)
      <4>1. Behind(cur[t]) # {}
        BY <1>1, <2>4, <3>3 DEF IInv, IterExact
      <4>2. Listed(a)
        BY <2>4, <4>1 DEF Behind, Listed
      <4> QED BY <2>1, <4>2
    <3>4. pc[t] \in {"idle", "push", "exchange", "count", "seek", "found", "unlink", "iter"}
      BY <1>1 DEF IInv, TypeOK
    <3> QED BY <3>1, <3>2, <3>3, <3>4 DEF Pushing, Removing, Iterating
  <2> QED BY <2>3, <2>4
<1> QED BY <1>1, Invariance, PTL

\* An iteration sees exactly what was in the list when it began, in order,
\* however much is pushed in front of it meanwhile.
THEOREM IterationExact == Spec => []IterExact
<1>1. IInv => IterExact
  BY DEF IInv
<1> QED BY <1>1, Invariance, PTL

-----------------------------------------------------------------------------
(* container::search, which walks such lists: it returns a container it    *)
(* should, or nothing because there was none, for any containers and       *)
(* whatever they know.                                                     *)

\* What has been pushed or visited can be reached, and whatever a visited
\* container knew is pushed or visited.
Frontier ==
    /\ Members(containers) \cup visited \subseteq Reach(known)
    /\ root \in Members(containers) \cup visited
    /\ \A v \in visited : Members(before[v]) \subseteq Members(containers) \cup visited
    /\ \A c \in Container : Members(before[c]) \subseteq Members(known[c])

Found ==
    /\ Members(found) = (visited \cap match) \ {avoid}
    /\ done => containers = <<>>
    /\ done /\ found = <<>> => result = None
    /\ done /\ found # <<>> => result \in Members(found)

SearchInv == SearchTypeOK /\ Frontier /\ Found

-----------------------------------------------------------------------------
(* Elements of sequences                                                   *)

\* Popping the stack leaves the other elements.
LEMMA MembersPop ==
    ASSUME NEW S, NEW s \in Seq(S), s # <<>>
    PROVE  /\ s[Len(s)] \in S /\ SubSeq(s, 1, Len(s) - 1) \in Seq(S)
           /\ Members(s) = Members(SubSeq(s, 1, Len(s) - 1)) \cup {s[Len(s)]}
<1> DEFINE t == SubSeq(s, 1, Len(s) - 1)
<1>1. Len(s) \in Nat \ {0} /\ s \in [1 .. Len(s) -> S]
  OBVIOUS
<1>2. t \in Seq(S) /\ Len(t) = Len(s) - 1 /\ \A i \in 1 .. Len(t) : t[i] = s[i]
  BY <1>1
<1> HIDE DEF t
<1>3. Members(t) \cup {s[Len(s)]} \subseteq Members(s)
  BY <1>1, <1>2 DEF Members
<1>4. Members(s) \subseteq Members(t) \cup {s[Len(s)]}
  <2> SUFFICES ASSUME NEW i \in 1 .. Len(s) PROVE s[i] \in Members(t) \cup {s[Len(s)]}
    BY DEF Members
  <2>1. CASE i = Len(s)
    BY <2>1
  <2>2. CASE i # Len(s)
    <3>0. \A n \in Nat : \A k \in 1 .. n : k # n => k \in 1 .. (n - 1)
      OBVIOUS
    <3>1. i \in 1 .. (Len(s) - 1)
      BY <1>1, <2>2, <3>0, Zenon
    <3>2. i \in 1 .. Len(t) /\ t[i] = s[i]
      BY <1>2, <3>1
    <3> QED BY <3>2 DEF Members
  <2> QED BY <2>1, <2>2
<1> QED BY <1>1, <1>2, <1>3, <1>4 DEF t

\* What is pushed is added to the elements.
LEMMA MembersConcat ==
    ASSUME NEW S, NEW s \in Seq(S), NEW t \in Seq(S)
    PROVE  s \o t \in Seq(S) /\ Members(s \o t) = Members(s) \cup Members(t)
<1>1. /\ s \o t \in Seq(S) /\ Len(s) \in Nat /\ Len(t) \in Nat
      /\ Len(s \o t) = Len(s) + Len(t)
      /\ \A i \in 1 .. (Len(s) + Len(t)) :
            (s \o t)[i] = IF i <= Len(s) THEN s[i] ELSE t[i - Len(s)]
  OBVIOUS
<1>2. Members(s \o t) \subseteq Members(s) \cup Members(t)
  <2> SUFFICES ASSUME NEW i \in 1 .. (Len(s) + Len(t))
               PROVE  (s \o t)[i] \in Members(s) \cup Members(t)
    BY <1>1 DEF Members
  <2>1. CASE i <= Len(s)
    BY <1>1, <2>1 DEF Members
  <2>2. CASE i > Len(s)
    <3>1. i - Len(s) \in 1 .. Len(t) /\ (s \o t)[i] = t[i - Len(s)]
      BY <1>1, <2>2
    <3> QED BY <3>1 DEF Members
  <2> QED BY <1>1, <2>1, <2>2
<1>3. Members(s) \subseteq Members(s \o t)
  <2> SUFFICES ASSUME NEW i \in 1 .. Len(s) PROVE s[i] \in Members(s \o t)
    BY DEF Members
  <2>1. i \in 1 .. (Len(s) + Len(t)) /\ (s \o t)[i] = s[i]
    BY <1>1
  <2> QED BY <1>1, <2>1 DEF Members
<1>4. Members(t) \subseteq Members(s \o t)
  <2> SUFFICES ASSUME NEW i \in 1 .. Len(t) PROVE t[i] \in Members(s \o t)
    BY DEF Members
  <2>1. i + Len(s) \in 1 .. (Len(s) + Len(t)) /\ (s \o t)[i + Len(s)] = t[i]
    BY <1>1
  <2> QED BY <1>1, <2>1 DEF Members
<1> QED BY <1>1, <1>2, <1>3, <1>4

\* The stack of the first container.
LEMMA MembersOne ==
    ASSUME NEW S, NEW c \in S
    PROVE  <<c>> \in Seq(S) /\ Members(<<c>>) = {c}
BY DEF Members

\* An empty stack has no elements.
LEMMA MembersEmpty == \A S : <<>> \in Seq(S) /\ Members(<<>>) = {}
BY DEF Members

-----------------------------------------------------------------------------
(* Reachability                                                            *)

\* What a reachable container knows is reachable.
LEMMA ReachClosed ==
    ASSUME SearchTypeOK, NEW c \in Reach(known)
    PROVE  Members(known[c]) \subseteq Reach(known)
<1>1. c \in Container /\ Members(known[c]) \subseteq Container
  BY DEF Reach, SearchTypeOK, Members
<1>2. ASSUME NEW d \in Members(known[c]), NEW S \in SUBSET Container, root \in S, Closed(S, known)
      PROVE  d \in S
  <2>1. c \in S
    BY <1>2 DEF Reach
  <2> QED BY <1>2, <2>1 DEF Closed
<1> QED BY <1>1, <1>2 DEF Reach

-----------------------------------------------------------------------------
(* Every action preserves the invariant                                    *)

\* The search has not begun.
LEMMA SearchInitInv == SearchInit => SearchInv
<1> SUFFICES ASSUME SearchInit PROVE SearchInv
  OBVIOUS
<1>1. SearchTypeOK
  <2>1. known \in [Container -> Seq(Container)]
    BY SearchAssumption DEF SearchInit
  <2>2. <<root>> \in Seq(Container) /\ <<>> \in Seq(Container)
    BY MembersOne, MembersEmpty DEF SearchInit
  <2> QED BY <2>1, <2>2 DEF SearchInit, SearchTypeOK
<1>2. containers = <<root>> /\ Members(containers) = {root}
  BY <1>1, MembersOne DEF SearchInit, SearchTypeOK
<1>3. root \in Reach(known)
  BY <1>1 DEF Reach, SearchTypeOK
<1>4. Frontier
  BY <1>2, <1>3 DEF SearchInit, Frontier
<1>5. Found
  BY MembersEmpty DEF SearchInit, Found
<1> QED BY <1>1, <1>4, <1>5 DEF SearchInv

\* Another thread adds to a list.
LEMMA PushStep ==
    ASSUME SearchInv, NEW c \in Container, NEW ct \in Container, push_known(c, ct)
    PROVE  SearchInv'
<1> USE DEF push_known, args
<1>1. known[c] \in Seq(Container) /\ <<ct>> \in Seq(Container)
  BY DEF SearchInv, SearchTypeOK
<1>2. <<ct>> \o known[c] \in Seq(Container) /\ Members(known[c]) \subseteq Members(<<ct>> \o known[c])
  <2>1. <<ct>> \o known[c] \in Seq(Container)
    BY <1>1, MembersConcat, ZenonT(30)
  <2>2. Members(<<ct>> \o known[c]) = Members(<<ct>>) \cup Members(known[c])
    BY <1>1, MembersConcat, ZenonT(30)
  <2> QED BY <2>1, <2>2, Zenon
<1>3. \A d \in Container : Members(known[d]) \subseteq Members(known'[d])
  BY <1>2 DEF SearchInv, SearchTypeOK
<1>4. Reach(known) \subseteq Reach(known')
  <2> SUFFICES ASSUME NEW d \in Reach(known), NEW S \in SUBSET Container, root \in S,
                      Closed(S, known')
               PROVE  d \in S
    BY DEF Reach
  <2>1. Closed(S, known)
    BY <1>3 DEF Closed
  <2> QED BY <2>1 DEF Reach
<1>5. Reach(known)' = Reach(known')
  BY DEF Reach
<1>6. SearchTypeOK'
  BY <1>2 DEF SearchInv, SearchTypeOK
<1>7. Frontier'
  BY <1>3, <1>4, <1>5 DEF SearchInv, Frontier
<1>8. Found'
  BY DEF SearchInv, Found
<1> QED BY <1>6, <1>7, <1>8 DEF SearchInv

\* A container that was visited is passed over.
LEMMA SkipStep ==
    ASSUME SearchInv, skip
    PROVE  SearchInv'
<1> USE DEF skip, args
<1>1. Rest \in Seq(Container) /\ Members(containers) = Members(Rest) \cup {Top}
  BY MembersPop DEF SearchInv, SearchTypeOK, Rest, Top
<1>2. Members(containers') \cup visited = Members(containers) \cup visited
  BY <1>1
<1>3. Reach(known)' = Reach(known)
  BY DEF Reach
<1>4. SearchTypeOK'
  BY <1>1 DEF SearchInv, SearchTypeOK
<1>5. Frontier'
  BY <1>2, <1>3 DEF SearchInv, Frontier
<1>6. Found'
  BY DEF SearchInv, Found
<1> QED BY <1>4, <1>5, <1>6 DEF SearchInv

\* A container is visited, and what it knows is stacked.
LEMMA VisitStep ==
    ASSUME SearchInv, visit
    PROVE  SearchInv'
<1> USE DEF visit, args
<1>1. /\ Rest \in Seq(Container) /\ Top \in Container
      /\ Members(containers) = Members(Rest) \cup {Top}
  BY MembersPop DEF SearchInv, SearchTypeOK, Rest, Top
<1>2. /\ containers' \in Seq(Container)
      /\ Members(containers') = Members(Rest) \cup Members(known[Top])
  BY <1>1, MembersConcat DEF SearchInv, SearchTypeOK
<1>3. /\ found' \in Seq(Container)
      /\ Members(found') = IF Top # avoid /\ Top \in match THEN Members(found) \cup {Top} ELSE Members(found)
  <2>1. found \in Seq(Container) /\ <<Top>> \in Seq(Container)
    BY <1>1 DEF SearchInv, SearchTypeOK
  <2>2. Append(found, Top) = found \o <<Top>>
    BY <2>1
  <2>3. found \o <<Top>> \in Seq(Container) /\ Members(found \o <<Top>>) = Members(found) \cup {Top}
    <3>1. /\ found \o <<Top>> \in Seq(Container)
          /\ Members(found \o <<Top>>) = Members(found) \cup Members(<<Top>>)
      BY <2>1, MembersConcat, ZenonT(30)
    <3>2. Members(<<Top>>) = {Top}
      BY <1>1, MembersOne, Zenon
    <3> QED BY <3>1, <3>2, Zenon
  <2> QED BY <2>1, <2>2, <2>3
<1>4. Reach(known)' = Reach(known)
  BY DEF Reach
<1>5. Top \in Reach(known) /\ Members(known[Top]) \subseteq Reach(known)
  BY <1>1, ReachClosed DEF SearchInv, Frontier
<1>6. SearchTypeOK'
  BY <1>1, <1>2, <1>3 DEF SearchInv, SearchTypeOK
<1>7. Frontier'
  <2>1. Members(containers') \cup visited' \subseteq Reach(known)
    BY <1>1, <1>2, <1>5 DEF SearchInv, Frontier
  <2>2. Members(containers) \cup visited \subseteq Members(containers') \cup visited'
    BY <1>1, <1>2
  <2>3. \A v \in visited' : Members(before[v]) \subseteq Members(containers') \cup visited'
    BY <1>1, <1>2, <2>2 DEF SearchInv, Frontier
  <2> QED BY <1>4, <2>1, <2>2, <2>3 DEF SearchInv, Frontier
<1>8. Found'
  <2>1. Members(found') = (visited' \cap match) \ {avoid}
    BY <1>3 DEF SearchInv, Found
  <2>2. ~done
    BY DEF SearchInv, Found
  <2> QED BY <2>1, <2>2 DEF Found
<1> QED BY <1>6, <1>7, <1>8 DEF SearchInv

\* The search returns.
LEMMA ReturnStep ==
    ASSUME SearchInv, return
    PROVE  SearchInv'
<1> USE DEF return, args
<1>1. found # <<>> => found[Len(found)] \in Container /\ found[Len(found)] \in Members(found)
  BY MembersPop DEF SearchInv, SearchTypeOK
<1>2. Reach(known)' = Reach(known)
  BY DEF Reach
<1>3. SearchTypeOK'
  BY <1>1 DEF SearchInv, SearchTypeOK
<1>4. Frontier'
  BY <1>2 DEF SearchInv, Frontier
<1>5. Found'
  BY <1>1 DEF SearchInv, Found
<1> QED BY <1>3, <1>4, <1>5 DEF SearchInv

\* Every step preserves the invariant.
LEMMA SearchNextInv == SearchInv /\ [SearchNext]_searchVars => SearchInv'
<1> SUFFICES ASSUME SearchInv, [SearchNext]_searchVars PROVE SearchInv'
  OBVIOUS
<1>1. CASE UNCHANGED searchVars
  BY <1>1 DEF SearchInv, SearchTypeOK, Frontier, Found, Reach, searchVars, args
<1> QED BY <1>1, PushStep, SkipStep, VisitStep, ReturnStep DEF SearchNext, search

\* The invariant gives the property: when the stack is empty, what was visited
\* is closed under what was known at the start.
LEMMA SearchInvCorrect == SearchInv => SearchCorrect
<1> SUFFICES ASSUME SearchInv, done PROVE SearchCorrect
  BY DEF SearchCorrect
<1>1. containers = <<>> /\ Members(containers) = {}
  BY MembersEmpty DEF SearchInv, Found
<1>2. visited \in SUBSET Container /\ root \in visited /\ Closed(visited, before)
  BY <1>1 DEF SearchInv, SearchTypeOK, Frontier, Closed
<1>3. Reach(before) \subseteq visited
  BY <1>2 DEF Reach
<1>4. ASSUME result # None PROVE result \in Wanted(known)
  BY <1>1, <1>4 DEF SearchInv, Frontier, Found, Wanted
<1>5. ASSUME result = None PROVE Wanted(before) = {}
  <2>1. found = <<>>
    BY <1>5, SearchAssumption, MembersPop DEF SearchInv, SearchTypeOK, Found, Members
  <2>2. Members(found) = {}
    BY <2>1, MembersEmpty
  <2> QED BY <1>3, <2>2 DEF SearchInv, Found, Wanted
<1> QED BY <1>4, <1>5 DEF SearchCorrect

\* The invariant of the search: all it has met is reachable, and nothing a
\* visited container knew at the start is forgotten.
THEOREM SearchInvariance == SearchSpec => []SearchInv
<1> QED BY SearchInitInv, SearchNextInv, PTL DEF SearchSpec

\* container::search returns a reachable container with the label, other than
\* the one to avoid, or nothing because there was none when it was called.
THEOREM SearchRight == SearchSpec => []SearchCorrect
<1> QED BY SearchInvariance, SearchInvCorrect, PTL

\* Type correctness of the search.
THEOREM SearchTypeCorrect == SearchSpec => []SearchTypeOK
<1>1. SearchInv => SearchTypeOK
  BY DEF SearchInv
<1> QED BY <1>1, SearchInvariance, PTL
=============================================================================
