-------------------------- MODULE ChunkListProofs --------------------------
(***************************************************************************)
(* Proof that the arena hands out no memory twice and loses none, for any  *)
(* size of the arena and of the header and any layouts: its memory stays   *)
(* tiled by the free chunks and the allocated blocks, every chunk has room *)
(* for its header, and every block is aligned.                             *)
(***************************************************************************)
EXTENDS ChunkList, SequenceTheorems, TLAPS

IInv == TypeOK /\ Tiled /\ HeadersFit

-----------------------------------------------------------------------------
(* Alignment                                                               *)

\* Division with remainder.
LEMMA Division ==
    ASSUME NEW n \in Nat, NEW a \in Nat \ {0}
    PROVE  /\ n \div a \in Nat /\ n % a \in Nat
           /\ n = a * (n \div a) + (n % a) /\ n % a < a
OBVIOUS

\* A multiple has no remainder.
LEMMA Multiple ==
    ASSUME NEW q \in Nat, NEW a \in Nat \ {0}
    PROVE  (q * a) % a = 0
OBVIOUS

\* align_up returns a multiple of the alignment that is not below the address.
LEMMA RoundUp ==
    ASSUME NEW n \in Nat, NEW a \in Nat \ {0}
    PROVE  align_up(n, a) \in Nat /\ align_up(n, a) >= n /\ align_up(n, a) % a = 0
<1>. DEFINE m == n + a - 1
<1>1. m \in Nat
  OBVIOUS
<1>2. m \div a \in Nat /\ m % a \in Nat /\ m = a * (m \div a) + (m % a) /\ m % a < a
  BY <1>1, Division
<1>. QED
  BY <1>1, <1>2, Multiple DEF align_up

\* align_layout keeps the alignment and makes room for a header.
LEMMA LayoutRounded ==
    ASSUME NEW l \in Layouts
    PROVE  /\ align_layout(l) \in [size : Nat, align : Nat \ {0}]
           /\ align_layout(l).align = l.align
           /\ align_layout(l).size >= ChunkSize
<1>1. l \in [size : Nat, align : Nat \ {0}] /\ ChunkSize \in Nat
  BY ChunkListAssumption
<1>. DEFINE m == IF l.size > ChunkSize THEN l.size ELSE ChunkSize
<1>2. m \in Nat /\ m >= ChunkSize
  BY <1>1
<1>3. align_layout(l) = [size |-> align_up(m, l.align), align |-> l.align]
  BY <1>1 DEF align_layout
<1>4. align_up(m, l.align) \in Nat /\ align_up(m, l.align) >= m
  BY <1>1, <1>2, RoundUp
<1>. HIDE DEF m
<1>. QED
  BY <1>1, <1>2, <1>3, <1>4

\* A chunk that can_allocate accepts holds the block, aligned, and what is
\* left of it in front and behind is nothing or has room for a header.
LEMMA BlockFits ==
    ASSUME NEW c \in [start : Nat, size : Nat], NEW l \in [size : Nat, align : Nat \ {0}],
           can_allocate(c, l)
    PROVE  /\ alloc_start(c, l) \in Nat /\ alloc_end(c, l) = alloc_start(c, l) + l.size
           /\ alloc_start(c, l) % l.align = 0
           /\ \/ alloc_start(c, l) = c.start
              \/ alloc_start(c, l) >= c.start + ChunkSize
           /\ \/ alloc_end(c, l) = c.start + c.size
              \/ alloc_end(c, l) + ChunkSize <= c.start + c.size
<1>1. c.start \in Nat /\ c.size \in Nat /\ l.size \in Nat /\ l.align \in Nat \ {0} /\ ChunkSize \in Nat
  BY ChunkListAssumption
<1>2. /\ align_up(c.start + ChunkSize, l.align) \in Nat
      /\ align_up(c.start + ChunkSize, l.align) >= c.start + ChunkSize
      /\ align_up(c.start + ChunkSize, l.align) % l.align = 0
  BY <1>1, RoundUp
<1>3. /\ alloc_start(c, l) \in Nat /\ alloc_start(c, l) % l.align = 0
      /\ alloc_start(c, l) = c.start \/ alloc_start(c, l) >= c.start + ChunkSize
  BY <1>1, <1>2 DEF alloc_start
<1>. QED
  BY <1>1, <1>3 DEF alloc_end, can_allocate

-----------------------------------------------------------------------------
(* Replacing a chunk of the list by those in front of and behind a block   *)

\* At most one chunk.
LEMMA AtMostOne ==
    ASSUME NEW C, NEW x, NEW s, s = <<>> \/ (s = <<x>> /\ x \in C)
    PROVE  /\ s \in Seq(C) /\ Len(s) \in {0, 1}
           /\ Len(s) = 1 => s[1] = x
           /\ s = <<x>> <=> Len(s) = 1
<1>1. CASE s = <<>>
  BY <1>1
<1>2. CASE s = <<x>> /\ x \in C
  <2>1. <<x>> \in Seq(C) /\ Len(<<x>>) = 1 /\ <<x>>[1] = x
    BY <1>2
  <2>. QED
    BY <1>2, <2>1
<1>. QED
  BY <1>1, <1>2

\* The elements of a concatenation.
LEMMA Joined ==
    ASSUME NEW C, NEW s \in Seq(C), NEW t \in Seq(C), NEW r, r = s \o t
    PROVE  /\ r \in Seq(C) /\ Len(r) = Len(s) + Len(t)
           /\ \A k \in 1 .. Len(s) : r[k] = s[k]
           /\ \A k \in 1 .. Len(t) : r[Len(s) + k] = t[k]
OBVIOUS

\* The list that pop_first_fit leaves: chunk i of s is replaced by f and b.
With(s, i, f, b) == SubSeq(s, 1, i - 1) \o f \o b \o SubSeq(s, i + 1, Len(s))

\* What the elements of that list are.
IsWith(r, s, i, f, b) ==
    /\ Len(r) = Len(s) - 1 + (Len(f) + Len(b))
    /\ \A k \in 1 .. (i - 1) : r[k] = s[k]
    /\ \A k \in 1 .. Len(f) : r[i - 1 + k] = f[k]
    /\ \A k \in 1 .. Len(b) : r[i - 1 + Len(f) + k] = b[k]
    /\ \A k \in (i + 1) .. Len(s) : r[k - 1 + (Len(f) + Len(b))] = s[k]

\* The list With has the elements that IsWith says.
LEMMA Replaced ==
    ASSUME NEW C, NEW s \in Seq(C), NEW i \in 1 .. Len(s),
           NEW f \in Seq(C), NEW b \in Seq(C)
    PROVE  With(s, i, f, b) \in Seq(C) /\ IsWith(With(s, i, f, b), s, i, f, b)
<1>. DEFINE r == With(s, i, f, b)
<1>1. r = With(s, i, f, b)
  OBVIOUS
<1>. HIDE DEF r
<1>. DEFINE p == SubSeq(s, 1, i - 1)
            q == SubSeq(s, i + 1, Len(s))
<1>2. Len(s) \in Nat /\ i \in Nat /\ 1 <= i /\ i <= Len(s) /\ Len(f) \in Nat /\ Len(b) \in Nat
  BY LenProperties
<1>3. p \in Seq(C) /\ Len(p) = i - 1 /\ \A k \in 1 .. (i - 1) : p[k] = s[k]
  BY <1>2, SubSeqProperties
<1>4. q \in Seq(C) /\ Len(q) = Len(s) - i /\ \A k \in 1 .. (Len(s) - i) : q[k] = s[i + k]
  BY <1>2, SubSeqProperties
<1>. HIDE DEF p, q
<1>. DEFINE u == p \o f
            v == u \o b
<1>5. r = v \o q
  BY <1>1 DEF p, q, With
<1>6. u = p \o f /\ p \in Seq(C)
  BY <1>3
<1>7. v = u \o b
  OBVIOUS
<1>. HIDE DEF u, v
<1>8. /\ u \in Seq(C) /\ Len(u) = Len(p) + Len(f)
      /\ \A k \in 1 .. Len(p) : u[k] = p[k]
      /\ \A k \in 1 .. Len(f) : u[Len(p) + k] = f[k]
  BY <1>6, Joined
<1>9. /\ v \in Seq(C) /\ Len(v) = Len(u) + Len(b)
      /\ \A k \in 1 .. Len(u) : v[k] = u[k]
      /\ \A k \in 1 .. Len(b) : v[Len(u) + k] = b[k]
  <2>1. u \in Seq(C)
    BY <1>8
  <2>. QED
    BY <1>7, <2>1, Joined
<1>10. /\ r \in Seq(C) /\ Len(r) = Len(v) + Len(q)
       /\ \A k \in 1 .. Len(v) : r[k] = v[k]
       /\ \A k \in 1 .. Len(q) : r[Len(v) + k] = q[k]
  <2>1. v \in Seq(C) /\ q \in Seq(C)
    BY <1>4, <1>9
  <2>. QED
    BY <1>5, <2>1, Joined
<1>11. \A k \in 1 .. (i - 1) : r[k] = s[k]
  <2>. TAKE k \in 1 .. (i - 1)
  <2>1. k \in 1 .. Len(p) /\ k \in 1 .. Len(u) /\ k \in 1 .. Len(v)
    BY <1>2, <1>3, <1>8, <1>9
  <2>. QED
    BY <1>3, <1>8, <1>9, <1>10, <2>1
<1>12. \A k \in 1 .. Len(f) : r[i - 1 + k] = f[k]
  <2>. TAKE k \in 1 .. Len(f)
  <2>1. i - 1 + k \in 1 .. Len(u) /\ i - 1 + k \in 1 .. Len(v) /\ i - 1 + k = Len(p) + k
    BY <1>2, <1>3, <1>8, <1>9
  <2>. QED
    BY <1>8, <1>9, <1>10, <2>1, SMTT(30)
<1>13. \A k \in 1 .. Len(b) : r[i - 1 + Len(f) + k] = b[k]
  <2>. TAKE k \in 1 .. Len(b)
  <2>1. i - 1 + Len(f) + k \in 1 .. Len(v) /\ i - 1 + Len(f) + k = Len(u) + k
    BY <1>2, <1>3, <1>8, <1>9, SMTT(30)
  <2>. QED
    BY <1>9, <1>10, <2>1
<1>14. \A k \in (i + 1) .. Len(s) : r[k - 1 + (Len(f) + Len(b))] = s[k]
  <2>. TAKE k \in (i + 1) .. Len(s)
  <2>1. k - i \in 1 .. Len(q) /\ i + (k - i) = k /\ k \in Nat
    BY <1>2, <1>4
  <2>2. r[Len(v) + (k - i)] = q[k - i]
    <3>1. \A j \in 1 .. Len(q) : r[Len(v) + j] = q[j]
      BY <1>10
    <3>. QED
      BY <2>1, <3>1, Zenon
  <2>3. q[k - i] = s[i + (k - i)]
    BY <1>4, <2>1
  <2>4. Len(v) + (k - i) = k - 1 + (Len(f) + Len(b))
    <3>1. Len(p) = i - 1 /\ Len(u) = Len(p) + Len(f) /\ Len(v) = Len(u) + Len(b)
      BY <1>3, <1>8, <1>9
    <3>2. Len(f) \in Nat /\ Len(b) \in Nat /\ i \in Nat /\ k \in Nat
      BY <1>2, <2>1
    <3>. QED
      BY <3>1, <3>2
  <2>. QED
    BY <2>1, <2>2, <2>3, <2>4
<1>15. Len(r) = Len(s) - 1 + (Len(f) + Len(b))
  <2>1. Len(p) = i - 1 /\ Len(q) = Len(s) - i
    BY <1>3, <1>4
  <2>2. Len(u) = Len(p) + Len(f) /\ Len(v) = Len(u) + Len(b) /\ Len(r) = Len(v) + Len(q)
    BY <1>8, <1>9, <1>10
  <2>. QED
    BY <1>2, <2>1, <2>2
<1>. QED
  BY <1>1, <1>2, <1>10, <1>11, <1>12, <1>13, <1>14, <1>15 DEF IsWith

-----------------------------------------------------------------------------
(* Allocation                                                              *)

\* What is left of the chunk in front of the block, and behind it.
Front(c, l) == Chunk(c.start, alloc_start(c, l) - c.start)
Back(c, l) == Chunk(alloc_end(c, l), c.start + c.size - alloc_end(c, l))

\* The chunk that is split is tiled by the block and what is left of it.
LEMMA SplitTiles ==
    ASSUME NEW c \in [start : Nat, size : Nat], NEW l \in [size : Nat, align : Nat \ {0}],
           can_allocate(c, l), l.size >= ChunkSize
    PROVE  /\ split(c, l).ptr \in Nat /\ split(c, l).ptr % l.align = 0
           /\ Words(split(c, l).ptr, l.size) # {} /\ Words(split(c, l).ptr, l.size) \subseteq Words(c.start, c.size)
           /\ split(c, l).front = <<>> \/ split(c, l).front = <<Front(c, l)>>
           /\ split(c, l).back = <<>> \/ split(c, l).back = <<Back(c, l)>>
           /\ split(c, l).front = <<Front(c, l)>> => Front(c, l) \in [start : Nat, size : Nat] /\ Front(c, l).size >= ChunkSize
           /\ split(c, l).back = <<Back(c, l)>> => Back(c, l) \in [start : Nat, size : Nat] /\ Back(c, l).size >= ChunkSize
           /\ Words(Front(c, l).start, Front(c, l).size) \subseteq Words(c.start, c.size)
           /\ Words(Front(c, l).start, Front(c, l).size) \cap Words(split(c, l).ptr, l.size) = {}
           /\ Words(Back(c, l).start, Back(c, l).size) \subseteq Words(c.start, c.size)
           /\ Words(Back(c, l).start, Back(c, l).size) \cap Words(split(c, l).ptr, l.size) = {}
           /\ Words(Front(c, l).start, Front(c, l).size) \cap Words(Back(c, l).start, Back(c, l).size) = {}
           /\ \A w \in Words(c.start, c.size) :
                  \/ w \in Words(split(c, l).ptr, l.size)
                  \/ split(c, l).front = <<Front(c, l)>> /\ w \in Words(Front(c, l).start, Front(c, l).size)
                  \/ split(c, l).back = <<Back(c, l)>> /\ w \in Words(Back(c, l).start, Back(c, l).size)
<1>. DEFINE a == alloc_start(c, l)
            e == alloc_end(c, l)
            s == split(c, l)
            front == Front(c, l)
            back == Back(c, l)
<1>1. /\ a = alloc_start(c, l) /\ e = alloc_end(c, l) /\ s = split(c, l)
      /\ front = Chunk(c.start, a - c.start) /\ back = Chunk(e, c.start + c.size - e)
  BY Zenon DEF Front, Back
<1>. HIDE DEF a, e, s, front, back
<1>. DEFINE end == c.start + c.size
<1>2. c.start \in Nat /\ c.size \in Nat /\ l.size \in Nat /\ ChunkSize \in Nat /\ ChunkSize > 0
  BY ChunkListAssumption
<1>3. /\ a \in Nat /\ e = a + l.size /\ a % l.align = 0
      /\ a = c.start \/ a >= c.start + ChunkSize
      /\ e = end \/ e + ChunkSize <= end
  BY <1>1, BlockFits
<1>4. /\ s.ptr = a /\ s.front = (IF a = c.start THEN <<>> ELSE <<front>>)
      /\ s.back = (IF e = end THEN <<>> ELSE <<back>>)
  <2>1. s = [ptr |-> a, front |-> IF a = c.start THEN <<>> ELSE <<Chunk(c.start, a - c.start)>>,
             back |-> IF e = c.start + c.size THEN <<>> ELSE <<Chunk(e, c.start + c.size - e)>>]
    BY <1>1, Zenon DEF split
  <2>2. s.ptr = a
    BY <2>1, Zenon
  <2>3. s.front = IF a = c.start THEN <<>> ELSE <<Chunk(c.start, a - c.start)>>
    BY <2>1, Zenon
  <2>4. s.back = IF e = c.start + c.size THEN <<>> ELSE <<Chunk(e, c.start + c.size - e)>>
    BY <2>1, Zenon
  <2>5. s.front = IF a = c.start THEN <<>> ELSE <<front>>
    <3>1. front = Chunk(c.start, a - c.start)
      BY <1>1
    <3>. QED
      BY <2>3, <3>1
  <2>6. s.back = IF e = end THEN <<>> ELSE <<back>>
    <3>1. end = c.start + c.size
      OBVIOUS
    <3>2. back = Chunk(e, c.start + c.size - e)
      BY <1>1, Zenon
    <3>3. s.back = IF e = c.start + c.size THEN <<>> ELSE <<back>>
      BY <2>4, <3>2
    <3>. QED
      BY <3>1, <3>3, Zenon
  <2>. QED
    BY <2>2, <2>5, <2>6
<1>5. front = [start |-> c.start, size |-> a - c.start] /\ back = [start |-> e, size |-> c.start + c.size - e]
  BY <1>1, Zenon DEF Chunk
<1>6. end = c.start + c.size
  OBVIOUS
<1>. HIDE DEF end
<1>7. /\ s.ptr = a
      /\ s.front = <<front>> <=> a # c.start
      /\ s.back = <<back>> <=> e # end
      /\ s.front = <<>> <=> a = c.start
      /\ s.back = <<>> <=> e = end
  BY <1>4
<1>8. /\ Words(a, l.size) = a .. (e - 1) /\ Words(c.start, c.size) = c.start .. (end - 1)
      /\ Words(front.start, front.size) = c.start .. (a - 1) /\ Words(back.start, back.size) = e .. (end - 1)
  <2>1. front.start + front.size - 1 = a - 1 /\ back.start + back.size - 1 = end - 1
    BY <1>2, <1>3, <1>5, <1>6
  <2>2. front.start = c.start /\ back.start = e
    BY <1>5
  <2>. QED
    BY <1>3, <1>6, <2>1, <2>2 DEF Words
<1>9. s.front = <<front>> => front \in [start : Nat, size : Nat] /\ front.size >= ChunkSize
  BY <1>2, <1>3, <1>5, <1>7, SMTT(30)
<1>10. s.back = <<back>> => back \in [start : Nat, size : Nat] /\ back.size >= ChunkSize
  <2>1. e # end => e \in Nat /\ end - e \in Nat /\ end - e >= ChunkSize
    BY <1>2, <1>3, <1>6
  <2>. QED
    BY <1>5, <1>6, <1>7, <2>1
<1>11. /\ a \in Nat /\ e \in Nat /\ end \in Nat /\ c.start \in Nat
       /\ c.start <= a /\ a < e /\ e <= end
  BY <1>2, <1>3, <1>6
<1>12. Words(a, l.size) # {} /\ Words(a, l.size) \subseteq Words(c.start, c.size)
  <2>1. a \in a .. (e - 1)
    BY <1>11
  <2>2. a .. (e - 1) \subseteq c.start .. (end - 1)
    BY <1>11
  <2>. QED
    BY <1>8, <2>1, <2>2
<1>13. /\ Words(front.start, front.size) \subseteq Words(c.start, c.size)
       /\ Words(front.start, front.size) \cap Words(a, l.size) = {}
       /\ Words(back.start, back.size) \subseteq Words(c.start, c.size)
       /\ Words(back.start, back.size) \cap Words(a, l.size) = {}
       /\ Words(front.start, front.size) \cap Words(back.start, back.size) = {}
  BY <1>8, <1>11
<1>14. \A w \in Words(c.start, c.size) :
          \/ w \in Words(a, l.size)
          \/ s.front = <<front>> /\ w \in Words(front.start, front.size)
          \/ s.back = <<back>> /\ w \in Words(back.start, back.size)
  <2>1. \A w \in c.start .. (end - 1) : w \in a .. (e - 1) \/ w \in c.start .. (a - 1) \/ w \in e .. (end - 1)
    BY <1>11
  <2>2. (a = c.start => c.start .. (a - 1) = {}) /\ (e = end => e .. (end - 1) = {})
    BY <1>11
  <2>. QED
    BY <1>7, <1>8, <2>1, <2>2
<1>. QED
  <2>1. s.front = <<>> \/ s.front = <<front>>
    BY <1>7
  <2>2. s.back = <<>> \/ s.back = <<back>>
    BY <1>7
  <2>3. s.ptr \in Nat /\ s.ptr % l.align = 0
    BY <1>3, <1>7
  <2>4. s.ptr = a
    BY <1>7
  <2>. QED
    BY <1>9, <1>10, <1>12, <1>13, <1>14, <2>1, <2>2, <2>3, <2>4 DEF s, front, back

\* Allocating splits one chunk, and every other chunk stays.
LEMMA AllocateInv ==
    ASSUME IInv, NEW asked \in Layouts, allocate(asked)
    PROVE  IInv'
<1>. DEFINE C == [start : Nat, size : Nat]
            l == align_layout(asked)
<1>1. PICK i \in Fitting(l) :
         /\ chunks' = SubSeq(chunks, 1, i - 1) \o split(chunks[i], l).front \o split(chunks[i], l).back
                      \o SubSeq(chunks, i + 1, Len(chunks))
         /\ live' = live \cup {[ptr |-> split(chunks[i], l).ptr, layout |-> asked]}
  BY Zenon DEF allocate
<1>. DEFINE c == chunks[i]
            s == split(c, l)
            front == Front(c, l)
            back == Back(c, l)
            block == [ptr |-> s.ptr, layout |-> asked]
<1>2. /\ l \in [size : Nat, align : Nat \ {0}] /\ l.align = asked.align /\ l.size >= ChunkSize
  BY LayoutRounded
<1>3. chunks \in Seq(C) /\ Len(chunks) \in Nat /\ live \subseteq [ptr : Nat, layout : Layouts]
  BY DEF IInv, TypeOK
<1>4. i \in 1 .. Len(chunks) /\ can_allocate(c, l)
  BY DEF Fitting
<1>5. c \in C
  <2>. HIDE DEF C
  <2>. QED
    BY <1>3, <1>4, ElementOfSeq
<1>6. /\ s.ptr \in Nat /\ s.ptr % l.align = 0
      /\ Words(s.ptr, l.size) # {} /\ Words(s.ptr, l.size) \subseteq Words(c.start, c.size)
      /\ s.front = <<>> \/ s.front = <<front>>
      /\ s.back = <<>> \/ s.back = <<back>>
      /\ s.front = <<front>> => front \in C /\ front.size >= ChunkSize
      /\ s.back = <<back>> => back \in C /\ back.size >= ChunkSize
      /\ Words(front.start, front.size) \subseteq Words(c.start, c.size)
      /\ Words(front.start, front.size) \cap Words(s.ptr, l.size) = {}
      /\ Words(back.start, back.size) \subseteq Words(c.start, c.size)
      /\ Words(back.start, back.size) \cap Words(s.ptr, l.size) = {}
      /\ Words(front.start, front.size) \cap Words(back.start, back.size) = {}
      /\ \A w \in Words(c.start, c.size) :
            \/ w \in Words(s.ptr, l.size)
            \/ s.front = <<front>> /\ w \in Words(front.start, front.size)
            \/ s.back = <<back>> /\ w \in Words(back.start, back.size)
  <2>. HIDE DEF c, l
  <2>. QED
    BY <1>2, <1>4, <1>5, SplitTiles, Zenon
<1>7. /\ chunks' = SubSeq(chunks, 1, i - 1) \o s.front \o s.back \o SubSeq(chunks, i + 1, Len(chunks))
      /\ live' = live \cup {block}
  BY <1>1
<1>. HIDE DEF l, c, s, front, back, block
<1>8. /\ s.front \in Seq(C) /\ Len(s.front) \in {0, 1}
      /\ Len(s.front) = 1 => s.front[1] = front
      /\ s.front = <<front>> <=> Len(s.front) = 1
      /\ s.back \in Seq(C) /\ Len(s.back) \in {0, 1}
      /\ Len(s.back) = 1 => s.back[1] = back
      /\ s.back = <<back>> <=> Len(s.back) = 1
  <2>1. s.front = <<>> \/ (s.front = <<front>> /\ front \in C)
    BY <1>6
  <2>2. s.back = <<>> \/ (s.back = <<back>> /\ back \in C)
    BY <1>6
  <2>. HIDE DEF C
  <2>3. /\ s.front \in Seq(C) /\ Len(s.front) \in {0, 1}
        /\ Len(s.front) = 1 => s.front[1] = front
        /\ s.front = <<front>> <=> Len(s.front) = 1
    BY <2>1, AtMostOne
  <2>4. /\ s.back \in Seq(C) /\ Len(s.back) \in {0, 1}
        /\ Len(s.back) = 1 => s.back[1] = back
        /\ s.back = <<back>> <=> Len(s.back) = 1
    BY <2>2, AtMostOne
  <2>. QED
    BY <2>3, <2>4
<1>. DEFINE nf == Len(s.front)
            nb == Len(s.back)
<1>9. nf \in {0, 1} /\ nb \in {0, 1} /\ i \in Nat /\ 1 <= i /\ i <= Len(chunks)
  BY <1>3, <1>4, <1>8
<1>10. /\ chunks' \in Seq(C) /\ Len(chunks') = Len(chunks) - 1 + (nf + nb)
       /\ \A k \in 1 .. (i - 1) : chunks'[k] = chunks[k]
       /\ \A k \in 1 .. nf : chunks'[i - 1 + k] = s.front[k]
       /\ \A k \in 1 .. nb : chunks'[i - 1 + nf + k] = s.back[k]
       /\ \A k \in (i + 1) .. Len(chunks) : chunks'[k - 1 + (nf + nb)] = chunks[k]
  <2>1. chunks \in Seq(C) /\ s.front \in Seq(C) /\ s.back \in Seq(C)
    BY <1>3, <1>8
  <2>2. chunks' = With(chunks, i, s.front, s.back)
    BY <1>7 DEF With
  <2>3. i \in 1 .. Len(chunks)
    BY <1>4
  <2>. HIDE DEF C
  <2>4. chunks' \in Seq(C) /\ IsWith(chunks', chunks, i, s.front, s.back)
    BY <2>1, <2>2, <2>3, Replaced, Zenon
  <2>. QED
    BY <2>4 DEF IsWith
<1>. HIDE DEF nf, nb
\* The chunk of the old list that every chunk of the new one is, or is part of.
<1>. DEFINE From(k) == IF k < i THEN k ELSE IF k < i + nf + nb THEN i ELSE k - (nf + nb) + 1
            W(x) == Words(x.start, x.size)
<1>11. \A k \in 1 .. Len(chunks') :
          /\ From(k) \in 1 .. Len(chunks)
          /\ From(k) # i => chunks'[k] = chunks[From(k)]
          /\ From(k) = i => \/ k = i /\ nf = 1 /\ chunks'[k] = front
                            \/ k = i + nf /\ nb = 1 /\ chunks'[k] = back
  <2>. TAKE k \in 1 .. Len(chunks')
  <2>1. k \in Nat /\ 1 <= k /\ k <= Len(chunks) - 1 + (nf + nb)
    BY <1>3, <1>9, <1>10
  <2>2. CASE k < i
    <3>1. k \in 1 .. (i - 1)
      BY <1>9, <2>1, <2>2
    <3>. QED
      BY <1>3, <1>9, <1>10, <2>1, <2>2, <3>1
  <2>3. CASE k >= i /\ k < i + nf + nb
    <3>1. CASE nf = 1 /\ k = i
      <4>1. chunks'[i - 1 + 1] = s.front[1] /\ i - 1 + 1 = i
        BY <1>9, <1>10, <3>1
      <4>. QED
        BY <1>8, <1>9, <2>3, <3>1, <4>1, SMTT(30) DEF nf
    <3>2. CASE nb = 1 /\ k = i + nf
      <4>1. chunks'[i - 1 + nf + 1] = s.back[1] /\ i - 1 + nf + 1 = i + nf
        BY <1>9, <1>10, <3>2
      <4>. QED
        BY <1>8, <1>9, <2>3, <3>2, <4>1 DEF nb
    <3>. QED
      BY <1>9, <2>1, <2>3, <3>1, <3>2
  <2>4. CASE k >= i + nf + nb
    <3>1. k - (nf + nb) + 1 \in (i + 1) .. Len(chunks) /\ (k - (nf + nb) + 1) - 1 + (nf + nb) = k
      BY <1>3, <1>9, <2>1, <2>4
    <3>2. chunks'[k] = chunks[k - (nf + nb) + 1]
      BY <1>10, <3>1
    <3>. QED
      BY <1>9, <2>1, <2>4, <3>1, <3>2
  <2>. QED
    BY <1>9, <2>1, <2>2, <2>3, <2>4
<1>12. Len(chunks) \in Nat /\ Len(chunks') \in Nat /\ Len(chunks') = Len(chunks) - 1 + (nf + nb)
  <2>1. Len(chunks') = Len(chunks) - 1 + (nf + nb)
    BY <1>10
  <2>. QED
    BY <1>3, <1>9, <2>1
<1>13. \A k, m \in 1 .. Len(chunks') : k # m /\ From(k) = From(m) => From(k) = i
  <2>1. \A k, m \in Nat : k # m /\ From(k) = From(m) => From(k) = i
    BY <1>9
  <2>. QED
    BY <1>12, <2>1
<1>14. \A j \in 1 .. Len(chunks) : j # i => \E k \in 1 .. Len(chunks') : chunks'[k] = chunks[j]
  <2>. TAKE j \in 1 .. Len(chunks)
  <2>1. CASE j < i
    <3>1. j \in 1 .. (i - 1) /\ j \in 1 .. Len(chunks')
      BY <1>9, <1>12, <2>1
    <3>. QED
      BY <1>10, <3>1
  <2>2. CASE j > i
    <3>1. j \in (i + 1) .. Len(chunks) /\ j - 1 + (nf + nb) \in 1 .. Len(chunks')
      BY <1>9, <1>12, <2>2
    <3>. QED
      BY <1>10, <3>1
  <2>. QED
    BY <1>9, <2>1, <2>2
<1>15. nf = 1 => i \in 1 .. Len(chunks') /\ chunks'[i] = front
  <2>1. SUFFICES ASSUME nf = 1
                 PROVE  i \in 1 .. Len(chunks') /\ chunks'[i] = front
    OBVIOUS
  <2>2. chunks'[i - 1 + 1] = s.front[1] /\ i - 1 + 1 = i
    BY <1>9, <1>10, <2>1
  <2>3. i \in 1 .. Len(chunks')
    BY <1>9, <1>12, <2>1
  <2>. QED
    BY <1>8, <2>1, <2>2, <2>3 DEF nf
<1>16. nb = 1 => i + nf \in 1 .. Len(chunks') /\ chunks'[i + nf] = back
  <2>1. SUFFICES ASSUME nb = 1
                 PROVE  i + nf \in 1 .. Len(chunks') /\ chunks'[i + nf] = back
    OBVIOUS
  <2>2. chunks'[i - 1 + nf + 1] = s.back[1] /\ i - 1 + nf + 1 = i + nf
    BY <1>9, <1>10, <2>1
  <2>3. i + nf \in 1 .. Len(chunks')
    BY <1>9, <1>12, <2>1
  <2>. QED
    BY <1>8, <2>1, <2>2, <2>3 DEF nb
<1>. HIDE DEF From
<1>. DEFINE Handed == Words(s.ptr, l.size)
<1>17. /\ Handed # {} /\ Handed \subseteq W(c)
       /\ W(front) \subseteq W(c) /\ W(front) \cap Handed = {}
       /\ W(back) \subseteq W(c) /\ W(back) \cap Handed = {}
       /\ W(front) \cap W(back) = {}
       /\ \A w \in W(c) : w \in Handed \/ (nf = 1 /\ w \in W(front)) \/ (nb = 1 /\ w \in W(back))
  BY <1>6, <1>8, Zenon DEF nf, nb
<1>18. BlockWords(block) = Handed /\ block \in [ptr : Nat, layout : Layouts] /\ block.ptr % block.layout.align = 0
  <2>1. block.ptr = s.ptr /\ block.layout = asked
    BY DEF block
  <2>2. BlockWords(block) = Handed
    BY <2>1 DEF BlockWords, l
  <2>3. block \in [ptr : Nat, layout : Layouts]
    BY <1>6 DEF block
  <2>. QED
    BY <1>2, <1>6, <2>1, <2>2, <2>3
<1>. HIDE DEF W, Handed
<1>19. /\ \A k \in 1 .. Len(chunks) : ChunkWords(k) = W(chunks[k])
       /\ \A k \in 1 .. Len(chunks') : ChunkWords(k)' = W(chunks'[k])
       /\ c = chunks[i]
  BY DEF ChunkWords, W, c
<1>20. \A k \in 1 .. Len(chunks') :
          /\ W(chunks'[k]) \subseteq W(chunks[From(k)])
          /\ From(k) = i => W(chunks'[k]) \cap Handed = {}
  BY <1>11, <1>17, <1>19
<1>21. /\ \A j, k \in 1 .. Len(chunks) : j # k => W(chunks[j]) \cap W(chunks[k]) = {}
       /\ \A b, d \in live : b # d => BlockWords(b) \cap BlockWords(d) = {}
       /\ \A k \in 1 .. Len(chunks), b \in live : W(chunks[k]) \cap BlockWords(b) = {}
  BY <1>19 DEF IInv, Tiled
<1>22. /\ \A w \in Words(Start, Size) : \/ \E k \in 1 .. Len(chunks) : w \in W(chunks[k])
                                        \/ \E b \in live : w \in BlockWords(b)
       /\ \A k \in 1 .. Len(chunks) : W(chunks[k]) \subseteq Words(Start, Size)
       /\ \A b \in live : BlockWords(b) \subseteq Words(Start, Size)
  <2>1. Words(Start, Size) = (UNION {ChunkWords(k) : k \in 1 .. Len(chunks)}) \cup (UNION {BlockWords(b) : b \in live})
    BY DEF IInv, Tiled
  <2>2. {ChunkWords(k) : k \in 1 .. Len(chunks)} = {W(chunks[k]) : k \in 1 .. Len(chunks)}
    BY <1>19, Zenon
  <2>3. \A w : w \in Words(Start, Size) <=> \/ \E k \in 1 .. Len(chunks) : w \in W(chunks[k])
                                            \/ \E b \in live : w \in BlockWords(b)
    <3>. DEFINE A == {W(chunks[k]) : k \in 1 .. Len(chunks)}
                B == {BlockWords(b) : b \in live}
    <3>1. Words(Start, Size) = (UNION A) \cup (UNION B)
      BY <2>1, <2>2, Zenon
    <3>2. \A X : X \in A <=> \E k \in 1 .. Len(chunks) : X = W(chunks[k])
      OBVIOUS
    <3>3. \A X : X \in B <=> \E b \in live : X = BlockWords(b)
      OBVIOUS
    <3>. HIDE DEF A, B
    <3>. QED
      BY <3>1, <3>2, <3>3, SMT
  <2>. QED
    BY <2>3, SMT
<1>23. /\ \A k, m \in 1 .. Len(chunks') : k # m => W(chunks'[k]) \cap W(chunks'[m]) = {}
  <2>1. SUFFICES ASSUME NEW k \in 1 .. Len(chunks'), NEW m \in 1 .. Len(chunks'), k # m
                 PROVE  W(chunks'[k]) \cap W(chunks'[m]) = {}
    OBVIOUS
  <2>2. CASE From(k) # From(m)
    <3>1. From(k) \in 1 .. Len(chunks) /\ From(m) \in 1 .. Len(chunks)
      BY <1>11
    <3>. QED
      BY <1>20, <1>21, <2>2, <3>1
  <2>3. CASE From(k) = From(m)
    <3>1. From(k) = i /\ From(m) = i
      BY <1>13, <2>1, <2>3
    <3>. QED
      BY <1>11, <1>17, <2>1, <3>1
  <2>. QED
    BY <2>2, <2>3
<1>24. \A k \in 1 .. Len(chunks') : W(chunks'[k]) \cap Handed = {}
  <2>. TAKE k \in 1 .. Len(chunks')
  <2>1. CASE From(k) = i
    BY <1>20, <2>1
  <2>2. CASE From(k) # i
    <3>1. W(chunks[From(k)]) \cap W(c) = {}
      BY <1>4, <1>11, <1>19, <1>21, <2>2
    <3>. QED
      BY <1>17, <1>20, <3>1
  <2>. QED
    BY <2>1, <2>2
<1>25. \A b \in live : BlockWords(b) \cap Handed = {}
  BY <1>4, <1>17, <1>19, <1>21
<1>26. \A k \in 1 .. Len(chunks'), b \in live : W(chunks'[k]) \cap BlockWords(b) = {}
  BY <1>11, <1>20, <1>21
<1>27. \A w \in Words(Start, Size) : \/ \E k \in 1 .. Len(chunks') : w \in W(chunks'[k])
                                     \/ \E b \in live' : w \in BlockWords(b)
  <2>. TAKE w \in Words(Start, Size)
  <2>1. CASE \E b \in live : w \in BlockWords(b)
    BY <1>7, <2>1
  <2>2. CASE w \in W(c)
    <3>1. CASE w \in Handed
      BY <1>7, <1>18, <3>1
    <3>2. CASE nf = 1 /\ w \in W(front)
      BY <1>15, <3>2
    <3>3. CASE nb = 1 /\ w \in W(back)
      BY <1>16, <3>3
    <3>. QED
      BY <1>17, <2>2, <3>1, <3>2, <3>3
  <2>3. ASSUME NEW j \in 1 .. Len(chunks), j # i, w \in W(chunks[j])
        PROVE  \E k \in 1 .. Len(chunks') : w \in W(chunks'[k])
    BY <1>14, <2>3
  <2>. QED
    BY <1>19, <1>22, <2>1, <2>2, <2>3
<1>28. /\ \A k \in 1 .. Len(chunks') : W(chunks'[k]) \subseteq Words(Start, Size)
       /\ \A b \in live' : BlockWords(b) \subseteq Words(Start, Size)
  <2>1. \A k \in 1 .. Len(chunks') : W(chunks'[k]) \subseteq Words(Start, Size)
    BY <1>11, <1>20, <1>22
  <2>2. Handed \subseteq Words(Start, Size)
    BY <1>4, <1>17, <1>19, <1>22
  <2>. QED
    BY <1>7, <1>18, <1>22, <2>1, <2>2
<1>29. Tiled'
  <2>1. \A b, d \in live' : b # d => BlockWords(b) \cap BlockWords(d) = {}
    BY <1>7, <1>18, <1>21, <1>25
  <2>2. \A k \in 1 .. Len(chunks'), b \in live' : W(chunks'[k]) \cap BlockWords(b) = {}
    BY <1>7, <1>18, <1>24, <1>26, ZenonT(60)
  <2>3. Words(Start, Size) = (UNION {W(chunks'[k]) : k \in 1 .. Len(chunks')}) \cup (UNION {BlockWords(b) : b \in live'})
    <3>. DEFINE A == {W(chunks'[k]) : k \in 1 .. Len(chunks')}
                B == {BlockWords(b) : b \in live'}
    <3>1. \A X : X \in A <=> \E k \in 1 .. Len(chunks') : X = W(chunks'[k])
      OBVIOUS
    <3>2. \A X : X \in B <=> \E b \in live' : X = BlockWords(b)
      OBVIOUS
    <3>. HIDE DEF A, B
    <3>3. Words(Start, Size) = (UNION A) \cup (UNION B)
      <4>1. ASSUME NEW w \in Words(Start, Size)
            PROVE  w \in (UNION A) \cup (UNION B)
        BY <1>27, <3>1, <3>2, SMT
      <4>2. ASSUME NEW w \in (UNION A) \cup (UNION B)
            PROVE  w \in Words(Start, Size)
        BY <1>28, <3>1, <3>2, SMT
      <4>. QED
        BY <4>1, <4>2, Zenon
    <3>. QED
      BY <3>3, Zenon DEF A, B
  <2>4. {ChunkWords(k)' : k \in 1 .. Len(chunks')} = {W(chunks'[k]) : k \in 1 .. Len(chunks')}
    BY <1>19
  <2>. QED
    BY <1>19, <1>23, <2>1, <2>2, <2>3, <2>4 DEF Tiled, BlockWords
<1>30. HeadersFit'
  <2>1. \A k \in 1 .. Len(chunks') : chunks'[k].size >= ChunkSize
    <3>1. \A k \in 1 .. Len(chunks) : chunks[k].size >= ChunkSize
      BY DEF IInv, HeadersFit
    <3>2. (nf = 1 => front.size >= ChunkSize) /\ (nb = 1 => back.size >= ChunkSize)
      BY <1>6, <1>8 DEF nf, nb
    <3>. QED
      BY <1>11, <3>1, <3>2
  <2>2. \A b \in live' : b.ptr % b.layout.align = 0
    BY <1>7, <1>18 DEF IInv, HeadersFit
  <2>. QED
    BY <2>1, <2>2 DEF HeadersFit
<1>31. TypeOK'
  BY <1>3, <1>7, <1>10, <1>18 DEF TypeOK
<1>. QED
  BY <1>29, <1>30, <1>31 DEF IInv

-----------------------------------------------------------------------------
(* Freeing                                                                 *)

\* The list with a chunk put in front, and what its elements are.
Pushed(x, s) == <<x>> \o s
IsPushed(r, x, s) ==
    /\ Len(r) = Len(s) + 1 /\ r[1] = x
    /\ \A k \in 1 .. Len(s) : r[k + 1] = s[k]

\* The list Pushed has the elements that IsPushed says.
LEMMA PushedElements ==
    ASSUME NEW C, NEW x \in C, NEW s \in Seq(C)
    PROVE  Pushed(x, s) \in Seq(C) /\ IsPushed(Pushed(x, s), x, s)
BY DEF Pushed, IsPushed

\* Freeing makes of a block the chunk of just its words.
LEMMA DeallocateInv ==
    ASSUME IInv, NEW block \in live, deallocate(block)
    PROVE  IInv'
<1>. DEFINE C == [start : Nat, size : Nat]
            size == align_layout(block.layout).size
            x == Chunk(block.ptr, size)
            W(y) == Words(y.start, y.size)
<1>1. chunks \in Seq(C) /\ Len(chunks) \in Nat /\ live \subseteq [ptr : Nat, layout : Layouts]
  BY DEF IInv, TypeOK
<1>2. block.ptr \in Nat /\ block.layout \in Layouts
  BY <1>1
<1>3. size \in Nat /\ size >= ChunkSize
  BY <1>2, LayoutRounded
<1>4. x = [start |-> block.ptr, size |-> size]
  BY DEF Chunk
<1>5. chunks' = Pushed(x, chunks) /\ live' = live \ {block}
  BY DEF deallocate, Pushed
<1>. HIDE DEF size, x
<1>6. x \in C /\ x.size >= ChunkSize
  BY <1>2, <1>3, <1>4
<1>7. W(x) = BlockWords(block)
  <2>1. x.start = block.ptr /\ x.size = size
    BY <1>4
  <2>. QED
    BY <2>1 DEF BlockWords, size
<1>8. /\ chunks' \in Seq(C) /\ Len(chunks') = Len(chunks) + 1 /\ chunks'[1] = x
      /\ \A k \in 1 .. Len(chunks) : chunks'[k + 1] = chunks[k]
  <2>. HIDE DEF C
  <2>1. chunks' \in Seq(C) /\ IsPushed(chunks', x, chunks)
    BY <1>1, <1>5, <1>6, PushedElements, Zenon
  <2>. QED
    BY <2>1 DEF IsPushed
<1>9. Len(chunks') = Len(chunks) + 1
  BY <1>8
<1>10. /\ 1 \in 1 .. Len(chunks')
       /\ \A k \in 1 .. Len(chunks) : k + 1 \in 1 .. Len(chunks')
       /\ \A k \in 1 .. Len(chunks') : k = 1 \/ (k - 1 \in 1 .. Len(chunks) /\ (k - 1) + 1 = k)
  BY <1>1, <1>9
<1>11. \A k \in 1 .. Len(chunks') :
          (k = 1 /\ chunks'[k] = x) \/ (k # 1 /\ k - 1 \in 1 .. Len(chunks) /\ chunks'[k] = chunks[k - 1])
  <2>. TAKE k \in 1 .. Len(chunks')
  <2>1. k \in Nat
    BY <1>1, <1>9
  <2>. QED
    BY <1>8, <1>10, <2>1
<1>. HIDE DEF W
<1>12. /\ \A k \in 1 .. Len(chunks) : ChunkWords(k) = W(chunks[k])
       /\ \A k \in 1 .. Len(chunks') : ChunkWords(k)' = W(chunks'[k])
  BY DEF ChunkWords, W
<1>13. /\ \A j, k \in 1 .. Len(chunks) : j # k => W(chunks[j]) \cap W(chunks[k]) = {}
       /\ \A b, d \in live : b # d => BlockWords(b) \cap BlockWords(d) = {}
       /\ \A k \in 1 .. Len(chunks), b \in live : W(chunks[k]) \cap BlockWords(b) = {}
  BY <1>12 DEF IInv, Tiled
<1>14. \A k, m \in 1 .. Len(chunks') : k # m => W(chunks'[k]) \cap W(chunks'[m]) = {}
  <2>1. SUFFICES ASSUME NEW k \in 1 .. Len(chunks'), NEW m \in 1 .. Len(chunks'), k # m
                 PROVE  W(chunks'[k]) \cap W(chunks'[m]) = {}
    OBVIOUS
  <2>2. CASE k = 1
    BY <1>7, <1>11, <1>13, <2>1, <2>2
  <2>3. CASE m = 1
    BY <1>7, <1>11, <1>13, <2>1, <2>3
  <2>4. CASE k # 1 /\ m # 1
    <3>1. k - 1 # m - 1
      BY <1>1, <1>9, <2>1
    <3>. QED
      BY <1>11, <1>13, <2>4, <3>1
  <2>. QED
    BY <2>2, <2>3, <2>4
<1>15. \A k \in 1 .. Len(chunks'), b \in live' : W(chunks'[k]) \cap BlockWords(b) = {}
  BY <1>5, <1>7, <1>11, <1>13
<1>16. Words(Start, Size) = (UNION {W(chunks'[k]) : k \in 1 .. Len(chunks')}) \cup (UNION {BlockWords(b) : b \in live'})
  <2>. DEFINE A == {W(chunks[k]) : k \in 1 .. Len(chunks)}
              B == {BlockWords(b) : b \in live}
              D == {W(chunks'[k]) : k \in 1 .. Len(chunks')}
              E == {BlockWords(b) : b \in live'}
  <2>1. D = A \cup {BlockWords(block)}
    <3>1. \A k \in 1 .. Len(chunks') : W(chunks'[k]) \in A \cup {BlockWords(block)}
      BY <1>7, <1>11
    <3>2. \A k \in 1 .. Len(chunks) : W(chunks[k]) \in D
      BY <1>8, <1>10
    <3>3. BlockWords(block) \in D
      BY <1>7, <1>8, <1>10
    <3>. QED
      BY <3>1, <3>2, <3>3
  <2>2. E \cup {BlockWords(block)} = B
    BY <1>5
  <2>3. Words(Start, Size) = (UNION {ChunkWords(k) : k \in 1 .. Len(chunks)}) \cup (UNION {BlockWords(b) : b \in live})
    BY DEF IInv, Tiled
  <2>4. {ChunkWords(k) : k \in 1 .. Len(chunks)} = {W(chunks[k]) : k \in 1 .. Len(chunks)}
    BY <1>12, Zenon
  <2>5. Words(Start, Size) = (UNION A) \cup (UNION B)
    BY <2>3, <2>4, Zenon
  <2>. HIDE DEF A, B, D, E
  <2>6. (UNION A) \cup (UNION B) = (UNION D) \cup (UNION E)
    BY <2>1, <2>2, SMT
  <2>. QED
    BY <2>5, <2>6, Zenon DEF D, E
<1>17. Tiled'
  <2>1. \A b, d \in live' : b # d => BlockWords(b) \cap BlockWords(d) = {}
    BY <1>5, <1>13
  <2>2. {ChunkWords(k)' : k \in 1 .. Len(chunks')} = {W(chunks'[k]) : k \in 1 .. Len(chunks')}
    BY <1>12
  <2>. QED
    BY <1>12, <1>14, <1>15, <1>16, <2>1, <2>2 DEF Tiled, BlockWords
<1>18. HeadersFit'
  <2>1. \A k \in 1 .. Len(chunks) : chunks[k].size >= ChunkSize
    BY DEF IInv, HeadersFit
  <2>2. \A k \in 1 .. Len(chunks') : chunks'[k].size >= ChunkSize
    BY <1>6, <1>11, <2>1
  <2>. QED
    BY <1>5, <2>2 DEF IInv, HeadersFit
<1>19. TypeOK'
  BY <1>1, <1>5, <1>8 DEF TypeOK
<1>. QED
  BY <1>17, <1>18, <1>19 DEF IInv

-----------------------------------------------------------------------------
(* Theorems                                                                *)

\* The arena is created as one chunk, which has room for its header.
LEMMA InitInv == Init => IInv
<1>. SUFFICES ASSUME Init
              PROVE  IInv
  OBVIOUS
<1>. DEFINE x == Chunk(Start, Size)
<1>1. x = [start |-> Start, size |-> Size] /\ chunks = <<x>> /\ live = {}
  BY DEF Init, Chunk
<1>. HIDE DEF x
<1>2. x \in [start : Nat, size : Nat] /\ x.size >= ChunkSize /\ x.start = Start /\ x.size = Size
  BY <1>1, ChunkListAssumption
<1>3. Len(chunks) = 1 /\ chunks[1] = x /\ chunks \in Seq([start : Nat, size : Nat])
  BY <1>1, <1>2
<1>4. \A k : k \in 1 .. Len(chunks) <=> k = 1
  BY <1>3
<1>5. {ChunkWords(k) : k \in 1 .. Len(chunks)} = {Words(Start, Size)}
  <2>1. ChunkWords(1) = Words(Start, Size)
    BY <1>2, <1>3 DEF ChunkWords
  <2>. QED
    BY <1>4, <2>1, Zenon
<1>6. {BlockWords(b) : b \in live} = {}
  BY <1>1
<1>7. Words(Start, Size) = (UNION {ChunkWords(k) : k \in 1 .. Len(chunks)}) \cup (UNION {BlockWords(b) : b \in live})
  <2>1. (UNION {Words(Start, Size)}) \cup (UNION {}) = Words(Start, Size)
    OBVIOUS
  <2>. QED
    BY <1>5, <1>6, <2>1, Zenon
<1>8. Tiled
  BY <1>1, <1>4, <1>7 DEF Tiled
<1>9. HeadersFit
  BY <1>1, <1>2, <1>3, <1>4 DEF HeadersFit
<1>. QED
  BY <1>1, <1>3, <1>8, <1>9 DEF IInv, TypeOK

\* Every step keeps the invariant.
LEMMA NextInv == IInv /\ [Next]_vars => IInv'
<1>. SUFFICES ASSUME IInv, [Next]_vars
              PROVE  IInv'
  OBVIOUS
<1>1. ASSUME NEW layout \in Layouts, allocate(layout)
      PROVE  IInv'
  BY <1>1, AllocateInv
<1>2. ASSUME NEW block \in live, deallocate(block)
      PROVE  IInv'
  BY <1>2, DeallocateInv
<1>3. CASE UNCHANGED vars
  BY <1>3 DEF vars, IInv, TypeOK, Tiled, HeadersFit, ChunkWords, BlockWords
<1>. QED
  BY <1>1, <1>2, <1>3 DEF Next

\* The three parts of the invariant carry each other: a block is inside the
\* arena because the chunk it was split from was, that chunk could be split
\* because every chunk has room for a header, and it stays so because what is
\* left of it has.
THEOREM Invariance == Spec => []IInv
BY InitInv, NextInv, PTL DEF Spec

\* The memory of the arena is tiled by the free chunks and the allocated
\* blocks: ChunkList hands out no word twice and loses none.
THEOREM MemoryTiled == Spec => []Tiled
<1>1. IInv => Tiled
  BY DEF IInv
<1>. QED
  BY Invariance, <1>1, PTL

\* Every chunk of the list has room for its own header, and every block that
\* Arena::allocate returned has the alignment of its layout.
THEOREM HeadersAndAlignment == Spec => []HeadersFit
<1>1. IInv => HeadersFit
  BY DEF IInv
<1>. QED
  BY Invariance, <1>1, PTL
=============================================================================
