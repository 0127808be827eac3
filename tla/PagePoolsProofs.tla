-------------------------- MODULE PagePoolsProofs --------------------------
(***************************************************************************)
(* Proofs that the page map and the page set implement the set of free     *)
(* pages, for every size of the memory, of a page and of an item of the    *)
(* bitmap, and that only a request out of range stops the kernel.          *)
(***************************************************************************)
EXTENDS PagePools, WellFoundedInduction, TLAPS

-----------------------------------------------------------------------------
(* Arithmetic                                                              *)

\* Division with remainder.
LEMMA Division ==
    ASSUME NEW n \in Nat, NEW a \in Nat \ {0}
    PROVE  /\ n \div a \in Nat /\ n % a \in Nat
           /\ n = a * (n \div a) + (n % a) /\ n % a < a
OBVIOUS

\* A product grows by a whole factor at least.
LEMMA Grows ==
    ASSUME NEW a \in Nat \ {0}, NEW p \in Nat, NEW q \in Nat, p < q
    PROVE  a * p + a <= a * q /\ a * p \in Nat /\ a * q \in Nat
<1>1. PICK d \in Nat : q = p + 1 + d
  <2>1. q - p - 1 \in Nat /\ q = p + 1 + (q - p - 1)
    OBVIOUS
  <2>. QED
    BY <2>1
<1>2. a * q = a * p + a + a * d
  BY <1>1
<1>3. a * d \in Nat /\ a * p \in Nat /\ a * q \in Nat
  OBVIOUS
<1>. QED
  BY <1>2, <1>3

\* The quotient and the remainder are the only ones.
LEMMA Unique ==
    ASSUME NEW a \in Nat \ {0}, NEW q \in Nat, NEW r \in Nat, r < a, NEW n, n = a * q + r
    PROVE  n \div a = q /\ n % a = r
<1>1. n \in Nat /\ a * q \in Nat
  OBVIOUS
<1>. DEFINE d == n \div a
            m == n % a
<1>2. d \in Nat /\ m \in Nat /\ n = a * d + m /\ m < a
  BY <1>1, Division
<1>. HIDE DEF d, m
<1>3. ~ (d < q)
  <2>1. SUFFICES ASSUME d < q
                 PROVE  FALSE
    OBVIOUS
  <2>2. a * d + a <= a * q /\ a * d \in Nat /\ a * q \in Nat
    BY <1>2, <2>1, Grows
  <2>. QED
    BY <1>2, <2>2
<1>4. ~ (q < d)
  <2>1. SUFFICES ASSUME q < d
                 PROVE  FALSE
    OBVIOUS
  <2>2. a * q + a <= a * d /\ a * d \in Nat /\ a * q \in Nat
    BY <1>2, <2>1, Grows
  <2>. QED
    BY <1>2, <2>2
<1>5. d = q
  BY <1>2, <1>3, <1>4
<1>6. m = r
  BY <1>1, <1>2, <1>5
<1>. QED
  BY <1>5, <1>6 DEF d, m

\* A value below the number of usize values is kept by a wrap around.
LEMMA Wraps ==
    ASSUME NEW u \in Nat \ {0}, NEW n \in Nat, n < u
    PROVE  n % u = n /\ (n + u) % u = n
<1>1. n = u * 0 + n /\ n + u = u * 1 + n
  OBVIOUS
<1>. QED
  BY <1>1, Unique

\* A nonempty set of natural numbers has a least element.
LEMMA Minimum ==
    ASSUME NEW T \in SUBSET Nat, T # {}
    PROVE  \E p \in T : \A q \in T : p <= q
<1>. DEFINE R == {ss \in Nat \X Nat : ss[1] < ss[2]}
<1>1. IsWellFoundedOn(R, Nat)
  BY NatLessThanWellFounded DEF OpToRel
<1>. HIDE DEF R
<1>2. PICK p \in T : \A q \in T : ~(<<q, p>> \in R)
  BY <1>1, WFMin, Zenon
<1>3. \A q \in T : ~(q < p)
  BY <1>2 DEF R
<1>. QED
  BY <1>3

\* Lowest is that element, and there is only one.
LEMMA LowestIs ==
    ASSUME NEW T \in SUBSET Nat
    PROVE  /\ T # {} => Lowest(T) \in T /\ \A q \in T : Lowest(T) <= q
           /\ \A p \in T : (\A q \in T : p <= q) => Lowest(T) = p
<1>1. T # {} => Lowest(T) \in T /\ \A q \in T : Lowest(T) <= q
  <2>1. SUFFICES ASSUME T # {}
                 PROVE  Lowest(T) \in T /\ \A q \in T : Lowest(T) <= q
    OBVIOUS
  <2>2. \E p \in T : \A q \in T : p <= q
    BY <2>1, Minimum
  <2>. QED
    BY <2>2, Zenon DEF Lowest
<1>2. ASSUME NEW p \in T, \A q \in T : p <= q
      PROVE  Lowest(T) = p
  <2>1. Lowest(T) \in T /\ Lowest(T) <= p /\ p <= Lowest(T)
    BY <1>1, <1>2
  <2>2. Lowest(T) \in Nat /\ p \in Nat
    BY <2>1
  <2>. QED
    BY <2>1, <2>2
<1>. QED
  BY <1>1, <1>2

-----------------------------------------------------------------------------
(* Pages, and the items and bits of the bitmap                             *)

\* The pages fit into the memory, and what is asked for into a usize.
LEMMA Sizes ==
    /\ Start \in Nat /\ Size \in Nat /\ MaxCount \in Nat
    /\ PageSize \in Nat \ {0} /\ ItemBits \in Nat \ {0} /\ Usize \in Nat \ {0}
    /\ bit_count \in Nat /\ PageSize * bit_count <= Size /\ PageSize * bit_count \in Nat
    /\ bit_count + MaxCount < Usize /\ Start % PageSize = 0 /\ Start > 0
<1>1. /\ Start \in Nat /\ Size \in Nat /\ MaxCount \in Nat
      /\ PageSize \in Nat \ {0} /\ ItemBits \in Nat \ {0} /\ Usize \in Nat \ {0}
      /\ Start % PageSize = 0 /\ Start > 0 /\ Start + Size + MaxCount * PageSize < Usize
  BY PagePoolsAssumption
<1>2. bit_count \in Nat /\ Size % PageSize \in Nat /\ Size = PageSize * bit_count + (Size % PageSize)
  BY <1>1, Division DEF bit_count
<1>3. PageSize * bit_count \in Nat /\ PageSize * bit_count >= bit_count
  <2>1. \A a \in Nat, b \in Nat \ {0} : b * a \in Nat /\ b * a >= a
    OBVIOUS
  <2>. QED
    BY <1>1, <1>2, <2>1
<1>4. MaxCount * PageSize \in Nat /\ MaxCount * PageSize >= MaxCount
  <2>1. \A a \in Nat, b \in Nat \ {0} : a * b \in Nat /\ a * b >= a
    OBVIOUS
  <2>. QED
    BY <1>1, <2>1
<1>5. PageSize * bit_count <= Size
  BY <1>1, <1>2, <1>3
<1>6. bit_count + MaxCount < Usize
  BY <1>1, <1>2, <1>3, <1>4, <1>5
<1>. QED
  BY <1>1, <1>2, <1>3, <1>5, <1>6

\* The bitmaps: an item is the set of its bits that are 1.
Bits == [0 .. item_count - 1 -> SUBSET (0 .. ItemBits - 1)]

\* The bit of a page is a bit of an item.
LEMMA PageBit ==
    ASSUME NEW i \in Page
    PROVE  i \in Nat /\ i \div ItemBits \in 0 .. item_count - 1 /\ i % ItemBits \in 0 .. ItemBits - 1
<1>1. i \in Nat /\ i < bit_count /\ bit_count \in Nat /\ ItemBits \in Nat \ {0}
  BY Sizes DEF Page
<1>. DEFINE q == i \div ItemBits
            r == i % ItemBits
            m == bit_count + ItemBits - 1
            s == m % ItemBits
<1>2. q \in Nat /\ r \in Nat /\ r < ItemBits /\ i = ItemBits * q + r
  BY <1>1, Division
<1>3. m \in Nat
  BY <1>1
<1>4. item_count \in Nat /\ s \in Nat /\ s < ItemBits /\ m = ItemBits * item_count + s
  BY <1>1, <1>3, Division DEF item_count
<1>5. m = bit_count + ItemBits - 1
  OBVIOUS
<1>. HIDE DEF q, r, m, s, item_count
<1>6. q < item_count
  <2>1. SUFFICES ASSUME item_count <= q
                 PROVE  FALSE
    BY <1>2, <1>4
  <2>2. ItemBits * item_count \in Nat /\ ItemBits * q \in Nat /\ ItemBits * item_count <= ItemBits * q
    <3>1. CASE item_count = q
      BY <1>1, <1>2, <3>1
    <3>2. CASE item_count < q
      BY <1>1, <1>2, <1>4, <3>2, Grows
    <3>. QED
      BY <1>2, <1>4, <2>1, <3>1, <3>2
  <2>. QED
    BY <1>1, <1>2, <1>4, <1>5, <2>2
<1>7. q \in 0 .. item_count - 1 /\ r \in 0 .. ItemBits - 1
  BY <1>1, <1>2, <1>4, <1>6
<1>. QED
  BY <1>1, <1>7 DEF q, r

\* Mask picks out the bits of the pages of a run.
LEMMA MaskBit ==
    ASSUME NEW i \in Page, NEW start \in Nat, NEW count \in Nat
    PROVE  i % ItemBits \in Mask(i \div ItemBits, start, count) <=> i \in Run(start, count)
<1>1. i \in Nat /\ i % ItemBits \in 0 .. ItemBits - 1 /\ ItemBits \in Nat \ {0}
  BY PageBit, Sizes
<1>2. (i \div ItemBits) * ItemBits + (i % ItemBits) = i
  BY <1>1, Division
<1>. QED
  BY <1>1, <1>2 DEF Mask, Run

\* find_and_flip flips the bits of the run, and no other.
LEMMA Flipped ==
    ASSUME NEW b \in Bits, NEW start \in Nat, NEW count \in Nat
    PROVE  /\ flip_multiple(b, start, count) \in Bits
           /\ \A i \in Page : get(flip_multiple(b, start, count), i) <=> (get(b, i) <=> i \notin Run(start, count))
<1>1. ASSUME NEW k \in 0 .. item_count - 1
      PROVE  Mask(k, start, count) \subseteq 0 .. ItemBits - 1
  BY DEF Mask
<1>2. flip_multiple(b, start, count) \in Bits
  BY <1>1 DEF flip_multiple, Bits
<1>3. ASSUME NEW i \in Page
      PROVE  get(flip_multiple(b, start, count), i) <=> (get(b, i) <=> i \notin Run(start, count))
  <2>. DEFINE k == i \div ItemBits
              j == i % ItemBits
  <2>1. k \in 0 .. item_count - 1 /\ (j \in Mask(k, start, count) <=> i \in Run(start, count))
    BY PageBit, MaskBit
  <2>2. DOMAIN b = 0 .. item_count - 1
    BY DEF Bits
  <2>. HIDE DEF k, j
  <2>3. flip_multiple(b, start, count)[k] = (b[k] \ Mask(k, start, count)) \cup (Mask(k, start, count) \ b[k])
    BY <2>1, <2>2 DEF flip_multiple
  <2>4. /\ get(b, i) <=> j \in b[k]
        /\ get(flip_multiple(b, start, count), i) <=> j \in flip_multiple(b, start, count)[k]
    BY DEF get, k, j
  <2>. QED
    BY <2>1, <2>3, <2>4
<1>. QED
  BY <1>2, <1>3

\* set_multiple clears the bits of the run, and no other.
LEMMA Cleared ==
    ASSUME NEW b \in Bits, NEW start \in Nat, NEW count \in Nat
    PROVE  /\ set_multiple(b, start, count, FALSE) \in Bits
           /\ \A i \in Page : get(set_multiple(b, start, count, FALSE), i) <=> (get(b, i) /\ i \notin Run(start, count))
<1>1. set_multiple(b, start, count, FALSE) \in Bits
  BY DEF set_multiple, Bits
<1>2. ASSUME NEW i \in Page
      PROVE  get(set_multiple(b, start, count, FALSE), i) <=> (get(b, i) /\ i \notin Run(start, count))
  <2>. DEFINE k == i \div ItemBits
              j == i % ItemBits
  <2>1. k \in 0 .. item_count - 1 /\ (j \in Mask(k, start, count) <=> i \in Run(start, count))
    BY PageBit, MaskBit
  <2>2. DOMAIN b = 0 .. item_count - 1
    BY DEF Bits
  <2>. HIDE DEF k, j
  <2>3. set_multiple(b, start, count, FALSE)[k] = b[k] \ Mask(k, start, count)
    BY <2>1, <2>2 DEF set_multiple
  <2>4. /\ get(b, i) <=> j \in b[k]
        /\ get(set_multiple(b, start, count, FALSE), i) <=> j \in set_multiple(b, start, count, FALSE)[k]
    BY DEF get, k, j
  <2>. QED
    BY <2>1, <2>3, <2>4
<1>. QED
  BY <1>1, <1>2

-----------------------------------------------------------------------------
(* The search of the bitmap                                                *)

\* The pages whose bit is 0.
FreeOf(b) == {i \in Page : ~get(b, i)}

\* The end of the range does not wrap around for a count that is in range.
LEMMA FindEnd ==
    ASSUME NEW count \in 1 .. MaxCount, count <= bit_count + 1
    PROVE  find_end(count) = bit_count - count + 1
<1>1. count \in Nat /\ count >= 1 /\ bit_count \in Nat /\ Usize \in Nat \ {0} /\ bit_count + count < Usize
  BY Sizes
<1>2. (count + Usize - 1) % Usize = count - 1
  <2>1. count - 1 \in Nat /\ count - 1 < Usize /\ count + Usize - 1 = (count - 1) + Usize
    BY <1>1
  <2>2. ((count - 1) + Usize) % Usize = count - 1
    BY <1>1, <2>1, Wraps
  <2>. QED
    BY <2>1, <2>2
<1>3. (bit_count + Usize - (count - 1)) % Usize = bit_count - count + 1
  <2>1. /\ bit_count - count + 1 \in Nat /\ bit_count - count + 1 < Usize
        /\ bit_count + Usize - (count - 1) = (bit_count - count + 1) + Usize
    BY <1>1
  <2>2. ((bit_count - count + 1) + Usize) % Usize = bit_count - count + 1
    BY <1>1, <2>1, Wraps
  <2>. QED
    BY <2>1, <2>2
<1>. QED
  BY <1>2, <1>3 DEF find_end

\* A run that is found is inside the map.
LEMMA StopsInside ==
    ASSUME NEW b, NEW count \in 1 .. MaxCount, count <= bit_count + 1,
           NEW i \in Stops(b, count, FALSE)
    PROVE  i \in Nat /\ i + count <= bit_count /\ bound_check(i, count)
<1>1. count \in Nat /\ count >= 1 /\ bit_count \in Nat
  BY Sizes
<1>2. i \in 0 .. (bit_count - count + 1) - 1
  BY FindEnd DEF Stops
<1>3. i \in Nat /\ i + count <= bit_count /\ i <= bit_count
  BY <1>1, <1>2
<1>. QED
  BY <1>3 DEF bound_check

\* Candidates are natural numbers.
LEMMA StopsNat ==
    ASSUME NEW b, NEW count \in Nat
    PROVE  Stops(b, count, FALSE) \in SUBSET Nat
<1>1. \A e \in Int : 0 .. e - 1 \subseteq Nat
  OBVIOUS
<1>2. find_end(count) \in Int
  BY Sizes DEF find_end
<1>. QED
  BY <1>1, <1>2 DEF Stops

\* If find does not panic, what it stops at are the runs of free pages.
LEMMA StopsAreFits ==
    ASSUME NEW b, NEW count \in 1 .. MaxCount, ~find_panics(b, count, FALSE)
    PROVE  Stops(b, count, FALSE) = Fits(FreeOf(b), count)
<1>1. count \in Nat /\ count >= 1 /\ bit_count \in Nat
  BY Sizes
<1>2. \A p \in Fits(FreeOf(b), count) : p \in Nat /\ p + count <= bit_count
  <2>. TAKE p \in Fits(FreeOf(b), count)
  <2>1. p \in Page /\ Run(p, count) \subseteq Page
    BY DEF Fits, FreeOf
  <2>2. p \in Nat
    BY <2>1, PageBit
  <2>3. p + count - 1 \in Run(p, count)
    BY <1>1, <2>2 DEF Run
  <2>4. p + count - 1 \in 0 .. bit_count - 1
    BY <2>1, <2>3 DEF Page
  <2>. QED
    BY <1>1, <2>2, <2>4
<1>3. CASE count <= bit_count + 1
  <2>1. find_end(count) = bit_count - count + 1
    BY <1>3, FindEnd
  <2>2. ASSUME NEW p \in Stops(b, count, FALSE)
        PROVE  p \in Fits(FreeOf(b), count)
    <3>1. p \in Nat /\ p + count <= bit_count /\ bound_check(p, count)
      BY <1>3, StopsInside
    <3>2. \A i \in p .. (p + count - 1) : get(b, i) = FALSE
      BY <3>1 DEF Stops, all
    <3>3. \A i \in p .. (p + count - 1) : i \in Page
      BY <1>1, <3>1 DEF Page
    <3>4. p \in p .. (p + count - 1)
      BY <1>1, <3>1
    <3>. QED
      BY <3>2, <3>3, <3>4 DEF Fits, FreeOf, Run
  <2>3. ASSUME NEW p \in Fits(FreeOf(b), count)
        PROVE  p \in Stops(b, count, FALSE)
    <3>1. p \in Nat /\ p + count <= bit_count
      BY <1>2
    <3>2. p \in 0 .. (bit_count - count + 1) - 1
      BY <1>1, <3>1
    <3>3. \A i \in p .. (p + count - 1) : ~get(b, i)
      BY DEF Fits, FreeOf, Run
    <3>4. all(b, p, count, FALSE)
      <4>1. \A i : get(b, i) \in BOOLEAN
        BY DEF get
      <4>. QED
        BY <3>3, <4>1 DEF all
    <3>. QED
      BY <2>1, <3>2, <3>4 DEF Stops
  <2>. QED
    BY <2>2, <2>3
<1>4. CASE count > bit_count + 1
  <2>1. Fits(FreeOf(b), count) = {}
    <3>. QED
      BY <1>1, <1>2, <1>4
  <2>2. Stops(b, count, FALSE) = {}
    <3>1. SUFFICES ASSUME Stops(b, count, FALSE) # {}
                   PROVE  FALSE
      OBVIOUS
    <3>2. Lowest(Stops(b, count, FALSE)) \in Nat
      <4>1. Stops(b, count, FALSE) \in SUBSET Nat
        BY <1>1, StopsNat
      <4>. QED
        BY <3>1, <4>1, LowestIs
    <3>3. bound_check(Lowest(Stops(b, count, FALSE)), count)
      BY <3>1 DEF find_panics
    <3>4. Lowest(Stops(b, count, FALSE)) + count <= bit_count
      BY <3>3 DEF bound_check
    <3>5. \A x \in Nat : ~ (x + count <= bit_count)
      BY <1>1, <1>4
    <3>. QED
      BY <3>2, <3>4, <3>5
  <2>. QED
    BY <2>1, <2>2
<1>5. count <= bit_count + 1 \/ count > bit_count + 1
  BY <1>1
<1>. QED
  BY <1>3, <1>4, <1>5

\* A request for one page up to one more than there are does not panic.
LEMMA PanicsOutOfRange ==
    ASSUME NEW b, NEW count \in 0 .. MaxCount, find_panics(b, count, FALSE)
    PROVE  count = 0 \/ count > bit_count + 1
<1>1. SUFFICES ASSUME count # 0, count <= bit_count + 1
               PROVE  FALSE
  <2>1. count \in Nat /\ bit_count \in Nat
    BY Sizes
  <2>. QED
    BY <2>1
<1>2. count \in 1 .. MaxCount /\ count \in Nat /\ bit_count \in Nat
  BY <1>1, Sizes
<1>3. ~find_overflows(count)
  <2>. QED
    BY <1>1, <1>2 DEF find_overflows
<1>4. Stops(b, count, FALSE) # {} /\ ~bound_check(Lowest(Stops(b, count, FALSE)), count)
  BY <1>3 DEF find_panics
<1>5. Lowest(Stops(b, count, FALSE)) \in Stops(b, count, FALSE)
  <2>1. Stops(b, count, FALSE) \in SUBSET Nat
    BY <1>2, StopsNat
  <2>. QED
    BY <1>4, <2>1, LowestIs
<1>. QED
  BY <1>1, <1>2, <1>4, <1>5, StopsInside

-----------------------------------------------------------------------------
(* Addresses                                                               *)

\* The address of a page is aligned, and leads back to its index.
LEMMA Address ==
    ASSUME NEW i \in Nat
    PROVE  /\ convert_page_index_to_addr(i) \in Nat /\ convert_page_index_to_addr(i) >= Start
           /\ is_aligned_to_page(convert_page_index_to_addr(i))
           /\ convert_page_addr_to_index(convert_page_index_to_addr(i)) = i
<1>. DEFINE addr == Start + i * PageSize
<1>1. Start \in Nat /\ PageSize \in Nat \ {0} /\ Start % PageSize = 0
  BY Sizes
<1>2. i * PageSize \in Nat /\ i * PageSize = PageSize * i
  BY <1>1
<1>3. PICK q \in Nat : Start = PageSize * q
  <2>1. Start \div PageSize \in Nat /\ Start = PageSize * (Start \div PageSize) + (Start % PageSize)
    BY <1>1, Division
  <2>2. PageSize * (Start \div PageSize) \in Nat
    BY <1>1, <2>1
  <2>. QED
    BY <1>1, <2>1, <2>2
<1>4. addr % PageSize = 0
  <2>1. addr = PageSize * (q + i) + 0 /\ q + i \in Nat
    BY <1>1, <1>3
  <2>. HIDE DEF addr
  <2>. QED
    BY <1>1, <2>1, Unique
<1>5. (addr - Start) \div PageSize = i
  <2>1. addr - Start = PageSize * i + 0
    BY <1>1, <1>2
  <2>. HIDE DEF addr
  <2>. QED
    BY <1>1, <2>1, Unique
<1>. QED
  BY <1>1, <1>2, <1>4, <1>5 DEF convert_page_index_to_addr, convert_page_addr_to_index, is_aligned_to_page

\* Addresses are in the order of the pages.
LEMMA AddressOrder ==
    ASSUME NEW i \in Nat, NEW j \in Nat
    PROVE  /\ i < j => convert_page_index_to_addr(i) < convert_page_index_to_addr(j)
           /\ convert_page_index_to_addr(i) = convert_page_index_to_addr(j) => i = j
<1>1. i < j => convert_page_index_to_addr(i) < convert_page_index_to_addr(j)
  <2>1. SUFFICES ASSUME i < j
                 PROVE  convert_page_index_to_addr(i) < convert_page_index_to_addr(j)
    OBVIOUS
  <2>2. PageSize \in Nat \ {0} /\ Start \in Nat
    BY Sizes
  <2>3. PageSize * i + PageSize <= PageSize * j /\ PageSize * i \in Nat /\ PageSize * j \in Nat
    BY <2>1, <2>2, Grows
  <2>4. PageSize * i = i * PageSize /\ PageSize * j = j * PageSize
    BY <2>2
  <2>. QED
    BY <2>2, <2>3, <2>4 DEF convert_page_index_to_addr
<1>2. convert_page_index_to_addr(i) = convert_page_index_to_addr(j) => i = j
  <2>1. convert_page_addr_to_index(convert_page_index_to_addr(i)) = i
    BY Address
  <2>2. convert_page_addr_to_index(convert_page_index_to_addr(j)) = j
    BY Address
  <2>. QED
    BY <2>1, <2>2
<1>. QED
  BY <1>1, <1>2

\* The address of a page is none of the other results.
LEMMA ToPageOf ==
    /\ \A i \in Page : ToPage(convert_page_index_to_addr(i)) = i
    /\ ToPage(None) = NoPage /\ ToPage(PageExists) = NoPage - 1 /\ ToPage(Ok) = NoPage - 2
<1>1. /\ Start \in Nat /\ Start > 0 /\ Size \in Nat /\ PageSize \in Nat \ {0}
      /\ bit_count \in Nat /\ PageSize * bit_count <= Size /\ PageSize * bit_count \in Nat
  BY Sizes
<1>2. ToPage(None) = NoPage /\ ToPage(PageExists) = NoPage - 1 /\ ToPage(Ok) = NoPage - 2
  BY <1>1 DEF ToPage, None, PageExists, Ok, NoPage
<1>3. ASSUME NEW i \in Page
      PROVE  ToPage(convert_page_index_to_addr(i)) = i
  <2>1. i \in Nat /\ i < bit_count
    BY <1>1, PageBit DEF Page
  <2>2. PageSize * i + PageSize <= PageSize * bit_count /\ PageSize * i \in Nat
    BY <1>1, <2>1, Grows
  <2>3. i * PageSize = PageSize * i
    BY <1>1, <2>1
  <2>4. convert_page_index_to_addr(i) > 0 /\ convert_page_index_to_addr(i) < PageExists
    BY <1>1, <2>2, <2>3 DEF convert_page_index_to_addr, PageExists
  <2>5. convert_page_index_to_addr(i) \in Nat /\ convert_page_addr_to_index(convert_page_index_to_addr(i)) = i
    BY <2>1, Address
  <2>6. PageExists \in Nat
    BY <1>1 DEF PageExists
  <2>. QED
    BY <2>4, <2>5, <2>6 DEF ToPage, None, Ok
<1>. QED
  BY <1>2, <1>3

\* page_range are the addresses of the pages of a run.
LEMMA RangeIsRun ==
    ASSUME NEW i \in Nat, NEW n \in Nat
    PROVE  /\ page_range(convert_page_index_to_addr(i), n) = {convert_page_index_to_addr(j) : j \in Run(i, n)}
           /\ \A j \in Nat : convert_page_index_to_addr(j) \in page_range(convert_page_index_to_addr(i), n)
                                <=> j \in Run(i, n)
<1>1. PageSize \in Nat \ {0} /\ Start \in Nat
  BY Sizes
<1>2. \A k \in Nat : convert_page_index_to_addr(i) + k * PageSize = convert_page_index_to_addr(i + k)
  BY <1>1 DEF convert_page_index_to_addr
<1>3. \A k \in 0 .. n - 1 : k \in Nat /\ i + k \in Run(i, n)
  BY DEF Run
<1>4. \A j \in Run(i, n) : j \in Nat /\ j - i \in 0 .. n - 1 /\ j - i \in Nat /\ i + (j - i) = j
  BY DEF Run
<1>5. ASSUME NEW a
      PROVE  a \in page_range(convert_page_index_to_addr(i), n) <=> \E j \in Run(i, n) : a = convert_page_index_to_addr(j)
  <2>1. ASSUME a \in page_range(convert_page_index_to_addr(i), n)
        PROVE  \E j \in Run(i, n) : a = convert_page_index_to_addr(j)
    <3>1. PICK k \in 0 .. n - 1 : a = convert_page_index_to_addr(i) + k * PageSize
      BY <2>1 DEF page_range
    <3>. QED
      BY <1>2, <1>3, <3>1
  <2>2. ASSUME NEW j \in Run(i, n), a = convert_page_index_to_addr(j)
        PROVE  a \in page_range(convert_page_index_to_addr(i), n)
    <3>1. a = convert_page_index_to_addr(i) + (j - i) * PageSize
      BY <1>2, <1>4, <2>2
    <3>. QED
      BY <1>4, <3>1 DEF page_range
  <2>. QED
    BY <2>1, <2>2
<1>6. ASSUME NEW j \in Nat
      PROVE  convert_page_index_to_addr(j) \in page_range(convert_page_index_to_addr(i), n) <=> j \in Run(i, n)
  BY <1>4, <1>5, AddressOrder
<1>. QED
  BY <1>5, <1>6

-----------------------------------------------------------------------------
(* The invariant                                                           *)

\* The bitmap has an item for every page, and the page set holds addresses of
\* pages only.
Types ==
    /\ bits \in Bits
    /\ DOMAIN set \subseteq {convert_page_index_to_addr(i) : i \in Page}
    /\ panicked # <<>> => \E call, addr, count : panicked = <<call, addr, count>>

IInv == Types /\ PanicsOnlyOutside

\* No page is in use, and nothing has been put into the page set.
LEMMA InitInv == Init => IInv
<1>. SUFFICES ASSUME Init
              PROVE  IInv
  OBVIOUS
<1>1. bits \in Bits
  BY DEF Init, new, Bits
<1>2. DOMAIN set = {} /\ panicked = <<>>
  BY DEF Init
<1>. QED
  BY <1>1, <1>2 DEF IInv, Types, PanicsOnlyOutside

\* A call that is refused with a panic is out of range.
LEMMA GetPanic ==
    ASSUME Types, NEW count \in 0 .. MaxCount, find_panics(bits, count, FALSE),
           Panic(<<"get", Start, count>>)
    PROVE  IInv'
<1>1. count = 0 \/ count > bit_count + 1
  BY PanicsOutOfRange
<1>2. panicked' = <<"get", Start, count>> /\ bits' = bits /\ set' = set
  BY DEF Panic
<1>3. panicked'[1] = "get" /\ panicked'[3] = count
  BY <1>2
<1>4. Types'
  BY <1>2 DEF Types
<1>5. PanicsOnlyOutside'
  BY <1>1, <1>3 DEF PanicsOnlyOutside
<1>. QED
  BY <1>4, <1>5 DEF IInv

\* So is a run that is put back with a panic.
LEMMA PutPanic ==
    ASSUME Types, NEW count \in 0 .. MaxCount, NEW addr,
           addr < Start \/ ~is_aligned_to_page(addr) \/ ~bound_check(convert_page_addr_to_index(addr), count),
           Panic(<<"put", addr, count>>)
    PROVE  IInv'
<1>1. ASSUME NEW i \in Page, addr = convert_page_index_to_addr(i), i + count <= bit_count
      PROVE  FALSE
  <2>1. i \in Nat /\ count \in Nat /\ bit_count \in Nat
    BY PageBit, Sizes
  <2>2. addr \in Nat /\ addr >= Start /\ is_aligned_to_page(addr) /\ convert_page_addr_to_index(addr) = i
    BY <1>1, <2>1, Address
  <2>3. bound_check(i, count)
    BY <1>1, <2>1 DEF bound_check
  <2>4. ~ (addr < Start)
    BY <2>2, Sizes
  <2>. QED
    BY <2>2, <2>3, <2>4
<1>2. panicked' = <<"put", addr, count>> /\ bits' = bits /\ set' = set
  BY DEF Panic
<1>3. panicked'[1] = "put" /\ panicked'[2] = addr /\ panicked'[3] = count
  BY <1>2
<1>4. Types'
  BY <1>2 DEF Types
<1>5. PanicsOnlyOutside'
  BY <1>1, <1>3 DEF PanicsOnlyOutside
<1>. QED
  BY <1>4, <1>5 DEF IInv

\* What is found is a natural number.
LEMMA FoundNat ==
    ASSUME NEW count \in 0 .. MaxCount, Stops(bits, count, FALSE) # {}
    PROVE  Lowest(Stops(bits, count, FALSE)) \in Nat
<1>1. Stops(bits, count, FALSE) \in SUBSET Nat
  <2>1. count \in Nat
    OBVIOUS
  <2>. QED
    BY <2>1, StopsNat
<1>. QED
  BY <1>1, LowestIs

\* Getting from the page map flips bits of its items only.
LEMMA MapGetInv ==
    ASSUME IInv, panicked = <<>>, NEW count \in 0 .. MaxCount, map_get_multiple(count)
    PROVE  IInv'
<1>1. CASE find_panics(bits, count, FALSE)
  BY <1>1, GetPanic DEF map_get_multiple, IInv
<1>2. CASE ~find_panics(bits, count, FALSE)
  <2>1. set' = set /\ panicked' = panicked
    BY <1>2 DEF map_get_multiple
  <2>2. bits' = bits \/ (Stops(bits, count, FALSE) # {} /\ bits' = flip_multiple(bits, Lowest(Stops(bits, count, FALSE)), count))
    BY <1>2 DEF map_get_multiple
  <2>3. bits' \in Bits
    <3>1. bits \in Bits /\ count \in Nat
      BY DEF IInv, Types
    <3>. QED
      BY <2>2, <3>1, FoundNat, Flipped
  <2>. QED
    BY <2>1, <2>3 DEF IInv, Types, PanicsOnlyOutside
<1>. QED
  BY <1>1, <1>2

\* The index of an address that is accepted is a natural number.
LEMMA IndexNat ==
    ASSUME NEW addr \in Int, ~(addr < Start)
    PROVE  convert_page_addr_to_index(addr) \in Nat
<1>1. addr - Start \in Nat /\ PageSize \in Nat \ {0}
  BY Sizes
<1>. QED
  BY <1>1, Division DEF convert_page_addr_to_index

\* Putting back clears bits of its items only.
LEMMA MapPutInv ==
    ASSUME IInv, panicked = <<>>, NEW count \in 0 .. MaxCount,
           NEW addr \in Start - 1 .. Start + Size, map_put_multiple(addr, count)
    PROVE  IInv'
<1>. DEFINE index == convert_page_addr_to_index(addr)
            bad == addr < Start \/ ~is_aligned_to_page(addr) \/ ~bound_check(index, count)
<1>1. CASE bad
  BY <1>1, PutPanic DEF map_put_multiple, IInv
<1>2. CASE ~bad
  <2>1. set' = set /\ panicked' = panicked
    BY <1>2 DEF map_put_multiple
  <2>2. bits' = bits \/ bits' = set_multiple(bits, index, count, FALSE)
    BY <1>2 DEF map_put_multiple
  <2>3. index \in Nat
    BY <1>2, IndexNat, Sizes
  <2>4. bits' \in Bits
    <3>1. bits \in Bits /\ count \in Nat
      BY DEF IInv, Types
    <3>. HIDE DEF index, bad
    <3>. QED
      BY <2>2, <2>3, <3>1, Cleared
  <2>. QED
    BY <2>1, <2>4 DEF IInv, Types, PanicsOnlyOutside
<1>. QED
  BY <1>1, <1>2

\* Getting from the page set makes no new address.
LEMMA SetGetInv ==
    ASSUME IInv, panicked = <<>>, NEW count \in 0 .. MaxCount, set_get_multiple(count)
    PROVE  IInv'
<1>1. bits' = bits /\ panicked' = panicked /\ DOMAIN set' = DOMAIN set
  BY DEF set_get_multiple
<1>. QED
  BY <1>1 DEF IInv, Types, PanicsOnlyOutside

\* Putting into the page set adds the addresses of pages.
LEMMA SetPutInv ==
    ASSUME IInv, panicked = <<>>, NEW count \in 0 .. MaxCount,
           NEW i \in Page, i + count <= bit_count, set_put_mutiple(convert_page_index_to_addr(i), count)
    PROVE  IInv'
<1>. DEFINE range == page_range(convert_page_index_to_addr(i), count)
<1>1. i \in Nat /\ count \in Nat /\ bit_count \in Nat
  BY PageBit, Sizes
<1>2. Run(i, count) \subseteq Page
  BY <1>1 DEF Run, Page
<1>3. range \subseteq {convert_page_index_to_addr(j) : j \in Page}
  BY <1>1, <1>2, RangeIsRun
<1>4. bits' = bits /\ panicked' = panicked /\ (DOMAIN set' = DOMAIN set \/ DOMAIN set' = DOMAIN set \cup range)
  BY DEF set_put_mutiple
<1>. QED
  BY <1>3, <1>4 DEF IInv, Types, PanicsOnlyOutside

\* Every step keeps the invariant.
LEMMA NextInv == IInv /\ [Next]_vars => IInv'
<1>. SUFFICES ASSUME IInv, [Next]_vars
              PROVE  IInv'
  OBVIOUS
<1>1. CASE UNCHANGED vars
  BY <1>1 DEF vars, IInv, Types, PanicsOnlyOutside
<1>2. CASE Next
  BY <1>2, MapGetInv, MapPutInv, SetGetInv, SetPutInv DEF Next
<1>. QED
  BY <1>1, <1>2

\* The bitmap keeps its shape, the page set its addresses, and what stops the
\* kernel was out of range.
THEOREM Invariance == Spec => []IInv
BY InitInv, NextInv, PTL DEF Spec

\* A request for one page up to one more than there are, and a run of whole
\* pages inside the pool that is put back, never stop the kernel.
THEOREM PanicFreeInside == Spec => []PanicsOnlyOutside
<1>1. IInv => PanicsOnlyOutside
  BY DEF IInv
<1>. QED
  BY <1>1, Invariance, PTL

-----------------------------------------------------------------------------
(* The page map is a set of free pages                                     *)

\* All pages of a new page map are free.
LEMMA MapInit == Init => M!Init
<1>. SUFFICES ASSUME Init
              PROVE  M!Init
  OBVIOUS
<1>1. \A i \in Page : ~get(bits, i)
  <2>. TAKE i \in Page
  <2>1. i \div ItemBits \in 0 .. item_count - 1
    BY PageBit
  <2>. QED
    BY <2>1 DEF Init, new, get
<1>2. {i \in Page : ~get(bits, i)} = Page
  BY <1>1
<1>3. ToResult(mapResult) = <<0, NoPage>>
  <2>1. mapResult[1] = 0 /\ mapResult[2] = None
    BY DEF Init
  <2>. QED
    BY <2>1, ToPageOf DEF ToResult
<1>. QED
  BY <1>2, <1>3 DEF M!Init

\* The steps of FreePages, in terms of the runs of this module.
LEMMA MapRuns ==
    /\ \A p, n : M!Run(p, n) = Run(p, n)
    /\ \A T, n : M!Fits(T, n) = Fits(T, n) /\ M!FirstFit(T, n) = FirstFit(T, n)
<1>1. \A p, n : M!Run(p, n) = Run(p, n)
  BY DEF M!Run, Run
<1>2. \A T, n : M!Fits(T, n) = Fits(T, n)
  BY <1>1, Zenon DEF M!Fits, Fits
<1>3. \A T, n : M!FirstFit(T, n) = FirstFit(T, n)
  BY <1>2, Zenon DEF M!FirstFit, FirstFit
<1>. QED
  BY <1>1, <1>2, <1>3

\* A request that takes the lowest run, or finds none, is a step.
LEMMA MapGets ==
    ASSUME NEW n \in 1 .. MaxCount,
           IF Fits(FreeOf(bits), n) = {}
             THEN ToResult(mapResult)' = <<n, NoPage>> /\ FreeOf(bits)' = FreeOf(bits)
             ELSE /\ ToResult(mapResult)' = <<n, FirstFit(FreeOf(bits), n)>>
                  /\ FreeOf(bits)' = FreeOf(bits) \ Run(FirstFit(FreeOf(bits), n), n)
    PROVE  M!Next
<1>1. M!get_multiple(n)
  BY MapRuns, Zenon DEF M!get_multiple, FreeOf
<1>. QED
  BY <1>1 DEF M!Next

\* A run that is taken back or refused is a step.
LEMMA MapPuts ==
    ASSUME NEW n \in 1 .. MaxCount, NEW p \in Page, Run(p, n) \subseteq Page,
           IF Run(p, n) \cap FreeOf(bits) = {}
             THEN ToResult(mapResult)' = <<n, NoPage - 2>> /\ FreeOf(bits)' = FreeOf(bits) \cup Run(p, n)
             ELSE ToResult(mapResult)' = <<n, NoPage - 1>> /\ FreeOf(bits)' = FreeOf(bits)
    PROVE  M!Next
<1>1. M!put_multiple(p, n) /\ M!Run(p, n) \subseteq Page
  BY MapRuns, Zenon DEF M!put_multiple, FreeOf
<1>. QED
  BY <1>1 DEF M!Next

\* An operation on no pages is a step.
LEMMA MapNone ==
    ASSUME mapResult'[1] = 0, FreeOf(bits)' = FreeOf(bits)
    PROVE  M!Next
<1>1. M!no_pages
  BY DEF M!no_pages, ToResult, FreeOf
<1>. QED
  BY <1>1 DEF M!Next

\* An operation on no pages leaves the pages as they are.
LEMMA NoneFlipped ==
    ASSUME NEW b \in Bits, NEW start \in Nat
    PROVE  FreeOf(flip_multiple(b, start, 0)) = FreeOf(b) /\ FreeOf(set_multiple(b, start, 0, FALSE)) = FreeOf(b)
<1>1. Run(start, 0) = {}
  BY DEF Run
<1>2. \A i \in Page : get(flip_multiple(b, start, 0), i) <=> get(b, i)
  BY <1>1, Flipped
<1>3. \A i \in Page : get(set_multiple(b, start, 0, FALSE), i) <=> get(b, i)
  BY <1>1, Cleared
<1>. QED
  BY <1>2, <1>3 DEF FreeOf

\* PageMap::get_multiple takes the lowest run of free pages.
LEMMA MapGetStep ==
    ASSUME IInv, NEW count \in 0 .. MaxCount, map_get_multiple(count)
    PROVE  [M!Next]_(M!vars)
<1>. DEFINE found == Stops(bits, count, FALSE)
<1>1. bits \in Bits /\ count \in Nat
  BY DEF IInv, Types
<1>2. CASE find_panics(bits, count, FALSE)
  BY <1>2 DEF map_get_multiple, Panic, M!vars
<1>3. ASSUME ~find_panics(bits, count, FALSE)
      PROVE  IF found = {} THEN mapResult' = <<count, None>> /\ bits' = bits
             ELSE /\ mapResult' = <<count, convert_page_index_to_addr(Lowest(found))>>
                  /\ bits' = flip_multiple(bits, Lowest(found), count)
  BY <1>3, Zenon DEF map_get_multiple
<1>4. CASE ~find_panics(bits, count, FALSE) /\ count = 0
  <2>1. FreeOf(bits)' = FreeOf(bits)
    <3>1. CASE found = {}
      BY <1>3, <1>4, <3>1 DEF FreeOf
    <3>2. CASE found # {}
      <4>1. Lowest(found) \in Nat
        BY <3>2, FoundNat
      <4>2. bits' = flip_multiple(bits, Lowest(found), 0)
        BY <1>3, <1>4, <3>2
      <4>3. FreeOf(bits)' = FreeOf(bits')
        BY DEF FreeOf
      <4>. QED
        BY <1>1, <4>1, <4>2, <4>3, NoneFlipped
    <3>. QED
      BY <3>1, <3>2
  <2>2. mapResult'[1] = 0
    <3>1. \A x : <<count, x>>[1] = 0
      BY <1>4
    <3>. HIDE DEF found
    <3>. QED
      BY <1>3, <1>4, <3>1, Zenon
  <2>. QED
    BY <2>1, <2>2, MapNone
<1>5. CASE ~find_panics(bits, count, FALSE) /\ count # 0
  <2>1. count \in 1 .. MaxCount
    BY <1>1, <1>5
  <2>2. found = Fits(FreeOf(bits), count)
    BY <1>5, <2>1, StopsAreFits
  <2>3. CASE found = {}
    <3>1. bits' = bits /\ mapResult' = <<count, None>>
      BY <1>3, <1>5, <2>3
    <3>2. ToResult(mapResult)' = <<count, NoPage>>
      BY <3>1, ToPageOf DEF ToResult
    <3>3. FreeOf(bits)' = FreeOf(bits)
      BY <3>1 DEF FreeOf
    <3>. HIDE DEF found
    <3>. QED
      BY <2>1, <2>2, <2>3, <3>2, <3>3, MapGets, Zenon
  <2>4. CASE found # {}
    <3>. DEFINE low == Lowest(found)
    <3>1. low \in found /\ low \in Nat
      <4>1. found \in SUBSET Nat
        BY <1>1, StopsNat
      <4>. QED
        BY <2>4, <4>1, LowestIs
    <3>2. low = FirstFit(FreeOf(bits), count)
      BY <2>2 DEF Lowest, FirstFit
    <3>3. low \in Page /\ Run(low, count) \subseteq FreeOf(bits)
      BY <2>2, <3>1 DEF Fits, FreeOf
    <3>4. bits' = flip_multiple(bits, low, count) /\ mapResult' = <<count, convert_page_index_to_addr(low)>>
      BY <1>3, <1>5, <2>4, Zenon
    <3>. HIDE DEF low, found
    <3>5. FreeOf(bits)' = FreeOf(bits) \ Run(low, count)
      <4>1. \A i \in Page : get(bits', i) <=> (get(bits, i) <=> i \notin Run(low, count))
        BY <1>1, <3>1, <3>4, Flipped
      <4>2. \A i \in Page : ~get(bits', i) <=> (~get(bits, i) /\ i \notin Run(low, count))
        BY <3>3, <4>1 DEF FreeOf
      <4>. QED
        BY <4>2 DEF FreeOf
    <3>6. ToResult(mapResult)' = <<count, low>>
      BY <3>3, <3>4, ToPageOf DEF ToResult
    <3>. QED
      BY <2>1, <2>2, <2>4, <3>2, <3>5, <3>6, MapGets, Zenon
  <2>. QED
    BY <2>3, <2>4
<1>. QED
  BY <1>2, <1>4, <1>5

\* PageMap::put_multiple takes back a run of which no page is free.
LEMMA MapPutStep ==
    ASSUME IInv, NEW count \in 0 .. MaxCount, NEW addr \in Start - 1 .. Start + Size,
           map_put_multiple(addr, count)
    PROVE  [M!Next]_(M!vars)
<1>. DEFINE index == convert_page_addr_to_index(addr)
            bad == addr < Start \/ ~is_aligned_to_page(addr) \/ ~bound_check(index, count)
<1>1. bits \in Bits /\ count \in Nat /\ bit_count \in Nat
  BY Sizes DEF IInv, Types
<1>2. CASE bad
  BY <1>2 DEF map_put_multiple, Panic, M!vars
<1>3. CASE ~bad
  <2>1. index \in Nat /\ index + count <= bit_count
    BY <1>3, IndexNat, Sizes DEF bound_check
  <2>2. IF all(bits, index, count, TRUE)
          THEN mapResult' = <<count, Ok>> /\ bits' = set_multiple(bits, index, count, FALSE)
          ELSE mapResult' = <<count, PageExists>> /\ bits' = bits
    BY <1>3 DEF map_put_multiple
  <2>. HIDE DEF index, bad
  <2>3. CASE count = 0
    <3>1. FreeOf(bits)' = FreeOf(bits)
      <4>1. FreeOf(bits)' = FreeOf(bits')
        BY DEF FreeOf
      <4>. QED
        BY <1>1, <2>1, <2>2, <2>3, <4>1, NoneFlipped
    <3>2. mapResult'[1] = 0
      <4>1. \A x : <<count, x>>[1] = 0
        BY <2>3
      <4>. QED
        BY <2>2, <4>1, Zenon
    <3>. QED
      BY <3>1, <3>2, MapNone
  <2>4. CASE count # 0
    <3>1. count \in 1 .. MaxCount
      BY <1>1, <2>4
    <3>2. index \in Page /\ Run(index, count) \subseteq Page
      BY <1>1, <2>1, <2>4 DEF Page, Run
    <3>3. all(bits, index, count, TRUE) <=> Run(index, count) \cap FreeOf(bits) = {}
      <4>1. \A i : get(bits, i) \in BOOLEAN
        BY DEF get
      <4>2. all(bits, index, count, TRUE) <=> \A i \in Run(index, count) : get(bits, i)
        BY <4>1, Zenon DEF all, Run
      <4>. QED
        BY <3>2, <4>2 DEF FreeOf
    <3>4. CASE all(bits, index, count, TRUE)
      <4>1. bits' = set_multiple(bits, index, count, FALSE) /\ mapResult' = <<count, Ok>>
        BY <2>2, <3>4
      <4>2. \A i \in Page : get(bits', i) <=> (get(bits, i) /\ i \notin Run(index, count))
        BY <1>1, <2>1, <4>1, Cleared
      <4>3. FreeOf(bits)' = FreeOf(bits) \cup Run(index, count)
        BY <3>2, <4>2 DEF FreeOf
      <4>4. ToResult(mapResult)' = <<count, NoPage - 2>>
        BY <4>1, ToPageOf DEF ToResult
      <4>. QED
        BY <3>1, <3>2, <3>3, <3>4, <4>3, <4>4, MapPuts, Zenon
    <3>5. CASE ~all(bits, index, count, TRUE)
      <4>1. bits' = bits /\ mapResult' = <<count, PageExists>>
        BY <2>2, <3>5
      <4>2. ToResult(mapResult)' = <<count, NoPage - 1>>
        BY <4>1, ToPageOf DEF ToResult
      <4>3. FreeOf(bits)' = FreeOf(bits)
        BY <4>1 DEF FreeOf
      <4>. QED
        BY <3>1, <3>2, <3>3, <3>5, <4>2, <4>3, MapPuts, Zenon
    <3>. QED
      BY <3>4, <3>5
  <2>. QED
    BY <2>3, <2>4
<1>. QED
  BY <1>2, <1>3

\* The page map, over its bitmap, implements the set of free pages.
THEOREM MapImplementsFreePages == Spec => MapIsFreePages
<1>1. IInv /\ [Next]_vars => [M!Next]_(M!vars)
  <2>. SUFFICES ASSUME IInv, [Next]_vars
                PROVE  [M!Next]_(M!vars)
    OBVIOUS
  <2>1. CASE UNCHANGED vars
    BY <2>1 DEF vars, M!vars
  <2>2. ASSUME NEW count \in 0 .. MaxCount, set_get_multiple(count)
        PROVE  [M!Next]_(M!vars)
    BY <2>2 DEF set_get_multiple, M!vars
  <2>3. ASSUME NEW count \in 0 .. MaxCount, NEW addr, set_put_mutiple(addr, count)
        PROVE  [M!Next]_(M!vars)
    BY <2>3 DEF set_put_mutiple, M!vars
  <2>. QED
    BY <2>1, <2>2, <2>3, MapGetStep, MapPutStep DEF Next
<1>. QED
  BY <1>1, MapInit, Invariance, PTL DEF Spec, MapIsFreePages, M!Spec

-----------------------------------------------------------------------------
(* The page set is a set of free pages                                     *)

\* The pages that are in the set and not dirty.
FreeIn == {i \in Page : Free(convert_page_index_to_addr(i))}

\* A new page set has no page.
LEMMA SetInit == Init => S!Init
<1>. SUFFICES ASSUME Init
              PROVE  S!Init
  OBVIOUS
<1>1. DOMAIN set = {}
  BY DEF Init
<1>2. {i \in Page : Free(convert_page_index_to_addr(i))} = {}
  BY <1>1 DEF Free
<1>3. ToResult(setResult) = <<0, NoPage>>
  <2>1. setResult[1] = 0 /\ setResult[2] = None
    BY DEF Init
  <2>. QED
    BY <2>1, ToPageOf DEF ToResult
<1>. QED
  BY <1>2, <1>3 DEF S!Init

\* The steps of FreePages, in terms of the runs of this module.
LEMMA SetRuns ==
    /\ \A p, n : S!Run(p, n) = Run(p, n)
    /\ \A T, n : S!Fits(T, n) = Fits(T, n) /\ S!FirstFit(T, n) = FirstFit(T, n)
<1>1. \A p, n : S!Run(p, n) = Run(p, n)
  BY DEF S!Run, Run
<1>2. \A T, n : S!Fits(T, n) = Fits(T, n)
  BY <1>1, Zenon DEF S!Fits, Fits
<1>3. \A T, n : S!FirstFit(T, n) = FirstFit(T, n)
  BY <1>2, Zenon DEF S!FirstFit, FirstFit
<1>. QED
  BY <1>1, <1>2, <1>3

\* A request that takes the lowest run, or finds none, is a step.
LEMMA SetGets ==
    ASSUME NEW n \in 1 .. MaxCount,
           IF Fits(FreeIn, n) = {}
             THEN ToResult(setResult)' = <<n, NoPage>> /\ FreeIn' = FreeIn
             ELSE /\ ToResult(setResult)' = <<n, FirstFit(FreeIn, n)>>
                  /\ FreeIn' = FreeIn \ Run(FirstFit(FreeIn, n), n)
    PROVE  S!Next
<1>1. S!get_multiple(n)
  BY SetRuns, Zenon DEF S!get_multiple, FreeIn
<1>. QED
  BY <1>1 DEF S!Next

\* A run that is taken back or refused is a step.
LEMMA SetPuts ==
    ASSUME NEW n \in 1 .. MaxCount, NEW p \in Page, Run(p, n) \subseteq Page,
           IF Run(p, n) \cap FreeIn = {}
             THEN ToResult(setResult)' = <<n, NoPage - 2>> /\ FreeIn' = FreeIn \cup Run(p, n)
             ELSE ToResult(setResult)' = <<n, NoPage - 1>> /\ FreeIn' = FreeIn
    PROVE  S!Next
<1>1. S!put_multiple(p, n) /\ S!Run(p, n) \subseteq Page
  BY SetRuns, Zenon DEF S!put_multiple, FreeIn
<1>. QED
  BY <1>1 DEF S!Next

\* An operation on no pages is a step.
LEMMA SetNone ==
    ASSUME setResult'[1] = 0, FreeIn' = FreeIn
    PROVE  S!Next
<1>1. S!no_pages
  BY DEF S!no_pages, ToResult, FreeIn
<1>. QED
  BY <1>1 DEF S!Next

\* A run found in the page set is the run of the pages of its addresses.
LEMMA FoundIsFit ==
    ASSUME Types, NEW i \in Page, NEW count \in 1 .. MaxCount
    PROVE  (\A q \in page_range(convert_page_index_to_addr(i), count) : Free(q)) <=> i \in Fits(FreeIn, count)
<1>1. i \in Nat /\ count \in Nat /\ count >= 1
  BY PageBit
<1>2. page_range(convert_page_index_to_addr(i), count) = {convert_page_index_to_addr(j) : j \in Run(i, count)}
  BY <1>1, RangeIsRun
<1>3. i \in Run(i, count) /\ \A j \in Run(i, count) : j \in Nat
  BY <1>1 DEF Run
<1>4. \A j \in Nat : Free(convert_page_index_to_addr(j)) => j \in Page
  <2>. TAKE j \in Nat
  <2>. HAVE Free(convert_page_index_to_addr(j))
  <2>1. PICK k \in Page : convert_page_index_to_addr(j) = convert_page_index_to_addr(k)
    BY DEF Free, Types
  <2>2. k \in Nat
    BY PageBit
  <2>. QED
    BY <2>1, <2>2, AddressOrder
<1>5. (\A q \in page_range(convert_page_index_to_addr(i), count) : Free(q))
         <=> \A j \in Run(i, count) : Free(convert_page_index_to_addr(j))
  BY <1>2
<1>. QED
  BY <1>3, <1>4, <1>5 DEF Fits, FreeIn

\* PageSet::get_multiple takes the lowest run of free pages.
LEMMA SetGetStep ==
    ASSUME IInv, NEW count \in 0 .. MaxCount, set_get_multiple(count)
    PROVE  S!Next
<1>. DEFINE found == {p \in DOMAIN set : \A q \in page_range(p, count) : Free(q)}
            low == Lowest(found)
<1>1. Types /\ count \in Nat
  BY DEF IInv
<1>2. IF found = {} THEN setResult' = <<count, None>> /\ set' = set
      ELSE /\ setResult' = <<count, low>>
           /\ set' = [p \in DOMAIN set |-> IF p \in page_range(low, count) THEN TRUE ELSE set[p]]
  BY Zenon DEF set_get_multiple
<1>3. CASE count = 0
  <2>1. FreeIn' = FreeIn
    <3>1. \A p : page_range(p, count) = {}
      BY <1>3 DEF page_range
    <3>2. \A p : Free(p)' <=> Free(p)
      <4>. HIDE DEF found, low
      <4>. QED
        BY <1>2, <3>1 DEF Free
    <3>. QED
      BY <3>2 DEF FreeIn
  <2>2. setResult'[1] = 0
    <3>1. \A x : <<count, x>>[1] = 0
      BY <1>3
    <3>. HIDE DEF found, low
    <3>. QED
      BY <1>2, <3>1, Zenon
  <2>. QED
    BY <2>1, <2>2, SetNone
<1>4. CASE count # 0
  <2>1. count \in 1 .. MaxCount
    BY <1>1, <1>4
  <2>2. \A i \in Page : convert_page_index_to_addr(i) \in found <=> i \in Fits(FreeIn, count)
    <3>. TAKE i \in Page
    <3>1. i \in Fits(FreeIn, count) => convert_page_index_to_addr(i) \in DOMAIN set
      BY DEF Fits, FreeIn, Free
    <3>. QED
      BY <1>1, <2>1, <3>1, FoundIsFit
  <2>3. \A p \in found : \E i \in Fits(FreeIn, count) : p = convert_page_index_to_addr(i)
    <3>. TAKE p \in found
    <3>1. PICK i \in Page : p = convert_page_index_to_addr(i)
      BY <1>1 DEF Types
    <3>. HIDE DEF found
    <3>. QED
      BY <2>2, <3>1
  <2>4. Fits(FreeIn, count) \subseteq Page
    BY DEF Fits, FreeIn
  <2>. HIDE DEF found, low
  <2>5. CASE found = {}
    <3>1. Fits(FreeIn, count) = {}
      BY <2>2, <2>4, <2>5
    <3>2. ToResult(setResult)' = <<count, NoPage>>
      BY <1>2, <2>5, ToPageOf DEF ToResult
    <3>3. FreeIn' = FreeIn
      BY <1>2, <2>5 DEF FreeIn, Free
    <3>. QED
      BY <2>1, <3>1, <3>2, <3>3, SetGets, Zenon
  <2>6. CASE found # {}
    <3>. DEFINE fits == Fits(FreeIn, count)
                ff == FirstFit(FreeIn, count)
    <3>1. fits \in SUBSET Nat /\ fits # {}
      BY <2>3, <2>4, <2>6, PageBit
    <3>2. ff = Lowest(fits)
      BY DEF Lowest, FirstFit
    <3>3. fits \subseteq Page
      BY <2>4
    <3>. HIDE DEF fits, ff
    <3>4. ff \in fits /\ \A q \in fits : ff <= q
      BY <3>1, <3>2, LowestIs
    <3>5. ff \in Page /\ ff \in Nat
      BY <3>1, <3>3, <3>4
    <3>6. low = convert_page_index_to_addr(ff)
      <4>1. found \in SUBSET Nat
        <5>1. \A i \in Nat : convert_page_index_to_addr(i) \in Nat
          BY Address
        <5>. QED
          BY <2>3, <3>1, <5>1 DEF fits
      <4>2. convert_page_index_to_addr(ff) \in found
        BY <2>2, <3>4, <3>5 DEF fits
      <4>3. \A p \in found : convert_page_index_to_addr(ff) <= p
        <5>. TAKE p \in found
        <5>1. PICK i \in fits : p = convert_page_index_to_addr(i)
          BY <2>3 DEF fits
        <5>2. i \in Nat /\ ff <= i
          BY <3>1, <3>4
        <5>3. ff = i \/ ff < i
          BY <3>5, <5>2
        <5>4. ff < i => convert_page_index_to_addr(ff) < convert_page_index_to_addr(i)
          BY <3>5, <5>2, AddressOrder
        <5>5. convert_page_index_to_addr(ff) \in Nat /\ convert_page_index_to_addr(i) \in Nat
          BY <3>5, <5>2, Address
        <5>. QED
          BY <5>1, <5>3, <5>4, <5>5
      <4>. QED
        BY <4>1, <4>2, <4>3, LowestIs DEF low
    <3>7. /\ setResult' = <<count, low>>
          /\ set' = [p \in DOMAIN set |-> IF p \in page_range(low, count) THEN TRUE ELSE set[p]]
      BY <1>2, <2>6
    <3>8. FreeIn' = FreeIn \ Run(ff, count)
      <4>1. \A j \in Page : convert_page_index_to_addr(j) \in page_range(low, count) <=> j \in Run(ff, count)
        BY <1>1, <3>5, <3>6, PageBit, RangeIsRun
      <4>2. \A p : Free(p)' <=> (Free(p) /\ p \notin page_range(low, count))
        BY <3>7 DEF Free
      <4>. QED
        BY <4>1, <4>2 DEF FreeIn
    <3>9. ToResult(setResult)' = <<count, ff>>
      BY <3>5, <3>6, <3>7, ToPageOf DEF ToResult
    <3>. QED
      BY <2>1, <3>1, <3>8, <3>9, SetGets, Zenon DEF fits, ff
  <2>. QED
    BY <2>5, <2>6
<1>. QED
  BY <1>3, <1>4

\* PageSet::put_mutiple takes back a run of which no page is free.
LEMMA SetPutStep ==
    ASSUME IInv, NEW count \in 0 .. MaxCount, NEW i \in Page, i + count <= bit_count,
           set_put_mutiple(convert_page_index_to_addr(i), count)
    PROVE  S!Next
<1>. DEFINE range == page_range(convert_page_index_to_addr(i), count)
<1>1. i \in Nat /\ count \in Nat /\ bit_count \in Nat
  BY PageBit, Sizes
<1>2. IF ~ \E p \in range : Free(p)
        THEN /\ setResult' = <<count, Ok>>
             /\ set' = [p \in DOMAIN set \cup range |-> IF p \in range THEN FALSE ELSE set[p]]
        ELSE setResult' = <<count, PageExists>> /\ set' = set
  BY Zenon DEF set_put_mutiple
<1>3. Run(i, count) \subseteq Page
  BY <1>1 DEF Run, Page
<1>4. range = {convert_page_index_to_addr(j) : j \in Run(i, count)}
  BY <1>1, RangeIsRun
<1>5. \A j \in Page : convert_page_index_to_addr(j) \in range <=> j \in Run(i, count)
  BY <1>1, PageBit, RangeIsRun
<1>. HIDE DEF range
<1>6. (\E p \in range : Free(p)) <=> Run(i, count) \cap FreeIn # {}
  <2>1. (\E p \in range : Free(p)) <=> \E j \in Run(i, count) : Free(convert_page_index_to_addr(j))
    BY <1>4
  <2>. QED
    BY <1>3, <2>1 DEF FreeIn
<1>7. CASE ~ \E p \in range : Free(p)
  <2>1. setResult' = <<count, Ok>> /\ set' = [p \in DOMAIN set \cup range |-> IF p \in range THEN FALSE ELSE set[p]]
    BY <1>2, <1>7
  <2>2. \A p : Free(p)' <=> (Free(p) \/ p \in range)
    BY <2>1 DEF Free
  <2>3. FreeIn' = FreeIn \cup Run(i, count)
    BY <1>3, <1>5, <2>2 DEF FreeIn
  <2>4. ToResult(setResult)' = <<count, NoPage - 2>>
    BY <2>1, ToPageOf DEF ToResult
  <2>5. CASE count = 0
    <3>1. Run(i, count) = {} /\ setResult'[1] = 0
      BY <1>1, <2>1, <2>5 DEF Run
    <3>2. FreeIn' = FreeIn
      BY <2>3, <3>1
    <3>. QED
      BY <3>1, <3>2, SetNone
  <2>6. CASE count # 0
    <3>1. count \in 1 .. MaxCount
      BY <1>1, <2>6
    <3>. QED
      BY <1>3, <1>6, <1>7, <2>3, <2>4, <3>1, SetPuts, Zenon
  <2>. QED
    BY <2>5, <2>6
<1>8. CASE \E p \in range : Free(p)
  <2>1. setResult' = <<count, PageExists>> /\ set' = set
    BY <1>2, <1>8
  <2>2. FreeIn' = FreeIn
    BY <2>1 DEF FreeIn, Free
  <2>3. ToResult(setResult)' = <<count, NoPage - 1>>
    BY <2>1, ToPageOf DEF ToResult
  <2>4. count # 0
    BY <1>1, <1>6, <1>8 DEF Run
  <2>5. count \in 1 .. MaxCount
    BY <1>1, <2>4
  <2>. QED
    BY <1>3, <1>6, <1>8, <2>2, <2>3, <2>5, SetPuts, Zenon
<1>. QED
  BY <1>7, <1>8

\* The page set, a map from addresses to dirty bits, implements the set of free
\* pages too, and starts with none.
THEOREM SetImplementsFreePages == Spec => SetIsFreePages
<1>1. IInv /\ [Next]_vars => [S!Next]_(S!vars)
  <2>. SUFFICES ASSUME IInv, [Next]_vars
                PROVE  [S!Next]_(S!vars)
    OBVIOUS
  <2>1. CASE UNCHANGED vars
    BY <2>1 DEF vars, S!vars, Free
  <2>2. ASSUME NEW count \in 0 .. MaxCount, map_get_multiple(count)
        PROVE  UNCHANGED S!vars
    <3>1. set' = set /\ setResult' = setResult
      BY <2>2 DEF map_get_multiple, Panic
    <3>. QED
      BY <3>1 DEF S!vars, Free
  <2>3. ASSUME NEW count \in 0 .. MaxCount, NEW addr, map_put_multiple(addr, count)
        PROVE  UNCHANGED S!vars
    <3>1. set' = set /\ setResult' = setResult
      BY <2>3 DEF map_put_multiple, Panic
    <3>. QED
      BY <3>1 DEF S!vars, Free
  <2>. QED
    BY <2>1, <2>2, <2>3, SetGetStep, SetPutStep DEF Next
<1>. QED
  BY <1>1, SetInit, Invariance, PTL DEF Spec, SetIsFreePages, S!Spec
=============================================================================
