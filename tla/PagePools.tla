----------------------------- MODULE PagePools -----------------------------
(***************************************************************************)
(* The two pools of pages of mm/page.rs: PageMap, over the bitmap of       *)
(* collections/bitmap.rs, and PageSet, over a BTreeMap from the addresses  *)
(* it was given to a dirty bit.  Addresses, page indices and the words and *)
(* bits of the bitmap are kept apart as in the code.                       *)
(*                                                                         *)
(* An assertion that fails, or an index out of bounds, stops the kernel;   *)
(* so does an overflow in a debug build, while a release build wraps.      *)
(***************************************************************************)
EXTENDS PageRuns, FiniteSets

CONSTANTS
    Start, Size,   \* the memory of the PageMap, in bytes
    PageSize,      \* PAGE_SIZE
    ItemBits,      \* ITEM_BITS
    Usize,         \* the number of usize values
    MaxCount       \* bound: pages asked for or put back at once; adding as many
                   \* to an index or an address in the pool does not overflow

ASSUME PagePoolsAssumption ==
    /\ {Start, Size, MaxCount} \subseteq Nat /\ {PageSize, ItemBits, Usize} \subseteq Nat \ {0}
    /\ Start % PageSize = 0 /\ Start > 0
    /\ Start + Size + MaxCount * PageSize < Usize

VARIABLES
    pool, checked, \* the pool in use, and whether the build checks for overflows
    bits,          \* Bitmap::bits of the PageMap's pool
    set,           \* PageSet: the dirty bits of the addresses that are in it
    mapResult, setResult,      \* of the last operation on each, after its count
    panicked       \* whether the kernel has stopped, and in which call

vars == <<pool, checked, bits, set, mapResult, setResult, panicked>>

\* Results other than an address: PageNotFound, PageExists and Ok(())
None == 0
PageExists == Start + Size + PageSize
Ok == PageExists + 1

-----------------------------------------------------------------------------
(* Bitmap                                                                  *)

bit_count == Size \div PageSize
item_count == (bit_count + ItemBits - 1) \div ItemBits

\* Bitmap::new; an item is the set of its bits that are 1.
new == [k \in 0 .. item_count - 1 |-> {}]

get(b, i) == (i % ItemBits) \in b[i \div ItemBits]

\* The bits of item k that are bits of the map from start on, count of them.
Mask(k, start, count) ==
    {j \in 0 .. ItemBits - 1 : k * ItemBits + j \in start .. (start + count - 1)}

\* set_multiple (mark and reset of each bit), and the flips of find_and_flip
set_multiple(b, start, count, value) ==
    [k \in DOMAIN b |->
        IF value THEN b[k] \cup Mask(k, start, count) ELSE b[k] \ Mask(k, start, count)]
flip_multiple(b, start, count) ==
    [k \in DOMAIN b |-> (b[k] \ Mask(k, start, count)) \cup (Mask(k, start, count) \ b[k])]

bound_check(start, count) == start <= bit_count /\ start + count <= bit_count
all(b, start, count, value) == \A i \in start .. (start + count - 1) : get(b, i) = value

\* Mutant: every index is a candidate.
find_end_open(count) == bit_count

\* The end of the range that find looks through, bit_count - (count - 1)
find_end(count) == (bit_count + Usize - ((count + Usize - 1) % Usize)) % Usize
find_overflows(count) == count = 0 \/ count - 1 > bit_count

\* find from index 0 on: the candidates at which it stops, because the run is
\* there or because the check of the bounds fails.
Stops(b, count, value) ==
    {i \in 0 .. find_end(count) - 1 : ~bound_check(i, count) \/ all(b, i, count, value)}
Lowest(S) == CHOOSE i \in S : \A j \in S : i <= j
find_panics(b, count, value) ==
    \/ checked /\ find_overflows(count)
    \/ Stops(b, count, value) # {} /\ ~bound_check(Lowest(Stops(b, count, value)), count)

-----------------------------------------------------------------------------
(* PageMap                                                                 *)

is_aligned_to_page(addr) == addr % PageSize = 0
convert_page_index_to_addr(index) == Start + index * PageSize
convert_page_addr_to_index(addr) == (addr - Start) \div PageSize

Panic(call) == panicked' = call /\ UNCHANGED <<pool, checked, bits, set, mapResult, setResult>>

map_get_multiple(count) ==
    LET found == Stops(bits, count, FALSE) IN
    IF find_panics(bits, count, FALSE) THEN Panic(<<"get", Start, count>>)
    ELSE /\ IF found = {} THEN mapResult' = <<count, None>> /\ UNCHANGED bits
            ELSE /\ mapResult' = <<count, convert_page_index_to_addr(Lowest(found))>>
                 /\ bits' = flip_multiple(bits, Lowest(found), count)
         /\ UNCHANGED <<pool, checked, set, setResult, panicked>>

\* Mutant: a run is taken back as soon as its first page is in use.
map_put_multiple_first(addr, count) ==
    LET index == convert_page_addr_to_index(addr) IN
    IF addr < Start \/ ~is_aligned_to_page(addr) \/ ~bound_check(index, count)
      THEN Panic(<<"put", addr, count>>)
    ELSE /\ IF all(bits, index, IF count > 0 THEN 1 ELSE 0, TRUE)
              THEN mapResult' = <<count, Ok>> /\ bits' = set_multiple(bits, index, count, FALSE)
              ELSE mapResult' = <<count, PageExists>> /\ UNCHANGED bits
         /\ UNCHANGED <<pool, checked, set, setResult, panicked>>

map_put_multiple(addr, count) ==
    LET index == convert_page_addr_to_index(addr) IN
    IF addr < Start \/ ~is_aligned_to_page(addr) \/ ~bound_check(index, count)
      THEN Panic(<<"put", addr, count>>)
    ELSE /\ IF all(bits, index, count, TRUE)
              THEN mapResult' = <<count, Ok>> /\ bits' = set_multiple(bits, index, count, FALSE)
              ELSE mapResult' = <<count, PageExists>> /\ UNCHANGED bits
         /\ UNCHANGED <<pool, checked, set, setResult, panicked>>

-----------------------------------------------------------------------------
(* PageSet                                                                 *)

page_range(start, n) == {start + i * PageSize : i \in 0 .. n - 1}
Free(p) == p \in DOMAIN set /\ ~set[p]

set_get_multiple(count) ==
    LET found == {p \in DOMAIN set : \A q \in page_range(p, count) : Free(q)} IN
    /\ IF found = {} THEN setResult' = <<count, None>> /\ UNCHANGED set
       ELSE /\ setResult' = <<count, Lowest(found)>>
            /\ set' = [p \in DOMAIN set |->
                          IF p \in page_range(Lowest(found), count) THEN TRUE ELSE set[p]]
    /\ UNCHANGED <<pool, checked, bits, mapResult, panicked>>

\* Mutant: a run is refused only if all of it is free.
set_put_mutiple_any(addr, count) ==
    /\ IF \E p \in page_range(addr, count) : ~Free(p)
         THEN /\ setResult' = <<count, Ok>>
              /\ set' = [p \in DOMAIN set \cup page_range(addr, count) |->
                            IF p \in page_range(addr, count) THEN FALSE ELSE set[p]]
         ELSE setResult' = <<count, PageExists>> /\ UNCHANGED set
    /\ UNCHANGED <<pool, checked, bits, mapResult, panicked>>

\* Addresses are not checked: pages the set has never held become part of it.
set_put_mutiple(addr, count) ==
    /\ IF ~ \E p \in page_range(addr, count) : Free(p)
         THEN /\ setResult' = <<count, Ok>>
              /\ set' = [p \in DOMAIN set \cup page_range(addr, count) |->
                            IF p \in page_range(addr, count) THEN FALSE ELSE set[p]]
         ELSE setResult' = <<count, PageExists>> /\ UNCHANGED set
    /\ UNCHANGED <<pool, checked, bits, mapResult, panicked>>

-----------------------------------------------------------------------------
Init ==
    /\ pool \in {"map", "set"} /\ checked \in BOOLEAN
    /\ bits = new /\ set = [p \in {} |-> FALSE]
    /\ mapResult = <<0, None>> /\ setResult = <<0, None>>
    /\ panicked = <<>>

Page == 0 .. bit_count - 1

\* The PageMap is asked for anything, sound or not; what is put into the
\* PageSet are runs of pages.
Next ==
    /\ panicked = <<>>
    /\ \E count \in 0 .. MaxCount :
          \/ pool = "map" /\ map_get_multiple(count)
          \/ /\ pool = "map"
             /\ \E addr \in Start - 1 .. Start + Size : map_put_multiple(addr, count)
          \/ pool = "set" /\ set_get_multiple(count)
          \/ /\ pool = "set"
             /\ \E i \in Page : /\ i + count <= bit_count
                                /\ set_put_mutiple(convert_page_index_to_addr(i), count)

Spec == Init /\ [][Next]_vars

-----------------------------------------------------------------------------
(* Properties                                                              *)

NoPage == -1
ToPage(r) ==
    IF r = None THEN NoPage ELSE IF r = PageExists THEN NoPage - 1
    ELSE IF r = Ok THEN NoPage - 2 ELSE convert_page_addr_to_index(r)
ToResult(r) == <<r[1], ToPage(r[2])>>

\* The bitmap, its words and shifts and the addresses are a set of free pages:
\* the lowest run that fits is found, handed out and taken back whole, and no
\* run is taken back that is partly free.
M == INSTANCE FreePages WITH
        pages <- {i \in Page : ~get(bits, i)}, result <- ToResult(mapResult),
        Initial <- Page, MaxRun <- MaxCount, None <- NoPage,
        Refused <- NoPage - 1, Ok <- NoPage - 2
MapIsFreePages == M!Spec

\* So is the ordered map of addresses and dirty bits of the PageSet, which
\* starts with no pages.
S == INSTANCE FreePages WITH
        pages <- {i \in Page : Free(convert_page_index_to_addr(i))}, result <- ToResult(setResult),
        Initial <- {}, MaxRun <- MaxCount, None <- NoPage,
        Refused <- NoPage - 1, Ok <- NoPage - 2
SetIsFreePages == S!Spec

\* A request for one page up to one more than there are, and a run of whole
\* pages inside the pool that is put back, never stop the kernel, in a build
\* with overflow checks or without.
PanicsOnlyOutside ==
    panicked # <<>> =>
        LET call == panicked[1]
            addr == panicked[2]
            count == panicked[3]
        IN  \/ call = "get" /\ (count = 0 \/ count > bit_count + 1)
            \/ call = "put" /\ \A i \in Page :
                  ~(addr = convert_page_index_to_addr(i) /\ i + count <= bit_count)
=============================================================================
