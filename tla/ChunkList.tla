----------------------------- MODULE ChunkList -----------------------------
(***************************************************************************)
(* The arena of a kernel object: the list of free chunks                   *)
(* (mm/chunk_list.rs) behind Arena and KObjectArena (mm/yaarena.rs,        *)
(* mm/koarena.rs).  A chunk's header is kept in the free memory itself.    *)
(* Addresses and sizes are counted in words of 8 bytes, the alignment of   *)
(* the header, to which every size is rounded up before it is used.        *)
(* Every operation runs under the arena's mutex.                           *)
(***************************************************************************)
EXTENDS Integers, Sequences

CONSTANTS
    Start, Size,   \* the memory the arena is given
    ChunkSize,     \* size_of::<Chunk>()
    Layouts        \* the layouts asked for: records of a size and an align

ASSUME ChunkListAssumption ==
    /\ Start \in Nat /\ ChunkSize \in Nat \ {0} /\ Size \in Nat /\ Size >= ChunkSize
    /\ Layouts \subseteq [size : Nat, align : Nat \ {0}]

VARIABLES
    chunks,        \* the list, from head.next on: start and size of each chunk
    live           \* the blocks allocated: their address and layout

vars == <<chunks, live>>

Chunk(start, size) == [start |-> start, size |-> size]

\* align_up; the alignment is a power of 2, which the masks of the code need.
align_up(addr, align) == ((addr + align - 1) \div align) * align

\* ChunkList::align_layout: room for a header, and a multiple of the alignment.
align_layout(layout) ==
    [layout EXCEPT !.size = align_up(IF @ > ChunkSize THEN @ ELSE ChunkSize, layout.align)]

\* The arena is created: ChunkList::new.  init_chunk rounds the start up and the
\* size down to the alignment of a header; both are the identity here, where all
\* is counted in words, and in the kernel, which passes only such starts and
\* sizes (an unaligned start would move the end of the chunk along).
Init == chunks = <<Chunk(Start, Size)>> /\ live = {}

-----------------------------------------------------------------------------

\* Where in a chunk a block of the layout goes: at its start, or far enough
\* from it for the header of a chunk in front.
alloc_start(c, layout) ==
    IF c.start % layout.align = 0 THEN c.start
    ELSE align_up(c.start + ChunkSize, layout.align)
alloc_end(c, layout) == alloc_start(c, layout) + layout.size

\* Mutant: a rest too small for a header is accepted.
can_allocate_tight(c, layout) ==
    LET left == c.start + c.size - alloc_end(c, layout) IN
    left >= 0

\* Chunk::can_allocate: what is left behind the block is nothing, or a chunk.
can_allocate(c, layout) ==
    LET left == c.start + c.size - alloc_end(c, layout) IN
    left = 0 \/ left >= ChunkSize

\* What pop_first_fit makes of the chunk it has found: the block, a chunk in
\* front of it and one behind it, each if there is anything left there.
split(c, layout) ==
    LET a == alloc_start(c, layout)
        b == alloc_end(c, layout)
    IN
    [ptr |-> a,
     front |-> IF a = c.start THEN <<>> ELSE <<Chunk(c.start, a - c.start)>>,
     back |-> IF b = c.start + c.size THEN <<>> ELSE <<Chunk(b, c.start + c.size - b)>>]

\* The chunks that will do, and the first of them.
Fitting(layout) == {i \in 1 .. Len(chunks) : can_allocate(chunks[i], layout)}

\* Arena::allocate with pop_first_fit.  If nothing fits it returns an error,
\* and nothing has changed.
allocate(asked) ==
    LET layout == align_layout(asked) IN
    \E i \in Fitting(layout) :
        LET s == split(chunks[i], layout) IN
        /\ \A j \in Fitting(layout) : i <= j
        /\ chunks' = SubSeq(chunks, 1, i - 1) \o s.front \o s.back
                     \o SubSeq(chunks, i + 1, Len(chunks))
        /\ live' = live \cup {[ptr |-> s.ptr, layout |-> asked]}

\* Mutant: the size freed is the one asked for.
deallocate_unrounded(block) ==
    /\ chunks' = <<Chunk(block.ptr, block.layout.size)>> \o chunks
    /\ live' = live \ {block}

\* Arena::deallocate: the block becomes the first chunk.
deallocate(block) ==
    /\ chunks' = <<Chunk(block.ptr, align_layout(block.layout).size)>> \o chunks
    /\ live' = live \ {block}

Next ==
    \/ \E layout \in Layouts : allocate(layout)
    \/ \E block \in live : deallocate(block)

Spec == Init /\ [][Next]_vars

-----------------------------------------------------------------------------
(* Properties                                                              *)

TypeOK ==
    /\ chunks \in Seq([start : Nat, size : Nat])
    /\ live \subseteq [ptr : Nat, layout : Layouts]

Words(start, size) == start .. (start + size - 1)
ChunkWords(i) == Words(chunks[i].start, chunks[i].size)
BlockWords(b) == Words(b.ptr, align_layout(b.layout).size)

\* The arena never hands out memory twice, nor loses any: its memory is tiled
\* by the chunks of the list and the blocks that are allocated.
Tiled ==
    /\ \A i, j \in 1 .. Len(chunks) : i # j => ChunkWords(i) \cap ChunkWords(j) = {}
    /\ \A b, d \in live : b # d => BlockWords(b) \cap BlockWords(d) = {}
    /\ \A i \in 1 .. Len(chunks), b \in live : ChunkWords(i) \cap BlockWords(b) = {}
    /\ Words(Start, Size) = (UNION {ChunkWords(i) : i \in 1 .. Len(chunks)})
                            \cup (UNION {BlockWords(b) : b \in live})

\* Every chunk has room for its own header, so that writing one never touches
\* a block, and every block has the alignment it was asked for, whatever rests
\* earlier allocations left.
HeadersFit ==
    /\ \A i \in 1 .. Len(chunks) : chunks[i].size >= ChunkSize
    /\ \A b \in live : b.ptr % b.layout.align = 0
=============================================================================
