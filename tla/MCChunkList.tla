---------------------------- MODULE MCChunkList ----------------------------
(* An arena of a few words that starts at an odd one, and layouts below    *)
(* and above the size of a header, aligned to one, two and four words.     *)
EXTENDS ChunkList

SmallLayouts ==
    {[size |-> 1, align |-> 1], [size |-> 3, align |-> 1],
     [size |-> 2, align |-> 2], [size |-> 3, align |-> 4]}
=============================================================================
