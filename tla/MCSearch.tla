------------------------------ MODULE MCSearch ------------------------------
(* Search over every graph of three containers that each know at most one  *)
(* other, or two for the first of them, with pushes up to MaxKnown.        *)
EXTENDS Search

CONSTANTS c1, c2, c3

Few == {<<>>, <<c1>>, <<c2>>, <<c3>>, <<c2, c3>>}
=============================================================================
