------------------------------ MODULE PageRuns ------------------------------
(***************************************************************************)
(* Runs of consecutive pages in a set of free pages: what                  *)
(* PageTree::get_multiple looks for.  Shared by the modules that keep free *)
(* pages as a set.                                                         *)
(***************************************************************************)
EXTENDS Integers

\* The n pages from p on.
Run(p, n) == p .. (p + n - 1)

\* The pages of S from which n consecutive pages are in S.
Fits(S, n) == {p \in S : Run(p, n) \subseteq S}

\* The lowest of them.
FirstFit(S, n) == CHOOSE p \in Fits(S, n) : \A q \in Fits(S, n) : p <= q
=============================================================================
