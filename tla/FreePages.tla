----------------------------- MODULE FreePages -----------------------------
(***************************************************************************)
(* What the page allocators (mm/page_tree.rs, mm/page.rs) promise: a set   *)
(* of free pages from which get_multiple takes the lowest run of           *)
(* consecutive pages that is long enough, or nothing, and which takes back *)
(* a run only if none of its pages is free.                                *)
(***************************************************************************)
EXTENDS PageRuns

CONSTANTS
    Page,          \* page numbers
    Initial,       \* the pages that are free at first
    MaxRun,        \* longest run asked for or put back
    None,          \* get_multiple found no run
    Ok, Refused    \* a run was put back, or not

VARIABLES
    pages,         \* the free pages
    result         \* the last operation: for how many pages it was, what it returned

vars == <<pages, result>>

Init == pages = Initial /\ result = <<0, None>>

put_multiple(p, npages) ==
    IF Run(p, npages) \cap pages = {}
      THEN result' = <<npages, Ok>> /\ pages' = pages \cup Run(p, npages)
      ELSE result' = <<npages, Refused>> /\ UNCHANGED pages

get_multiple(npages) ==
    IF Fits(pages, npages) = {}
      THEN result' = <<npages, None>> /\ UNCHANGED pages
      ELSE /\ result' = <<npages, FirstFit(pages, npages)>>
           /\ pages' = pages \ Run(FirstFit(pages, npages), npages)

\* An operation on no pages changes nothing, whatever it returns.
no_pages == result'[1] = 0 /\ UNCHANGED pages

Next ==
    \/ \E p \in Page, npages \in 1 .. MaxRun :
          Run(p, npages) \subseteq Page /\ put_multiple(p, npages)
    \/ \E npages \in 1 .. MaxRun : get_multiple(npages)
    \/ no_pages

Spec == Init /\ [][Next]_vars
=============================================================================
