----------------------------- MODULE MCSchedule -----------------------------
(***************************************************************************)
(* An instance of Schedule for TLC: the two pools of kernel_main, two tasks *)
(* for the first of them, and time slices of every kind.  The pools        *)
(* redirect to each other, the second also executes the boot thread, and   *)
(* the search of the first pool's scheduler finds the second pool.         *)
(***************************************************************************)
EXTENDS Schedule

CONSTANTS s1, s2, t1, t2

MCSchedOf == <<s1, s2>>
MCTasks == <<<<t1, t2>>, <<>>>>
MCSlices == <<<<Redirect(2), Routine>>, <<Redirect(1), Execute(Main), Routine>>>>
MCPeer == <<2, 0>>
=============================================================================
