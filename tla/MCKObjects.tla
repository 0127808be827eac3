----------------------------- MODULE MCKObjects -----------------------------
(***************************************************************************)
(* KObjects with the two pools of main.rs.  Page counts are scaled down:   *)
(* a thread has 3 pages instead of 16, 512 pages become NPages.            *)
(***************************************************************************)
EXTENDS KObjects

\* main.rs: the labels of the two pools and of their schedulers.
Labels == <<"gongqi", "gongqi&laptop">>
SchedLabels == <<"gongqi", "gongqi">>
Flows == {<<"bottom", l>> : l \in {"bottom", "gongqi", "gongqi&laptop"}}
         \cup {<<"gongqi", "gongqi">>, <<"gongqi", "gongqi&laptop">>,
               <<"gongqi&laptop", "gongqi&laptop">>}

\* Both schedulers spawn into the container of the first pool, as in main.rs.
SharedHome == <<1, 1>>
\* Each spawns into the container of its own pool.
OwnHome == <<1, 2>>

TasksEach == <<2, 2>>
TaskEach == <<1, 1>>
=============================================================================
