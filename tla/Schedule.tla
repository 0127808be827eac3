------------------------------ MODULE Schedule ------------------------------
(***************************************************************************)
(* Threads, timer interrupts and context switches on the single core:      *)
(* boot (main.rs), the exception handler (exception.rs, exception.S), the  *)
(* timer (timer.rs), resource-block scheduling (schedule.rs), voluntary    *)
(* yields (thread.rs), the switch itself (switch.S) and the spin locks     *)
(* (mutex.rs) of the statics they share.                                   *)
(*                                                                         *)
(* A thread's code is at pc[t]; while an interrupt of t is being handled   *)
(* the handler's code is at irq[t], on the same stack.  What a task thread *)
(* computes, and what is printed, is left out.  A panic switches the       *)
(* machine off: a statement that would panic has no step (NoPanic).        *)
(***************************************************************************)
EXTENDS Naturals, Sequences

CONSTANTS
    NPools,        \* pool containers, numbered in the order they are created
    Main,          \* the boot thread
    SchedOf,       \* SchedOf[p]: the scheduler thread of pool p
    TasksOf,       \* TasksOf[p]: the task threads pool p is asked to run, newest request first
    Slices,        \* Slices[p]: the time slices granted to pool p
    Peer,          \* Peer[p]: the pool container::search finds for p, or 0
    TimeSlice,     \* ticks between two preemptions
    NoThread       \* TPIDR_EL2 = 0, saved_sp = 0, None

Pool == 1 .. NPools
SchedThread == {SchedOf[p] : p \in Pool}
Thread == {Main} \cup SchedThread \cup UNION {{TasksOf[p][i] : i \in 1 .. Len(TasksOf[p])} : p \in Pool}
TaskThread == Thread \ ({Main} \cup SchedThread)

\* kobject::TimeSlice
Routine == [kind |-> "Routine", th |-> NoThread, ct |-> 0]
Execute(t) == [kind |-> "Execute", th |-> t, ct |-> 0]
Redirect(p) == [kind |-> "Redirect", th |-> NoThread, ct |-> p]
Slice == {Routine} \cup {Execute(t) : t \in SchedThread \cup {Main}} \cup {Redirect(p) : p \in Pool}

ASSUME ScheduleAssumption ==
    /\ NPools \in Nat \ {0} /\ TimeSlice \in Nat \ {0}
    /\ NoThread \notin Thread /\ Main \notin SchedThread
    /\ TasksOf \in [Pool -> Seq(Thread \ ({Main} \cup SchedThread))]
    /\ \A p, q \in Pool : SchedOf[p] = SchedOf[q] => p = q
    /\ Slices \in [Pool -> Seq(Slice)]
    /\ Peer \in [Pool -> 0 .. NPools]

VARIABLES
    \* the processor, its timer and its interrupt controller
    run,           \* the thread whose stack sp is in
    tpidr,         \* TPIDR_EL2: the thread the kernel believes is running
    masked,        \* DAIF: interrupts are masked
    timerOn,       \* init_timer has been called
    pending,       \* the timer interrupt is pending
    worked,        \* interrupted code has run since the timer was last re-armed
    \* statics
    tick,          \* TICK_COUNT modulo TimeSlice
    yieldFlag,     \* YIELD_BEFORE_RETURN
    lock,          \* per static mutex: the thread that locked it, or NoThread
    rbs, rbHand,   \* RESBLOCKS: holders of the blocks, and the hand
    ts, tsHand,    \* TS: the containers entered, and their hands
    \* containers
    slices,        \* Container::time_slices
    sched,         \* Container::scheduler
    \* threads
    savedSp,       \* Thread::saved_sp: whose stack it points into
    stackTpidr,    \* TPIDR_EL2 in the context switch pushed on t's stack
    irqTpidr,      \* TPIDR_EL2 in the frame the exception pushed on t's stack
    pc, irq,       \* where the code of t, and the handler on t's stack, are
    oldMask, irqOldMask,   \* old_mask of with_intr_disabled, of each of the two
    nxt, ret,      \* yield_to: the thread to switch to, where to go on afterwards
    hnxt,          \* handler: the container, then the thread, that comes next
    boot,          \* the pool the boot code is working on
    \* scheduler threads
    inbox,         \* task requests sent and not received
    batch,         \* requests received and not spawned
    ready, hand    \* ready_list and hand of the scheduler closure

cpuVars == <<run, tpidr, masked>>
timerVars == <<timerOn, pending, tick, yieldFlag>>
tableVars == <<rbs, rbHand, ts, tsHand, slices, sched>>
ctxVars == <<savedSp, stackTpidr, irqTpidr>>
localVars == <<nxt, ret, boot, inbox, batch, ready, hand>>
vars == <<cpuVars, timerVars, worked, lock, tableVars, ctxVars, pc, irq,
          oldMask, irqOldMask, hnxt, localVars>>

\* The mutexes the scheduling code and debug! take; those of the allocator, of
\* READY_LIST and of the drivers are left out: the handler does not take them.
Lock == {"RESBLOCKS", "TS", "UART"}

\* _start and kernel_main before load_table: masked, no thread, nothing locked.
Init ==
    /\ run = Main /\ tpidr = NoThread /\ masked = TRUE
    /\ timerOn = FALSE /\ pending = FALSE /\ worked = TRUE
    /\ tick = 0 /\ yieldFlag = FALSE
    /\ lock = [l \in Lock |-> NoThread]
    /\ rbs = <<>> /\ rbHand = 0 /\ ts = <<>> /\ tsHand = [p \in Pool |-> 0]
    /\ slices = [p \in Pool |-> <<>>] /\ sched = [p \in Pool |-> NoThread]
    /\ savedSp = [t \in Thread |-> NoThread]
    /\ stackTpidr = [t \in Thread |-> NoThread]
    /\ irqTpidr = [t \in Thread |-> NoThread]
    /\ pc = [t \in Thread |-> IF t = Main THEN "load_table"
                              ELSE IF t \in SchedThread THEN "recv" ELSE "d_mask"]
    /\ irq = [t \in Thread |-> "none"]
    /\ oldMask = [t \in Thread |-> FALSE] /\ irqOldMask = [t \in Thread |-> FALSE]
    /\ hnxt = [t \in Thread |-> NoThread]
    /\ nxt = [t \in Thread |-> NoThread] /\ ret = [t \in Thread |-> "recv"]
    /\ boot = 1
    /\ inbox = [p \in Pool |-> <<>>] /\ batch = [p \in Pool |-> <<>>]
    /\ ready = [p \in Pool |-> <<>>] /\ hand = [p \in Pool |-> 0]

-----------------------------------------------------------------------------
(* Steps of the running thread, and of the handler on its stack            *)

\* The code of the running thread goes from one statement to another.
Step(from, to) ==
    /\ irq[run] = "none"
    /\ pc[run] = from
    /\ pc' = [pc EXCEPT ![run] = to]
    /\ worked' = TRUE
    /\ UNCHANGED <<timerVars, irq, irqOldMask, irqTpidr, hnxt>>

\* The handler does.
HandlerStep(from, to) ==
    /\ irq[run] = from
    /\ irq' = [irq EXCEPT ![run] = to]
    /\ UNCHANGED <<timerOn, pc, oldMask, slices, sched, nxt, ret, boot, inbox, batch, ready, hand>>

\* exception::with_intr_disabled, on entry and on exit
Disable == oldMask' = [oldMask EXCEPT ![run] = masked] /\ masked' = TRUE
Restore == masked' = oldMask[run] /\ UNCHANGED oldMask

\* Mutex::lock spins until it finds the lock free; MutexGuard::drop
Acquire(l) == lock[l] = NoThread /\ lock' = [lock EXCEPT ![l] = run]
Release(l) == lock' = [lock EXCEPT ![l] = NoThread]

\* Mutant: a new thread is entered without setting TPIDR_EL2.
switch_keeps_tpidr(curr, next) ==
    LET sp == [savedSp EXCEPT ![curr] = run] IN
    /\ savedSp' = sp
    /\ stackTpidr' = [stackTpidr EXCEPT ![run] = tpidr]
    /\ IF sp[next] = NoThread
         THEN run' = next /\ masked' = FALSE /\ UNCHANGED tpidr
         ELSE run' = sp[next] /\ tpidr' = stackTpidr'[sp[next]] /\ UNCHANGED masked

\* Mutant: a new thread is entered with interrupts still masked.
switch_stays_masked(curr, next) ==
    LET sp == [savedSp EXCEPT ![curr] = run] IN
    /\ savedSp' = sp
    /\ stackTpidr' = [stackTpidr EXCEPT ![run] = tpidr]
    /\ IF sp[next] = NoThread
         THEN run' = next /\ tpidr' = next /\ UNCHANGED masked
         ELSE run' = sp[next] /\ tpidr' = stackTpidr'[sp[next]] /\ UNCHANGED masked

\* switch(curr, next): push the context on the stack in use, remember it in
\* curr, and take up next's stack, or start next with interrupts unmasked.
switch(curr, next) ==
    LET sp == [savedSp EXCEPT ![curr] = run] IN
    /\ savedSp' = sp
    /\ stackTpidr' = [stackTpidr EXCEPT ![run] = tpidr]
    /\ IF sp[next] = NoThread
         THEN run' = next /\ tpidr' = next /\ masked' = FALSE
         ELSE run' = sp[next] /\ tpidr' = stackTpidr'[sp[next]] /\ UNCHANGED masked

-----------------------------------------------------------------------------
(* Boot: kernel_main                                                       *)

load_table ==
    /\ Step("load_table", "init_timer")
    /\ masked' = FALSE
    /\ UNCHANGED <<run, tpidr, lock, tableVars, savedSp, stackTpidr, oldMask, localVars>>

init_timer ==
    /\ irq[run] = "none" /\ pc[run] = "init_timer"
    /\ pc' = [pc EXCEPT ![run] = "rb_lock"]
    /\ timerOn' = TRUE
    /\ UNCHANGED <<cpuVars, pending, tick, yieldFlag, worked, lock, tableVars, ctxVars, irq,
                   oldMask, irqOldMask, hnxt, localVars>>

\* RESBLOCKS.lock().replace and TS.lock().replace, interrupts on.
boot_lock(from, l, to) ==
    /\ Step(from, to)
    /\ Acquire(l)
    /\ UNCHANGED <<cpuVars, tableVars, savedSp, stackTpidr, oldMask, localVars>>

boot_replace(from, l, to) ==
    /\ Step(from, to)
    /\ Release(l)
    /\ UNCHANGED <<cpuVars, tableVars, savedSp, stackTpidr, oldMask, localVars>>

init_thread ==
    /\ Step("init_thread", "spawn")
    /\ tpidr' = Main
    /\ UNCHANGED <<run, masked, lock, tableVars, savedSp, stackTpidr, oldMask, localVars>>

\* A pool container, its scheduler thread, and the assignment of the latter.
spawn_pool ==
    /\ Step("spawn", IF boot = NPools THEN "send" ELSE "spawn")
    /\ sched' = [sched EXCEPT ![boot] = SchedOf[boot]]
    /\ boot' = IF boot = NPools THEN 1 ELSE boot + 1
    /\ UNCHANGED <<cpuVars, lock, rbs, rbHand, ts, tsHand, slices, savedSp, stackTpidr, oldMask,
                   nxt, ret, inbox, batch, ready, hand>>

send_tasks ==
    /\ Step("send", "b_mask")
    /\ inbox' = TasksOf
    /\ UNCHANGED <<cpuVars, lock, tableVars, savedSp, stackTpidr, oldMask,
                   nxt, ret, boot, batch, ready, hand>>

\* The closure that creates time slices, TS entries and resource blocks.
grant_mask ==
    /\ Step("b_mask", "grant_lock")
    /\ Disable
    /\ UNCHANGED <<run, tpidr, lock, tableVars, savedSp, stackTpidr, localVars>>

grant_slices ==
    /\ Step("grant_lock", "grant_push")
    /\ slices' = [slices EXCEPT ![boot] = Slices[boot]]
    /\ Acquire("TS")
    /\ UNCHANGED <<cpuVars, rbs, rbHand, ts, tsHand, sched, savedSp, stackTpidr, oldMask, localVars>>

grant_ts ==
    /\ Step("grant_push", IF boot = NPools THEN "rb_grant_lock" ELSE "grant_lock")
    /\ ts' = Append(ts, boot)
    /\ tsHand' = [tsHand EXCEPT ![boot] = 0]
    /\ Release("TS")
    /\ boot' = IF boot = NPools THEN 1 ELSE boot + 1
    /\ UNCHANGED <<cpuVars, rbs, rbHand, slices, sched, savedSp, stackTpidr, oldMask,
                   nxt, ret, inbox, batch, ready, hand>>

grant_rb ==
    /\ Step("rb_grant_push", "b_unmask")
    /\ rbs' = [p \in Pool |-> p]
    /\ Release("RESBLOCKS")
    /\ UNCHANGED <<cpuVars, rbHand, ts, tsHand, slices, sched, savedSp, stackTpidr, oldMask, localVars>>

grant_unmask ==
    /\ Step("b_unmask", "d_mask")
    /\ Restore
    /\ UNCHANGED <<run, tpidr, lock, tableVars, savedSp, stackTpidr, localVars>>

Boot ==
    \/ load_table \/ init_timer \/ init_thread \/ spawn_pool \/ send_tasks
    \/ boot_lock("rb_lock", "RESBLOCKS", "rb_replace")
    \/ boot_replace("rb_replace", "RESBLOCKS", "ts_lock")
    \/ boot_lock("ts_lock", "TS", "ts_replace")
    \/ boot_replace("ts_replace", "TS", "init_thread")
    \/ grant_mask \/ grant_slices \/ grant_ts \/ grant_rb \/ grant_unmask
    \/ boot_lock("rb_grant_lock", "RESBLOCKS", "rb_grant_push")

-----------------------------------------------------------------------------
(* Threads                                                                 *)

PoolOf(t) == CHOOSE p \in Pool : SchedOf[p] = t

\* The debug! macro: print under the UART lock with interrupts masked.  It
\* ends the loop of every thread, after which the loop starts again.
AfterDebug(t) ==
    IF t = Main THEN "i_mask" ELSE IF t \in SchedThread THEN "recv" ELSE "d_mask"

debug_mask ==
    /\ Step("d_mask", "d_lock")
    /\ Disable
    /\ UNCHANGED <<run, tpidr, lock, tableVars, savedSp, stackTpidr, localVars>>

debug_lock == boot_lock("d_lock", "UART", "d_write")
debug_write == boot_replace("d_write", "UART", "d_unmask")

debug_unmask ==
    /\ Step("d_unmask", AfterDebug(run))
    /\ Restore
    /\ UNCHANGED <<run, tpidr, lock, tableVars, savedSp, stackTpidr, localVars>>

\* cpu_idle!: wait for an interrupt with interrupts masked.
idle_mask ==
    /\ Step("i_mask", "i_wfi")
    /\ Disable
    /\ UNCHANGED <<run, tpidr, lock, tableVars, savedSp, stackTpidr, localVars>>

idle_unmask ==
    /\ Step("i_unmask", "d_mask")
    /\ Restore
    /\ UNCHANGED <<run, tpidr, lock, tableVars, savedSp, stackTpidr, localVars>>

\* utils::wfi returns when an interrupt is pending, masked or not.
wfi(from, to) ==
    /\ Step(from, to)
    /\ pending
    /\ UNCHANGED <<cpuVars, lock, tableVars, savedSp, stackTpidr, oldMask, localVars>>

\* Scheduler thread: recv_in hands over all requests sent since.
sched_recv ==
    LET p == PoolOf(run) IN
    /\ run \in SchedThread
    /\ Step("recv", "spawn_task")
    /\ batch' = [batch EXCEPT ![p] = inbox[p]]
    /\ inbox' = [inbox EXCEPT ![p] = <<>>]
    /\ UNCHANGED <<cpuVars, lock, tableVars, savedSp, stackTpidr, oldMask, nxt, ret, boot, ready, hand>>

\* One spawn_raw per request; the thread goes to the ready list.
sched_spawn ==
    LET p == PoolOf(run) IN
    /\ run \in SchedThread
    /\ Step("spawn_task", IF batch[p] = <<>> THEN "search" ELSE "spawn_task")
    /\ IF batch[p] = <<>>
         THEN UNCHANGED <<ready, batch>>
         ELSE /\ ready' = [ready EXCEPT ![p] = Append(@, Head(batch[p]))]
              /\ batch' = [batch EXCEPT ![p] = Tail(@)]
    /\ UNCHANGED <<cpuVars, lock, tableVars, savedSp, stackTpidr, oldMask, nxt, ret, boot, inbox, hand>>

\* container::search, and a yield to the scheduler of the pool it finds
\* (unwrap: it has one).
sched_search ==
    LET q == Peer[PoolOf(run)] IN
    /\ run \in SchedThread
    /\ q # 0 => sched[q] # NoThread
    /\ Step("search", IF q = 0 THEN "pick" ELSE "y_mask")
    /\ nxt' = IF q = 0 THEN nxt ELSE [nxt EXCEPT ![run] = sched[q]]
    /\ ret' = [ret EXCEPT ![run] = "pick"]
    /\ UNCHANGED <<cpuVars, lock, tableVars, savedSp, stackTpidr, oldMask,
                   boot, inbox, batch, ready, hand>>

\* Mutant: the hand of the ready list is not advanced.
sched_pick_stuck ==
    LET p == PoolOf(run) IN
    /\ run \in SchedThread
    /\ Step("pick", IF ready[p] = <<>> THEN "wfi" ELSE "y_mask")
    /\ nxt' = IF ready[p] = <<>> THEN nxt ELSE [nxt EXCEPT ![run] = ready[p][hand[p] + 1]]
    /\ ret' = [ret EXCEPT ![run] = "d_mask"]
    /\ UNCHANGED <<cpuVars, lock, tableVars, savedSp, stackTpidr, oldMask, boot, inbox, batch, ready, hand>>

\* Wait if no task is ready, else yield to the next one, round robin.
sched_pick ==
    LET p == PoolOf(run) IN
    /\ run \in SchedThread
    /\ Step("pick", IF ready[p] = <<>> THEN "wfi" ELSE "y_mask")
    /\ IF ready[p] = <<>>
         THEN UNCHANGED <<nxt, hand>>
         ELSE /\ nxt' = [nxt EXCEPT ![run] = ready[p][hand[p] + 1]]
              /\ hand' = [hand EXCEPT ![p] = (@ + 1) % Len(ready[p])]
    /\ ret' = [ret EXCEPT ![run] = "d_mask"]
    /\ UNCHANGED <<cpuVars, lock, tableVars, savedSp, stackTpidr, oldMask, boot, inbox, batch, ready>>

\* thread::yield_to: with_intr_disabled around schedule_thread.
yield_mask ==
    /\ Step("y_mask", IF tpidr = NoThread THEN "y_unmask" ELSE "y_switch")
    /\ Disable
    /\ UNCHANGED <<run, tpidr, lock, tableVars, savedSp, stackTpidr, localVars>>

yield_switch ==
    /\ Step("y_switch", "y_unmask")
    /\ switch(tpidr, nxt[run])
    /\ UNCHANGED <<lock, tableVars, oldMask, localVars>>

yield_unmask ==
    /\ Step("y_unmask", ret[run])
    /\ Restore
    /\ UNCHANGED <<run, tpidr, lock, tableVars, savedSp, stackTpidr, localVars>>

ThreadCode ==
    \/ debug_mask \/ debug_lock \/ debug_write \/ debug_unmask
    \/ idle_mask \/ idle_unmask \/ wfi("i_wfi", "i_unmask") \/ wfi("wfi", "d_mask")
    \/ sched_recv \/ sched_spawn \/ sched_search \/ sched_pick
    \/ yield_mask \/ yield_switch \/ yield_unmask

-----------------------------------------------------------------------------
(* Interrupts                                                              *)

\* The timer fires.  It is re-armed by the handler, and its period outlasts
\* the rest of the handler and some step of the code that was interrupted.
TimerFires ==
    /\ timerOn /\ ~pending
    /\ worked \/ pc[run] \in {"wfi", "i_wfi"}
    /\ pending' = TRUE
    /\ UNCHANGED <<cpuVars, timerOn, tick, yieldFlag, worked, lock, tableVars, ctxVars, pc, irq,
                   oldMask, irqOldMask, hnxt, localVars>>

\* The exception vector: push a frame on the stack in use and enter
\* exception_handler with interrupts masked.  A wfi it wakes is over.
TakeIrq ==
    /\ ~masked /\ pending /\ irq[run] = "none"
    /\ masked' = TRUE
    /\ irqTpidr' = [irqTpidr EXCEPT ![run] = tpidr]
    /\ irq' = [irq EXCEPT ![run] = "tick"]
    /\ pc' = IF pc[run] = "wfi" THEN [pc EXCEPT ![run] = "d_mask"] ELSE pc
    /\ UNCHANGED <<run, tpidr, timerVars, worked, lock, tableVars, savedSp, stackTpidr,
                   oldMask, irqOldMask, hnxt, localVars>>

\* Mutant: the tick that ends a time slice is never met.
handle_tick_missed ==
    /\ HandlerStep("tick", "check")
    /\ tick' = (tick + 1) % TimeSlice
    /\ yieldFlag' = (yieldFlag \/ tick = TimeSlice)
    /\ pending' = FALSE
    /\ worked' = FALSE
    /\ UNCHANGED <<cpuVars, lock, rbs, rbHand, ts, tsHand, ctxVars, irqOldMask, hnxt>>

\* timer_interrupt_handler (whose expect panics if the flag is still set), and
\* gic::clear.  The count is kept modulo TimeSlice: nothing else is read of it.
handle_tick ==
    /\ HandlerStep("tick", "check")
    /\ tick' = (tick + 1) % TimeSlice
    /\ tick = 0 => ~yieldFlag
    /\ yieldFlag' = (yieldFlag \/ tick = 0)
    /\ pending' = FALSE
    /\ worked' = FALSE
    /\ UNCHANGED <<cpuVars, lock, rbs, rbHand, ts, tsHand, ctxVars, irqOldMask, hnxt>>

\* Mutant: the flag is read but not taken back.
check_yield_kept ==
    /\ HandlerStep("check", IF yieldFlag THEN "y_mask" ELSE "eret")
    /\ UNCHANGED <<cpuVars, pending, tick, worked, lock, rbs, rbHand, ts, tsHand, ctxVars,
                   irqOldMask, hnxt, yieldFlag>>

\* The compare_exchange of exception_handler that decides on yield_to_next.
check_yield ==
    /\ HandlerStep("check", IF yieldFlag THEN "y_mask" ELSE "eret")
    /\ yieldFlag' = FALSE
    /\ UNCHANGED <<cpuVars, pending, tick, worked, lock, rbs, rbHand, ts, tsHand, ctxVars,
                   irqOldMask, hnxt>>

\* yield_to_next: with_intr_disabled around schedule_by_resource_blocks, which
\* does nothing before there is a current thread.
next_mask ==
    /\ HandlerStep("y_mask", IF tpidr = NoThread THEN "y_unmask" ELSE "rb_lock")
    /\ irqOldMask' = [irqOldMask EXCEPT ![run] = masked]
    /\ masked' = TRUE
    /\ UNCHANGED <<run, tpidr, pending, tick, yieldFlag, worked, lock, rbs, rbHand, ts, tsHand,
                   ctxVars, hnxt>>

next_lock(from, l, to) ==
    /\ HandlerStep(from, to)
    /\ Acquire(l)
    /\ UNCHANGED <<cpuVars, pending, tick, yieldFlag, worked, rbs, rbHand, ts, tsHand,
                   ctxVars, irqOldMask, hnxt>>

\* The container whose time slice comes next is kept in hnxt until it is
\* resolved to a thread.
next_block ==
    /\ HandlerStep("rb_pick", IF rbs = <<>> THEN "rb_unlock" ELSE "ts_lock")
    /\ rbs # <<>> => Len(rbs) > rbHand
    /\ hnxt' = [hnxt EXCEPT ![run] = IF rbs = <<>> THEN NoThread ELSE rbs[rbHand + 1]]
    /\ rbHand' = IF rbs = <<>> THEN rbHand ELSE (rbHand + 1) % Len(rbs)
    /\ UNCHANGED <<cpuVars, pending, tick, yieldFlag, worked, lock, rbs, ts, tsHand,
                   ctxVars, irqOldMask>>

Entered(p) == \E i \in 1 .. Len(ts) : ts[i] = p

\* Mutant: the hand of the container is not advanced.
next_slice_stuck ==
    LET p == hnxt[run]
        found == Entered(p) /\ slices[p] # <<>>
        slice == slices[p][tsHand[p] + 1]
    IN
    /\ HandlerStep("ts_pick", IF found /\ slice.kind = "Redirect" THEN "ts_lock" ELSE "rb_unlock")
    /\ hnxt' = [hnxt EXCEPT ![run] = IF ~found THEN NoThread
                                     ELSE CASE slice.kind = "Routine" -> sched[p]
                                            [] slice.kind = "Execute" -> slice.th
                                            [] slice.kind = "Redirect" -> slice.ct]
    /\ Release("TS")
    /\ UNCHANGED <<cpuVars, pending, tick, yieldFlag, worked, rbs, rbHand, ts, tsHand,
                   ctxVars, irqOldMask>>

\* Mutant: the guard of TS is still alive when a Redirect is followed.
next_slice_locked ==
    LET p == hnxt[run]
        found == Entered(p) /\ slices[p] # <<>>
        slice == slices[p][tsHand[p] + 1]
    IN
    /\ HandlerStep("ts_pick", IF found /\ slice.kind = "Redirect" THEN "ts_lock" ELSE "rb_unlock")
    /\ hnxt' = [hnxt EXCEPT ![run] = IF ~found THEN NoThread
                                     ELSE CASE slice.kind = "Routine" -> sched[p]
                                            [] slice.kind = "Execute" -> slice.th
                                            [] slice.kind = "Redirect" -> slice.ct]
    /\ tsHand' = IF found THEN [tsHand EXCEPT ![p] = (@ + 1) % Len(slices[p])] ELSE tsHand
    /\ IF found /\ slice.kind = "Redirect" THEN UNCHANGED lock ELSE Release("TS")
    /\ UNCHANGED <<cpuVars, pending, tick, yieldFlag, worked, rbs, rbHand, ts,
                   ctxVars, irqOldMask>>

\* find_next_thread: take the container's next slice and its hand forward; a
\* Redirect looks at the other container in its turn.
next_slice ==
    LET p == hnxt[run]
        found == Entered(p) /\ slices[p] # <<>>
        slice == slices[p][tsHand[p] + 1]
    IN
    /\ HandlerStep("ts_pick", IF found /\ slice.kind = "Redirect" THEN "ts_lock" ELSE "rb_unlock")
    /\ hnxt' = [hnxt EXCEPT ![run] = IF ~found THEN NoThread
                                     ELSE CASE slice.kind = "Routine" -> sched[p]
                                            [] slice.kind = "Execute" -> slice.th
                                            [] slice.kind = "Redirect" -> slice.ct]
    /\ tsHand' = IF found THEN [tsHand EXCEPT ![p] = (@ + 1) % Len(slices[p])] ELSE tsHand
    /\ Release("TS")
    /\ UNCHANGED <<cpuVars, pending, tick, yieldFlag, worked, rbs, rbHand, ts,
                   ctxVars, irqOldMask>>

\* The RESBLOCKS guard is dropped before the switch, if there is one to make.
next_unlock ==
    /\ HandlerStep("rb_unlock", IF hnxt[run] = NoThread THEN "y_unmask" ELSE "y_switch")
    /\ Release("RESBLOCKS")
    /\ UNCHANGED <<cpuVars, pending, tick, yieldFlag, worked, rbs, rbHand, ts, tsHand,
                   ctxVars, irqOldMask, hnxt>>

next_switch ==
    /\ HandlerStep("y_switch", "y_unmask")
    /\ switch(tpidr, hnxt[run])
    /\ UNCHANGED <<pending, tick, yieldFlag, worked, lock, rbs, rbHand, ts, tsHand,
                   irqTpidr, irqOldMask, hnxt>>

next_unmask ==
    /\ HandlerStep("y_unmask", "eret")
    /\ masked' = irqOldMask[run]
    /\ UNCHANGED <<run, tpidr, pending, tick, yieldFlag, worked, lock, rbs, rbHand, ts, tsHand,
                   ctxVars, irqOldMask, hnxt>>

\* context_restore and eret: TPIDR_EL2 and DAIF as when the exception was taken.
eret ==
    /\ HandlerStep("eret", "none")
    /\ tpidr' = irqTpidr[run]
    /\ masked' = FALSE
    /\ UNCHANGED <<run, pending, tick, yieldFlag, worked, lock, rbs, rbHand, ts, tsHand,
                   ctxVars, irqOldMask, hnxt>>

HandlerCode ==
    \/ handle_tick \/ check_yield \/ next_mask
    \/ next_lock("rb_lock", "RESBLOCKS", "rb_pick") \/ next_block
    \/ next_lock("ts_lock", "TS", "ts_pick") \/ next_slice
    \/ next_unlock \/ next_switch \/ next_unmask \/ eret

-----------------------------------------------------------------------------

CpuStep == Boot \/ ThreadCode \/ HandlerCode

Next == CpuStep \/ TakeIrq \/ TimerFires

\* The processor does not stop; the timer keeps firing; an interrupt that is
\* pending is taken even if the code keeps masking and unmasking.
Spec == Init /\ [][Next]_vars /\ WF_vars(CpuStep) /\ WF_vars(TimerFires) /\ SF_vars(TakeIrq)

-----------------------------------------------------------------------------
(* Properties                                                              *)

\* Where the code of a thread, and of the handler, runs with interrupts masked.
MaskedPc == {"load_table", "grant_lock", "grant_push", "rb_grant_lock", "rb_grant_push", "b_unmask",
             "d_lock", "d_write", "d_unmask", "i_wfi", "i_unmask", "y_switch", "y_unmask"}
UnmaskedPc == {"init_timer", "rb_lock", "rb_replace", "ts_lock", "ts_replace", "init_thread",
               "spawn", "send", "b_mask", "d_mask", "i_mask", "recv", "spawn_task", "search",
               "pick", "wfi", "y_mask"}
HandlerPc == {"tick", "check", "y_mask", "rb_lock", "rb_pick", "ts_lock", "ts_pick", "rb_unlock",
              "y_switch", "y_unmask", "eret"}

TypeOK ==
    /\ run \in Thread /\ tpidr \in Thread \cup {NoThread}
    /\ masked \in BOOLEAN /\ timerOn \in BOOLEAN /\ pending \in BOOLEAN /\ worked \in BOOLEAN
    /\ tick \in 0 .. (TimeSlice - 1) /\ yieldFlag \in BOOLEAN
    /\ lock \in [Lock -> Thread \cup {NoThread}]
    /\ rbs \in Seq(Pool) /\ rbHand \in Nat
    /\ ts \in Seq(Pool) /\ tsHand \in [Pool -> Nat]
    /\ slices \in [Pool -> Seq(Slice)] /\ sched \in [Pool -> Thread \cup {NoThread}]
    /\ savedSp \in [Thread -> Thread \cup {NoThread}]
    /\ stackTpidr \in [Thread -> Thread \cup {NoThread}]
    /\ irqTpidr \in [Thread -> Thread \cup {NoThread}]
    /\ pc \in [Thread -> MaskedPc \cup UnmaskedPc] /\ irq \in [Thread -> HandlerPc \cup {"none"}]
    /\ oldMask \in [Thread -> BOOLEAN] /\ irqOldMask \in [Thread -> BOOLEAN]
    /\ nxt \in [Thread -> Thread \cup {NoThread}]
    /\ hnxt \in [Thread -> Thread \cup Pool \cup {NoThread}]
    /\ \A t \in Thread : irq[t] = "y_switch" => hnxt[t] \in Thread
    /\ ret \in [Thread -> {"recv", "pick", "d_mask"}]
    /\ boot \in Pool
    /\ inbox \in [Pool -> Seq(TaskThread)] /\ batch \in [Pool -> Seq(TaskThread)]
    /\ ready \in [Pool -> Seq(TaskThread)] /\ hand \in [Pool -> Nat]

\* TPIDR_EL2 names the thread whose stack is in use, from init_thread on: what
\* current_thread returns, and what switch saves the stack pointer into.
CurrentIsRunning ==
    /\ tpidr \in {run, NoThread}
    /\ tpidr = NoThread => run = Main /\ \A t \in Thread : savedSp[t] = NoThread

\* Interrupts are masked exactly in the critical sections and in the handler,
\* although switch does not save DAIF: a thread that is switched to never goes
\* on with the mask of the one it was switched from, and the handler is never
\* interrupted.
MaskMatchesCode == masked <=> (irq[run] # "none" \/ pc[run] \in MaskedPc)

\* The lock the running code is about to take, if any.
Wanted ==
    LET h == irq[run]
        c == pc[run]
    IN  IF h # "none" THEN CASE h = "rb_lock" -> {"RESBLOCKS"}
                             [] h = "ts_lock" -> {"TS"}
                             [] OTHER -> {}
        ELSE CASE c \in {"rb_lock", "rb_grant_lock"} -> {"RESBLOCKS"}
               [] c \in {"ts_lock", "grant_lock"} -> {"TS"}
               [] c = "d_lock" -> {"UART"}
               [] OTHER -> {}

\* No lock of the scheduler or of the console is ever found taken: the handler
\* cannot spin on a lock held by the code it interrupted, nor a thread with
\* interrupts masked on a lock held by a thread that was switched away.
NeverSpins == \A l \in Wanted : lock[l] = NoThread

\* None of the panics is reached: the expect("assumption failed") of the timer
\* handler, the assert on the hand of the resource blocks, the unwrap of the
\* scheduler of the pool that was found, the index into the ready list.
NoPanic ==
    /\ irq[run] = "tick" /\ tick = 0 => ~yieldFlag
    /\ irq[run] = "rb_pick" /\ rbs # <<>> => Len(rbs) > rbHand
    /\ irq[run] = "none" /\ pc[run] = "search" /\ Peer[PoolOf(run)] # 0 =>
          sched[Peer[PoolOf(run)]] # NoThread
    /\ irq[run] = "none" /\ pc[run] = "pick" /\ ready[PoolOf(run)] # <<>> =>
          hand[PoolOf(run)] < Len(ready[PoolOf(run)])

\* Interrupts never stay masked: the handler and every critical section end.
InterruptsComeBack == []<>(~masked)

\* The scheduler of every pool that holds a resource block gets the processor
\* again and again.
SchedulersRun == \A p \in Pool : []<>(run = SchedOf[p])

\* So does every task that was sent to a pool.
TasksRun == \A t \in TaskThread : []<>(run = t)
=============================================================================
