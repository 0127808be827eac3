--------------------------- MODULE ScheduleProofs ---------------------------
(***************************************************************************)
(* Proof of the safety of scheduling, for any number of pools, schedulers  *)
(* and tasks, any time slices and any length of a time slice: TPIDR_EL2    *)
(* names the thread whose stack is in use, interrupts are masked exactly   *)
(* in the critical sections, no lock is ever found taken, and no panic is  *)
(* reached.                                                                *)
(***************************************************************************)
EXTENDS Schedule, SequenceTheorems, TLAPS

\* The code of kernel_main before there is a current thread, and all of it up
\* to the loop; that of a scheduler thread; and what is common to all.
EarlyPc == {"load_table", "init_timer", "rb_lock", "rb_replace", "ts_lock", "ts_replace", "init_thread"}
BootPc == EarlyPc \cup {"spawn", "send", "b_mask", "grant_lock", "grant_push", "rb_grant_lock",
                        "rb_grant_push", "b_unmask"}
DebugPc == {"d_mask", "d_lock", "d_write", "d_unmask"}
SchedPc == {"recv", "spawn_task", "search", "pick", "wfi", "y_mask", "y_switch", "y_unmask"}
CodeOf(t) ==
    DebugPc \cup (IF t = Main THEN BootPc \cup {"i_mask", "i_wfi", "i_unmask"}
                  ELSE IF t \in SchedThread THEN SchedPc ELSE {})
Start(t) == IF t \in SchedThread THEN "recv" ELSE "d_mask"

Early == pc[Main] \in EarlyPc

\* Where every thread is: the running one has the processor to itself, and any
\* other has not started or is behind the switch that took it off.
Code == \A t \in Thread : pc[t] \in CodeOf(t)
Parked(t) ==
    IF savedSp[t] = NoThread THEN t # Main /\ irq[t] = "none" /\ pc[t] = Start(t)
    ELSE irq[t] = "y_unmask" \/ (irq[t] = "none" /\ pc[t] = "y_unmask")
Running ==
    /\ tpidr = IF Early THEN NoThread ELSE run
    /\ Early => run = Main /\ \A t \in Thread : savedSp[t] = NoThread
    /\ \A t \in Thread : savedSp[t] \in {t, NoThread} /\ (savedSp[t] = t => stackTpidr[t] = t)
    /\ \A t \in Thread : t # run => Parked(t)
    /\ \A t \in Thread : irq[t] # "none" => irqTpidr[t] = IF Early THEN NoThread ELSE t
    /\ run # Main => rbs # <<>>

\* What the masks saved on the stacks are, and what an interrupt can have
\* interrupted.
Masks ==
    /\ MaskMatchesCode
    /\ \A t \in Thread : oldMask[t] = FALSE
    /\ \A t \in Thread : irq[t] \in HandlerPc \ {"tick", "check", "y_mask", "eret"} => irqOldMask[t] = TRUE
    /\ \A t \in Thread : irq[t] # "none" => pc[t] \in UnmaskedPc
    /\ Early => irq[Main] \in {"none", "tick", "check", "y_mask", "y_unmask", "eret"}

\* Only the running code holds a lock.
Locks ==
    /\ lock["RESBLOCKS"] # NoThread =>
          \/ irq[run] \in {"rb_pick", "ts_lock", "ts_pick", "rb_unlock"}
          \/ pc[run] = "rb_replace"
          \/ irq[run] = "none" /\ pc[run] = "rb_grant_push"
    /\ lock["TS"] # NoThread =>
          \/ irq[run] = "ts_pick" \/ pc[run] = "ts_replace"
          \/ irq[run] = "none" /\ pc[run] = "grant_push"
    /\ lock["UART"] # NoThread => irq[run] = "none" /\ pc[run] = "d_write"

\* How far boot has come.
Staged ==
    /\ Early => boot = 1
    /\ pc[Main] = "spawn" => \A p \in Pool : p < boot => sched[p] = SchedOf[p]
    /\ ~Early /\ pc[Main] # "spawn" => \A p \in Pool : sched[p] = SchedOf[p]
    /\ rbs # <<>> => ~Early /\ pc[Main] # "spawn"

\* Every hand points into its list.
Tables ==
    /\ yieldFlag => irq[run] = "check"
    /\ rbs \in {<<>>, [p \in Pool |-> p]}
    /\ IF rbs = <<>> THEN rbHand = 0 ELSE rbHand < Len(rbs)
    /\ \A p \in Pool : slices[p] \in {<<>>, Slices[p]}
    /\ \A p \in Pool : IF slices[p] = <<>> THEN tsHand[p] = 0 ELSE tsHand[p] < Len(slices[p])
    /\ \A p \in Pool : IF ready[p] = <<>> THEN hand[p] = 0 ELSE hand[p] < Len(ready[p])

\* What is switched to is a thread.
Targets ==
    /\ \A t \in Thread : pc[t] \in {"y_mask", "y_switch"} => nxt[t] \in Thread
    /\ \A t \in Thread : irq[t] \in {"ts_lock", "ts_pick"} => hnxt[t] \in Pool /\ rbs # <<>>
    /\ \A t \in Thread : irq[t] = "rb_unlock" =>
          (hnxt[t] \in Thread /\ rbs # <<>>) \/ hnxt[t] = NoThread
    /\ \A t \in Thread : irq[t] = "y_switch" => hnxt[t] \in Thread /\ rbs # <<>>

IInv == TypeOK /\ Code /\ Running /\ Masks /\ Locks /\ Staged /\ Tables /\ Targets

-----------------------------------------------------------------------------
(* The constants, and where code can be                                    *)

\* What the assumptions on the constants amount to.
LEMMA Constants ==
    /\ Pool \subseteq Nat /\ 1 \in Pool /\ NPools \in Pool
    /\ \A p \in Pool : 1 <= p /\ p <= NPools /\ (p # NPools => p + 1 \in Pool)
    /\ Main \in Thread /\ NoThread \notin Thread /\ Main \notin SchedThread
    /\ SchedThread \subseteq Thread /\ TaskThread \subseteq Thread
    /\ \A p \in Pool : SchedOf[p] \in SchedThread
    /\ TasksOf \in [Pool -> Seq(TaskThread)]
<1>1. /\ Pool \subseteq Nat /\ 1 \in Pool /\ NPools \in Pool
      /\ \A p \in Pool : 1 <= p /\ p <= NPools /\ (p # NPools => p + 1 \in Pool)
  BY ScheduleAssumption DEF Pool
<1>2. Main \in Thread /\ SchedThread \subseteq Thread /\ TaskThread \subseteq Thread
  BY DEF Thread, TaskThread
<1>3. \A p \in Pool : SchedOf[p] \in SchedThread
  BY DEF SchedThread
<1>4. TasksOf \in [Pool -> Seq(TaskThread)]
  BY ScheduleAssumption DEF TaskThread
<1>. QED
  BY <1>1, <1>2, <1>3, <1>4, ScheduleAssumption

\* The resource blocks: one per pool.
LEMMA Blocks ==
    /\ [p \in Pool |-> p] \in Seq(Pool) /\ [p \in Pool |-> p] # <<>>
    /\ Len([p \in Pool |-> p]) = NPools /\ 0 < NPools
<1>. DEFINE blocks == [p \in Pool |-> p]
<1>1. NPools \in Nat /\ 0 < NPools /\ Pool = 1 .. NPools
  BY ScheduleAssumption DEF Pool
<1>2. blocks \in [1 .. NPools -> Pool] /\ DOMAIN blocks = 1 .. NPools
  BY <1>1
<1>3. blocks \in Seq(Pool)
  BY <1>1, <1>2, SeqDef
<1>4. Len(blocks) = NPools
  BY <1>1, <1>2, <1>3, LenProperties
<1>5. blocks # <<>>
  BY <1>1, <1>4
<1>. QED
  BY <1>1, <1>3, <1>4, <1>5

\* A sequence that is not empty has a first element.
LEMMA NotEmpty ==
    ASSUME NEW S, NEW s \in Seq(S), s # <<>>
    PROVE  Len(s) \in Nat /\ 0 < Len(s) /\ \A i \in 1 .. Len(s) : s[i] \in S
BY EmptySeq

\* A hand taken forward modulo the length of its list stays inside it.
LEMMA Wraps ==
    ASSUME NEW n \in Nat, NEW m \in Nat, m # 0
    PROVE  n % m \in Nat /\ n % m < m
OBVIOUS

\* A slice names a thread to execute or a pool to redirect to.
LEMMA SliceFields ==
    ASSUME NEW s \in Slice
    PROVE  /\ s.kind \in {"Routine", "Execute", "Redirect"}
           /\ s.kind = "Execute" => s.th \in Thread
           /\ s.kind = "Redirect" => s.ct \in Pool
BY Constants DEF Slice, Routine, Execute, Redirect

\* A scheduler thread has its pool.
LEMMA PoolOfSched ==
    ASSUME NEW t \in SchedThread
    PROVE  PoolOf(t) \in Pool /\ SchedOf[PoolOf(t)] = t
BY DEF PoolOf, SchedThread

\* Where a thread can be is masked or unmasked code, and it starts unmasked.
LEMMA CodePc ==
    ASSUME NEW t
    PROVE  /\ CodeOf(t) \subseteq MaskedPc \cup UnmaskedPc
           /\ Start(t) \in CodeOf(t) \cap UnmaskedPc \/ t = Main
BY DEF CodeOf, Start, MaskedPc, UnmaskedPc, DebugPc, SchedPc, BootPc, EarlyPc

\* No statement is both.
LEMMA Apart == \A c \in UnmaskedPc : c \notin MaskedPc
BY DEF MaskedPc, UnmaskedPc

\* A step of the code of a thread that does not switch leaves every other
\* thread where it is, and the masks right if it sets them as the code says.
LEMMA ThreadSteps ==
    ASSUME TypeOK, Code, Running, Masks,
           NEW to \in CodeOf(run),
           irq[run] = "none", pc' = [pc EXCEPT ![run] = to],
           UNCHANGED <<irq, irqOldMask, irqTpidr>>,
           Early' => Early,
           masked' <=> to \in MaskedPc,
           \A t \in Thread : oldMask'[t] = FALSE,
           UNCHANGED <<run, savedSp, stackTpidr>>,
           tpidr' = IF Early' THEN NoThread ELSE run,
           rbs # <<>> => rbs' # <<>>
    PROVE  Code' /\ Running' /\ Masks'
<1>1. /\ irq[run] = "none" /\ irq' = irq /\ irqTpidr' = irqTpidr /\ irqOldMask' = irqOldMask
      /\ run \in Thread /\ pc' \in [Thread -> MaskedPc \cup UnmaskedPc] /\ pc'[run] = to
      /\ \A t \in Thread : t # run => pc'[t] = pc[t]
  BY CodePc DEF TypeOK
<1>2. Code'
  BY <1>1 DEF Code
<1>3. \A t \in Thread : irq[t] # "none" => t # run /\ (Early' <=> Early)
  BY <1>1, Constants DEF Running, Parked, Early
<1>4. Running'
  <2>1. \A t \in Thread : t # run => Parked(t)'
    BY <1>1 DEF Running, Parked
  <2>2. \A t \in Thread : irq[t] # "none" => irqTpidr[t] = IF Early' THEN NoThread ELSE t
    BY <1>3 DEF Running
  <2>3. Early' => run = Main /\ \A t \in Thread : savedSp[t] = NoThread
    BY DEF Running
  <2>4. run # Main => rbs' # <<>>
    BY DEF Running
  <2>. QED
    BY <1>1, <2>1, <2>2, <2>3, <2>4 DEF Running
<1>5. Masks'
  <2>1. MaskMatchesCode'
    BY <1>1 DEF MaskMatchesCode
  <2>2. \A t \in Thread : irq[t] # "none" => pc'[t] \in UnmaskedPc
    BY <1>1, <1>3 DEF Masks
  <2>3. Early' => irq[Main] \in {"none", "tick", "check", "y_mask", "y_unmask", "eret"}
    BY DEF Masks
  <2>. QED
    BY <1>1, <2>1, <2>2, <2>3 DEF Masks
<1>. QED
  BY <1>2, <1>4, <1>5

\* A step of the handler that does not switch leaves the threads where they are.
LEMMA HandlerSteps ==
    ASSUME TypeOK, Code, Running, Masks,
           NEW from, NEW to \in HandlerPc, HandlerStep(from, to), from \in HandlerPc,
           masked' = TRUE,
           \A t \in Thread : irq'[t] \in HandlerPc \ {"tick", "check", "y_mask", "eret"} => irqOldMask'[t] = TRUE,
           Early => to \in {"none", "tick", "check", "y_mask", "y_unmask", "eret"},
           UNCHANGED <<run, tpidr, ctxVars, rbs>>
    PROVE  Code' /\ Running' /\ Masks'
<1>1. /\ irq[run] = from /\ pc' = pc /\ oldMask' = oldMask /\ irqTpidr' = irqTpidr
      /\ savedSp' = savedSp /\ stackTpidr' = stackTpidr
      /\ run \in Thread /\ irq'[run] = to /\ to # "none" /\ from # "none"
      /\ \A t \in Thread : t # run => irq'[t] = irq[t]
  BY DEF HandlerStep, TypeOK, HandlerPc, ctxVars
<1>2. Code' /\ (Early' <=> Early)
  BY <1>1 DEF Code, Early
<1>3. Running'
  <2>1. \A t \in Thread : t # run => Parked(t)'
    BY <1>1 DEF Running, Parked
  <2>2. \A t \in Thread : irq'[t] # "none" => irqTpidr[t] = IF Early THEN NoThread ELSE t
    BY <1>1 DEF Running
  <2>. QED
    BY <1>1, <1>2, <2>1, <2>2 DEF Running
<1>4. Masks'
  <2>1. MaskMatchesCode'
    BY <1>1 DEF MaskMatchesCode
  <2>2. \A t \in Thread : irq'[t] # "none" => pc[t] \in UnmaskedPc
    BY <1>1 DEF Masks
  <2>3. Early => irq'[Main] \in {"none", "tick", "check", "y_mask", "y_unmask", "eret"}
    BY <1>1 DEF Masks, Running
  <2>. QED
    BY <1>1, <1>2, <2>1, <2>2, <2>3 DEF Masks
<1>. QED
  BY <1>2, <1>3, <1>4

\* A switch takes the running thread off, behind it, and next's stack up.
LEMMA SwitchSteps ==
    ASSUME TypeOK, Code, Running, Masks, ~Early,
           NEW next \in Thread, switch(tpidr, next), masked = TRUE,
           rbs # <<>>,
           UNCHANGED <<oldMask, irqOldMask, irqTpidr, rbs>>,
           pc' \in [Thread -> MaskedPc \cup UnmaskedPc], irq' \in [Thread -> HandlerPc \cup {"none"}],
           \A t \in Thread : t # run => pc'[t] = pc[t] /\ irq'[t] = irq[t],
           \/ irq'[run] = "y_unmask" /\ irq[run] = "y_switch" /\ pc'[run] = pc[run]
           \/ irq'[run] = "none" /\ pc'[run] = "y_unmask" /\ run \in SchedThread
    PROVE  /\ Code' /\ Running' /\ Masks'
           /\ run' = next /\ tpidr' = next /\ masked' \in BOOLEAN
           /\ savedSp' \in [Thread -> Thread \cup {NoThread}]
           /\ stackTpidr' \in [Thread -> Thread \cup {NoThread}]
           /\ irq'[next] \in {"none", "y_unmask"}
           /\ irq'[next] = "none" => pc'[next] \in {"y_unmask", "d_mask", "recv"}
           /\ ~Early'
<1>1. run \in Thread /\ tpidr = run
  BY DEF TypeOK, Running
<1>2. /\ savedSp' = [savedSp EXCEPT ![run] = run] /\ stackTpidr' = [stackTpidr EXCEPT ![run] = run]
      /\ savedSp' \in [Thread -> Thread \cup {NoThread}]
      /\ stackTpidr' \in [Thread -> Thread \cup {NoThread}]
  BY <1>1 DEF switch, TypeOK
<1>3. \A t \in Thread : savedSp'[t] \in {t, NoThread} /\ (savedSp'[t] = t => stackTpidr'[t] = t)
  BY <1>1, <1>2 DEF Running, TypeOK
<1>4. run' = next /\ tpidr' = next /\ (masked' <=> savedSp'[next] # NoThread)
  <2>1. next # NoThread
    BY Constants
  <2>2. CASE savedSp'[next] = NoThread
    BY <1>1, <1>2, <2>2 DEF switch
  <2>3. CASE savedSp'[next] # NoThread
    BY <1>1, <1>2, <1>3, <2>3 DEF switch
  <2>. QED
    BY <2>2, <2>3
<1>5. \A t \in Thread : Parked(t)'
  <2>1. /\ savedSp'[run] = run /\ run # NoThread
        /\ \A t \in Thread : t # run => savedSp'[t] = savedSp[t]
    BY <1>1, <1>2, Constants DEF TypeOK
  <2>2. \A t \in Thread : t # run => Parked(t)'
    BY <2>1 DEF Running, Parked
  <2>3. \A t \in Thread : t = run => Parked(t)'
    BY <2>1 DEF Parked
  <2>. QED
    BY <2>2, <2>3
<1>6. Code'
  BY <1>1, Constants DEF Code, CodeOf, SchedPc
<1>7. ~Early'
  BY <1>1, Constants DEF Early, EarlyPc
<1>8. Running'
  BY <1>1, <1>3, <1>4, <1>5, <1>7 DEF Running
<1>9. /\ irq'[next] \in {"none", "y_unmask"}
      /\ irq'[next] = "none" => pc'[next] \in {"y_unmask", "d_mask", "recv"}
  BY <1>5 DEF Parked, Start
<1>10. Masks'
  <2>1. MaskMatchesCode'
    BY <1>4, <1>5 DEF MaskMatchesCode, Parked, Start, MaskedPc
  <2>2. \A t \in Thread : irq'[t] # "none" => pc'[t] \in UnmaskedPc
    BY <1>1 DEF Masks
  <2>3. \A t \in Thread : irq'[t] \in HandlerPc \ {"tick", "check", "y_mask", "eret"} => irqOldMask[t] = TRUE
    BY <1>1 DEF Masks, HandlerPc
  <2>. QED
    BY <1>7, <2>1, <2>2, <2>3 DEF Masks
<1>. QED
  BY <1>2, <1>4, <1>6, <1>7, <1>8, <1>9, <1>10

-----------------------------------------------------------------------------
(* Boot                                                                    *)

\* load_table unmasks interrupts before there is a current thread.
LEMMA LoadTable == IInv /\ load_table => IInv'
<1>. SUFFICES ASSUME IInv, load_table PROVE IInv'
  OBVIOUS
<1>1. run = Main
  BY DEF IInv, TypeOK, Code, CodeOf, SchedPc, DebugPc, load_table, Step
<1>2. TypeOK'
  BY <1>1 DEF IInv, TypeOK, load_table, Step, timerVars, tableVars, localVars, MaskedPc, UnmaskedPc
<1>3. Code' /\ Running' /\ Masks'
  <2>1. "init_timer" \in CodeOf(run) /\ Early' /\ Early /\ ~masked' /\ "init_timer" \notin MaskedPc
    BY <1>1, Constants DEF CodeOf, BootPc, EarlyPc, Early, load_table, Step, IInv, TypeOK, MaskedPc
  <2>. QED
    BY <2>1, ThreadSteps DEF IInv, Running, Masks, load_table, Step, tableVars
<1>4. Locks' /\ Staged' /\ Tables' /\ Targets'
  BY <1>1, Constants DEF IInv, TypeOK, Locks, Staged, Tables, Targets, Early, EarlyPc, load_table, Step, timerVars, tableVars, localVars
<1>. QED
  BY <1>2, <1>3, <1>4 DEF IInv

\* init_timer leaves everything but the timer alone.
LEMMA InitTimer == IInv /\ init_timer => IInv'
<1>. SUFFICES ASSUME IInv, init_timer PROVE IInv'
  OBVIOUS
<1>. USE DEF init_timer, cpuVars, tableVars, ctxVars, localVars
<1>1. run = Main
  BY DEF IInv, TypeOK, Code, CodeOf, SchedPc, DebugPc
<1>2. TypeOK'
  BY <1>1 DEF IInv, TypeOK, MaskedPc, UnmaskedPc
<1>3. Code' /\ Running' /\ Masks'
  <2>1. /\ "rb_lock" \in CodeOf(run) /\ Early' /\ Early /\ "rb_lock" \notin MaskedPc
        /\ ~masked
    BY <1>1, Constants DEF CodeOf, BootPc, EarlyPc, Early, IInv, TypeOK, MaskedPc, Masks, MaskMatchesCode
  <2>. QED
    BY <2>1, ThreadSteps DEF IInv, Running, Masks
<1>4. Locks' /\ Staged' /\ Tables' /\ Targets'
  BY <1>1, Constants DEF IInv, TypeOK, Locks, Staged, Tables, Targets, Early, EarlyPc
<1>. QED
  BY <1>2, <1>3, <1>4 DEF IInv

\* RESBLOCKS.lock(), interrupts on: the handler does not want it yet.
LEMMA RbLock == IInv /\ boot_lock("rb_lock", "RESBLOCKS", "rb_replace") => IInv'
<1>. SUFFICES ASSUME IInv, boot_lock("rb_lock", "RESBLOCKS", "rb_replace") PROVE IInv'
  OBVIOUS
<1>. USE DEF boot_lock, Step, timerVars, tableVars, localVars, cpuVars, Lock, Acquire, Release
<1>1. run = Main
  BY DEF IInv, TypeOK, Code, CodeOf, SchedPc, DebugPc
<1>2. TypeOK'
  BY <1>1, Constants DEF IInv, TypeOK, MaskedPc, UnmaskedPc
<1>3. Code' /\ Running' /\ Masks'
  <2>1. pc'[run] \in CodeOf(run) /\ Early /\ Early'
    BY <1>1, Constants DEF CodeOf, BootPc, DebugPc, EarlyPc, Early, IInv, TypeOK
  <2>2. ~masked /\ (masked' <=> pc'[run] \in MaskedPc)
    BY <1>1, Constants DEF IInv, TypeOK, MaskedPc, Masks, MaskMatchesCode
  <2>3. pc' = [pc EXCEPT ![run] = pc'[run]] /\ \A t \in Thread : oldMask'[t] = FALSE
    BY <1>1, <2>2, Constants DEF IInv, TypeOK, Masks
  <2>. QED
    BY <1>1, <2>1, <2>2, <2>3, ThreadSteps DEF IInv, Running
<1>4. Locks' /\ Staged' /\ Tables' /\ Targets'
  BY <1>1, Constants DEF IInv, TypeOK, Locks, Staged, Tables, Targets, Early, EarlyPc
<1>. QED
  BY <1>2, <1>3, <1>4 DEF IInv

\* The guard of RESBLOCKS is dropped.
LEMMA RbReplace == IInv /\ boot_replace("rb_replace", "RESBLOCKS", "ts_lock") => IInv'
<1>. SUFFICES ASSUME IInv, boot_replace("rb_replace", "RESBLOCKS", "ts_lock") PROVE IInv'
  OBVIOUS
<1>. USE DEF boot_replace, Step, timerVars, tableVars, localVars, cpuVars, Lock, Acquire, Release
<1>1. run = Main
  BY DEF IInv, TypeOK, Code, CodeOf, SchedPc, DebugPc
<1>2. TypeOK'
  BY <1>1, Constants DEF IInv, TypeOK, MaskedPc, UnmaskedPc
<1>3. Code' /\ Running' /\ Masks'
  <2>1. pc'[run] \in CodeOf(run) /\ Early /\ Early'
    BY <1>1, Constants DEF CodeOf, BootPc, DebugPc, EarlyPc, Early, IInv, TypeOK
  <2>2. ~masked /\ (masked' <=> pc'[run] \in MaskedPc)
    BY <1>1, Constants DEF IInv, TypeOK, MaskedPc, Masks, MaskMatchesCode
  <2>3. pc' = [pc EXCEPT ![run] = pc'[run]] /\ \A t \in Thread : oldMask'[t] = FALSE
    BY <1>1, <2>2, Constants DEF IInv, TypeOK, Masks
  <2>. QED
    BY <1>1, <2>1, <2>2, <2>3, ThreadSteps DEF IInv, Running
<1>4. Locks' /\ Staged' /\ Tables' /\ Targets'
  BY <1>1, Constants DEF IInv, TypeOK, Locks, Staged, Tables, Targets, Early, EarlyPc
<1>. QED
  BY <1>2, <1>3, <1>4 DEF IInv

\* TS.lock(), interrupts on: the handler does not want it yet.
LEMMA TsLock == IInv /\ boot_lock("ts_lock", "TS", "ts_replace") => IInv'
<1>. SUFFICES ASSUME IInv, boot_lock("ts_lock", "TS", "ts_replace") PROVE IInv'
  OBVIOUS
<1>. USE DEF boot_lock, Step, timerVars, tableVars, localVars, cpuVars, Lock, Acquire, Release
<1>1. run = Main
  BY DEF IInv, TypeOK, Code, CodeOf, SchedPc, DebugPc
<1>2. TypeOK'
  BY <1>1, Constants DEF IInv, TypeOK, MaskedPc, UnmaskedPc
<1>3. Code' /\ Running' /\ Masks'
  <2>1. pc'[run] \in CodeOf(run) /\ Early /\ Early'
    BY <1>1, Constants DEF CodeOf, BootPc, DebugPc, EarlyPc, Early, IInv, TypeOK
  <2>2. ~masked /\ (masked' <=> pc'[run] \in MaskedPc)
    BY <1>1, Constants DEF IInv, TypeOK, MaskedPc, Masks, MaskMatchesCode
  <2>3. pc' = [pc EXCEPT ![run] = pc'[run]] /\ \A t \in Thread : oldMask'[t] = FALSE
    BY <1>1, <2>2, Constants DEF IInv, TypeOK, Masks
  <2>. QED
    BY <1>1, <2>1, <2>2, <2>3, ThreadSteps DEF IInv, Running
<1>4. Locks' /\ Staged' /\ Tables' /\ Targets'
  BY <1>1, Constants DEF IInv, TypeOK, Locks, Staged, Tables, Targets, Early, EarlyPc
<1>. QED
  BY <1>2, <1>3, <1>4 DEF IInv

\* The guard of TS is dropped.
LEMMA TsReplace == IInv /\ boot_replace("ts_replace", "TS", "init_thread") => IInv'
<1>. SUFFICES ASSUME IInv, boot_replace("ts_replace", "TS", "init_thread") PROVE IInv'
  OBVIOUS
<1>. USE DEF boot_replace, Step, timerVars, tableVars, localVars, cpuVars, Lock, Acquire, Release
<1>1. run = Main
  BY DEF IInv, TypeOK, Code, CodeOf, SchedPc, DebugPc
<1>2. TypeOK'
  BY <1>1, Constants DEF IInv, TypeOK, MaskedPc, UnmaskedPc
<1>3. Code' /\ Running' /\ Masks'
  <2>1. pc'[run] \in CodeOf(run) /\ Early /\ Early'
    BY <1>1, Constants DEF CodeOf, BootPc, DebugPc, EarlyPc, Early, IInv, TypeOK
  <2>2. ~masked /\ (masked' <=> pc'[run] \in MaskedPc)
    BY <1>1, Constants DEF IInv, TypeOK, MaskedPc, Masks, MaskMatchesCode
  <2>3. pc' = [pc EXCEPT ![run] = pc'[run]] /\ \A t \in Thread : oldMask'[t] = FALSE
    BY <1>1, <2>2, Constants DEF IInv, TypeOK, Masks
  <2>. QED
    BY <1>1, <2>1, <2>2, <2>3, ThreadSteps DEF IInv, Running
<1>4. Locks' /\ Staged' /\ Tables' /\ Targets'
  BY <1>1, Constants DEF IInv, TypeOK, Locks, Staged, Tables, Targets, Early, EarlyPc
<1>. QED
  BY <1>2, <1>3, <1>4 DEF IInv

\* init_thread ends the early part: there is a current thread.
LEMMA InitThread == IInv /\ init_thread => IInv'
<1>. SUFFICES ASSUME IInv, init_thread PROVE IInv'
  OBVIOUS
<1>. USE DEF init_thread, Step, timerVars, tableVars, localVars, cpuVars
<1>1. run = Main
  BY DEF IInv, TypeOK, Code, CodeOf, SchedPc, DebugPc
<1>2. TypeOK'
  BY <1>1, Constants DEF IInv, TypeOK, MaskedPc, UnmaskedPc
<1>3. Code' /\ Running' /\ Masks'
  <2>1. pc'[run] \in CodeOf(run) /\ Early /\ ~Early'
    BY <1>1, Constants DEF CodeOf, BootPc, DebugPc, EarlyPc, Early, IInv, TypeOK
  <2>2. ~masked /\ (masked' <=> pc'[run] \in MaskedPc)
    BY <1>1, Constants DEF IInv, TypeOK, MaskedPc, Masks, MaskMatchesCode
  <2>3. pc' = [pc EXCEPT ![run] = pc'[run]] /\ \A t \in Thread : oldMask'[t] = FALSE
    BY <1>1, <2>2, Constants DEF IInv, TypeOK, Masks
  <2>. QED
    BY <1>1, <2>1, <2>2, <2>3, ThreadSteps DEF IInv, Running
<1>4. Locks' /\ Staged' /\ Tables' /\ Targets'
  <2>1. Locks'
    BY <1>1, Constants DEF IInv, TypeOK, Locks, Early
  <2>2. Staged'
    BY <1>1, Constants DEF IInv, TypeOK, Staged, Early, EarlyPc
  <2>3. Tables'
    BY <1>1, Constants DEF IInv, TypeOK, Tables
  <2>4. Targets'
    BY <1>1, Constants DEF IInv, TypeOK, Targets
  <2>. QED
    BY <2>1, <2>2, <2>3, <2>4
<1>. QED
  BY <1>2, <1>3, <1>4 DEF IInv

\* Every pool before boot has its scheduler.
LEMMA SpawnPool == IInv /\ spawn_pool => IInv'
<1>. SUFFICES ASSUME IInv, spawn_pool PROVE IInv'
  OBVIOUS
<1>. USE DEF spawn_pool, Step, timerVars, tableVars, localVars, cpuVars
<1>1. run = Main
  BY DEF IInv, TypeOK, Code, CodeOf, SchedPc, DebugPc
<1>2. TypeOK'
  BY <1>1, Constants DEF IInv, TypeOK, MaskedPc, UnmaskedPc
<1>3. Code' /\ Running' /\ Masks'
  <2>1. pc'[run] \in CodeOf(run) /\ ~Early /\ ~Early'
    BY <1>1, Constants DEF CodeOf, BootPc, DebugPc, EarlyPc, Early, IInv, TypeOK
  <2>2. ~masked /\ (masked' <=> pc'[run] \in MaskedPc)
    BY <1>1, Constants DEF IInv, TypeOK, MaskedPc, Masks, MaskMatchesCode
  <2>3. pc' = [pc EXCEPT ![run] = pc'[run]] /\ \A t \in Thread : oldMask'[t] = FALSE
    BY <1>1, <2>2, Constants DEF IInv, TypeOK, Masks
  <2>. QED
    BY <1>1, <2>1, <2>2, <2>3, ThreadSteps DEF IInv, Running
<1>4. Locks' /\ Staged' /\ Tables' /\ Targets'
  <2>1. Locks' /\ Tables' /\ Targets'
    BY <1>1, Constants DEF IInv, TypeOK, Locks, Tables, Targets
  <2>2. sched' = [sched EXCEPT ![boot] = SchedOf[boot]] /\ boot \in Pool /\ sched \in [Pool -> Thread \cup {NoThread}]
    BY DEF IInv, TypeOK
  <2>3. \A p \in Pool : p < boot \/ p = boot => sched'[p] = SchedOf[p]
    BY <1>1, <2>2 DEF IInv, Staged
  <2>4. \A p \in Pool : /\ boot = NPools => p < boot \/ p = boot
                        /\ boot # NPools /\ p < boot + 1 => p < boot \/ p = boot
    BY <2>2, Constants
  <2>5. /\ ~Early' /\ (pc'[Main] = "spawn" <=> boot # NPools) /\ (boot # NPools => boot' = boot + 1)
        /\ rbs' = <<>>
    BY <1>1, Constants DEF IInv, TypeOK, Early, EarlyPc, Staged
  <2>6. Staged'
    BY <2>3, <2>4, <2>5 DEF Staged
  <2>. QED
    BY <2>1, <2>6
<1>. QED
  BY <1>2, <1>3, <1>4 DEF IInv

\* The task requests are sent.
LEMMA SendTasks == IInv /\ send_tasks => IInv'
<1>. SUFFICES ASSUME IInv, send_tasks PROVE IInv'
  OBVIOUS
<1>. USE DEF send_tasks, Step, timerVars, tableVars, localVars, cpuVars
<1>1. run = Main
  BY DEF IInv, TypeOK, Code, CodeOf, SchedPc, DebugPc
<1>2. TypeOK'
  BY <1>1, Constants DEF IInv, TypeOK, MaskedPc, UnmaskedPc
<1>3. Code' /\ Running' /\ Masks'
  <2>1. pc'[run] \in CodeOf(run) /\ ~Early /\ ~Early'
    BY <1>1, Constants DEF CodeOf, BootPc, DebugPc, EarlyPc, Early, IInv, TypeOK
  <2>2. ~masked /\ (masked' <=> pc'[run] \in MaskedPc)
    BY <1>1, Constants DEF IInv, TypeOK, MaskedPc, Masks, MaskMatchesCode
  <2>3. pc' = [pc EXCEPT ![run] = pc'[run]] /\ \A t \in Thread : oldMask'[t] = FALSE
    BY <1>1, <2>2, Constants DEF IInv, TypeOK, Masks
  <2>. QED
    BY <1>1, <2>1, <2>2, <2>3, ThreadSteps DEF IInv, Running
<1>4. Locks' /\ Staged' /\ Tables' /\ Targets'
  BY <1>1, Constants DEF IInv, TypeOK, Locks, Staged, Tables, Targets, Early, EarlyPc
<1>. QED
  BY <1>2, <1>3, <1>4 DEF IInv

\* The closure that grants slices runs masked.
LEMMA GrantMask == IInv /\ grant_mask => IInv'
<1>. SUFFICES ASSUME IInv, grant_mask PROVE IInv'
  OBVIOUS
<1>. USE DEF grant_mask, Disable, Step, timerVars, tableVars, localVars, cpuVars
<1>1. run = Main
  BY DEF IInv, TypeOK, Code, CodeOf, SchedPc, DebugPc
<1>2. TypeOK'
  BY <1>1, Constants DEF IInv, TypeOK, MaskedPc, UnmaskedPc
<1>3. Code' /\ Running' /\ Masks'
  <2>1. pc'[run] \in CodeOf(run) /\ ~Early /\ ~Early'
    BY <1>1, Constants DEF CodeOf, BootPc, DebugPc, EarlyPc, Early, IInv, TypeOK
  <2>2. ~masked /\ (masked' <=> pc'[run] \in MaskedPc)
    BY <1>1, Constants DEF IInv, TypeOK, MaskedPc, Masks, MaskMatchesCode
  <2>3. pc' = [pc EXCEPT ![run] = pc'[run]] /\ \A t \in Thread : oldMask'[t] = FALSE
    BY <1>1, <2>2, Constants DEF IInv, TypeOK, Masks
  <2>. QED
    BY <1>1, <2>1, <2>2, <2>3, ThreadSteps DEF IInv, Running
<1>4. Locks' /\ Staged' /\ Tables' /\ Targets'
  BY <1>1, Constants DEF IInv, TypeOK, Locks, Staged, Tables, Targets, Early, EarlyPc
<1>. QED
  BY <1>2, <1>3, <1>4 DEF IInv

\* The slices of a pool are set, its hand at the first.
LEMMA GrantSlices == IInv /\ grant_slices => IInv'
<1>. SUFFICES ASSUME IInv, grant_slices PROVE IInv'
  OBVIOUS
<1>. USE DEF grant_slices, Step, timerVars, tableVars, localVars, cpuVars, Lock, Acquire, Release
<1>1. run = Main
  BY DEF IInv, TypeOK, Code, CodeOf, SchedPc, DebugPc
<1>2. TypeOK'
  BY <1>1, Constants, ScheduleAssumption DEF IInv, TypeOK, MaskedPc, UnmaskedPc
<1>3. Code' /\ Running' /\ Masks'
  <2>1. pc'[run] \in CodeOf(run) /\ ~Early /\ ~Early'
    BY <1>1, Constants DEF CodeOf, BootPc, DebugPc, EarlyPc, Early, IInv, TypeOK
  <2>2. masked /\ (masked' <=> pc'[run] \in MaskedPc)
    BY <1>1, Constants DEF IInv, TypeOK, MaskedPc, Masks, MaskMatchesCode
  <2>3. pc' = [pc EXCEPT ![run] = pc'[run]] /\ \A t \in Thread : oldMask'[t] = FALSE
    BY <1>1, <2>2, Constants DEF IInv, TypeOK, Masks
  <2>. QED
    BY <1>1, <2>1, <2>2, <2>3, ThreadSteps DEF IInv, Running
<1>4. Locks' /\ Staged' /\ Tables' /\ Targets'
  <2>1. Locks' /\ Staged' /\ Targets'
    BY <1>1, Constants DEF IInv, TypeOK, Locks, Staged, Targets, Early, EarlyPc
  <2>2. slices' = [slices EXCEPT ![boot] = Slices[boot]] /\ boot \in Pool /\ DOMAIN slices = Pool
    BY DEF IInv, TypeOK
  <2>3. \A p \in Pool : slices'[p] \in {<<>>, Slices[p]}
    BY <2>2 DEF IInv, Tables
  <2>4. \A p \in Pool : Slices[p] # <<>> => 0 < Len(Slices[p])
    BY ScheduleAssumption, NotEmpty
  <2>5. \A p \in Pool : IF slices'[p] = <<>> THEN tsHand[p] = 0 ELSE tsHand[p] < Len(slices'[p])
    BY <2>2, <2>4 DEF IInv, Tables
  <2>. QED
    BY <2>1, <2>3, <2>5 DEF IInv, Tables
<1>. QED
  BY <1>2, <1>3, <1>4 DEF IInv

\* A pool is entered in TS.
LEMMA GrantTs == IInv /\ grant_ts => IInv'
<1>. SUFFICES ASSUME IInv, grant_ts PROVE IInv'
  OBVIOUS
<1>. USE DEF grant_ts, Step, timerVars, tableVars, localVars, cpuVars, Lock, Acquire, Release
<1>1. run = Main
  BY DEF IInv, TypeOK, Code, CodeOf, SchedPc, DebugPc
<1>2. TypeOK'
  <2>1. ts' \in Seq(Pool)
    BY DEF IInv, TypeOK
  <2>2. boot' \in Pool
    BY Constants DEF IInv, TypeOK
  <2>3. tsHand' \in [Pool -> Nat] /\ lock' \in [Lock -> Thread \cup {NoThread}]
    BY DEF IInv, TypeOK
  <2>4. pc' \in [Thread -> MaskedPc \cup UnmaskedPc]
    BY DEF IInv, TypeOK, MaskedPc, UnmaskedPc
  <2>. QED
    BY <2>1, <2>2, <2>3, <2>4 DEF IInv, TypeOK
<1>3. Code' /\ Running' /\ Masks'
  <2>1. pc'[run] \in CodeOf(run) /\ ~Early /\ ~Early'
    BY <1>1, Constants DEF CodeOf, BootPc, DebugPc, EarlyPc, Early, IInv, TypeOK
  <2>2. masked /\ (masked' <=> pc'[run] \in MaskedPc)
    BY <1>1, Constants DEF IInv, TypeOK, MaskedPc, Masks, MaskMatchesCode
  <2>3. pc' = [pc EXCEPT ![run] = pc'[run]] /\ \A t \in Thread : oldMask'[t] = FALSE
    BY <1>1, <2>2, Constants DEF IInv, TypeOK, Masks
  <2>. QED
    BY <1>1, <2>1, <2>2, <2>3, ThreadSteps DEF IInv, Running
<1>4. Locks' /\ Staged' /\ Tables' /\ Targets'
  <2>1. Locks' /\ Staged' /\ Targets'
    BY <1>1, Constants DEF IInv, TypeOK, Locks, Staged, Targets, Early, EarlyPc
  <2>2. \A p \in Pool : slices[p] # <<>> => 0 < Len(slices[p])
    BY NotEmpty DEF IInv, TypeOK
  <2>3. \A p \in Pool : tsHand'[p] \in {0, tsHand[p]}
    BY DEF IInv, TypeOK
  <2>. QED
    BY <1>1, <2>1, <2>2, <2>3 DEF IInv, Tables
<1>. QED
  BY <1>2, <1>3, <1>4 DEF IInv

\* RESBLOCKS.lock() with interrupts masked.
LEMMA RbGrantLock == IInv /\ boot_lock("rb_grant_lock", "RESBLOCKS", "rb_grant_push") => IInv'
<1>. SUFFICES ASSUME IInv, boot_lock("rb_grant_lock", "RESBLOCKS", "rb_grant_push") PROVE IInv'
  OBVIOUS
<1>. USE DEF boot_lock, Step, timerVars, tableVars, localVars, cpuVars, Lock, Acquire, Release
<1>1. run = Main
  BY DEF IInv, TypeOK, Code, CodeOf, SchedPc, DebugPc
<1>2. TypeOK'
  BY <1>1, Constants DEF IInv, TypeOK, MaskedPc, UnmaskedPc
<1>3. Code' /\ Running' /\ Masks'
  <2>1. pc'[run] \in CodeOf(run) /\ ~Early /\ ~Early'
    BY <1>1, Constants DEF CodeOf, BootPc, DebugPc, EarlyPc, Early, IInv, TypeOK
  <2>2. masked /\ (masked' <=> pc'[run] \in MaskedPc)
    BY <1>1, Constants DEF IInv, TypeOK, MaskedPc, Masks, MaskMatchesCode
  <2>3. pc' = [pc EXCEPT ![run] = pc'[run]] /\ \A t \in Thread : oldMask'[t] = FALSE
    BY <1>1, <2>2, Constants DEF IInv, TypeOK, Masks
  <2>. QED
    BY <1>1, <2>1, <2>2, <2>3, ThreadSteps DEF IInv, Running
<1>4. Locks' /\ Staged' /\ Tables' /\ Targets'
  BY <1>1, Constants DEF IInv, TypeOK, Locks, Staged, Tables, Targets, Early, EarlyPc
<1>. QED
  BY <1>2, <1>3, <1>4 DEF IInv

\* Every pool gets a resource block: all have a scheduler by now.
LEMMA GrantRb == IInv /\ grant_rb => IInv'
<1>. SUFFICES ASSUME IInv, grant_rb PROVE IInv'
  OBVIOUS
<1>. USE DEF grant_rb, Step, timerVars, tableVars, localVars, cpuVars, Lock, Acquire, Release
<1>1. run = Main
  BY DEF IInv, TypeOK, Code, CodeOf, SchedPc, DebugPc
<1>2. TypeOK'
  <2>1. rbs' \in Seq(Pool)
    BY Blocks
  <2>2. pc' \in [Thread -> MaskedPc \cup UnmaskedPc] /\ lock' \in [Lock -> Thread \cup {NoThread}]
    BY DEF IInv, TypeOK, MaskedPc, UnmaskedPc
  <2>. QED
    BY <2>1, <2>2 DEF IInv, TypeOK
<1>3. Code' /\ Running' /\ Masks'
  <2>1. pc'[run] \in CodeOf(run) /\ ~Early /\ ~Early'
    BY <1>1, Constants DEF CodeOf, BootPc, DebugPc, EarlyPc, Early, IInv, TypeOK
  <2>2. masked /\ (masked' <=> pc'[run] \in MaskedPc)
    BY <1>1, Constants DEF IInv, TypeOK, MaskedPc, Masks, MaskMatchesCode
  <2>3. pc' = [pc EXCEPT ![run] = pc'[run]] /\ \A t \in Thread : oldMask'[t] = FALSE
    BY <1>1, <2>2, Constants DEF IInv, TypeOK, Masks
  <2>. QED
    BY <1>1, <2>1, <2>2, <2>3, ThreadSteps, Blocks DEF IInv, Running
<1>4. Locks' /\ Staged' /\ Tables' /\ Targets'
  <2>1. rbs' = [p \in Pool |-> p] /\ rbs' # <<>> /\ Len(rbs') = NPools /\ 0 < NPools
    BY Blocks
  <2>2. IF rbs' = <<>> THEN rbHand = 0 ELSE rbHand < Len(rbs')
    BY <2>1 DEF IInv, Tables
  <2>. HIDE DEF grant_rb
  <2>3. /\ irq[run] = "none" /\ pc[run] = "rb_grant_push" /\ pc' = [pc EXCEPT ![run] = "b_unmask"]
        /\ UNCHANGED <<cpuVars, timerVars, irq, hnxt, rbHand, slices, tsHand, sched, localVars>>
        /\ Release("RESBLOCKS")
    BY DEF grant_rb
  <2>4. Locks'
    BY <1>1, <2>3 DEF IInv, TypeOK, Locks
  <2>5. Staged'
    BY <1>1, <2>3, Constants DEF IInv, TypeOK, Staged, Early, EarlyPc
  <2>6. Tables'
    BY <1>1, <2>1, <2>2, <2>3 DEF IInv, Tables
  <2>7. Targets'
    BY <1>1, <2>1, <2>3 DEF IInv, TypeOK, Targets
  <2>. QED
    BY <2>4, <2>5, <2>6, <2>7
<1>. QED
  BY <1>2, <1>3, <1>4 DEF IInv

\* The closure ends, unmasked.
LEMMA GrantUnmask == IInv /\ grant_unmask => IInv'
<1>. SUFFICES ASSUME IInv, grant_unmask PROVE IInv'
  OBVIOUS
<1>. USE DEF grant_unmask, Restore, Step, timerVars, tableVars, localVars, cpuVars
<1>1. run = Main
  BY DEF IInv, TypeOK, Code, CodeOf, SchedPc, DebugPc
<1>2. TypeOK'
  BY <1>1, Constants DEF IInv, TypeOK, MaskedPc, UnmaskedPc
<1>3. Code' /\ Running' /\ Masks'
  <2>1. pc'[run] \in CodeOf(run) /\ ~Early /\ ~Early'
    BY <1>1, Constants DEF CodeOf, BootPc, DebugPc, EarlyPc, Early, IInv, TypeOK
  <2>2. ~oldMask[run] /\ (masked' <=> pc'[run] \in MaskedPc)
    BY <1>1, Constants DEF IInv, TypeOK, MaskedPc, Masks, MaskMatchesCode
  <2>3. pc' = [pc EXCEPT ![run] = pc'[run]] /\ \A t \in Thread : oldMask'[t] = FALSE
    BY <1>1, <2>2, Constants DEF IInv, TypeOK, Masks
  <2>. QED
    BY <1>1, <2>1, <2>2, <2>3, ThreadSteps DEF IInv, Running
<1>4. Locks' /\ Staged' /\ Tables' /\ Targets'
  BY <1>1, Constants DEF IInv, TypeOK, Locks, Staged, Tables, Targets, Early, EarlyPc
<1>. QED
  BY <1>2, <1>3, <1>4 DEF IInv

-----------------------------------------------------------------------------
(* Threads                                                                 *)

\* debug! masks interrupts.
LEMMA DebugMask == IInv /\ debug_mask => IInv'
<1>. SUFFICES ASSUME IInv, debug_mask PROVE IInv'
  OBVIOUS
<1>. USE DEF debug_mask, Disable, Step, timerVars, tableVars, localVars, cpuVars
<1>1. run \in Thread /\ pc[run] \in CodeOf(run) /\ pc \in [Thread -> MaskedPc \cup UnmaskedPc]
  BY DEF IInv, TypeOK, Code
<1>2. TypeOK'
  BY <1>1, Constants DEF IInv, TypeOK, MaskedPc, UnmaskedPc
<1>3. Code' /\ Running' /\ Masks'
  <2>1. pc'[run] \in CodeOf(run) /\ (Early' <=> Early)
    BY <1>1, Constants DEF CodeOf, BootPc, EarlyPc, DebugPc, SchedPc, Early
  <2>2. ~masked /\ (masked' <=> pc'[run] \in MaskedPc)
    BY <1>1, Constants DEF IInv, MaskedPc, Masks, MaskMatchesCode
  <2>3. pc' = [pc EXCEPT ![run] = pc'[run]] /\ \A t \in Thread : oldMask'[t] = FALSE
    BY <1>1, <2>2, Constants DEF IInv, TypeOK, Masks
  <2>. QED
    BY <1>1, <2>1, <2>2, <2>3, ThreadSteps DEF IInv, Running
<1>4. Locks' /\ Staged' /\ Tables' /\ Targets'
  BY <1>1, Constants DEF IInv, TypeOK, Locks, Staged, Tables, Targets, Early, EarlyPc
<1>. QED
  BY <1>2, <1>3, <1>4 DEF IInv

\* UART_DEVICE.lock() with interrupts masked.
LEMMA DebugLock == IInv /\ debug_lock => IInv'
<1>. SUFFICES ASSUME IInv, debug_lock PROVE IInv'
  OBVIOUS
<1>. USE DEF debug_lock, boot_lock, Step, timerVars, tableVars, localVars, cpuVars, Lock, Acquire, Release
<1>1. run \in Thread /\ pc[run] \in CodeOf(run) /\ pc \in [Thread -> MaskedPc \cup UnmaskedPc]
  BY DEF IInv, TypeOK, Code
<1>2. TypeOK'
  BY <1>1, Constants DEF IInv, TypeOK, MaskedPc, UnmaskedPc
<1>3. Code' /\ Running' /\ Masks'
  <2>1. pc'[run] \in CodeOf(run) /\ (Early' <=> Early)
    BY <1>1, Constants DEF CodeOf, BootPc, EarlyPc, DebugPc, SchedPc, Early
  <2>2. masked /\ (masked' <=> pc'[run] \in MaskedPc)
    BY <1>1, Constants DEF IInv, MaskedPc, Masks, MaskMatchesCode
  <2>3. pc' = [pc EXCEPT ![run] = pc'[run]] /\ \A t \in Thread : oldMask'[t] = FALSE
    BY <1>1, <2>2, Constants DEF IInv, TypeOK, Masks
  <2>. QED
    BY <1>1, <2>1, <2>2, <2>3, ThreadSteps DEF IInv, Running
<1>4. Locks' /\ Staged' /\ Tables' /\ Targets'
  <2>1. Locks'
    BY <1>1, Constants DEF IInv, TypeOK, Locks, Early
  <2>2. Staged'
    BY <1>1, Constants DEF IInv, TypeOK, Staged, Early, EarlyPc
  <2>3. Tables'
    BY <1>1, Constants DEF IInv, TypeOK, Tables
  <2>4. Targets'
    BY <1>1, Constants DEF IInv, TypeOK, Targets
  <2>. QED
    BY <2>1, <2>2, <2>3, <2>4
<1>. QED
  BY <1>2, <1>3, <1>4 DEF IInv

\* The guard of UART_DEVICE is dropped before the mask is.
LEMMA DebugWrite == IInv /\ debug_write => IInv'
<1>. SUFFICES ASSUME IInv, debug_write PROVE IInv'
  OBVIOUS
<1>. USE DEF debug_write, boot_replace, Step, timerVars, tableVars, localVars, cpuVars, Lock, Acquire, Release
<1>1. run \in Thread /\ pc[run] \in CodeOf(run) /\ pc \in [Thread -> MaskedPc \cup UnmaskedPc]
  BY DEF IInv, TypeOK, Code
<1>2. TypeOK'
  BY <1>1, Constants DEF IInv, TypeOK, MaskedPc, UnmaskedPc
<1>3. Code' /\ Running' /\ Masks'
  <2>1. pc'[run] \in CodeOf(run) /\ (Early' <=> Early)
    BY <1>1, Constants DEF CodeOf, BootPc, EarlyPc, DebugPc, SchedPc, Early
  <2>2. masked /\ (masked' <=> pc'[run] \in MaskedPc)
    BY <1>1, Constants DEF IInv, MaskedPc, Masks, MaskMatchesCode
  <2>3. pc' = [pc EXCEPT ![run] = pc'[run]] /\ \A t \in Thread : oldMask'[t] = FALSE
    BY <1>1, <2>2, Constants DEF IInv, TypeOK, Masks
  <2>. QED
    BY <1>1, <2>1, <2>2, <2>3, ThreadSteps DEF IInv, Running
<1>4. Locks' /\ Staged' /\ Tables' /\ Targets'
  BY <1>1, Constants DEF IInv, TypeOK, Locks, Staged, Tables, Targets, Early, EarlyPc
<1>. QED
  BY <1>2, <1>3, <1>4 DEF IInv

\* debug! ends, unmasked, and the loop of the thread starts again.
LEMMA DebugUnmask == IInv /\ debug_unmask => IInv'
<1>. SUFFICES ASSUME IInv, debug_unmask PROVE IInv'
  OBVIOUS
<1>. USE DEF debug_unmask, Restore, AfterDebug, Step, timerVars, tableVars, localVars, cpuVars
<1>1. run \in Thread /\ pc[run] \in CodeOf(run) /\ pc \in [Thread -> MaskedPc \cup UnmaskedPc]
  BY DEF IInv, TypeOK, Code
<1>2. TypeOK'
  BY <1>1, Constants DEF IInv, TypeOK, MaskedPc, UnmaskedPc
<1>3. Code' /\ Running' /\ Masks'
  <2>1. pc'[run] \in CodeOf(run) /\ (Early' <=> Early)
    BY <1>1, Constants DEF CodeOf, BootPc, EarlyPc, DebugPc, SchedPc, Early
  <2>2. ~oldMask[run] /\ (masked' <=> pc'[run] \in MaskedPc)
    BY <1>1, Constants DEF IInv, MaskedPc, Masks, MaskMatchesCode
  <2>3. pc' = [pc EXCEPT ![run] = pc'[run]] /\ \A t \in Thread : oldMask'[t] = FALSE
    BY <1>1, <2>2, Constants DEF IInv, TypeOK, Masks
  <2>. QED
    BY <1>1, <2>1, <2>2, <2>3, ThreadSteps DEF IInv, Running
<1>4. Locks' /\ Staged' /\ Tables' /\ Targets'
  BY <1>1, Constants DEF IInv, TypeOK, Locks, Staged, Tables, Targets, Early, EarlyPc
<1>. QED
  BY <1>2, <1>3, <1>4 DEF IInv

\* cpu_idle! masks interrupts.
LEMMA IdleMask == IInv /\ idle_mask => IInv'
<1>. SUFFICES ASSUME IInv, idle_mask PROVE IInv'
  OBVIOUS
<1>. USE DEF idle_mask, Disable, Step, timerVars, tableVars, localVars, cpuVars
<1>1. run \in Thread /\ pc[run] \in CodeOf(run) /\ pc \in [Thread -> MaskedPc \cup UnmaskedPc]
  BY DEF IInv, TypeOK, Code
<1>2. TypeOK'
  BY <1>1, Constants DEF IInv, TypeOK, MaskedPc, UnmaskedPc
<1>3. Code' /\ Running' /\ Masks'
  <2>1. pc'[run] \in CodeOf(run) /\ (Early' <=> Early)
    BY <1>1, Constants DEF CodeOf, BootPc, EarlyPc, DebugPc, SchedPc, Early
  <2>2. ~masked /\ (masked' <=> pc'[run] \in MaskedPc)
    BY <1>1, Constants DEF IInv, MaskedPc, Masks, MaskMatchesCode
  <2>3. pc' = [pc EXCEPT ![run] = pc'[run]] /\ \A t \in Thread : oldMask'[t] = FALSE
    BY <1>1, <2>2, Constants DEF IInv, TypeOK, Masks
  <2>. QED
    BY <1>1, <2>1, <2>2, <2>3, ThreadSteps DEF IInv, Running
<1>4. Locks' /\ Staged' /\ Tables' /\ Targets'
  BY <1>1, Constants DEF IInv, TypeOK, Locks, Staged, Tables, Targets, Early, EarlyPc
<1>. QED
  BY <1>2, <1>3, <1>4 DEF IInv

\* cpu_idle! ends, unmasked.
LEMMA IdleUnmask == IInv /\ idle_unmask => IInv'
<1>. SUFFICES ASSUME IInv, idle_unmask PROVE IInv'
  OBVIOUS
<1>. USE DEF idle_unmask, Restore, Step, timerVars, tableVars, localVars, cpuVars
<1>1. run \in Thread /\ pc[run] \in CodeOf(run) /\ pc \in [Thread -> MaskedPc \cup UnmaskedPc]
  BY DEF IInv, TypeOK, Code
<1>2. TypeOK'
  BY <1>1, Constants DEF IInv, TypeOK, MaskedPc, UnmaskedPc
<1>3. Code' /\ Running' /\ Masks'
  <2>1. pc'[run] \in CodeOf(run) /\ (Early' <=> Early)
    BY <1>1, Constants DEF CodeOf, BootPc, EarlyPc, DebugPc, SchedPc, Early
  <2>2. ~oldMask[run] /\ (masked' <=> pc'[run] \in MaskedPc)
    BY <1>1, Constants DEF IInv, MaskedPc, Masks, MaskMatchesCode
  <2>3. pc' = [pc EXCEPT ![run] = pc'[run]] /\ \A t \in Thread : oldMask'[t] = FALSE
    BY <1>1, <2>2, Constants DEF IInv, TypeOK, Masks
  <2>. QED
    BY <1>1, <2>1, <2>2, <2>3, ThreadSteps DEF IInv, Running
<1>4. Locks' /\ Staged' /\ Tables' /\ Targets'
  BY <1>1, Constants DEF IInv, TypeOK, Locks, Staged, Tables, Targets, Early, EarlyPc
<1>. QED
  BY <1>2, <1>3, <1>4 DEF IInv

\* wfi returns, masked.
LEMMA IdleWfi == IInv /\ wfi("i_wfi", "i_unmask") => IInv'
<1>. SUFFICES ASSUME IInv, wfi("i_wfi", "i_unmask") PROVE IInv'
  OBVIOUS
<1>. USE DEF wfi, Step, timerVars, tableVars, localVars, cpuVars
<1>1. run \in Thread /\ pc[run] \in CodeOf(run) /\ pc \in [Thread -> MaskedPc \cup UnmaskedPc]
  BY DEF IInv, TypeOK, Code
<1>2. TypeOK'
  BY <1>1, Constants DEF IInv, TypeOK, MaskedPc, UnmaskedPc
<1>3. Code' /\ Running' /\ Masks'
  <2>1. pc'[run] \in CodeOf(run) /\ (Early' <=> Early)
    BY <1>1, Constants DEF CodeOf, BootPc, EarlyPc, DebugPc, SchedPc, Early
  <2>2. masked /\ (masked' <=> pc'[run] \in MaskedPc)
    BY <1>1, Constants DEF IInv, MaskedPc, Masks, MaskMatchesCode
  <2>3. pc' = [pc EXCEPT ![run] = pc'[run]] /\ \A t \in Thread : oldMask'[t] = FALSE
    BY <1>1, <2>2, Constants DEF IInv, TypeOK, Masks
  <2>. QED
    BY <1>1, <2>1, <2>2, <2>3, ThreadSteps DEF IInv, Running
<1>4. Locks' /\ Staged' /\ Tables' /\ Targets'
  BY <1>1, Constants DEF IInv, TypeOK, Locks, Staged, Tables, Targets, Early, EarlyPc
<1>. QED
  BY <1>2, <1>3, <1>4 DEF IInv

\* wfi of a scheduler returns.
LEMMA SchedWfi == IInv /\ wfi("wfi", "d_mask") => IInv'
<1>. SUFFICES ASSUME IInv, wfi("wfi", "d_mask") PROVE IInv'
  OBVIOUS
<1>. USE DEF wfi, Step, timerVars, tableVars, localVars, cpuVars
<1>1. run \in Thread /\ pc[run] \in CodeOf(run) /\ pc \in [Thread -> MaskedPc \cup UnmaskedPc]
  BY DEF IInv, TypeOK, Code
<1>2. TypeOK'
  BY <1>1, Constants DEF IInv, TypeOK, MaskedPc, UnmaskedPc
<1>3. Code' /\ Running' /\ Masks'
  <2>1. pc'[run] \in CodeOf(run) /\ (Early' <=> Early)
    BY <1>1, Constants DEF CodeOf, BootPc, EarlyPc, DebugPc, SchedPc, Early
  <2>2. ~masked /\ (masked' <=> pc'[run] \in MaskedPc)
    BY <1>1, Constants DEF IInv, MaskedPc, Masks, MaskMatchesCode
  <2>3. pc' = [pc EXCEPT ![run] = pc'[run]] /\ \A t \in Thread : oldMask'[t] = FALSE
    BY <1>1, <2>2, Constants DEF IInv, TypeOK, Masks
  <2>. QED
    BY <1>1, <2>1, <2>2, <2>3, ThreadSteps DEF IInv, Running
<1>4. Locks' /\ Staged' /\ Tables' /\ Targets'
  BY <1>1, Constants DEF IInv, TypeOK, Locks, Staged, Tables, Targets, Early, EarlyPc
<1>. QED
  BY <1>2, <1>3, <1>4 DEF IInv

\* recv_in hands over the requests.
LEMMA SchedRecv == IInv /\ sched_recv => IInv'
<1>. SUFFICES ASSUME IInv, sched_recv PROVE IInv'
  OBVIOUS
<1>. USE DEF sched_recv, Step, timerVars, tableVars, localVars, cpuVars
<1>1. run \in SchedThread /\ run \in Thread /\ run # Main /\ pc \in [Thread -> MaskedPc \cup UnmaskedPc]
  BY Constants DEF IInv, TypeOK, Code, CodeOf, BootPc, EarlyPc, DebugPc
<1>2. PoolOf(run) \in Pool
  BY <1>1, PoolOfSched
<1>3. TypeOK'
  <2>1. pc' \in [Thread -> MaskedPc \cup UnmaskedPc]
    BY <1>1 DEF MaskedPc, UnmaskedPc
  <2>2. batch' \in [Pool -> Seq(TaskThread)] /\ inbox' \in [Pool -> Seq(TaskThread)]
    BY <1>2 DEF IInv, TypeOK
  <2>. QED
    BY <2>1, <2>2 DEF IInv, TypeOK
<1>4. Code' /\ Running' /\ Masks'
  <2>1. pc'[run] \in CodeOf(run) /\ (Early' <=> Early)
    BY <1>1, Constants DEF CodeOf, BootPc, EarlyPc, DebugPc, SchedPc, Early
  <2>2. ~masked /\ (masked' <=> pc'[run] \in MaskedPc)
    BY <1>1, Constants DEF IInv, MaskedPc, Masks, MaskMatchesCode
  <2>3. pc' = [pc EXCEPT ![run] = pc'[run]] /\ \A t \in Thread : oldMask'[t] = FALSE
    BY <1>1, <2>2, Constants DEF IInv, TypeOK, Masks
  <2>. QED
    BY <1>1, <2>1, <2>2, <2>3, ThreadSteps DEF IInv, Running
<1>5. Locks' /\ Staged' /\ Tables' /\ Targets'
  BY <1>1, Constants DEF IInv, TypeOK, Locks, Staged, Tables, Targets, Early, EarlyPc
<1>. QED
  BY <1>3, <1>4, <1>5 DEF IInv

\* A longer ready list keeps the hand inside.
LEMMA SchedSpawn == IInv /\ sched_spawn => IInv'
<1>. SUFFICES ASSUME IInv, sched_spawn PROVE IInv'
  OBVIOUS
<1>. USE DEF sched_spawn, Step, timerVars, tableVars, localVars, cpuVars
<1>1. run \in SchedThread /\ run \in Thread /\ run # Main /\ pc \in [Thread -> MaskedPc \cup UnmaskedPc]
  BY Constants DEF IInv, TypeOK, Code, CodeOf, BootPc, EarlyPc, DebugPc
<1>2. PoolOf(run) \in Pool
  BY <1>1, PoolOfSched
<1>3. TypeOK'
  <2>1. pc' \in [Thread -> MaskedPc \cup UnmaskedPc]
    BY <1>1 DEF MaskedPc, UnmaskedPc
  <2>2. batch[PoolOf(run)] \in Seq(TaskThread) /\ ready[PoolOf(run)] \in Seq(TaskThread)
    BY <1>2 DEF IInv, TypeOK
  <2>3. batch[PoolOf(run)] # <<>> => Head(batch[PoolOf(run)]) \in TaskThread /\ Tail(batch[PoolOf(run)]) \in Seq(TaskThread)
    BY <2>2, HeadTailProperties
  <2>4. batch' \in [Pool -> Seq(TaskThread)]
    BY <1>2, <2>2, <2>3 DEF IInv, TypeOK
  <2>5. batch[PoolOf(run)] # <<>> => Append(ready[PoolOf(run)], Head(batch[PoolOf(run)])) \in Seq(TaskThread)
    BY <2>2, <2>3, AppendProperties
  <2>6. ready' \in [Pool -> Seq(TaskThread)]
    BY <1>2, <2>5 DEF IInv, TypeOK
  <2>. QED
    BY <2>1, <2>2, <2>3, <2>4, <2>5, <2>6 DEF IInv, TypeOK
<1>4. Code' /\ Running' /\ Masks'
  <2>1. pc'[run] \in CodeOf(run) /\ (Early' <=> Early)
    BY <1>1, Constants DEF CodeOf, BootPc, EarlyPc, DebugPc, SchedPc, Early
  <2>2. ~masked /\ (masked' <=> pc'[run] \in MaskedPc)
    BY <1>1, Constants DEF IInv, MaskedPc, Masks, MaskMatchesCode
  <2>3. pc' = [pc EXCEPT ![run] = pc'[run]] /\ \A t \in Thread : oldMask'[t] = FALSE
    BY <1>1, <2>2, Constants DEF IInv, TypeOK, Masks
  <2>. QED
    BY <1>1, <2>1, <2>2, <2>3, ThreadSteps DEF IInv, Running
<1>5. Locks' /\ Staged' /\ Tables' /\ Targets'
  <2>1. Locks' /\ Staged'
    BY <1>1, Constants DEF IInv, TypeOK, Locks, Staged, Early, EarlyPc
  <2>2. \A p \in Pool : ready'[p] # ready[p] =>
           \E x \in TaskThread : ready'[p] = Append(ready[p], x)
    <3>1. batch[PoolOf(run)] # <<>> => Head(batch[PoolOf(run)]) \in TaskThread
      BY <1>2, HeadTailProperties DEF IInv, TypeOK
    <3>2. batch[PoolOf(run)] # <<>> =>
             ready' = [ready EXCEPT ![PoolOf(run)] = Append(ready[PoolOf(run)], Head(batch[PoolOf(run)]))]
      OBVIOUS
    <3>. HIDE DEF sched_spawn
    <3>3. batch[PoolOf(run)] = <<>> => ready' = ready
      BY DEF sched_spawn
    <3>4. \A p \in Pool : p # PoolOf(run) => ready'[p] = ready[p]
      BY <1>2, <3>2, <3>3 DEF IInv, TypeOK
    <3>5. batch[PoolOf(run)] # <<>> => ready'[PoolOf(run)] = Append(ready[PoolOf(run)], Head(batch[PoolOf(run)]))
      BY <1>2, <3>2 DEF IInv, TypeOK
    <3>. QED
      BY <1>2, <3>1, <3>3, <3>4, <3>5
  <2>3. \A p \in Pool : IF ready'[p] = <<>> THEN hand[p] = 0 ELSE hand[p] < Len(ready'[p])
    <3>. SUFFICES ASSUME NEW p \in Pool, ready'[p] # ready[p]
                  PROVE  IF ready'[p] = <<>> THEN hand[p] = 0 ELSE hand[p] < Len(ready'[p])
      BY DEF IInv, Tables
    <3>1. PICK x \in TaskThread : ready'[p] = Append(ready[p], x)
      BY <2>2
    <3>2. ready[p] \in Seq(TaskThread) /\ hand[p] \in Nat
      BY DEF IInv, TypeOK
    <3>3. ready'[p] # <<>> /\ Len(ready'[p]) = Len(ready[p]) + 1 /\ Len(ready[p]) \in Nat
      BY <3>1, <3>2, AppendProperties
    <3>4. hand[p] = 0 \/ hand[p] < Len(ready[p])
      BY DEF IInv, Tables
    <3>. QED
      BY <3>2, <3>3, <3>4
  <2>4. Tables'
    BY <2>3 DEF IInv, Tables
  <2>5. Targets'
    BY <1>1 DEF IInv, TypeOK, Targets
  <2>. QED
    BY <2>1, <2>4, <2>5
<1>. QED
  BY <1>3, <1>4, <1>5 DEF IInv

\* A scheduler yields to that of the pool found, which has one.
LEMMA SchedSearch == IInv /\ sched_search => IInv'
<1>. SUFFICES ASSUME IInv, sched_search PROVE IInv'
  OBVIOUS
<1>. USE DEF sched_search, Step, timerVars, tableVars, localVars, cpuVars
<1>1. run \in SchedThread /\ run \in Thread /\ run # Main /\ pc \in [Thread -> MaskedPc \cup UnmaskedPc]
  BY Constants DEF IInv, TypeOK, Code, CodeOf, BootPc, EarlyPc, DebugPc
<1>2. PoolOf(run) \in Pool
  BY <1>1, PoolOfSched
<1>3. /\ Peer[PoolOf(run)] # 0 => sched[Peer[PoolOf(run)]] \in Thread
      /\ pc' = [pc EXCEPT ![run] = IF Peer[PoolOf(run)] = 0 THEN "pick" ELSE "y_mask"]
      /\ nxt' = IF Peer[PoolOf(run)] = 0 THEN nxt ELSE [nxt EXCEPT ![run] = sched[Peer[PoolOf(run)]]]
  <2>1. Peer[PoolOf(run)] # 0 => Peer[PoolOf(run)] \in Pool
    BY <1>2, ScheduleAssumption DEF Pool
  <2>. QED
    BY <2>1 DEF IInv, TypeOK
<1>4. TypeOK'
  <2>1. pc' \in [Thread -> MaskedPc \cup UnmaskedPc]
    BY <1>1 DEF MaskedPc, UnmaskedPc
  <2>2. nxt' \in [Thread -> Thread \cup {NoThread}] /\ ret' \in [Thread -> {"recv", "pick", "d_mask"}]
    BY <1>1, <1>3 DEF IInv, TypeOK
  <2>. QED
    BY <2>1, <2>2 DEF IInv, TypeOK
<1>5. Code' /\ Running' /\ Masks'
  <2>1. pc'[run] \in CodeOf(run) /\ (Early' <=> Early)
    BY <1>1, Constants DEF CodeOf, BootPc, EarlyPc, DebugPc, SchedPc, Early
  <2>2. ~masked /\ (masked' <=> pc'[run] \in MaskedPc)
    BY <1>1, Constants DEF IInv, MaskedPc, Masks, MaskMatchesCode
  <2>3. pc' = [pc EXCEPT ![run] = pc'[run]] /\ \A t \in Thread : oldMask'[t] = FALSE
    BY <1>1, <2>2, Constants DEF IInv, TypeOK, Masks
  <2>. QED
    BY <1>1, <2>1, <2>2, <2>3, ThreadSteps DEF IInv, Running
<1>6. Locks' /\ Staged' /\ Tables' /\ Targets'
  <2>1. Locks' /\ Staged'
    BY <1>1, Constants DEF IInv, TypeOK, Locks, Staged, Early, EarlyPc
  <2>2. Tables'
    BY DEF IInv, Tables
  <2>3. Targets'
    BY <1>1, <1>3 DEF IInv, TypeOK, Targets
  <2>. QED
    BY <2>1, <2>2, <2>3
<1>. QED
  BY <1>4, <1>5, <1>6 DEF IInv

\* A scheduler yields to a task of its ready list and takes the hand forward.
LEMMA SchedPick == IInv /\ sched_pick => IInv'
<1>. SUFFICES ASSUME IInv, sched_pick PROVE IInv'
  OBVIOUS
<1>. USE DEF sched_pick, Step, timerVars, tableVars, localVars, cpuVars
<1>1. run \in SchedThread /\ run \in Thread /\ run # Main /\ pc \in [Thread -> MaskedPc \cup UnmaskedPc]
  BY Constants DEF IInv, TypeOK, Code, CodeOf, BootPc, EarlyPc, DebugPc
<1>2. PoolOf(run) \in Pool
  BY <1>1, PoolOfSched
<1>3. /\ ready[PoolOf(run)] \in Seq(TaskThread) /\ hand[PoolOf(run)] \in Nat
      /\ ready[PoolOf(run)] # <<>> =>
            /\ Len(ready[PoolOf(run)]) \in Nat \ {0}
            /\ ready[PoolOf(run)][hand[PoolOf(run)] + 1] \in Thread
  <2>1. ready[PoolOf(run)] \in Seq(TaskThread) /\ hand[PoolOf(run)] \in Nat
    BY <1>2 DEF IInv, TypeOK
  <2>2. ready[PoolOf(run)] # <<>> => hand[PoolOf(run)] < Len(ready[PoolOf(run)])
    BY <1>2 DEF IInv, Tables
  <2>. QED
    BY <2>1, <2>2, NotEmpty, Constants
<1>4. /\ ready[PoolOf(run)] = <<>> => nxt' = nxt /\ hand' = hand /\ pc' = [pc EXCEPT ![run] = "wfi"]
      /\ ready[PoolOf(run)] # <<>> =>
            /\ nxt' = [nxt EXCEPT ![run] = ready[PoolOf(run)][hand[PoolOf(run)] + 1]]
            /\ hand' = [hand EXCEPT ![PoolOf(run)] = (hand[PoolOf(run)] + 1) % Len(ready[PoolOf(run)])]
            /\ pc' = [pc EXCEPT ![run] = "y_mask"]
  OBVIOUS
<1>5. ready[PoolOf(run)] # <<>> =>
          /\ (hand[PoolOf(run)] + 1) % Len(ready[PoolOf(run)]) \in Nat
          /\ (hand[PoolOf(run)] + 1) % Len(ready[PoolOf(run)]) < Len(ready[PoolOf(run)])
  <2>1. hand[PoolOf(run)] + 1 \in Nat
    BY <1>3
  <2>. QED
    BY <1>3, <2>1, Wraps
<1>6. TypeOK'
  <2>1. pc' \in [Thread -> MaskedPc \cup UnmaskedPc]
    BY <1>1 DEF MaskedPc, UnmaskedPc
  <2>2. nxt' \in [Thread -> Thread \cup {NoThread}] /\ ret' \in [Thread -> {"recv", "pick", "d_mask"}]
    BY <1>1, <1>3, <1>4 DEF IInv, TypeOK
  <2>3. hand' \in [Pool -> Nat]
    BY <1>2, <1>4, <1>5, ZenonT(60) DEF IInv, TypeOK
  <2>. QED
    BY <2>1, <2>2, <2>3 DEF IInv, TypeOK
<1>7. Code' /\ Running' /\ Masks'
  <2>1. pc'[run] \in CodeOf(run) /\ (Early' <=> Early)
    BY <1>1, Constants DEF CodeOf, BootPc, EarlyPc, DebugPc, SchedPc, Early
  <2>2. ~masked /\ (masked' <=> pc'[run] \in MaskedPc)
    BY <1>1, Constants DEF IInv, MaskedPc, Masks, MaskMatchesCode
  <2>3. pc' = [pc EXCEPT ![run] = pc'[run]] /\ \A t \in Thread : oldMask'[t] = FALSE
    BY <1>1, <2>2, Constants DEF IInv, TypeOK, Masks
  <2>. QED
    BY <1>1, <2>1, <2>2, <2>3, ThreadSteps DEF IInv, Running
<1>8. Locks' /\ Staged' /\ Tables' /\ Targets'
  <2>1. Locks' /\ Staged'
    BY <1>1, Constants DEF IInv, TypeOK, Locks, Staged, Early, EarlyPc
  <2>2. \A p \in Pool : IF ready[p] = <<>> THEN hand'[p] = 0 ELSE hand'[p] < Len(ready[p])
    <3>1. \A p \in Pool : p # PoolOf(run) => hand'[p] = hand[p]
      BY <1>2, <1>4 DEF IInv, TypeOK
    <3>2. ready[PoolOf(run)] # <<>> => hand'[PoolOf(run)] < Len(ready[PoolOf(run)])
      BY <1>2, <1>4, <1>5 DEF IInv, TypeOK
    <3>. QED
      BY <1>4, <3>1, <3>2 DEF IInv, Tables
  <2>3. Tables'
    BY <2>2 DEF IInv, Tables
  <2>4. Targets'
    BY <1>1, <1>3, <1>4, SMTT(30) DEF IInv, TypeOK, Targets
  <2>. QED
    BY <2>1, <2>3, <2>4
<1>. QED
  BY <1>6, <1>7, <1>8 DEF IInv

\* yield_to masks interrupts.
LEMMA YieldMask == IInv /\ yield_mask => IInv'
<1>. SUFFICES ASSUME IInv, yield_mask PROVE IInv'
  OBVIOUS
<1>. USE DEF yield_mask, Disable, Step, timerVars, tableVars, localVars, cpuVars
<1>1. run \in SchedThread /\ run \in Thread /\ run # Main /\ pc \in [Thread -> MaskedPc \cup UnmaskedPc]
  BY Constants DEF IInv, TypeOK, Code, CodeOf, BootPc, EarlyPc, DebugPc
<1>2. TypeOK'
  BY <1>1, Constants DEF IInv, TypeOK, MaskedPc, UnmaskedPc
<1>3. Code' /\ Running' /\ Masks'
  <2>1. pc'[run] \in CodeOf(run) /\ (Early' <=> Early)
    BY <1>1, Constants DEF CodeOf, BootPc, EarlyPc, DebugPc, SchedPc, Early
  <2>2. ~masked /\ (masked' <=> pc'[run] \in MaskedPc)
    BY <1>1, Constants DEF IInv, MaskedPc, Masks, MaskMatchesCode
  <2>3. pc' = [pc EXCEPT ![run] = pc'[run]] /\ \A t \in Thread : oldMask'[t] = FALSE
    BY <1>1, <2>2, Constants DEF IInv, TypeOK, Masks
  <2>. QED
    BY <1>1, <2>1, <2>2, <2>3, ThreadSteps DEF IInv, Running
<1>4. Locks' /\ Staged' /\ Tables' /\ Targets'
  BY <1>1, Constants DEF IInv, TypeOK, Locks, Staged, Tables, Targets, Early, EarlyPc
<1>. QED
  BY <1>2, <1>3, <1>4 DEF IInv

\* yield_to ends, unmasked, in the thread that called it.
LEMMA YieldUnmask == IInv /\ yield_unmask => IInv'
<1>. SUFFICES ASSUME IInv, yield_unmask PROVE IInv'
  OBVIOUS
<1>. USE DEF yield_unmask, Restore, Step, timerVars, tableVars, localVars, cpuVars
<1>1. run \in SchedThread /\ run \in Thread /\ run # Main /\ pc \in [Thread -> MaskedPc \cup UnmaskedPc]
  BY Constants DEF IInv, TypeOK, Code, CodeOf, BootPc, EarlyPc, DebugPc
<1>2. ret[run] \in {"recv", "pick", "d_mask"}
  BY <1>1 DEF IInv, TypeOK
<1>3. TypeOK'
  BY <1>1, Constants DEF IInv, TypeOK, MaskedPc, UnmaskedPc
<1>4. Code' /\ Running' /\ Masks'
  <2>1. pc'[run] \in CodeOf(run) /\ (Early' <=> Early)
    BY <1>1, Constants, <1>2 DEF CodeOf, BootPc, EarlyPc, DebugPc, SchedPc, Early
  <2>2. ~oldMask[run] /\ (masked' <=> pc'[run] \in MaskedPc)
    BY <1>1, Constants, <1>2 DEF IInv, MaskedPc, Masks, MaskMatchesCode
  <2>3. pc' = [pc EXCEPT ![run] = pc'[run]] /\ \A t \in Thread : oldMask'[t] = FALSE
    BY <1>1, <2>2, Constants DEF IInv, TypeOK, Masks
  <2>. QED
    BY <1>1, <2>1, <2>2, <2>3, ThreadSteps DEF IInv, Running
<1>5. Locks' /\ Staged' /\ Tables' /\ Targets'
  BY <1>1, Constants DEF IInv, TypeOK, Locks, Staged, Tables, Targets, Early, EarlyPc
<1>. QED
  BY <1>3, <1>4, <1>5 DEF IInv

\* A voluntary yield: the scheduler thread is left behind its own switch.
LEMMA YieldSwitch == IInv /\ yield_switch => IInv'
<1>. SUFFICES ASSUME IInv, yield_switch PROVE IInv'
  OBVIOUS
<1>. USE DEF yield_switch, Step, timerVars, tableVars, localVars
<1>1. /\ run \in SchedThread /\ run \in Thread /\ run # Main /\ pc \in [Thread -> MaskedPc \cup UnmaskedPc]
      /\ irq[run] = "none" /\ pc[run] = "y_switch" /\ pc' = [pc EXCEPT ![run] = "y_unmask"]
  BY Constants DEF IInv, TypeOK, Code, CodeOf, BootPc, EarlyPc, DebugPc
<1>2. ~Early /\ rbs # <<>> /\ masked = TRUE
  BY <1>1 DEF IInv, Running, Masks, MaskMatchesCode, MaskedPc, TypeOK
<1>3. nxt[run] \in Thread /\ pc' \in [Thread -> MaskedPc \cup UnmaskedPc]
  BY <1>1 DEF IInv, Targets, MaskedPc
<1>4. /\ Code' /\ Running' /\ Masks'
      /\ run' = nxt[run] /\ tpidr' = nxt[run] /\ masked' \in BOOLEAN
      /\ savedSp' \in [Thread -> Thread \cup {NoThread}]
      /\ stackTpidr' \in [Thread -> Thread \cup {NoThread}]
      /\ ~Early'
  BY <1>1, <1>2, <1>3, SwitchSteps, ZenonT(60) DEF IInv, TypeOK
<1>5. TypeOK'
  BY <1>3, <1>4 DEF IInv, TypeOK
<1>6. Locks' /\ Staged' /\ Tables' /\ Targets'
  <2>1. Locks'
    BY <1>1 DEF IInv, Locks
  <2>2. Staged'
    BY <1>1, <1>2, <1>4, Constants DEF IInv, Staged
  <2>3. Tables'
    BY <1>1 DEF IInv, Tables
  <2>4. Targets'
    BY <1>1 DEF IInv, Targets
  <2>. QED
    BY <2>1, <2>2, <2>3, <2>4
<1>. QED
  BY <1>4, <1>5, <1>6 DEF IInv

-----------------------------------------------------------------------------
(* Interrupts                                                              *)

\* The timer fires: nothing but pending changes.
LEMMA Fires == IInv /\ TimerFires => IInv'
<1>. SUFFICES ASSUME IInv, TimerFires PROVE IInv'
  OBVIOUS
<1>. USE DEF TimerFires, cpuVars, tableVars, ctxVars, localVars
<1>1. TypeOK'
  BY DEF IInv, TypeOK
<1>2. Code' /\ Running' /\ Masks'
  BY DEF IInv, Code, Running, Parked, Early, Masks, MaskMatchesCode
<1>3. Locks' /\ Staged' /\ Tables' /\ Targets'
  BY DEF IInv, Locks, Staged, Tables, Targets, Early
<1>. QED
  BY <1>1, <1>2, <1>3 DEF IInv

\* The handler begins above code that was not masked.
LEMMA Taken == IInv /\ TakeIrq => IInv'
<1>. SUFFICES ASSUME IInv, TakeIrq PROVE IInv'
  OBVIOUS
<1>. USE DEF TakeIrq, timerVars, tableVars, localVars
<1>1. /\ run \in Thread /\ pc[run] \in CodeOf(run) /\ pc[run] \in UnmaskedPc
      /\ irq' = [irq EXCEPT ![run] = "tick"] /\ irqTpidr' = [irqTpidr EXCEPT ![run] = tpidr]
      /\ irq[run] = "none"
  BY CodePc DEF IInv, TypeOK, Code, Masks, MaskMatchesCode
<1>2. /\ pc'[run] \in CodeOf(run) /\ pc'[run] \in UnmaskedPc
      /\ pc' \in [Thread -> MaskedPc \cup UnmaskedPc]
      /\ pc'[run] # pc[run] => pc[run] = "wfi" /\ pc'[run] = "d_mask"
      /\ \A t \in Thread : t # run => pc'[t] = pc[t]
  BY <1>1 DEF IInv, TypeOK, CodeOf, DebugPc, UnmaskedPc
<1>3. Early' <=> Early
  BY <1>1, <1>2, Constants DEF Early, EarlyPc
<1>4. TypeOK'
  <2>1. irq' \in [Thread -> HandlerPc \cup {"none"}] /\ irqTpidr' \in [Thread -> Thread \cup {NoThread}]
    BY <1>1 DEF IInv, TypeOK, HandlerPc
  <2>2. \A t \in Thread : irq'[t] = "y_switch" => hnxt[t] \in Thread
    BY <1>1 DEF IInv, TypeOK
  <2>. QED
    BY <1>2, <2>1, <2>2 DEF IInv, TypeOK
<1>5. Code'
  BY <1>2 DEF IInv, Code
<1>6. Running'
  <2>1. \A t \in Thread : t # run => irq'[t] = irq[t] /\ irqTpidr'[t] = irqTpidr[t] /\ Parked(t)'
    BY <1>1, <1>2 DEF IInv, Running, Parked, TypeOK
  <2>2. irqTpidr'[run] = IF Early THEN NoThread ELSE run
    BY <1>1 DEF IInv, Running, TypeOK
  <2>. QED
    BY <1>1, <1>3, <2>1, <2>2 DEF IInv, Running
<1>7. Masks'
  <2>1. MaskMatchesCode'
    BY <1>1 DEF IInv, TypeOK, MaskMatchesCode
  <2>2. \A t \in Thread : irq'[t] # "none" => pc'[t] \in UnmaskedPc
    BY <1>1, <1>2 DEF IInv, TypeOK, Masks
  <2>3. Early => irq'[Main] \in {"none", "tick", "check", "y_mask", "y_unmask", "eret"}
    BY <1>1, Constants DEF IInv, TypeOK, Masks
  <2>4. \A t \in Thread : irq'[t] \in HandlerPc \ {"tick", "check", "y_mask", "eret"} => irqOldMask'[t] = TRUE
    BY <1>1 DEF IInv, TypeOK, Masks
  <2>. QED
    BY <1>3, <2>1, <2>2, <2>3, <2>4 DEF IInv, Masks
<1>8. Locks'
  BY <1>1, <1>2 DEF IInv, TypeOK, Locks, UnmaskedPc
<1>9. Staged' /\ Tables' /\ Targets'
  <2>1. Staged'
    BY <1>1, <1>2, <1>3, Constants DEF IInv, Staged
  <2>2. Tables'
    BY <1>1 DEF IInv, Tables
  <2>3. \A t \in Thread : /\ pc'[t] \in {"y_mask", "y_switch"} => pc[t] = pc'[t]
                          /\ irq'[t] = IF t = run THEN "tick" ELSE irq[t]
    BY <1>1, <1>2 DEF IInv, TypeOK
  <2>4. Targets'
    BY <2>3 DEF IInv, Targets
  <2>. QED
    BY <2>1, <2>2, <2>4
<1>. QED
  BY <1>4, <1>5, <1>6, <1>7, <1>8, <1>9 DEF IInv

\* The tick sets the flag, which is not set yet.
LEMMA HandleTick == IInv /\ handle_tick => IInv'
<1>. SUFFICES ASSUME IInv, handle_tick PROVE IInv'
  OBVIOUS
<1>. USE DEF handle_tick, HandlerStep, cpuVars, ctxVars
<1>1. run \in Thread /\ irq \in [Thread -> HandlerPc \cup {"none"}] /\ masked = TRUE
  BY DEF IInv, TypeOK, Masks, MaskMatchesCode
<1>2. TypeOK'
  <2>1. tick' \in 0 .. (TimeSlice - 1)
    <3>1. TimeSlice \in Nat /\ TimeSlice # 0 /\ tick + 1 \in Nat
      BY ScheduleAssumption DEF IInv, TypeOK
    <3>. QED
      BY <3>1, Wraps
  <2>2. yieldFlag' \in BOOLEAN
    OBVIOUS
  <2>3. irq' \in [Thread -> HandlerPc \cup {"none"}]
    BY <1>1 DEF HandlerPc
  <2>4. \A t \in Thread : irq'[t] = "y_switch" => hnxt[t] \in Thread
    BY <1>1 DEF IInv, TypeOK
  <2>. QED
    BY <2>1, <2>2, <2>3, <2>4 DEF IInv, TypeOK
<1>3. Code' /\ Running' /\ Masks'
  <2>1. irq' = [irq EXCEPT ![run] = irq'[run]] /\ irq'[run] \in HandlerPc /\ irq[run] \in HandlerPc
    BY <1>1 DEF HandlerPc
  <2>2. masked' = TRUE /\ \A t \in Thread : irq'[t] \in HandlerPc \ {"tick", "check", "y_mask", "eret"} => irqOldMask'[t] = TRUE
    BY <1>1 DEF IInv, TypeOK, Masks, HandlerPc
  <2>3. Early => irq'[run] \in {"none", "tick", "check", "y_mask", "y_unmask", "eret"}
    BY <1>1, Constants DEF IInv, Running, Masks
  <2>. QED
    BY <2>1, <2>2, <2>3, HandlerSteps DEF IInv
<1>4. Locks' /\ Staged' /\ Tables' /\ Targets'
  BY <1>1, Constants DEF IInv, TypeOK, Locks, Staged, Tables, Targets, Early, EarlyPc
<1>. QED
  BY <1>2, <1>3, <1>4 DEF IInv

\* The flag is taken back as it is read.
LEMMA CheckYield == IInv /\ check_yield => IInv'
<1>. SUFFICES ASSUME IInv, check_yield PROVE IInv'
  OBVIOUS
<1>. USE DEF check_yield, HandlerStep, cpuVars, ctxVars
<1>1. run \in Thread /\ irq \in [Thread -> HandlerPc \cup {"none"}] /\ masked = TRUE
  BY DEF IInv, TypeOK, Masks, MaskMatchesCode
<1>2. TypeOK'
  BY <1>1, Constants DEF IInv, TypeOK, HandlerPc
<1>3. Code' /\ Running' /\ Masks'
  <2>1. irq' = [irq EXCEPT ![run] = irq'[run]] /\ irq'[run] \in HandlerPc /\ irq[run] \in HandlerPc
    BY <1>1 DEF HandlerPc
  <2>2. masked' = TRUE /\ \A t \in Thread : irq'[t] \in HandlerPc \ {"tick", "check", "y_mask", "eret"} => irqOldMask'[t] = TRUE
    BY <1>1 DEF IInv, TypeOK, Masks, HandlerPc
  <2>3. Early => irq'[run] \in {"none", "tick", "check", "y_mask", "y_unmask", "eret"}
    BY <1>1, Constants DEF IInv, Running, Masks
  <2>. QED
    BY <2>1, <2>2, <2>3, HandlerSteps DEF IInv
<1>4. Locks' /\ Staged' /\ Tables' /\ Targets'
  BY <1>1, Constants DEF IInv, TypeOK, Locks, Staged, Tables, Targets, Early, EarlyPc
<1>. QED
  BY <1>2, <1>3, <1>4 DEF IInv

\* yield_to_next goes on only if there is a current thread.
LEMMA NextMask == IInv /\ next_mask => IInv'
<1>. SUFFICES ASSUME IInv, next_mask PROVE IInv'
  OBVIOUS
<1>. USE DEF next_mask, HandlerStep, cpuVars, ctxVars
<1>1. run \in Thread /\ irq \in [Thread -> HandlerPc \cup {"none"}] /\ masked = TRUE
  BY DEF IInv, TypeOK, Masks, MaskMatchesCode
<1>2. TypeOK'
  BY <1>1, Constants DEF IInv, TypeOK, HandlerPc
<1>3. Code' /\ Running' /\ Masks'
  <2>1. irq' = [irq EXCEPT ![run] = irq'[run]] /\ irq'[run] \in HandlerPc /\ irq[run] \in HandlerPc
    BY <1>1 DEF HandlerPc
  <2>2. masked' = TRUE /\ \A t \in Thread : irq'[t] \in HandlerPc \ {"tick", "check", "y_mask", "eret"} => irqOldMask'[t] = TRUE
    BY <1>1 DEF IInv, TypeOK, Masks, HandlerPc
  <2>3. Early => irq'[run] \in {"none", "tick", "check", "y_mask", "y_unmask", "eret"}
    BY <1>1, Constants DEF IInv, Running, Masks
  <2>. QED
    BY <2>1, <2>2, <2>3, HandlerSteps DEF IInv
<1>4. Locks' /\ Staged' /\ Tables' /\ Targets'
  <2>1. Locks'
    BY <1>1, Constants DEF IInv, TypeOK, Locks, Early
  <2>2. Staged'
    BY <1>1, Constants DEF IInv, TypeOK, Staged, Early, EarlyPc
  <2>3. Tables'
    BY <1>1, Constants DEF IInv, TypeOK, Tables
  <2>4. Targets'
    BY <1>1, Constants DEF IInv, TypeOK, Targets
  <2>. QED
    BY <2>1, <2>2, <2>3, <2>4
<1>. QED
  BY <1>2, <1>3, <1>4 DEF IInv

\* The handler takes RESBLOCKS: the code it interrupted does not hold it.
LEMMA NextRbLock == IInv /\ next_lock("rb_lock", "RESBLOCKS", "rb_pick") => IInv'
<1>. SUFFICES ASSUME IInv, next_lock("rb_lock", "RESBLOCKS", "rb_pick") PROVE IInv'
  OBVIOUS
<1>. USE DEF next_lock, HandlerStep, cpuVars, ctxVars, Lock, Acquire, Release
<1>1. run \in Thread /\ irq \in [Thread -> HandlerPc \cup {"none"}] /\ masked = TRUE
  BY DEF IInv, TypeOK, Masks, MaskMatchesCode
<1>2. TypeOK'
  BY <1>1, Constants DEF IInv, TypeOK, HandlerPc
<1>3. Code' /\ Running' /\ Masks'
  <2>1. irq' = [irq EXCEPT ![run] = irq'[run]] /\ irq'[run] \in HandlerPc /\ irq[run] \in HandlerPc
    BY <1>1 DEF HandlerPc
  <2>2. masked' = TRUE /\ \A t \in Thread : irq'[t] \in HandlerPc \ {"tick", "check", "y_mask", "eret"} => irqOldMask'[t] = TRUE
    BY <1>1 DEF IInv, TypeOK, Masks, HandlerPc
  <2>3. Early => irq'[run] \in {"none", "tick", "check", "y_mask", "y_unmask", "eret"}
    BY <1>1, Constants DEF IInv, Running, Masks
  <2>. QED
    BY <2>1, <2>2, <2>3, HandlerSteps DEF IInv
<1>4. Locks' /\ Staged' /\ Tables' /\ Targets'
  <2>1. Locks'
    BY <1>1, Constants DEF IInv, TypeOK, Locks, Early
  <2>2. Staged'
    BY <1>1, Constants DEF IInv, TypeOK, Staged, Early, EarlyPc
  <2>3. Tables'
    BY <1>1, Constants DEF IInv, TypeOK, Tables
  <2>4. Targets'
    BY <1>1, Constants DEF IInv, TypeOK, Targets
  <2>. QED
    BY <2>1, <2>2, <2>3, <2>4
<1>. QED
  BY <1>2, <1>3, <1>4 DEF IInv

\* The handler takes TS: nothing holds it.
LEMMA NextTsLock == IInv /\ next_lock("ts_lock", "TS", "ts_pick") => IInv'
<1>. SUFFICES ASSUME IInv, next_lock("ts_lock", "TS", "ts_pick") PROVE IInv'
  OBVIOUS
<1>. USE DEF next_lock, HandlerStep, cpuVars, ctxVars, Lock, Acquire, Release
<1>1. run \in Thread /\ irq \in [Thread -> HandlerPc \cup {"none"}] /\ masked = TRUE
  BY DEF IInv, TypeOK, Masks, MaskMatchesCode
<1>2. TypeOK'
  BY <1>1, Constants DEF IInv, TypeOK, HandlerPc
<1>3. Code' /\ Running' /\ Masks'
  <2>1. irq' = [irq EXCEPT ![run] = irq'[run]] /\ irq'[run] \in HandlerPc /\ irq[run] \in HandlerPc
    BY <1>1 DEF HandlerPc
  <2>2. masked' = TRUE /\ \A t \in Thread : irq'[t] \in HandlerPc \ {"tick", "check", "y_mask", "eret"} => irqOldMask'[t] = TRUE
    BY <1>1 DEF IInv, TypeOK, Masks, HandlerPc
  <2>3. Early => irq'[run] \in {"none", "tick", "check", "y_mask", "y_unmask", "eret"}
    BY <1>1, Constants DEF IInv, Running, Masks
  <2>. QED
    BY <2>1, <2>2, <2>3, HandlerSteps DEF IInv
<1>4. Locks' /\ Staged' /\ Tables' /\ Targets'
  <2>1. Locks'
    BY <1>1, Constants DEF IInv, TypeOK, Locks, Early
  <2>2. Staged'
    BY <1>1, Constants DEF IInv, TypeOK, Staged, Early, EarlyPc
  <2>3. Tables'
    BY <1>1, Constants DEF IInv, TypeOK, Tables
  <2>4. Targets'
    BY <1>1, Constants DEF IInv, TypeOK, Targets
  <2>. QED
    BY <2>1, <2>2, <2>3, <2>4
<1>. QED
  BY <1>2, <1>3, <1>4 DEF IInv

\* The next block names a pool, and the hand stays inside.
LEMMA NextBlock == IInv /\ next_block => IInv'
<1>. SUFFICES ASSUME IInv, next_block PROVE IInv'
  OBVIOUS
<1>. USE DEF next_block, HandlerStep, cpuVars, ctxVars
<1>1. run \in Thread /\ irq \in [Thread -> HandlerPc \cup {"none"}] /\ masked = TRUE
  BY DEF IInv, TypeOK, Masks, MaskMatchesCode
<1>2. /\ rbs # <<>> => rbs[rbHand + 1] \in Pool /\ (rbHand + 1) % Len(rbs) \in Nat
                       /\ (rbHand + 1) % Len(rbs) < Len(rbs)
      /\ rbs # <<>> => irq'[run] = "ts_lock" /\ hnxt'[run] = rbs[rbHand + 1] /\ rbHand' = (rbHand + 1) % Len(rbs)
      /\ rbs = <<>> => irq'[run] = "rb_unlock" /\ hnxt'[run] = NoThread /\ rbHand' = rbHand
      /\ hnxt' = [hnxt EXCEPT ![run] = hnxt'[run]]
  <2>1. rbHand \in Nat /\ rbHand + 1 \in Nat
    BY DEF IInv, TypeOK
  <2>2. rbs # <<>> => Len(rbs) \in Nat /\ rbs[rbHand + 1] \in Pool /\ Len(rbs) # 0
    <3>1. rbs # <<>> => rbHand < Len(rbs)
      BY DEF IInv, Tables
    <3>2. rbs \in Seq(Pool)
      BY DEF IInv, TypeOK
    <3>3. rbs # <<>> => Len(rbs) \in Nat /\ 0 < Len(rbs) /\ \A i \in 1 .. Len(rbs) : rbs[i] \in Pool
      BY <3>2, NotEmpty
    <3>. HIDE DEF next_block
    <3>. QED
      BY <2>1, <3>1, <3>3
  <2>3. rbs # <<>> => (rbHand + 1) % Len(rbs) \in Nat /\ (rbHand + 1) % Len(rbs) < Len(rbs)
    BY <2>1, <2>2, Wraps
  <2>4. /\ rbs # <<>> => irq'[run] = "ts_lock" /\ hnxt'[run] = rbs[rbHand + 1] /\ rbHand' = (rbHand + 1) % Len(rbs)
        /\ rbs = <<>> => irq'[run] = "rb_unlock" /\ hnxt'[run] = NoThread /\ rbHand' = rbHand
        /\ hnxt' = [hnxt EXCEPT ![run] = hnxt'[run]]
    BY <1>1 DEF IInv, TypeOK
  <2>. QED
    BY <2>2, <2>3, <2>4
<1>3. TypeOK'
  <2>1. irq' \in [Thread -> HandlerPc \cup {"none"}]
    BY <1>1 DEF HandlerPc
  <2>2. hnxt' \in [Thread -> Thread \cup Pool \cup {NoThread}] /\ rbHand' \in Nat
    BY <1>1, <1>2 DEF IInv, TypeOK
  <2>3. \A t \in Thread : irq'[t] = "y_switch" => hnxt'[t] \in Thread
    BY <1>1, <1>2 DEF IInv, TypeOK
  <2>. QED
    BY <2>1, <2>2, <2>3 DEF IInv, TypeOK
<1>4. Code' /\ Running' /\ Masks'
  <2>1. irq' = [irq EXCEPT ![run] = irq'[run]] /\ irq'[run] \in HandlerPc /\ irq[run] \in HandlerPc
    BY <1>1 DEF HandlerPc
  <2>2. masked' = TRUE /\ \A t \in Thread : irq'[t] \in HandlerPc \ {"tick", "check", "y_mask", "eret"} => irqOldMask'[t] = TRUE
    BY <1>1 DEF IInv, TypeOK, Masks, HandlerPc
  <2>3. Early => irq'[run] \in {"none", "tick", "check", "y_mask", "y_unmask", "eret"}
    BY <1>1, Constants DEF IInv, Running, Masks
  <2>. QED
    BY <2>1, <2>2, <2>3, HandlerSteps DEF IInv
<1>5. Locks' /\ Staged' /\ Tables' /\ Targets'
  <2>1. Locks' /\ Staged'
    BY <1>1, Constants DEF IInv, TypeOK, Locks, Staged, Early, EarlyPc
  <2>2. Tables'
    BY <1>1, <1>2 DEF IInv, Tables
  <2>3. Targets'
    BY <1>1, <1>2 DEF IInv, TypeOK, Targets
  <2>. QED
    BY <2>1, <2>2, <2>3
<1>. QED
  BY <1>3, <1>4, <1>5 DEF IInv

\* A slice resolves to a thread, to nothing, or to another pool.
LEMMA NextSlice == IInv /\ next_slice => IInv'
<1>. SUFFICES ASSUME IInv, next_slice PROVE IInv'
  OBVIOUS
<1>. USE DEF next_slice, HandlerStep, cpuVars, ctxVars, Lock, Acquire, Release
<1>1. run \in Thread /\ irq \in [Thread -> HandlerPc \cup {"none"}] /\ masked = TRUE
  BY DEF IInv, TypeOK, Masks, MaskMatchesCode
<1>. DEFINE p == hnxt[run]
            found == Entered(p) /\ slices[p] # <<>>
            slice == slices[p][tsHand[p] + 1]
<1>2. p \in Pool /\ rbs # <<>> /\ slices[p] \in Seq(Slice) /\ tsHand[p] \in Nat
      /\ sched[p] \in Thread
  BY <1>1, Constants DEF IInv, TypeOK, Targets, Staged
<1>3. found => slice \in Slice /\ (tsHand[p] + 1) % Len(slices[p]) \in Nat
               /\ (tsHand[p] + 1) % Len(slices[p]) < Len(slices[p])
  <2>. SUFFICES ASSUME slices[p] # <<>>
                PROVE  slice \in Slice /\ (tsHand[p] + 1) % Len(slices[p]) \in Nat
                       /\ (tsHand[p] + 1) % Len(slices[p]) < Len(slices[p])
    OBVIOUS
  <2>1. tsHand[p] < Len(slices[p]) /\ tsHand[p] \in Nat /\ tsHand[p] + 1 \in Nat
    BY <1>2 DEF IInv, Tables
  <2>2. Len(slices[p]) \in Nat /\ Len(slices[p]) # 0 /\ slice \in Slice
    BY <1>2, <2>1, NotEmpty
  <2>. QED
    BY <2>1, <2>2, Wraps
<1>4. found => /\ slice.kind \in {"Routine", "Execute", "Redirect"}
               /\ slice.kind = "Execute" => slice.th \in Thread
               /\ slice.kind = "Redirect" => slice.ct \in Pool
  BY <1>3, SliceFields
<1>5. /\ tsHand' = IF found THEN [tsHand EXCEPT ![p] = (tsHand[p] + 1) % Len(slices[p])] ELSE tsHand
      /\ irq' = [irq EXCEPT ![run] = IF found /\ slice.kind = "Redirect" THEN "ts_lock" ELSE "rb_unlock"]
      /\ hnxt' = [hnxt EXCEPT ![run] = hnxt'[run]]
      /\ IF found /\ slice.kind = "Redirect" THEN hnxt'[run] \in Pool ELSE hnxt'[run] \in Thread \cup {NoThread}
  <2>1. hnxt' = [hnxt EXCEPT ![run] = IF ~found THEN NoThread
                                      ELSE CASE slice.kind = "Routine" -> sched[p]
                                             [] slice.kind = "Execute" -> slice.th
                                             [] slice.kind = "Redirect" -> slice.ct]
    OBVIOUS
  <2>2. hnxt'[run] = IF ~found THEN NoThread
                     ELSE CASE slice.kind = "Routine" -> sched[p]
                            [] slice.kind = "Execute" -> slice.th
                            [] slice.kind = "Redirect" -> slice.ct
    BY <1>1, <2>1 DEF IInv, TypeOK
  <2>3. IF found /\ slice.kind = "Redirect" THEN hnxt'[run] \in Pool ELSE hnxt'[run] \in Thread \cup {NoThread}
    <3>. HIDE DEF found, slice, p
    <3>. QED
      BY <1>2, <1>4, <2>2
  <2>. QED
    BY <1>1, <2>1, <2>2, <2>3
<1>. HIDE DEF found, slice, p
<1>6. TypeOK'
  <2>1. irq' \in [Thread -> HandlerPc \cup {"none"}]
    BY <1>1, <1>5 DEF HandlerPc
  <2>2. hnxt' \in [Thread -> Thread \cup Pool \cup {NoThread}]
    BY <1>1, <1>5 DEF IInv, TypeOK
  <2>3. tsHand' \in [Pool -> Nat]
    BY <1>2, <1>3, <1>5, ZenonT(60) DEF IInv, TypeOK
  <2>4. lock' \in [Lock -> Thread \cup {NoThread}]
    BY DEF IInv, TypeOK
  <2>5. \A t \in Thread : irq'[t] = "y_switch" => hnxt'[t] \in Thread
    <3>1. hnxt \in [Thread -> Thread \cup Pool \cup {NoThread}]
          /\ \A t \in Thread : irq[t] = "y_switch" => hnxt[t] \in Thread
      BY DEF IInv, TypeOK
    <3>2. irq'[run] \in {"ts_lock", "rb_unlock"}
      BY <1>1, <1>5, Zenon
    <3>3. \A t \in Thread : t # run => irq'[t] = irq[t] /\ hnxt'[t] = hnxt[t]
      BY <1>1, <1>5, <3>1, Zenon
    <3>. QED
      BY <3>1, <3>2, <3>3
  <2>. QED
    BY <2>1, <2>2, <2>3, <2>4, <2>5 DEF IInv, TypeOK
<1>7. Code' /\ Running' /\ Masks'
  <2>1. irq' = [irq EXCEPT ![run] = irq'[run]] /\ irq'[run] \in HandlerPc /\ irq[run] \in HandlerPc
    BY <1>1, <1>5 DEF HandlerPc
  <2>2. masked' = TRUE /\ \A t \in Thread : irq'[t] \in HandlerPc \ {"tick", "check", "y_mask", "eret"} => irqOldMask'[t] = TRUE
    BY <1>1, <1>5 DEF IInv, TypeOK, Masks, HandlerPc
  <2>3. Early => irq'[run] \in {"none", "tick", "check", "y_mask", "y_unmask", "eret"}
    BY <1>1, <1>5, Constants DEF IInv, Running, Masks
  <2>. QED
    BY <2>1, <2>2, <2>3, HandlerSteps DEF IInv
<1>8. Locks' /\ Staged' /\ Tables' /\ Targets'
  <2>1. Locks' /\ Staged'
    BY <1>1, <1>5, Constants, ZenonT(60) DEF IInv, TypeOK, Locks, Staged, Early, EarlyPc
  <2>2. \A q \in Pool : IF slices[q] = <<>> THEN tsHand'[q] = 0 ELSE tsHand'[q] < Len(slices[q])
    <3>1. \A q \in Pool : q # p => tsHand'[q] = tsHand[q]
      BY <1>2, <1>5, ZenonT(60) DEF IInv, TypeOK
    <3>2. found => slices[p] # <<>> /\ tsHand'[p] < Len(slices[p])
      BY <1>2, <1>3, <1>5, ZenonT(60) DEF IInv, TypeOK, found
    <3>3. ~found => tsHand' = tsHand
      BY <1>5
    <3>. QED
      BY <1>2, <3>1, <3>2, <3>3 DEF IInv, Tables
  <2>3. Tables'
    BY <1>1, <2>2 DEF IInv, Tables
  <2>4. \A t \in Thread : t # run => irq'[t] = irq[t] /\ hnxt'[t] = hnxt[t]
    BY <1>1, <1>5 DEF IInv, TypeOK
  <2>5. \/ irq'[run] = "ts_lock" /\ hnxt'[run] \in Pool
        \/ irq'[run] = "rb_unlock" /\ hnxt'[run] \in Thread \cup {NoThread}
    BY <1>1, <1>5
  <2>6. Targets'
    BY <1>2, <2>4, <2>5, ZenonT(60) DEF IInv, Targets
  <2>. QED
    BY <2>1, <2>3, <2>6
<1>. QED
  BY <1>6, <1>7, <1>8 DEF IInv

\* RESBLOCKS is dropped before the switch.
LEMMA NextUnlock == IInv /\ next_unlock => IInv'
<1>. SUFFICES ASSUME IInv, next_unlock PROVE IInv'
  OBVIOUS
<1>. USE DEF next_unlock, HandlerStep, cpuVars, ctxVars, Lock, Acquire, Release
<1>1. run \in Thread /\ irq \in [Thread -> HandlerPc \cup {"none"}] /\ masked = TRUE
  BY DEF IInv, TypeOK, Masks, MaskMatchesCode
<1>2. TypeOK'
  <2>1. irq' \in [Thread -> HandlerPc \cup {"none"}]
    BY <1>1 DEF HandlerPc
  <2>2. \A t \in Thread : irq'[t] = "y_switch" => hnxt[t] \in Thread
    BY <1>1 DEF IInv, TypeOK, Targets
  <2>3. lock' \in [Lock -> Thread \cup {NoThread}]
    BY DEF IInv, TypeOK
  <2>. QED
    BY <2>1, <2>2, <2>3 DEF IInv, TypeOK
<1>3. Code' /\ Running' /\ Masks'
  <2>1. irq' = [irq EXCEPT ![run] = irq'[run]] /\ irq'[run] \in HandlerPc /\ irq[run] \in HandlerPc
    BY <1>1 DEF HandlerPc
  <2>2. masked' = TRUE /\ \A t \in Thread : irq'[t] \in HandlerPc \ {"tick", "check", "y_mask", "eret"} => irqOldMask'[t] = TRUE
    BY <1>1 DEF IInv, TypeOK, Masks, HandlerPc
  <2>3. Early => irq'[run] \in {"none", "tick", "check", "y_mask", "y_unmask", "eret"}
    BY <1>1, Constants DEF IInv, Running, Masks
  <2>. QED
    BY <2>1, <2>2, <2>3, HandlerSteps DEF IInv
<1>4. Locks' /\ Staged' /\ Tables' /\ Targets'
  <2>1. Locks'
    BY <1>1, Constants DEF IInv, TypeOK, Locks, Early
  <2>2. Staged'
    BY <1>1, Constants DEF IInv, TypeOK, Staged, Early, EarlyPc
  <2>3. Tables'
    BY <1>1, Constants DEF IInv, TypeOK, Tables
  <2>4. Targets'
    BY <1>1, Constants DEF IInv, TypeOK, Targets
  <2>. QED
    BY <2>1, <2>2, <2>3, <2>4
<1>. QED
  BY <1>2, <1>3, <1>4 DEF IInv

\* The handler stays masked until eret.
LEMMA NextUnmask == IInv /\ next_unmask => IInv'
<1>. SUFFICES ASSUME IInv, next_unmask PROVE IInv'
  OBVIOUS
<1>. USE DEF next_unmask, HandlerStep, cpuVars, ctxVars
<1>1. run \in Thread /\ irq \in [Thread -> HandlerPc \cup {"none"}] /\ masked = TRUE
  BY DEF IInv, TypeOK, Masks, MaskMatchesCode
<1>2. TypeOK'
  BY <1>1, Constants DEF IInv, TypeOK, HandlerPc
<1>3. Code' /\ Running' /\ Masks'
  <2>1. irq' = [irq EXCEPT ![run] = irq'[run]] /\ irq'[run] \in HandlerPc /\ irq[run] \in HandlerPc
    BY <1>1 DEF HandlerPc
  <2>2. masked' = TRUE /\ \A t \in Thread : irq'[t] \in HandlerPc \ {"tick", "check", "y_mask", "eret"} => irqOldMask'[t] = TRUE
    BY <1>1 DEF IInv, TypeOK, Masks, HandlerPc
  <2>3. Early => irq'[run] \in {"none", "tick", "check", "y_mask", "y_unmask", "eret"}
    BY <1>1, Constants DEF IInv, Running, Masks
  <2>. QED
    BY <2>1, <2>2, <2>3, HandlerSteps DEF IInv
<1>4. Locks' /\ Staged' /\ Tables' /\ Targets'
  BY <1>1, Constants DEF IInv, TypeOK, Locks, Staged, Tables, Targets, Early, EarlyPc
<1>. QED
  BY <1>2, <1>3, <1>4 DEF IInv

\* A preemption: the thread is left in the handler, behind the switch.
LEMMA NextSwitch == IInv /\ next_switch => IInv'
<1>. SUFFICES ASSUME IInv, next_switch PROVE IInv'
  OBVIOUS
<1>. USE DEF next_switch, HandlerStep
<1>1. /\ run \in Thread /\ irq[run] = "y_switch" /\ irq' = [irq EXCEPT ![run] = "y_unmask"]
      /\ irq \in [Thread -> HandlerPc \cup {"none"}] /\ hnxt[run] \in Thread /\ rbs # <<>>
  BY DEF IInv, TypeOK, Targets
<1>2. ~Early /\ masked = TRUE
  BY <1>1 DEF IInv, Staged, Masks, MaskMatchesCode, TypeOK
<1>3. irq' \in [Thread -> HandlerPc \cup {"none"}]
  BY <1>1 DEF HandlerPc
<1>4. /\ Code' /\ Running' /\ Masks'
      /\ run' = hnxt[run] /\ tpidr' = hnxt[run] /\ masked' \in BOOLEAN
      /\ savedSp' \in [Thread -> Thread \cup {NoThread}]
      /\ stackTpidr' \in [Thread -> Thread \cup {NoThread}]
      /\ ~Early'
  BY <1>1, <1>2, <1>3, SwitchSteps DEF IInv, TypeOK
<1>5. TypeOK'
  <2>1. \A t \in Thread : irq'[t] = "y_switch" => hnxt[t] \in Thread
    BY <1>1 DEF IInv, TypeOK
  <2>. QED
    BY <1>1, <1>3, <1>4, <2>1 DEF IInv, TypeOK
<1>6. Locks' /\ Staged' /\ Tables' /\ Targets'
  <2>1. Locks'
    <3>1. pc[run] \notin {"rb_replace", "ts_replace"}
      BY <1>1, <1>2, Constants DEF IInv, Early, EarlyPc, Code, CodeOf, DebugPc, SchedPc
    <3>. QED
      BY <1>1, <3>1 DEF IInv, Locks
  <2>2. Staged'
    BY <1>2, <1>4 DEF IInv, Staged
  <2>3. Tables'
    BY <1>1 DEF IInv, Tables
  <2>4. Targets'
    BY <1>1 DEF IInv, Targets
  <2>. QED
    BY <2>1, <2>2, <2>3, <2>4
<1>. QED
  BY <1>4, <1>5, <1>6 DEF IInv

\* The code that was interrupted goes on, as it was: it was not masked.
LEMMA Eret == IInv /\ eret => IInv'
<1>. SUFFICES ASSUME IInv, eret PROVE IInv'
  OBVIOUS
<1>. USE DEF eret, HandlerStep, ctxVars
<1>1. /\ run \in Thread /\ irq[run] = "eret" /\ irq' = [irq EXCEPT ![run] = "none"]
      /\ irq \in [Thread -> HandlerPc \cup {"none"}] /\ pc[run] \in UnmaskedPc
      /\ irqTpidr[run] = tpidr
  BY DEF IInv, TypeOK, Masks, Running
<1>2. irq'[run] = "none" /\ \A t \in Thread : t # run => irq'[t] = irq[t]
  BY <1>1
<1>3. TypeOK'
  <2>1. irq' \in [Thread -> HandlerPc \cup {"none"}] /\ tpidr' = tpidr
    BY <1>1
  <2>2. \A t \in Thread : irq'[t] = "y_switch" => hnxt[t] \in Thread
    BY <1>1, <1>2 DEF IInv, TypeOK
  <2>. QED
    BY <2>1, <2>2 DEF IInv, TypeOK
<1>4. Code' /\ (Early' <=> Early)
  BY DEF IInv, Code, Early
<1>5. Running'
  <2>1. \A t \in Thread : t # run => Parked(t)'
    BY <1>2 DEF IInv, Running, Parked
  <2>. QED
    BY <1>1, <1>2, <1>4, <2>1 DEF IInv, Running
<1>6. Masks'
  <2>1. MaskMatchesCode'
    BY <1>1, <1>2, Apart DEF MaskMatchesCode
  <2>2. Early => irq'[Main] \in {"none", "tick", "check", "y_mask", "y_unmask", "eret"}
    BY <1>1, <1>2, Constants DEF IInv, Masks
  <2>3. \A t \in Thread : irq'[t] \in HandlerPc \ {"tick", "check", "y_mask", "eret"} => irqOldMask'[t] = TRUE
    BY <1>2 DEF IInv, Masks, HandlerPc
  <2>. QED
    BY <1>2, <1>4, <2>1, <2>2, <2>3 DEF IInv, Masks
<1>7. Locks'
  BY <1>1, <1>2 DEF IInv, Locks, UnmaskedPc
<1>8. Staged' /\ Tables' /\ Targets'
  BY <1>1, <1>2, <1>4 DEF IInv, Staged, Tables, Targets
<1>. QED
  BY <1>3, <1>4, <1>5, <1>6, <1>7, <1>8 DEF IInv

-----------------------------------------------------------------------------
(* The theorems                                                            *)

\* The invariant holds when the kernel starts.
LEMMA InitInv == Init => IInv
<1>. SUFFICES ASSUME Init PROVE IInv
  OBVIOUS
<1>. USE DEF Init
<1>1. TypeOK
  <2>1. /\ rbs \in Seq(Pool) /\ ts \in Seq(Pool) /\ slices \in [Pool -> Seq(Slice)]
        /\ inbox \in [Pool -> Seq(TaskThread)] /\ batch \in [Pool -> Seq(TaskThread)]
        /\ ready \in [Pool -> Seq(TaskThread)]
    BY EmptySeq
  <2>2. pc \in [Thread -> MaskedPc \cup UnmaskedPc] /\ irq \in [Thread -> HandlerPc \cup {"none"}]
    BY DEF MaskedPc, UnmaskedPc
  <2>3. tick \in 0 .. (TimeSlice - 1)
    BY ScheduleAssumption
  <2>4. oldMask \in [Thread -> BOOLEAN] /\ irqOldMask \in [Thread -> BOOLEAN]
    OBVIOUS
  <2>. QED
    BY <2>1, <2>2, <2>3, <2>4, Constants DEF TypeOK
<1>2. pc[Main] = "load_table" /\ Early
  BY Constants DEF Early, EarlyPc
<1>3. Code
  BY Constants DEF Code, CodeOf, BootPc, EarlyPc, DebugPc, SchedPc
<1>4. Running
  <2>1. \A t \in Thread : t # run => Parked(t)
    BY DEF Parked, Start
  <2>. QED
    BY <1>2, <2>1, Constants DEF Running
<1>5. Masks
  <2>1. MaskMatchesCode
    BY <1>2 DEF MaskMatchesCode, MaskedPc
  <2>. QED
    BY <1>2, <2>1, Constants DEF Masks, HandlerPc
<1>6. Locks /\ Targets
  BY <1>2, Constants DEF Locks, Targets, Lock
<1>7. Staged
  BY <1>2 DEF Staged
<1>8. Tables
  BY DEF Tables
<1>. QED
  BY <1>1, <1>3, <1>4, <1>5, <1>6, <1>7, <1>8 DEF IInv

\* It depends on the variables only.
LEMMA StutterInv == IInv /\ UNCHANGED vars => IInv'
<1>. SUFFICES ASSUME IInv, UNCHANGED vars PROVE IInv'
  OBVIOUS
<1>. USE DEF vars, cpuVars, timerVars, tableVars, ctxVars, localVars
<1>1. TypeOK'
  BY DEF IInv, TypeOK
<1>2. Code' /\ Locks' /\ Staged' /\ Tables' /\ Targets'
  BY DEF IInv, Code, Locks, Staged, Tables, Targets, Early
<1>3. Running' /\ Masks'
  BY DEF IInv, Running, Parked, Early, Masks, MaskMatchesCode
<1>. QED
  BY <1>1, <1>3, <1>2 DEF IInv

\* Every step preserves it.
LEMMA NextInv == IInv /\ [Next]_vars => IInv'
<1>1. IInv /\ Boot => IInv'
  BY LoadTable, InitTimer, RbLock, RbReplace, TsLock, TsReplace, InitThread, SpawnPool, SendTasks,
     GrantMask, GrantSlices, GrantTs, RbGrantLock, GrantRb, GrantUnmask, Zenon DEF Boot
<1>2. IInv /\ ThreadCode => IInv'
  BY DebugMask, DebugLock, DebugWrite, DebugUnmask, IdleMask, IdleUnmask, IdleWfi, SchedWfi,
     SchedRecv, SchedSpawn, SchedSearch, SchedPick, YieldMask, YieldSwitch, YieldUnmask,
     Zenon DEF ThreadCode
<1>3. IInv /\ HandlerCode => IInv'
  BY HandleTick, CheckYield, NextMask, NextRbLock, NextTsLock, NextBlock, NextSlice, NextUnlock,
     NextSwitch, NextUnmask, Eret, Zenon DEF HandlerCode
<1>. QED
  BY <1>1, <1>2, <1>3, Fires, Taken, StutterInv, Zenon DEF Next, CpuStep

\* The invariant holds of every behaviour, without fairness.
THEOREM Invariance == Spec => []IInv
BY InitInv, NextInv, PTL DEF Spec

\* TPIDR_EL2 names the thread whose stack is in use: what current_thread
\* returns is the caller, and switch saves sp where it belongs.
THEOREM CurrentThread == Spec => []CurrentIsRunning
<1>1. IInv => CurrentIsRunning
  BY Constants, ZenonT(60) DEF IInv, Running, CurrentIsRunning, TypeOK
<1>. QED
  BY <1>1, Invariance, PTL

\* Interrupts are masked exactly in the handler and in critical sections,
\* whichever thread a switch left and whichever it took up.
THEOREM MasksRight == Spec => []MaskMatchesCode
<1>1. IInv => MaskMatchesCode
  BY DEF IInv, Masks
<1>. QED
  BY <1>1, Invariance, PTL

\* Mutex::lock of RESBLOCKS, TS and UART_DEVICE finds the lock free, always.
THEOREM LocksFree == Spec => []NeverSpins
<1>1. IInv => NeverSpins
  <2>. SUFFICES ASSUME IInv PROVE NeverSpins
    OBVIOUS
  <2>1. irq[run] # "none" => Wanted = IF irq[run] = "rb_lock" THEN {"RESBLOCKS"}
                                      ELSE IF irq[run] = "ts_lock" THEN {"TS"} ELSE {}
    BY DEF Wanted
  <2>2. irq[run] = "none" => Wanted = IF pc[run] \in {"rb_lock", "rb_grant_lock"} THEN {"RESBLOCKS"}
                                      ELSE IF pc[run] \in {"ts_lock", "grant_lock"} THEN {"TS"}
                                      ELSE IF pc[run] = "d_lock" THEN {"UART"} ELSE {}
    BY DEF Wanted
  <2>3. irq[run] \in {"rb_lock", "ts_lock"} => pc[run] \notin {"rb_replace", "ts_replace"}
    BY Constants DEF IInv, TypeOK, Running, Masks, Early, EarlyPc, Code, CodeOf, DebugPc, SchedPc
  <2>. QED
    BY <2>1, <2>2, <2>3 DEF IInv, Locks, NeverSpins
<1>. QED
  BY <1>1, Invariance, PTL

\* The expect of the timer handler, the assert on the hand of the resource
\* blocks, the unwrap of a scheduler and the index into the ready list hold.
THEOREM PanicFree == Spec => []NoPanic
<1>1. IInv => NoPanic
  <2>. SUFFICES ASSUME IInv PROVE NoPanic
    OBVIOUS
  <2>1. irq[run] = "tick" /\ tick = 0 => ~yieldFlag
    BY DEF IInv, Tables
  <2>2. irq[run] = "rb_pick" /\ rbs # <<>> => Len(rbs) > rbHand
    <3>1. rbs # <<>> => rbHand < Len(rbs)
      BY DEF IInv, Tables
    <3>2. Len(rbs) \in Nat /\ rbHand \in Nat
      BY DEF IInv, TypeOK
    <3>. QED
      BY <3>1, <3>2
  <2>3. run \in Thread /\ pc[run] \in {"search", "pick"} => run \in SchedThread /\ run # Main
    BY Constants DEF IInv, Code, CodeOf, DebugPc, BootPc, EarlyPc
  <2>4. pc[run] \in {"search", "pick"} => PoolOf(run) \in Pool /\ run # Main
    BY <2>3, PoolOfSched DEF IInv, TypeOK
  <2>5. pc[run] = "search" /\ Peer[PoolOf(run)] # 0 => sched[Peer[PoolOf(run)]] # NoThread
    <3>1. pc[run] = "search" /\ Peer[PoolOf(run)] # 0 => Peer[PoolOf(run)] \in Pool
      BY <2>4, ScheduleAssumption DEF Pool
    <3>2. pc[run] = "search" => \A p \in Pool : sched[p] = SchedOf[p]
      BY <2>4 DEF IInv, Running, Staged
    <3>. QED
      BY <3>1, <3>2, Constants
  <2>6. pc[run] = "pick" /\ ready[PoolOf(run)] # <<>> => hand[PoolOf(run)] < Len(ready[PoolOf(run)])
    BY <2>4 DEF IInv, Tables
  <2>. QED
    BY <2>1, <2>2, <2>5, <2>6 DEF NoPanic
<1>. QED
  BY <1>1, Invariance, PTL
=============================================================================
