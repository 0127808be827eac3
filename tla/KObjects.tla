------------------------------ MODULE KObjects ------------------------------
(***************************************************************************)
(* Kernel objects and the pages they are made of (kobject/, container.rs,  *)
(* spawn_raw of thread.rs), as the boot thread (main.rs) and then the      *)
(* schedulers of the pools use them.  An object is named by its first      *)
(* page.  A container keeps its free pages as a set: FreePages is what the *)
(* page tree implements.                                                   *)
(*                                                                         *)
(* A scheduler may be preempted between any two steps.  A statement that   *)
(* would panic (a failed label check, an unwrap of None) has no step: the  *)
(* machine is off.                                                         *)
(***************************************************************************)
EXTENDS PageRuns, Sequences

CONSTANTS
    NPages,        \* pages of the first page tree
    KObjNPages,    \* KOBJ_NPAGES: pages of a label or a container
    ThreadNPages,  \* THREAD_NPAGES
    NMove,         \* pages moved to every pool
    NPools,        \* pool containers
    Tasks,         \* Tasks[p]: tasks sent to the scheduler of pool p
    Home,          \* Home[p]: the pool in whose container that scheduler spawns them
    LabelOf,       \* LabelOf[p]: label of the container of pool p
    SchedLabelOf,  \* SchedLabelOf[p]: label of its scheduler
    Bottom,        \* "T,F", the label of the root container and of the boot thread
    CanFlow,       \* can_flow_to: pairs of labels
    Invalid        \* INVALID_KOBJ_ID, and None

Page == 0 .. (NPages - 1)
Pool == 1 .. NPools
Main == 0                                     \* the boot thread
Actor == {Main} \cup Pool                     \* p \in Pool: the scheduler of p
Size(k) == IF k = "Thread" THEN ThreadNPages ELSE KObjNPages

ASSUME KObjectsAssumption ==
    /\ NPages \in Nat /\ KObjNPages \in Nat \ {0, 1} /\ ThreadNPages \in Nat \ {0, 1}
    /\ NMove \in Nat \ {0} /\ NPools \in Nat \ {0}
    /\ Tasks \in [Pool -> Nat] /\ Home \in [Pool -> Pool]
    /\ Invalid \notin Page

VARIABLES
    kind, parent, label,   \* KObjectMeta of the object at a page
    text,                  \* the label a Label object holds
    free,                  \* free_pages of the container at a page
    slots,                 \* Container::slots
    scheduler,             \* Container::scheduler
    known,                 \* known_containers of the root container
    root, pool,            \* the containers that were created
    boot,                  \* the pool the boot thread is working on
    todo,                  \* tasks received and not spawned
    ready,                 \* ready_list of each scheduler
    pc,                    \* where each actor is
    op,                    \* what it creates: "Thread" with a label, or "Container" with one
    part,                  \* which of the two it is at
    slot, page, lb         \* its local variables

metaVars == <<kind, parent, label, text>>
bootVars == <<scheduler, known, root, pool, boot>>
vars == <<metaVars, free, slots, bootVars, todo, ready, pc, op, part, slot, page, lb>>

Init ==
    /\ kind = [p \in Page |-> "None"]
    /\ parent = [p \in Page |-> Invalid] /\ label = [p \in Page |-> Invalid]
    /\ text = [p \in Page |-> Bottom]
    /\ free = [p \in Page |-> {}]
    /\ slots = [p \in Page |-> <<>>] /\ scheduler = [p \in Page |-> Invalid]
    /\ known = <<>> /\ root = Invalid /\ pool = [p \in Pool |-> Invalid] /\ boot = 1
    /\ todo = [p \in Pool |-> 0] /\ ready = [p \in Pool |-> <<>>]
    /\ pc = [a \in Actor |-> IF a = Main THEN "root" ELSE "wait"]
    /\ op = [a \in Actor |-> "Thread"] /\ part = [a \in Actor |-> "Label"]
    /\ slot = [a \in Actor |-> 0]
    /\ page = [a \in Actor |-> Invalid] /\ lb = [a \in Actor |-> Invalid]

-----------------------------------------------------------------------------
(* Creating a label and an object in a container                           *)

Goto(a, from, to) == pc[a] = from /\ pc' = [pc EXCEPT ![a] = to]

\* The container in which actor a creates: ct_ref.
Ct(a) ==
    IF a # Main THEN pool[Home[a]]
    ELSE IF pool[boot] = Invalid \/ op[a] = "Container" THEN root ELSE pool[boot]

\* The thread a is, its label, and the label it gives to what it creates.
Self(a) == IF a = Main THEN scheduler[root] ELSE scheduler[pool[a]]
NewText(a) ==
    IF a # Main THEN LabelOf[a]
    ELSE IF Ct(a) = root THEN (IF op[a] = "Container" THEN LabelOf[boot] ELSE Bottom)
    ELSE SchedLabelOf[boot]

\* The label checks of container::create and thread::spawn_raw.
check(a) ==
    /\ Goto(a, "check", "slot")
    /\ <<text[label[Self(a)]], text[label[Ct(a)]]>> \in CanFlow
    /\ UNCHANGED <<metaVars, free, slots, bootVars, todo, ready, op, part, slot, page, lb>>

Vacant(s) == {i \in 1 .. Len(s) : s[i] = Invalid}

\* Mutant: the number of slots is taken before the push.
get_slot_short(a) ==
    LET s == slots[Ct(a)]
        i == IF Vacant(s) = {} THEN Len(s)
             ELSE CHOOSE j \in Vacant(s) : \A k \in Vacant(s) : j <= k
    IN
    /\ Goto(a, "slot", "find")
    /\ slot' = [slot EXCEPT ![a] = i]
    /\ slots' = [slots EXCEPT ![Ct(a)] = Append(s, Invalid)]
    /\ UNCHANGED <<metaVars, free, bootVars, todo, ready, op, part, page, lb>>

\* Container::get_slot: the first vacant slot, or one more.  It stays vacant.
get_slot(a) ==
    LET s == slots[Ct(a)]
        i == IF Vacant(s) = {} THEN Len(s) + 1
             ELSE CHOOSE j \in Vacant(s) : \A k \in Vacant(s) : j <= k
    IN
    /\ Goto(a, "slot", "find")
    /\ slot' = [slot EXCEPT ![a] = i]
    /\ slots' = [slots EXCEPT ![Ct(a)] = IF i > Len(s) THEN Append(s, Invalid) ELSE s]
    /\ UNCHANGED <<metaVars, free, bootVars, todo, ready, op, part, page, lb>>

\* PageTree::get_multiple finds a run, and then deletes its pages one by one.
find(a, c, n, from, to) ==
    /\ Goto(a, from, to)
    /\ Fits(free[c], n) # {}
    /\ page' = [page EXCEPT ![a] = FirstFit(free[c], n)]
    /\ UNCHANGED <<metaVars, free, slots, bootVars, todo, ready, op, part, slot, lb>>

\* What is left of the free pages: if another thread took some of the run in
\* the meantime, its nodes are overwritten and the deletes leave anything.
Left(S, R) == IF R \subseteq S THEN {S \ R} ELSE SUBSET S

\* Mutant: the deletes miss the last page of the run.
take_all_but_one(a, c, n, from, to) ==
    /\ Goto(a, from, to)
    /\ \E S \in Left(free[c], Run(page[a], n - 1)) : free' = [free EXCEPT ![c] = S]
    /\ UNCHANGED <<metaVars, slots, bootVars, todo, ready, op, part, slot, page, lb>>

take(a, c, n, from, to) ==
    /\ Goto(a, from, to)
    /\ \E S \in Left(free[c], Run(page[a], n)) : free' = [free EXCEPT ![c] = S]
    /\ UNCHANGED <<metaVars, slots, bootVars, todo, ready, op, part, slot, page, lb>>

\* _kobject_create: metadata with neither parent nor label, and no free page.
\* The arena it is given depends on the kind alone: see Arena.
NewMeta(p, k, par, l) ==
    /\ kind' = [kind EXCEPT ![p] = k]
    /\ parent' = [parent EXCEPT ![p] = par]
    /\ label' = [label EXCEPT ![p] = l]

\* Label::create, Container::create or Thread::create.  spawn_raw names the
\* container as the parent of both and sets the thread's label before it
\* stores it, the boot thread the label only; container::create does neither.
create(a) ==
    /\ Goto(a, "create", "set")
    /\ NewMeta(page[a], part[a],
               IF op[a] = "Thread" /\ Ct(a) # root THEN Ct(a) ELSE Invalid,
               IF part[a] = "Thread" THEN lb[a] ELSE Invalid)
    /\ text' = IF part[a] = "Label" THEN [text EXCEPT ![page[a]] = NewText(a)] ELSE text
    /\ free' = [free EXCEPT ![page[a]] = {}]
    /\ slots' = IF part[a] = "Container" THEN [slots EXCEPT ![page[a]] = <<>>] ELSE slots
    /\ scheduler' = IF part[a] = "Container" THEN [scheduler EXCEPT ![page[a]] = Invalid]
                    ELSE scheduler
    /\ UNCHANGED <<known, root, pool, boot, todo, ready, op, part, slot, page, lb>>

\* Mutant: container::create returns without attaching the label.
set_slot_unlabelled(a) ==
    /\ Goto(a, "set", IF part[a] = "Label" THEN "slot" ELSE "done")
    /\ slots' = [slots EXCEPT ![Ct(a)][slot[a]] = page[a]]
    /\ part' = [part EXCEPT ![a] = IF @ = "Label" THEN op[a] ELSE @]
    /\ lb' = IF part[a] = "Label" THEN [lb EXCEPT ![a] = page[a]] ELSE lb
    /\ UNCHANGED <<metaVars, free, bootVars, todo, ready, op, slot, page>>

\* Container::set_slot; the label is followed by the object it is for.
set_slot(a) ==
    /\ Goto(a, "set", IF part[a] = "Label" THEN "slot"
                      ELSE IF part[a] = "Container" THEN "label" ELSE "done")
    /\ slots' = [slots EXCEPT ![Ct(a)][slot[a]] = page[a]]
    /\ part' = [part EXCEPT ![a] = IF @ = "Label" THEN op[a] ELSE @]
    /\ lb' = IF part[a] = "Label" THEN [lb EXCEPT ![a] = page[a]] ELSE lb
    /\ UNCHANGED <<metaVars, free, bootVars, todo, ready, op, slot, page>>

\* container::create: the label of the new container comes last.
set_label(a) ==
    /\ Goto(a, "label", "done")
    /\ label' = [label EXCEPT ![page[a]] = lb[a]]
    /\ UNCHANGED <<kind, parent, text, free, slots, bootVars, todo, ready, op, part, slot, page, lb>>

\* Mutant: the pages come from the root container, whatever the target.
Creation_from_root(a) ==
    \/ check(a) \/ get_slot(a)
    \/ find(a, root, Size(part[a]), "find", "take")
    \/ take(a, root, Size(part[a]), "take", "create")
    \/ create(a) \/ set_slot(a) \/ set_label(a)

Creation(a) ==
    \/ check(a) \/ get_slot(a)
    \/ find(a, Ct(a), Size(part[a]), "find", "take")
    \/ take(a, Ct(a), Size(part[a]), "take", "create")
    \/ create(a) \/ set_slot(a) \/ set_label(a)

-----------------------------------------------------------------------------
(* The boot thread: kernel_main                                            *)

\* PageTree::new, the root container and its label, and what is left of the
\* tree as the container's free pages.
boot_root ==
    LET l == FirstFit(Page, KObjNPages)
        rest == Page \ Run(l, KObjNPages)
        r == FirstFit(rest, KObjNPages)
    IN
    /\ Goto(Main, "root", "slot")
    /\ Fits(Page, KObjNPages) # {} /\ Fits(rest, KObjNPages) # {}
    /\ kind' = [kind EXCEPT ![l] = "Label", ![r] = "Container"]
    /\ parent' = [parent EXCEPT ![l] = r]
    /\ label' = [label EXCEPT ![r] = l]
    /\ free' = [free EXCEPT ![r] = rest \ Run(r, KObjNPages)]
    /\ root' = r
    /\ UNCHANGED <<text, slots, scheduler, known, pool, boot, todo, ready, op, part, slot, page, lb>>

\* The boot thread itself is created, and becomes the root's scheduler: go on
\* with a container for the first pool.
boot_thread ==
    /\ Goto(Main, "done", "check")
    /\ op[Main] = "Thread" /\ pool[boot] = Invalid
    /\ scheduler' = [scheduler EXCEPT ![root] = page[Main]]
    /\ op' = [op EXCEPT ![Main] = "Container"] /\ part' = [part EXCEPT ![Main] = "Label"]
    /\ UNCHANGED <<metaVars, free, slots, known, root, pool, boot, todo, ready, slot, page, lb>>

\* The container of a pool is created: the root comes to know it.
boot_known ==
    /\ Goto(Main, "done", "move_find")
    /\ op[Main] = "Container"
    /\ pool' = [pool EXCEPT ![boot] = page[Main]]
    /\ known' = Append(known, page[Main])
    /\ UNCHANGED <<metaVars, free, slots, scheduler, root, boot, todo, ready,
                   op, part, slot, page, lb>>

\* container::move_npages, after get_multiple: the pages go to the pool.  Go
\* on with its scheduler thread.
move_insert ==
    /\ Goto(Main, "move_insert", "check")
    /\ free' = [free EXCEPT ![pool[boot]] = @ \cup Run(page[Main], NMove)]
    /\ op' = [op EXCEPT ![Main] = "Thread"] /\ part' = [part EXCEPT ![Main] = "Label"]
    /\ UNCHANGED <<metaVars, slots, bootVars, todo, ready, slot, page, lb>>

\* The scheduler of a pool is created: go on with the next pool, or send the
\* tasks and grant the time slices that let the schedulers run.
boot_scheduler ==
    /\ Goto(Main, "done", IF boot = NPools THEN "grant" ELSE "check")
    /\ op[Main] = "Thread" /\ pool[boot] # Invalid
    /\ scheduler' = [scheduler EXCEPT ![pool[boot]] = page[Main]]
    /\ boot' = IF boot = NPools THEN boot ELSE boot + 1
    /\ op' = [op EXCEPT ![Main] = "Container"] /\ part' = [part EXCEPT ![Main] = "Label"]
    /\ UNCHANGED <<metaVars, free, slots, known, root, pool, todo, ready, slot, page, lb>>

grant ==
    /\ pc[Main] = "grant"
    /\ pc' = [a \in Actor |-> IF a = Main THEN "idle" ELSE "loop"]
    /\ todo' = Tasks
    /\ UNCHANGED <<metaVars, free, slots, bootVars, ready, op, part, slot, page, lb>>

Boot ==
    \/ boot_root \/ boot_thread \/ boot_known \/ boot_scheduler \/ grant
    \/ find(Main, root, NMove, "move_find", "move_take")
    \/ take(Main, root, NMove, "move_take", "move_insert")
    \/ move_insert

-----------------------------------------------------------------------------
(* The scheduler of pool p: one spawn_raw for every task received          *)

\* Mutant: a thread is spawned whether or not a task was received.
sched_spawn_unasked(p) ==
    /\ Goto(p, "loop", "check")
    /\ part' = [part EXCEPT ![p] = "Label"]
    /\ UNCHANGED <<metaVars, free, slots, bootVars, todo, ready, op, slot, page, lb>>

sched_spawn(p) ==
    /\ Goto(p, "loop", "check")
    /\ todo[p] > 0
    /\ part' = [part EXCEPT ![p] = "Label"]
    /\ UNCHANGED <<metaVars, free, slots, bootVars, todo, ready, op, slot, page, lb>>

\* Mutant: the rest of a batch is forgotten after the first task.
sched_push_once(p) ==
    /\ Goto(p, "done", "loop")
    /\ ready' = [ready EXCEPT ![p] = Append(@, page[p])]
    /\ todo' = [todo EXCEPT ![p] = 0]
    /\ UNCHANGED <<metaVars, free, slots, bootVars, op, part, slot, page, lb>>

sched_push(p) ==
    /\ Goto(p, "done", "loop")
    /\ ready' = [ready EXCEPT ![p] = Append(@, page[p])]
    /\ todo' = [todo EXCEPT ![p] = @ - 1]
    /\ UNCHANGED <<metaVars, free, slots, bootVars, op, part, slot, page, lb>>

Scheduler(p) == sched_spawn(p) \/ Creation(p) \/ sched_push(p)

-----------------------------------------------------------------------------

Next == Boot \/ Creation(Main) \/ \E p \in Pool : Scheduler(p)

Spec ==
    /\ Init /\ [][Next]_vars
    /\ WF_vars(Boot \/ Creation(Main)) /\ \A p \in Pool : WF_vars(Scheduler(p))

-----------------------------------------------------------------------------
(* Properties                                                              *)

Kind == {"None", "Label", "Container", "Thread"}
Pc == {"root", "wait", "check", "slot", "find", "take", "create", "set", "label", "done",
       "move_find", "move_take", "move_insert", "grant", "idle", "loop"}

TypeOK ==
    /\ kind \in [Page -> Kind]
    /\ parent \in [Page -> Page \cup {Invalid}] /\ label \in [Page -> Page \cup {Invalid}]
    /\ free \in [Page -> SUBSET Page]
    /\ slots \in [Page -> Seq(Page \cup {Invalid})]
    /\ scheduler \in [Page -> Page \cup {Invalid}]
    /\ known \in Seq(Page) /\ root \in Page \cup {Invalid}
    /\ pool \in [Pool -> Page \cup {Invalid}] /\ boot \in Pool
    /\ todo \in [Pool -> Nat] /\ ready \in [Pool -> Seq(Page)]
    /\ pc \in [Actor -> Pc]
    /\ op \in [Actor -> {"Thread", "Container"}]
    /\ part \in [Actor -> {"Label", "Thread", "Container"}]
    /\ slot \in [Actor -> Nat]
    /\ page \in [Actor -> Page \cup {Invalid}] /\ lb \in [Actor -> Page \cup {Invalid}]

\* The run of pages that was taken from a tree for the object at o, and those
\* an actor has taken and made nothing of yet.
Extent(o) == IF kind[o] = "None" THEN {} ELSE Run(o, Size(kind[o]))
Held(a) ==
    IF pc[a] = "create" THEN Run(page[a], Size(part[a]))
    ELSE IF pc[a] = "move_insert" THEN Run(page[a], NMove) ELSE {}

\* The pages the allocator of the object at o hands out memory from: what is
\* left behind the object of the page after the metadata, and for a thread
\* THREAD_NPAGES pages from there on, although its run ends one page earlier.
Arena(o) ==
    CASE kind[o] = "None" -> {}
      [] kind[o] = "Thread" -> Run(o + 1, ThreadNPages)
      [] OTHER -> Run(o + 1, 1)

\* The pages taken from the trees, every one of them exactly once: a page is
\* free in one container, in the run of one object, or just taken by one actor.
TakenOnce ==
    /\ \A c, d \in Page : c # d => free[c] \cap free[d] = {} /\ Extent(c) \cap Extent(d) = {}
    /\ \A c, d \in Page : free[c] \cap Extent(d) = {}
    /\ \A a \in Actor, c \in Page : Held(a) \cap free[c] = {} /\ Held(a) \cap Extent(c) = {}
    /\ \A a, b \in Actor : a # b => Held(a) \cap Held(b) = {}
    /\ pc[Main] # "root" =>
          \A p \in Page : \/ \E c \in Page : p \in free[c] \cup Extent(c)
                          \/ \E a \in Actor : p \in Held(a)

\* The pages of everyone but the object at o.
Others(o) ==
    (UNION {free[c] : c \in Page}) \cup (UNION {Extent(d) : d \in Page \ {o}})
        \cup (UNION {Held(a) : a \in Actor})

\* The pages an arena shares with others: none, except that the arena of every
\* thread covers the page behind the thread's run.
ArenasSpill ==
    \A o \in Page :
        Arena(o) \cap Others(o) = IF kind[o] = "Thread" THEN {o + ThreadNPages} \cap Page ELSE {}

\* Who may use a page.  get_multiple and move_npages neither lose a page nor
\* take it twice, and the memory of an object (its run, and the arena
\* _kobject_create gives it) is its own, with one exception at every thread:
\* its arena is one page too long, and that page is someone else's.
PagesPartition == TakenOnce /\ ArenasSpill

\* No container is used by two schedulers.
Exclusive ==
    \A p, q \in Pool : p # q /\ Tasks[p] > 0 /\ Tasks[q] > 0 => Home[p] # Home[q]

\* The objects in the slots of a container, and those on their way there.
Stored(c) == {slots[c][i] : i \in 1 .. Len(slots[c])} \ {Invalid}
Making(c) == {a \in Actor : pc[a] \in {"create", "set"} /\ Ct(a) = c}
Owned(c) ==
    free[c] \cup (UNION {Extent(o) : o \in Stored(c)})
            \cup (UNION {Run(page[a], Size(part[a])) : a \in Making(c)})

Container == ({root} \cup {pool[p] : p \in Pool}) \ {Invalid}

\* Pages are a resource of their container: whatever is created in it, by
\* whomever, is made of a run of its own pages, and only move_npages takes
\* pages from one container to another.  (About the runs taken, not the arenas:
\* the page a thread's arena spills into may be another container's.)
PagesStay ==
    [][pc[Main] \notin {"move_take", "move_insert"} =>
          \A c \in Container : Owned(c)' = Owned(c)]_vars

\* Where o is stored.
Places(o) == UNION {{c} \X {i \in 1 .. Len(slots[c]) : slots[c][i] = o} : c \in Page}

\* get_slot and set_slot lose nothing: a slot is vacant or holds an object, and
\* every object, except the root and its label, is in one slot of one
\* container, or about to be stored.
SlotsSound ==
    /\ \A c \in Page : \A o \in Stored(c) : kind[c] = "Container" /\ kind[o] # "None"
    /\ \A o \in Page : kind[o] # "None" /\ o # root /\ o # label[root] =>
          \/ \E place \in Places(o) : Places(o) = {place}
          \/ Places(o) = {} /\ \E a \in Actor : pc[a] = "set" /\ page[a] = o

\* A KObjectRef points to a valid kobject of its type: the parent and the label
\* of an object, the scheduler of a container, the containers the root knows
\* (whose label and scheduler are unwrapped by a search), the label an actor is
\* about to attach, the threads of the ready lists.
RefsValid ==
    /\ \A o \in Page : kind[o] # "None" =>
          /\ parent[o] # Invalid => kind[parent[o]] = "Container"
          /\ label[o] # Invalid => kind[label[o]] = "Label"
          /\ kind[o] = "Container" /\ scheduler[o] # Invalid => kind[scheduler[o]] = "Thread"
    /\ \A i \in 1 .. Len(known) :
          /\ kind[known[i]] = "Container" /\ label[known[i]] # Invalid
          /\ pc[Main] = "idle" => scheduler[known[i]] # Invalid
    /\ \A a \in Actor : part[a] # "Label" => kind[lb[a]] = "Label"
    /\ \A p \in Pool : \A i \in 1 .. Len(ready[p]) : kind[ready[p][i]] = "Thread"

\* Every task sent to a pool gets its thread.
TasksSpawned == <>(\A p \in Pool : Len(ready[p]) = Tasks[p])
=============================================================================
