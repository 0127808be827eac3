# A TLA+ development for allora

allora is a small AArch64 kernel (Rust and assembly, one core, EL2, QEMU `virt`
machine) that explores containers as kernel objects: every container owns pages
and time slices and has a label, and the threads of a container's scheduler run
on the time slices granted to it.  This directory models the parts of it that
carry its logic, checks them with TLC and proves most of their safety properties with
TLAPS.  The repository has no documentation beside its comments and tests;
every definition is translated from the code, and `PROJECT.json` ("map") names
the lines.

## 1. Inventory

| Component | State | Operations | Used by |
|---|---|---|---|
| Lock-free channel, `lfchannel/` | a linked list of entries, `version`, `last_seen` | `send`, `recv_in` | boot sends tasks, the pool schedulers poll |
| Scheduling, `schedule.rs`, `thread.rs`, `exception.rs/.S`, `switch.S`, `timer.rs`, `mutex.rs`, `main.rs` | `RESBLOCKS`, `TS`, time slices and ready lists, `YIELD_BEFORE_RETURN`, `TPIDR_EL2`, DAIF, saved contexts | timer interrupt, `find_next_thread`, `yield_to_next`, `yield_to`, `switch`, `debug!`, `cpu_idle!` | everything runs on it |
| Page tree, `mm/page_tree.rs` | a red-black tree in the free pages themselves | `insert`, `get`, `get_multiple` | one per container |
| Kernel objects, `kobject/`, `container.rs`, `thread.rs` | metadata in the first page of an object, slots, free pages, known containers | `_kobject_create`, `get_slot`, `set_slot`, `container::create`, `spawn_raw`, `move_npages` | boot, then the schedulers, preempting each other |
| Container search, `container.rs` | `known_containers` lists (`collections/list.rs`) | `search`, `push` | schedulers, to choose a container to yield to |
| Object arena, `mm/chunk_list.rs`, `yaarena.rs`, `koarena.rs` | a list of free chunks with their headers in free memory | `allocate`, `deallocate` | everything an object allocates |
| Virtio drivers, `virtio.rs`, `virtio/` | descriptors, available and used rings, device registers | `new`, `read`, `write` | the applications (not started by `kernel_main`) |
| Lock-free list, `collections/list.rs` | a linked list behind a dummy node | `push`, `iter`, `iter_mut`, `len`; `pop`, `remove_nth`, `remove` (tests only) | `known_containers` |
| Bitmap and page pools, `collections/bitmap.rs`, `mm/page.rs` | the words of the bitmap; a map from addresses to dirty bits | `get_multiple`, `put_multiple` | no caller |
| Device tree and discovery, `device_tree.rs`, `main.rs`, `mm/mod.rs` | a blob of words written by the firmware; `ALLOCATOR`, `mem_start`, `UART`, `BLK`, `ENTROPY`, `NET` | iterators over nodes and properties; the first half of `kernel_main` | boot |
| UART, `uart.rs`; interrupt controller, `gic.rs` | device registers | `read_byte`, `read_line`, `write_byte`; `enable`, `disable`, `clear` | `debug!`, the applications |
| Old arena, time slice objects | | | no caller |
| Start-up, applications | | | |

What is hard in this code, and where the properties aim ("hazards" in
`PROJECT.json` gives the lines):

* **Preemption.**  There is one core, and interrupts are on almost everywhere.
  The handler switches threads on the interrupted stack, takes spin locks the
  interrupted code may hold, and reads structures boot is still building.
* **Data shared without locks.**  The channel, `known_containers`, the slots and
  the page tree of a container are used by threads that preempt each other.
* **Pointer structures that keep their nodes in the memory they manage** (page
  tree, chunk list): a mistake in one step shows many steps later.
* **Devices** that read and write a call's stack while the driver spins.
* **A binary format** read with raw pointers: one wrong step over a name, a value or
  a nested node shifts everything that is found after it.
* **Progress**: three round-robin hands, redirects between containers that may
  form circles, a search over a cyclic graph that grows meanwhile.

## 2. Modules

| Module | Models |
|---|---|
| `Mailbox` | abstract: what a channel promises its two ends |
| `LfChannel` | `send`, `push`, `recv_in`, `first`, `to_vec_in`, one action per access to shared memory |
| `LfChannelProofs` | proofs about `LfChannel`, refinement of `Mailbox` included |
| `Schedule`, `MCSchedule`, `ScheduleProofs` | boot, threads, the interrupt, resource blocks, switches, locks; proofs about them |
| `PageRuns` | runs of consecutive pages in a set |
| `FreePages` | abstract: a set of pages from which the lowest run is taken, and which takes back what is not in it |
| `PageTree`, `PageTreeProofs` | the red-black tree, operation by operation, link by link; proofs, the refinement of `FreePages` included |
| `KObjects`, `MCKObjects` | creation of labels, containers and threads out of pages |
| `KObjectsProofs` | proofs about `KObjects` |
| `Search`, `MCSearch` | `container::search` (proofs in `LfListProofs`: it walks such lists) |
| `ChunkList`, `MCChunkList`, `ChunkListProofs` | the allocator of an arena, and its proofs |
| `VirtQueue`, `VirtQueueProofs` | the three virtio drivers against a device; proofs about them and about `ReadLine` |
| `LfList`, `LfListProofs` | the list of `collections/list.rs`, one action per access to shared memory; proofs about it and about `Search` |
| `PagePools`, `PagePoolsProofs` | `Bitmap`, `PageMap` and `PageSet`; proofs, the refinements of `FreePages` included |
| `DeviceTree` | the words of a device tree and the iterators over them (operators only) |
| `Probe` | what `kernel_main` does with the device tree |
| `ReadLine` | `read_line` and the receiver of the UART |
| `Console`, `MCConsole` | `Probe` composed with `ReadLine` on the UART that it found |

How they fit together: `PageTree`, `PageMap` and `PageSet` all implement `FreePages`
(a result is paired with the number of pages that was asked for; an operation on no pages
changes nothing, and what it returns is left open);
`KObjects` keeps the
free pages of a container as such a set, with `get_multiple` split in two steps
(the run is found, its pages are deleted) because a thread may be preempted in
between.  `Schedule` takes from `KObjects` that threads and containers exist
once they are created, from `Search` the answer of a search (the constant
`Peer`) and from `LfChannel` that the tasks sent arrive.  A definition named
with a `Mutant` comment is not part of the model: it is the wrong variant of
the definition that follows, with which the named property fails (`mutants` in
`PROJECT.json`).

### LfChannel
The sender's `spc` and the receiver's `rpc` say where each is.  A node is the
number of its allocation; nodes are never freed.  `send` reads and advances
`version`; `push_link` reads the head into `next` and `push_cas` is the
`compare_exchange` with its `unwrap`; `recv_first` and `recv_first_null` are
`first` on a list with and without a node; `to_vec` copies one node per step;
`recv_update`, `recv_filter` and `recv_return` are the rest of `recv_in`.
Reading through the null pointer of an empty list can give anything: the result
is a choice.  The orderings `Relaxed`, `Acquire` and `Release` are enough on one
core for the accesses to be interleaved.

### Schedule
`run` is the thread the stack pointer belongs to, `tpidr` the one `TPIDR_EL2`
names, `masked` is DAIF.  `pc[t]` is the code of thread `t`, `irq[t]` that of the
exception handler on top of it.  Each action is a step between two points at which
an interrupt can be taken or a lock contended: taking and releasing the mutexes of
`RESBLOCKS`, `TS` and `UART`, `debug!`, `cpu_idle!` and `wfi`, the loop of a
scheduler (receive, spawn, search, pick, yield), the handler (tick, yield flag,
`find_next_thread` with its recursion for redirects, `switch`).  A statement that
would panic has no step, and `NoPanic` says that the system never waits at one.
The timer fires 100 ms after it was re-armed; the model only assumes that the
handler and one step of the interrupted code take less (`worked`).

### PageTree
A tree is a record of functions; the operations are operators on trees.  Left and
right halves of the code are mirror images and are written once for a direction.
Reading a link of `None` gives `None` and writing through it does nothing, as
`PageLink` does it; an `unwrap` of `None` sets `crashed`.  A loop is a recursive function
of what it changes: `insert_fixup` and `delete_fixup` of the tree and the node they have
come to, with one iteration in `insert_step` and `delete_step`; the walks (`min_link`,
`climb`, `descend`, `scan`) of the node.  `delete` replaces a node by its only child
(`splice_one`) or by its successor (`successor_out`, `splice_two`).  A page that was taken
out is its new owner's, so the model forgets its node (`Wipe`).

### KObjects
An object is its first page.  `Creation(a)` is `spawn_raw` and `container::create`
of actor `a`, step by step: label check, slot, run of pages found, run deleted,
object written, slot set, label set; first for the label object, then for the
object itself.  `Boot` is `kernel_main`: the root container, one container and
scheduler per pool, `move_npages` into it.  `Home[p]` is the pool in whose
container the scheduler of `p` creates the threads of its tasks.  If the pages of
a run have gone when they are deleted, what remains of the tree is a choice
(`Left`).  What Buckle2 labels mean is external (`CanFlow`).  `Extent` is the run taken
for an object and `Arena` the pages its allocator has; both follow from its kind, with
which `_kobject_create` writes the arena once and for all.  They are not the same:
`TakenOnce` is about the runs, `ArenasSpill` says which page of an arena is someone
else's (that of every thread has one), and `PagesPartition` is both.  `SlotsSound` and
`PagesStay` are about objects and runs.

### Search
`visit` and `skip` are the iterations of the loop; `push_known` is another thread that
adds to a `known_containers` list in between.

### ChunkList
Addresses are counted in words of 8 bytes.  `allocate` is `align_layout`,
`pop_first_fit` with `can_allocate` and the split into at most three pieces;
`deallocate` pushes the rounded block back.  That `init_chunk` rounds the start up and
the size down separately does not show in words: the kernel only passes starts and sizes
that are whole words, and an unaligned start would put the end of the chunk up to 7 bytes
behind that of the memory.

### VirtQueue
One of the three drivers, chosen initially, and its device.  An operation is a
record (its queue, its descriptors, whether the ring index is reduced, what its
waiting loop does about interrupts); the actions are the accesses of a call in
their order: descriptors one by one, ring, index, notification, GIC, loop, GIC.
The device takes a request, reads the descriptors one by one, serves it, advances
the used index and then raises its interrupt; it goes to sleep on an empty queue.
`new` is one step that succeeds or panics (the features are refused).  Of the used
ring only the index is kept: no driver reads an entry.
`masked` is whether the caller has masked interrupts.  Barriers: `mb` makes the
accesses around it appear in order, which is how they are interleaved here.

### LfList
A node is its address, and the allocator may give a freed address to the next push,
so that an exchange can succeed on a pointer to another node (ABA).  `push`,
`push_link`, `push_done` and `push_retry` are `push` with `try_push`; `remove_nth`,
`remove`, `step`, `step_end`, `load_new`, `unlink` and `unlink_fails` are the two
removals, which differ only in where they stop; `iter`, `iter_next` and `iter_end`
are the iterators.  `&mut self` excludes nobody: the kernel reaches a list through
`KObjectRef::as_mut`.  `items`, `taken`, `seen` and `first` are history.  So is
`clash`: a node was removed while another removal or an iteration was under way.
The list has no defence against that (the other thread holds a freed node), and a
behaviour is not followed further; everything is shown up to that point, and for any
number of pushes during a removal or an iteration.

### PagePools
One of the two pools, in a build that checks for overflows or one that wraps, both
chosen initially.  The items of the bitmap are sets of bits.  `find` stops at the
first candidate that has the run or fails the bounds check; `find_end` is
`bit_count - (count - 1)` modulo the size of `usize`.  A `PageMap` is asked for
anything, sound or not, and `PanicsOnlyOutside` says which calls may stop the kernel.

### DeviceTree, Probe, ReadLine and Console
`Blob` writes a tree as the firmware does; names and values take their real number of
words, and the iterators step over them with the code's own arithmetic.  `Probe` has
one action for each thing that boot looks for and one for each iteration of the loop
over the virtio nodes.  An allocation without a heap (a tree without memory) panics, and
so does a driver whose device refuses the features (`DeviceAt`).
Numbers are scaled: a cell is a digit to the base `CellBase`.  `Found` compares what
boot has at the end with definitions on the tree itself (`Expected...`), which know
nothing of words.  In `ReadLine`, `read_byte` unmasks and enables the interrupt, `check`
looks at the receiver, `wfi` waits for an interrupt that is enabled, `take_key`,
`take_outside` and `take_enter` are the rest of an iteration; which interrupts can end
`wfi` is a parameter.  `Console` lets a caller read a line once boot is done, and the
interrupt that is enabled is the one boot found: each of its steps is a step of `Probe`
or one of `ReadLine`, which leaves the other alone.  The caller has masked interrupts
at the processor; with interrupts unmasked the handler, which knows only the timer,
would be entered again and again, as for the virtio drivers.

## 3. Runs

| Run | Checks | Bounds and why they are enough |
|---|---|---|
| `lfchannel` | `TypeOK`; `OnlyEmptyPollPanics`; refinement of `Mailbox` (`IsMailbox`); `Delivered` | 4 sends of 2 messages: several sends during one receive, receives of 0 to 4 messages |
| `schedule` | `CurrentIsRunning`, `MaskMatchesCode`, `NeverSpins`, `NoPanic`; `SchedulersRun`, `TasksRun`, `InterruptsComeBack` | 2 pools, 2 tasks, slices of all three kinds, a preemption every second tick, an interrupt possible at every step from boot on |
| `page_tree` | `WellLinked`, `NoRedRed`; refinement of `FreePages` (`IsFreePages`) | 8 pages, runs of 0 to 4: the smallest number with which every case of both fixups is reached (7 leave two cases of `delete_fixup` out) |
| `kobjects` | `TypeOK`, `PagesPartition`, `SlotsSound`, `RefsValid`; `PagesStay`, `TasksSpawned` | 2 pools with tasks each, in containers of their own, pages for all of them and no more than a few left |
| `search` | `SearchTypeOK`, `SearchCorrect`, `Terminates` | 3 containers, all graphs of out-degree 1 (2 for some), all sets of labels, pushes in between |
| `chunk_list` | `Tiled`, `HeadersFit` | 13 words from an odd address, sizes and alignments that leave rests of every kind |
| `virtqueue` | `OnlyTheCallsBuffers`, `OnlyKnownPanics`, `CallsReturn` | a ring of 3, an index that wraps at 5, 6 calls: the ring overflows, the index wraps, and an interrupt can be left over from more than one call ago |
| `lf_list` | `Linked`, `NothingLost`, `MemorySafe`, `IterExact`; `PushesEnd` | one thread that pushes, one that pushes and removes, one that removes and iterates; 3 elements, 3 addresses that are used again: a push retried because of a push or of a removal, an exchange on a reused address, pushes during an iteration |
| `page_pools` | `PanicsOnlyOutside`; refinement of `FreePages` (`MapIsFreePages`, `SetIsFreePages`) | 5 pages (and half a page that is not used) in items of 3 bits, so that the last item is partly used and runs cross items; counts up to two more than there are pages, and every address, aligned or not |
| `boot_console` | `Found`, `MemoryApart`, `LineRight`; `KeysRead` | trees of up to three top-level nodes out of 17 (two disks, a device that refuses its features, wrong sizes, missing properties, memory above the kernel, memory too small for the pool, a bus with nodes inside), with 1 or 2 cells; a buffer of 2 and 4 keys: enough to run past the buffer |

Two more runs show where the code does not do what a line of the repository says
("findings" in `PROJECT.json`):

* `page_tree_unwrap`: `delete_fixup` does nothing when a black leaf is deleted; the
  tree loses its balance and a later `unwrap` fails (`mm/page_tree.rs:235, 248`).
* `kobjects_shared`: the second pool's scheduler spawns into the first pool's
  container (`main.rs:440`); preempted in `get_multiple`, both make an object of
  the same pages.

The passing runs state other faults exactly, as the only cases in which something
goes wrong:

* a receive on a channel nothing was sent to reads through a null pointer
  (`lfchannel/list.rs:70`; `OnlyEmptyPollPanics`);
* an interrupt left from an earlier call makes the check after the acknowledgement
  panic, and the 129th request of a block or entropy driver panics
  (`virtio/blk.rs:137, 118`; `OnlyKnownPanics`).  The panic handler never returns, so
  the buffers of such a call stay where they are and the device may still use them
  (`OnlyTheCallsBuffers`);
* a backspace on an empty line makes room that the buffer does not have
  (`uart.rs:71`; `LineRight`);
* a count of 0, or of two more pages than there are, underflows in `find`
  (`collections/bitmap.rs:81`; `PanicsOnlyOutside`);
* the pool behind the heap has 512 pages whatever the size of the memory, and ends
  beyond it on a small machine (`main.rs:282`; `MemoryApart`);
* the arena of every thread is one page too long and covers the page behind the
  thread's run, which is in another object or free in some container
  (`kobject/mod.rs:242`; `PagesPartition`).  No other page is in two hands.

One more was found by reading: an entry of the used ring has 4 bytes where a device
writes 8, so that from about the 65th request on it writes behind the ring
(`virtio.rs:131`).

Other things the models show and that no line of the repository contradicts: the
tree is a search tree with no two reds in a row, but not of equal black heights;
`get_slot` does not reserve the slot it returns; with interrupts unmasked, a call of a driver does not return,
because the handler neither acknowledges nor disables the device's interrupt; the later
of two virtio devices of a kind replaces the earlier; a path of which a component is not
found leads to the node reached so far (`device_tree.rs:198`), for the console the root,
which has no `reg`.

Deadlock is checked in `schedule` (a running kernel never stops), `chunk_list` and
nowhere else: the other systems end (a bounded number of sends or calls, tasks that
are all spawned, a search that has returned) or stop at a panic.

### Fairness
* `LfChannel`: weak fairness of the receiver, for a scheduler polls in an endless
  loop; none of the sender.
* `Schedule`: weak fairness of the processor and of the timer; strong fairness of
  taking a pending interrupt, since code that masks and unmasks for ever does not
  keep a pending interrupt out on real hardware.
* `KObjects`: weak fairness of each actor, which `Schedule` justifies
  (`SchedulersRun`).
* `Search`: weak fairness of the search; none of the pushes.
* `LfList`: weak fairness of a thread in the middle of a call, which `Schedule`
  justifies; none of starting a call.
* `Console`: weak fairness of the reader; none of boot and of whoever types.
* `VirtQueue`: weak fairness of a call under way and of the device, except that it
  need not serve a network read (no packet may arrive).

## 4. Proofs

Proved for all values of the constants:

* **LfChannelProofs.**  `TypeCorrect`, `PanicOnlyOnEmptyPoll` and
  `ImplementsMailbox` (the safety part of the refinement, which is all `Mailbox`
  states).  The invariant `IInv` says that the list is the chain of the versions
  published, newest first, with at most one node more that the sender has linked
  and not published (`SenderInv`, `ListInv`); that `to_vec` has copied an unbroken
  stretch of it from where the list began at the time (`HistoryInv`); and that the
  filter has let through a prefix of that, newer than `seen` (`FilterInv`,
  `ReceiverInv`).  Without the last three nothing relates what is returned to what
  was published: the list has moved on when the receive ends.
* **KObjectsProofs.**  `TypeCorrect`, `Partition`, `ReferencesValid`, `SlotsRight` and
  the action property `PagesStayInside`, under the assumption
  `Exclusive` that no two schedulers with tasks create in the same container (the
  run `kobjects_shared` shows that it is needed).  `IInv` adds to `TakenOnce`
  how far boot and each actor have come (`Local`), that the root and the pools'
  containers are containers and distinct (`Pools`), and that a run found and not yet
  deleted is still free and only objects have free pages (`Tree`).  Where the arenas end
(`ArenasSpill`) follows from it, not step by step: what is in an arena and not in the run
of its object is the one page behind a thread, and that page, like every page, is
somewhere (`ArenaShares`).  It needs that every object has at least two pages.  On top of it,
  `Refs` and `Filed` are inductive.  The partition makes the first page of a new object
  one at which no object was: hence no kind ever changes, and a reference once right
  stays right.  `Filed` says that the slot an actor was given is still vacant when it is
  filled (`get_slot` reserves nothing: this is where `Exclusive` is used again), that
  what is on its way to a slot is in none, and that two actors never bring the same
  object.  `PagesStayInside` then accounts for each page step by step: taken from the
  free pages, in the making, part of a stored object.
* **ScheduleProofs.**  `CurrentThread`, `MasksRight`, `LocksFree` and `PanicFree`, for
  any pools, schedulers, tasks, slices and any number of ticks in a slice.  The four
  hold together or not at all: that a lock is free needs the masks, a mask restored
  from a stack needs the stack to be the thread's own, and that needs `TPIDR_EL2`.
  `IInv` says where each thread can be (`Code`); that every thread but the running one
  has not started or is behind the switch that took it off, with its own stack pointer
  saved (`Running`); what the masks on the stacks are (`Masks`); that only the running
  code holds a lock (`Locks`); how far boot is (`Staged`); that each round-robin hand
  points into its list (`Tables`) and that what is switched to is a thread (`Targets`).
* **LfListProofs.**  `ListLinked`, `ElementsKept`, `Safe` and `IterationExact`, for any
  number of threads, addresses and elements, with addresses used again.  `IInv` adds to
  the properties that each node is in one place, the list or the one thread that pushes
  it (`Nodes`, `Elements`), and what a preempted thread still knows of the list
  (`Pointers`): a removal stands on a listed node, and the pointer an exchange
  compares with is that of its own node's `next`, so that an exchange that succeeds on a
  reused address still links the list right.

  In the same module, about `Search`: `SearchTypeCorrect` and `SearchRight`, for any graph,
  finite or not.  `SearchInv` says that what is stacked, visited or found can be reached
  (`Frontier`, `Found`), and that whatever a visited container knew when the search began
  is visited or stacked; when the stack is empty the visited containers are closed under
  the initial lists, hence contain all that could be reached.
* **VirtQueueProofs.**  `BuffersRight` and `PanicsKnown`, for any ring, any index
  whose range is larger than the ring, and any number of calls.  `IInv` says that at most one request
  is outstanding, that of the call under way, and how far the device is with it
  (`Outstanding`); that the descriptors are those of the call and are not touched while
  it waits (`Chains`); what the call has seen of the interrupt (`Calling`); and for the
  drivers that do not reduce the ring index, that there were as many requests as
  calls (`OneQueue`), which is what makes the 129th the one that panics.

  In the same module, about `ReadLine`: `LineTyped` (the property `LineRight`), for any
  buffer and any keys.  `LineInv` adds that a key is taken only if there is one and that
  `max_len` is positive in the loop: a key that does not fit then means that `max_len`
  counted a deletion of an empty line.  What the keys say (`Edit`) is a recursive
  function, whose equation is proved by induction on the number of keys (`EditMore`).
  The theorem is about `LineSpec`; that `Console` behaves so is plain from its `Next`
  (the run `boot_console` checks `LineRight` in it), and not a theorem, since `Console`
  reaches the recursive operators of `DeviceTree`.
* **ChunkListProofs.**  `MemoryTiled` and `HeadersAndAlignment`, for any arena, header
  and layouts, any alignment included.  The two properties and the types are inductive together: the split of a
  chunk stays inside it because the chunk has room for a header, and every piece has
  room for a header because the sizes are rounded.
* **PageTreeProofs.**  `LinksRight` (`WellLinked`), `ColorsRight` (`NoRedRed`),
  `ImplementsFreePages` (`IsFreePages`) and `InsertUnwraps`, for any number of pages and any
  runs.  A tree is described without recursion (`Shaped`): there is a set `N` of pages and
  for every node a bound on each side; a child takes over one bound of its parent and has
  the parent as the other, so that all that is below a node lies between its bounds.  That
  is inductive where "all below to the left is smaller" is not, because a rotation or a
  transplant only changes the bounds of the nodes it touches, and the proof can give the
  new bounds (`Turned` for a rotation, `Leaf` for a new node, `Without` and `Instead` for a
  node that is taken out).  `Gap` says that between a node and its bound there is nothing
  if it has no child on that side, which makes `next_link` the next page (`NextIs`),
  `is_n_consecutive_link` a run of pages (`ConsecutiveIs`) and `scan` the first fit
  (`ScanIs`).  The loops are recursive functions; each is shown to satisfy its equation
  (`LoopComputes`: a loop that only goes on or ends computes some function, whether it ends
  or not), and what it returns by a least counterexample: the bounds get closer together
  downwards and wider upwards (`Width`).  `InsertInv` and `DeleteInv` are the invariants of
  the two fixups: the colours are right but for the one node the loop is at.  `DeleteInv`
  needs no black heights: the code does not keep them.  Hence deletions may stop the kernel
  (`page_tree_unwrap`), and everything is proved up to and including that point; an
  insertion never does (`InsertUnwraps`).
* **PagePoolsProofs.**  `MapImplementsFreePages`, `SetImplementsFreePages` and
  `PanicFreeInside`, for any sizes of the memory, a page and an item of the bitmap, in
  either build.  The lemmas say what the operators on the bitmap do, bit by bit: what
  `flip_multiple` flips, that `find` returns the first run of equal bits or the bound it
  fails at, that pages and addresses convert back and forth.

Assumptions are those of the modules (`ASSUME`: counts are natural numbers, the
null values are none of the others; for `KObjects`, that objects have two pages or more; for `PagePools`, that an address and the size of a
request together do not overflow, which 64 bits leave room for).

Only model-checked:

* everything temporal beyond `[]` (`Delivered`, `SchedulersRun`, `TasksRun`,
  `InterruptsComeBack`, `TasksSpawned`, `Terminates`, `CallsReturn`, `PushesEnd`,
  `KeysRead`): liveness under fairness is out of the prover's reach;
* `Found` and `MemoryApart`: what is written as a device tree is a recursive operator of a
  tree of any depth, and so are the iterators that read its words; both properties compare
  what boot read with the tree itself, for which the two would have to be shown inverse
  to each other.  `SMT` is not available in a module with recursive operators, and these
  cannot be written as functions, since trees are no set.

## 5. Not modelled

* Without a caller, and without an effect on what is modelled: `schedule` and
  `schedule_list` (`schedule.rs:88` names a thread by the page after the one
  `KObjectRef` expects), `thread::spawn`, `spin_wait` (which ends only if it sees one
  value of the tick count), `kobject/time_slices.rs`; the old arena is not compiled.
* The applications: `kernel_main` does not start them.  What they ask of the drivers
  and of the console are the calls of `VirtQueue` and `Console`.
* Destruction of objects: `Drop` and the frees are empty in the code.
* Pure I/O or straight-line set-up: UART output, priorities, targets and configuration
  of interrupts in the GIC, `boot.S`, the endianness wrappers, power-down.
* Virtio: the data transferred, the entries of the used rings, interrupts for
  configuration changes.
* The mutexes of the allocator, of `READY_LIST` and of the drivers: the interrupt handler
  takes none of them.
* What follows when a node of the lock-free list is removed under another removal or
  an iteration (see `LfList`).
* The contents of the strings block of a device tree; blobs that are not well formed
  (both iterators panic at an unknown word).

## 6. Plan

Order of work: channel, scheduling, page tree, kernel objects (each with its abstract
specification where there is one), search, arena, drivers; then the list, the page
pools, the device tree with discovery, and the console; then the proofs, component by
component, the page tree last.  Every safety property is proved but those of the device
tree (`Found`, `MemoryApart`).  Left for the future: the device tree with trees of a bounded
depth, as recursive functions; and the black heights of the page tree, should the code come
to repair them, with which `UnwrapsHold` would be the theorem to prove.
