------------------------------- MODULE Probe -------------------------------
(***************************************************************************)
(* The part of kernel_main (main.rs) that reads the device tree: it places *)
(* the heap and the pool of pages, and finds the UART, the timer and the   *)
(* virtio devices.  Numbers are scaled: a cell is a digit to the base      *)
(* CellBase, usize holds two of them.                                      *)
(***************************************************************************)
EXTENDS DeviceTree, FiniteSetsExt

CONSTANTS
    Trees,        \* the device trees the firmware may hand over
    DeviceAt,     \* by address (external): is the magic MAGIC, the version, the
                  \* device_id, does the device accept the features
    CellBase, PageSize, PoolPages, UartSize,
    HeapStart     \* HEAP_START, the end of the kernel's image

ASSUME ProbeAssumption ==
    /\ {CellBase, PageSize, PoolPages, UartSize, HeapStart} \subseteq Nat \ {0}
    /\ Trees # {}

Kind == {"Blk", "Entropy", "Net"}
EL1_PHYSICAL_TIMER == 30

VARIABLES
    tree,      \* what the firmware described ...
    dt,        \* ... and the words it wrote
    pc,
    heap,      \* the memory ALLOCATOR has, if it was initialised
    mem,       \* mem_start and mem_size
    uart,      \* UART
    timer,     \* the interrupt of the timer, if it was started
    todo,      \* the virtio nodes the loop has still to look at
    drivers,   \* BLK, ENTROPY and NET
    pool       \* the pages handed to the page tree
probeVars == <<tree, dt, pc, heap, mem, uart, timer, todo, drivers, pool>>

Interval(start, size) == [start |-> start, size |-> size]

-----------------------------------------------------------------------------
regs_to_usize(cells, n) ==
    LET f[i \in 0 .. n] == IF i = 0 THEN 0 ELSE (f[i - 1] * CellBase + cells[i]) % (CellBase * CellBase)
    IN  f[n]
After(cells, n) == SubSeq(cells, n + 1, Len(cells))

get_interrupt(irq_type, irq) == IF irq_type = 0 THEN 32 + irq ELSE 16 + irq

interrupt_for_node(node) ==
    LET v == prop_by_name(dt, node, "interrupts")
    IN  IF v = None THEN None ELSE Some(get_interrupt(v[1].cells[1], v[1].cells[2]))

RECURSIVE interrupts(_)
interrupts(cells) ==
    LET rest == After(cells, 2)
    IN  <<get_interrupt(cells[1], cells[2])>>
            \o (IF Len(rest) > 1 THEN interrupts(After(rest, 1)) ELSE <<>>)

page_align_down(addr) == addr - (addr % PageSize)

\* Mutant: the pool begins in the page in which the heap ends.
page_align_up_down(addr) == page_align_down(addr)

page_align_up(addr) == page_align_down(addr + PageSize - 1)

-----------------------------------------------------------------------------
TheRoot == root(dt)[1]
CellCount(name) ==
    LET v == prop_by_name(dt, TheRoot, name) IN IF v = None THEN 2 ELSE v[1].cells[1]
address_cell == CellCount("#address-cells")
size_cell == CellCount("#size-cells")

\* What a reg property says: an address and a size
Reg(cells) == Interval(regs_to_usize(cells, address_cell),
                       regs_to_usize(After(cells, address_cell), size_cell))
HasReg(node) == prop_by_name(dt, node, "reg") # None
RegOf(node) == Reg(prop_by_name(dt, node, "reg")[1].cells)

ProbeInit ==
    /\ tree \in Trees
    /\ dt = Blob(tree)
    /\ pc = "memory"
    /\ heap = None /\ mem = Interval(0, 0)
    /\ uart = None /\ timer = None
    /\ todo = <<>> /\ drivers = [k \in Kind |-> None]
    /\ pool = None

\* The memory nodes with a reg property; the loop ends at the first.
memories == SelectSeq(children_by_prop(dt, TheRoot, "device_type", "memory"), HasReg)

probe_memory ==
    /\ pc = "memory" /\ memories # <<>>
    /\ LET r == RegOf(memories[1]) IN
       IF HeapStart >= r.start
       THEN /\ heap' = Some(Interval(HeapStart, r.size \div 2))
            /\ mem' = Interval(page_align_up(HeapStart + r.size \div 2),
                               page_align_down((r.size \div 2) \div 2))
            /\ pc' = "stdout"
       ELSE pc' = "panic" /\ UNCHANGED <<heap, mem>>
    /\ UNCHANGED <<tree, dt, uart, timer, todo, drivers, pool>>

probe_no_memory ==
    /\ pc = "memory" /\ memories = <<>>
    /\ pc' = "stdout"
    /\ UNCHANGED <<tree, dt, heap, mem, uart, timer, todo, drivers, pool>>

\* The node the console is to be on, if it is the one the code expects
stdout ==
    LET chosen == child_by_name(dt, TheRoot, "chosen")
        path == IF chosen = None THEN None ELSE prop_by_name(dt, chosen[1], "stdout-path")
    IN  IF path # None /\ path[1].str = "/pl011@9000000"
        THEN Some(child_by_path(dt, TheRoot, <<"pl011@9000000">>)) ELSE None

probe_stdout ==
    /\ pc = "stdout"
    /\ pc' = "timer"
    /\ uart' = IF stdout # None /\ HasReg(stdout[1]) /\ RegOf(stdout[1]).size = UartSize
               THEN LET irq == interrupt_for_node(stdout[1])
                    IN  Some([addr |-> RegOf(stdout[1]).start,
                              irq |-> IF irq = None THEN 0 ELSE irq[1]])
               ELSE uart
    /\ UNCHANGED <<tree, dt, heap, mem, timer, todo, drivers, pool>>

virtios == children_by_prop(dt, TheRoot, "compatible", "virtio,mmio")

\* Without a heap the vector of the interrupts cannot be allocated.
probe_timer ==
    /\ pc = "timer"
    /\ LET node == child_by_name(dt, TheRoot, "timer")
           v == IF node = None THEN None ELSE prop_by_name(dt, node[1], "interrupts")
           irqs == IF v = None THEN <<>> ELSE interrupts(v[1].cells)
           found == \E i \in DOMAIN irqs : irqs[i] = EL1_PHYSICAL_TIMER
       IN  IF v # None /\ heap = None
           THEN pc' = "panic" /\ UNCHANGED <<timer, todo>>
           ELSE /\ timer' = IF found THEN Some(EL1_PHYSICAL_TIMER) ELSE timer
                /\ todo' = virtios
                /\ pc' = "virtio"
    /\ UNCHANGED <<tree, dt, heap, mem, uart, drivers, pool>>

\* VirtIORegs::new is Some
IsDevice(addr) ==
    DeviceAt[addr].magic /\ DeviceAt[addr].version = 2 /\ DeviceAt[addr].device_id # 0
device_id(addr) ==
    CASE DeviceAt[addr].device_id = 1 -> "Net"
      [] DeviceAt[addr].device_id = 2 -> "Blk"
      [] DeviceAt[addr].device_id = 4 -> "Entropy"
      [] OTHER -> "Other"

\* One iteration of the loop over the virtio nodes.  The match ignores what is no
\* device of Kind; the queues of a driver are boxed, and its `new` panics if the
\* device does not accept the features.
probe_virtio ==
    /\ pc = "virtio" /\ todo # <<>>
    /\ todo' = Tail(todo)
    /\ LET addr == RegOf(Head(todo)).start
           irq == interrupt_for_node(Head(todo))
           k == device_id(addr)
       IN  IF ~HasReg(Head(todo)) \/ ~IsDevice(addr) \/ k \notin Kind THEN UNCHANGED <<drivers, pc>>
           ELSE IF heap = None \/ ~DeviceAt[addr].features THEN pc' = "panic" /\ UNCHANGED drivers
           ELSE /\ drivers' = [drivers EXCEPT ![k] =
                        Some([addr |-> addr, irq |-> IF irq = None THEN 0 ELSE irq[1]])]
                /\ UNCHANGED pc
    /\ UNCHANGED <<tree, dt, heap, mem, uart, timer, pool>>

\* PageTree::new: the pool has PoolPages pages, whatever mem_size is.
make_pool ==
    /\ pc = "virtio" /\ todo = <<>>
    /\ pc' = "done"
    /\ pool' = Some(Interval(mem.start, PoolPages * PageSize))
    /\ UNCHANGED <<tree, dt, heap, mem, uart, timer, todo, drivers>>

Probing ==
    \/ probe_memory \/ probe_no_memory \/ probe_stdout
    \/ probe_timer \/ probe_virtio \/ make_pool

-----------------------------------------------------------------------------
(* What the tree says, read off the tree itself *)

Values(node, name) == {node.props[i].value : i \in {j \in DOMAIN node.props : node.props[j].name = name}}
Kids(P(_)) == {i \in DOMAIN tree.kids : P(tree.kids[i])}
HasValue(node, name, v) == v \in Values(node, name)
TheCells(node, name) == (CHOOSE v \in Values(node, name) : TRUE).cells

IrqIn(cells, i) == cells[3 * i + 2] + (IF cells[3 * i + 1] = 0 THEN 32 ELSE 16)
Irq(node) == IF Values(node, "interrupts") = {} THEN 0 ELSE IrqIn(TheCells(node, "interrupts"), 0)
Wide == Values(tree, "#address-cells") = {}
Number(hi, lo) == hi * CellBase + lo
Span(node) == LET c == TheCells(node, "reg") IN
    IF Wide THEN Interval(Number(c[1], c[2]), Number(c[3], c[4])) ELSE Interval(c[1], c[2])
Device(node) == [addr |-> Span(node).start, irq |-> Irq(node)]

IsMemory(n) == HasValue(n, "device_type", Str("memory")) /\ Values(n, "reg") # {}
IsVirtio(n) == HasValue(n, "compatible", Str("virtio,mmio")) /\ Values(n, "reg") # {}
Named(name) == Kids(LAMBDA n : n.name = name)

TheMemory == Span(tree.kids[Min(Kids(IsMemory))])

ExpectedUart ==
    LET kid(name) == tree.kids[Min(Named(name))]
    IN  IF /\ Named("chosen") # {} /\ Named("pl011@9000000") # {}
           /\ HasValue(kid("chosen"), "stdout-path", Str("/pl011@9000000"))
           /\ Span(kid("pl011@9000000")).size = UartSize
        THEN Some(Device(kid("pl011@9000000"))) ELSE None

ExpectedTimer ==
    IF Named("timer") = {} THEN None
    ELSE LET c == TheCells(tree.kids[Min(Named("timer"))], "interrupts")
         IN  IF \E i \in 0 .. Len(c) \div 3 - 1 : IrqIn(c, i) = EL1_PHYSICAL_TIMER
             THEN Some(EL1_PHYSICAL_TIMER) ELSE None

Genuine(k) == [magic : {TRUE}, version : {2}, features : BOOLEAN,
               device_id : {CASE k = "Net" -> 1 [] k = "Blk" -> 2 [] k = "Entropy" -> 4}]

\* The last device of a kind is the one that is used.
ExpectedDriver(k) ==
    LET all == Kids(LAMBDA n : IsVirtio(n) /\ DeviceAt[Span(n).start] \in Genuine(k))
    IN  IF all = {} THEN None ELSE Some(Device(tree.kids[Max(all)]))

Refusing(n) ==
    /\ IsVirtio(n) /\ ~DeviceAt[Span(n).start].features
    /\ \E k \in Kind : DeviceAt[Span(n).start] \in Genuine(k)

\* Boot finds what the firmware described: the words of the device tree, read by
\* iterators that step over names, values and the nodes inside other nodes, give
\* the console, the timer and the drivers (the last of each kind) that the tree
\* has at its top level, with the right addresses and interrupts, for one and two
\* cells; it panics only if the memory is above the kernel, if there is none, or
\* if one of the devices at the top level refuses its features.
Found ==
    /\ pc = "done" => /\ uart = ExpectedUart
                      /\ timer = ExpectedTimer
                      /\ \A k \in Kind : drivers[k] = ExpectedDriver(k)
                      /\ (heap # None) = (Kids(IsMemory) # {})
                      /\ Kids(Refusing) = {}
    /\ pc = "panic" => \/ Kids(IsMemory) = {} \/ TheMemory.start > HeapStart
                       \/ Kids(Refusing) # {}

Apart(a, b) == a.start + a.size <= b.start \/ b.start + b.size <= a.start
Within(a, b) == b.start <= a.start /\ a.start + a.size <= b.start + b.size

\* The heap and the pages of the pool never overlap, and the pool begins at a
\* page.  Its size is not taken from the memory's, so that on a small machine it
\* does not fit: both are inside the memory if the half of it that the heap does
\* not take holds the kernel's image, the pool and what rounding up to a page may
\* cost, and the pool ends beyond the memory if that half does not even hold the
\* image and the pool.
MemoryApart ==
    pc = "done" /\ heap # None =>
        LET m == TheMemory
            needed == (HeapStart - m.start) + PoolPages * PageSize
            left == m.size - m.size \div 2
        IN  /\ Apart(heap[1], pool[1])
            /\ pool[1].start % PageSize = 0
            /\ needed + PageSize - 1 <= left => Within(heap[1], m) /\ Within(pool[1], m)
            /\ needed > left => ~Within(pool[1], m)
=============================================================================
