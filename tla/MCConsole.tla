------------------------------ MODULE MCConsole ----------------------------
\* The device trees on which Console is checked: a root with one or two cells for
\* addresses and sizes, and up to three of the nodes below it, in every order.
EXTENDS Console, SequencesExt

Node(name, props, kids) == [name |-> name, props |-> props, kids |-> kids]
Prop(name, value) == [name |-> name, value |-> value]

\* An address and a size, in w cells each
RegProp(w, addr, size) ==
    Prop("reg", Cells(IF w = 1 THEN <<addr, size>>
                      ELSE <<addr \div 16, addr % 16, size \div 16, size % 16>>))
Irqs(cells) == Prop("interrupts", Cells(cells))
Mem == Prop("device_type", Str("memory"))
Mmio == Prop("compatible", Str("virtio,mmio"))

Memory(w, addr, size) == Node("memory@40", <<Mem, RegProp(w, addr, size)>>, <<>>)
Pl011(w, size) == Node("pl011@9000000", <<RegProp(w, 9, size), Irqs(<<0, 1, 4>>)>>, <<>>)
Timer(irqs) == Node("timer", <<Irqs(irqs)>>, <<>>)
Virtio(w, addr, irq) == Node("virtio@a", <<Irqs(<<0, irq, 1>>), RegProp(w, addr, 2), Mmio>>, <<>>)

TopLevel(w) == {
    Memory(w, 40, 61), Memory(w, 43, 41), Memory(w, 43, 30), Memory(w, 50, 60),
    Node("memory", <<Mem>>, <<>>),
    Node("chosen", <<Prop("stdout-path", Str("/pl011@9000000"))>>, <<>>),
    Pl011(w, 16), Pl011(w, 15), Node("pl011@9000000", <<RegProp(w, 9, 16)>>, <<>>),
    Timer(<<1, 13, 4, 1, 14, 4>>), Timer(<<1, 13, 4>>),
    Virtio(w, 10, 5), Virtio(w, 12, 6), Virtio(w, 14, 7), Virtio(w, 13, 8),
    Virtio(w, 15, 3),
    \* A bus: nothing below it is at the top level.
    Node("platform", <<Prop("compatible", Str("simple-bus"))>>,
         <<Timer(<<1, 14, 4>>), Memory(w, 40, 80), Pl011(w, 16), Virtio(w, 14, 9)>>)}

MCTrees ==
    UNION {{Node("", IF w = 2 THEN <<>>
                     ELSE <<Prop("#address-cells", Cells(<<1>>)), Prop("#size-cells", Cells(<<1>>))>>,
                 kids) : kids \in SeqOf(TopLevel(w), 3)} : w \in {1, 2}}

\* Two disks, a network card, a legacy device, and one that refuses its features
Regs(version, id, features) ==
    [magic |-> TRUE, version |-> version, device_id |-> id, features |-> features]
MCDeviceAt ==
    10 :> Regs(2, 2, TRUE) @@ 12 :> Regs(2, 2, TRUE) @@ 14 :> Regs(2, 1, TRUE)
        @@ 13 :> Regs(1, 4, TRUE) @@ 15 :> Regs(2, 4, FALSE)
=============================================================================
