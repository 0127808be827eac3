------------------------------ MODULE VirtQueue ------------------------------
(***************************************************************************)
(* The virtio drivers (virtio/blk.rs, entropy.rs and net.rs): a call       *)
(* describes its buffers, most of them on its own stack, in the first      *)
(* descriptors of a queue, makes them available, notifies the device and   *)
(* waits until the device has used as many requests as were made           *)
(* available.  The device runs at the same time and is external; so is     *)
(* the caller, who holds the mutex around the driver, so that a driver     *)
(* executes one call at a time.                                            *)
(*                                                                         *)
(* A buffer is named by the call it belongs to and its part in it.  Every  *)
(* entry of an available ring is 0, the head of the only chain, so that    *)
(* the rings themselves are left out.  Of the used ring the drivers read   *)
(* only the index; its entries, and where the device writes them, are left *)
(* out too (virtio.rs gives them 4 bytes, a device writes 8).              *)
(***************************************************************************)
EXTENDS Naturals, Sequences

CONSTANTS
    RingLen,       \* entries of the available ring (128)
    IdxMod,        \* values of its free-running index (2^16)
    MaxCalls       \* bound: calls made

ASSUME QueueAssumption ==
    /\ RingLen \in Nat \ {0} /\ IdxMod \in Nat /\ MaxCalls \in Nat
    /\ RingLen < IdxMod

VARIABLES
    device,        \* the driver that is looked at
    masked,        \* whether its caller has masked interrupts
    pc, op, calls, \* where the driver is, in which operation, the calls so far
    k,             \* descriptors the call has written
    seen,          \* the local variable status
    irq,           \* the device's interrupt is enabled in the GIC
    desc,          \* Queue::descriptors
    avail, used,   \* VirtqAvailable::idx and VirtQUsed::idx
    status,        \* VirtIORegs::interrupt_status, its bit for used buffers
    awake,         \* the device has been notified and goes through the queue
    dev, last,     \* what it is doing, and the requests it has taken
    at, chain      \* the descriptor it comes to, those it has read

driver == <<pc, op, calls, k, seen, irq>>
dvars == <<dev, last, at, chain>>
vars == <<device, masked, driver, desc, avail, used, status, awake, dvars>>

-----------------------------------------------------------------------------
(* The operations                                                          *)

\* VirtQDesc: flag 1 says that there is a next descriptor, flag 2 that the
\* device writes to the buffer.
Desc(part, flags, next) == [part |-> part, flags |-> flags, next |-> next]

\* modulo: the index is reduced to the length of the ring; ack: what the
\* waiting loop does about an interrupt.
blk_read ==
    [device |-> "blk", queue |-> 0, modulo |-> FALSE, ack |-> "checked",
     descs |-> <<Desc("hdr", 1, 1), Desc("data", 3, 2), Desc("status", 2, 0)>>]
blk_write ==
    [device |-> "blk", queue |-> 0, modulo |-> FALSE, ack |-> "none",
     descs |-> <<Desc("hdr", 1, 1), Desc("data", 1, 2), Desc("status", 2, 0)>>]
entropy_read ==
    [device |-> "entropy", queue |-> 0, modulo |-> FALSE, ack |-> "checked",
     descs |-> <<Desc("data", 2, 0)>>]
net_read ==
    [device |-> "net", queue |-> 0, modulo |-> TRUE, ack |-> "all",
     descs |-> <<Desc("hdr", 3, 1), Desc("data", 2, 0)>>]
net_write ==
    [device |-> "net", queue |-> 1, modulo |-> TRUE, ack |-> "all",
     descs |-> <<Desc("hdr", 1, 1), Desc("data", 0, 0)>>]

Ops == {blk_read, blk_write, entropy_read, net_read, net_write}
Queues == {0, 1}

\* The descriptors of a call of o as they are written to the queue.
Written(o, call) ==
    [i \in 1 .. Len(o.descs) |->
        [call |-> call, part |-> o.descs[i].part, flags |-> o.descs[i].flags, next |-> o.descs[i].next]]

Empty == [call |-> 0, part |-> "none", flags |-> 0, next |-> 0]

Init ==
    /\ device \in {"blk", "entropy", "net"} /\ masked \in BOOLEAN
    /\ pc = "new" /\ op \in {o \in Ops : o.device = device /\ o.queue = 0 /\ o.ack # "none"}
    /\ calls = 0 /\ k = 0 /\ seen = 0 /\ irq = FALSE
    /\ desc = [q \in Queues |-> [i \in 0 .. 2 |-> Empty]]
    /\ avail = [q \in Queues |-> 0] /\ used = [q \in Queues |-> 0]
    /\ status = 0 /\ awake = [q \in Queues |-> FALSE]
    /\ dev = [q \in Queues |-> "idle"] /\ last = [q \in Queues |-> 0]
    /\ at = [q \in Queues |-> 0] /\ chain = [q \in Queues |-> <<>>]

-----------------------------------------------------------------------------
(* The driver                                                              *)

\* Setting the device up, in one step: it may refuse the features, which is a
\* choice, and does not look at its queues before all registers are written.
new ==
    /\ pc = "new"
    /\ pc' \in {"idle", "panicked"}
    /\ UNCHANGED <<device, masked, op, calls, k, seen, irq, desc, avail, used, status, awake, dvars>>

\* exception_handler has no entry for the interrupt of a device: if it gets
\* through, it is taken again and again and the driver does not continue.
Runs == masked \/ ~irq \/ status = 0

call(o) ==
    /\ pc = "idle" /\ o.device = device /\ calls < MaxCalls
    /\ op' = o /\ calls' = calls + 1 /\ k' = 0 /\ seen' = 0 /\ pc' = "desc"
    /\ UNCHANGED <<device, masked, irq, desc, avail, used, status, awake, dvars>>

\* One descriptor after the other.
describe ==
    /\ pc = "desc"
    /\ desc' = [desc EXCEPT ![op.queue][k] = Written(op, calls)[k + 1]]
    /\ k' = k + 1
    /\ pc' = IF k' = Len(op.descs) THEN "ring" ELSE "desc"
    /\ UNCHANGED <<device, masked, op, calls, seen, irq, avail, used, status, awake, dvars>>

\* The entry of the ring is written, if there is one.
set_ring ==
    /\ pc = "ring"
    /\ pc' = IF op.modulo \/ avail[op.queue] < RingLen THEN "idx" ELSE "panicked"
    /\ UNCHANGED <<device, masked, op, calls, k, seen, irq, desc, avail, used, status, awake, dvars>>

\* The index is advanced.  Where it is not wrapped it never reaches IdxMod,
\* for then the entry of the ring would not exist.
publish ==
    /\ pc = "idx"
    /\ avail' = [avail EXCEPT ![op.queue] = IF op.modulo THEN (@ + 1) % IdxMod ELSE @ + 1]
    /\ pc' = "notify"
    /\ UNCHANGED <<device, masked, op, calls, k, seen, irq, desc, used, status, awake, dvars>>

\* Mutant: only the first request of a queue is notified.
notify_first_only ==
    /\ pc = "notify"
    /\ awake' = IF avail[op.queue] > 1 THEN awake ELSE [awake EXCEPT ![op.queue] = TRUE]
    /\ pc' = "enable"
    /\ UNCHANGED <<device, masked, op, calls, k, seen, irq, desc, avail, used, status, dvars>>

notify ==
    /\ pc = "notify"
    /\ awake' = [awake EXCEPT ![op.queue] = TRUE]
    /\ pc' = "enable"
    /\ UNCHANGED <<device, masked, op, calls, k, seen, irq, desc, avail, used, status, dvars>>

enable ==
    /\ pc = "enable"
    /\ irq' = TRUE /\ pc' = "wait"
    /\ UNCHANGED <<device, masked, op, calls, k, seen, desc, avail, used, status, awake, dvars>>

\* The condition of the waiting loop.
poll ==
    /\ pc = "wait"
    /\ pc' = IF used[op.queue] = avail[op.queue] THEN "disable"
             ELSE IF op.ack = "none" THEN "wait" ELSE "status"
    /\ UNCHANGED <<device, masked, op, calls, k, seen, irq, desc, avail, used, status, awake, dvars>>

\* Its body.
read_status ==
    /\ pc = "status"
    /\ seen' = status
    /\ pc' = IF status # 0 THEN "ack" ELSE "wait"
    /\ UNCHANGED <<device, masked, op, calls, k, irq, desc, avail, used, status, awake, dvars>>

\* Mutant: an interrupt is taken to mean that the request was used.
ack_returns ==
    /\ pc = "ack"
    /\ status' = 0
    /\ pc' = IF op.ack = "checked" THEN "reread" ELSE "disable"
    /\ UNCHANGED <<device, masked, op, calls, k, seen, irq, desc, avail, used, awake, dvars>>

\* Mutant: the acknowledgement does not reach the device.
ack_lost ==
    /\ pc = "ack"
    /\ status' = status
    /\ pc' = IF op.ack = "checked" THEN "reread" ELSE "wait"
    /\ UNCHANGED <<device, masked, op, calls, k, seen, irq, desc, avail, used, awake, dvars>>

ack ==
    /\ pc = "ack"
    /\ status' = 0
    /\ pc' = IF op.ack = "checked" THEN "reread" ELSE "wait"
    /\ UNCHANGED <<device, masked, op, calls, k, seen, irq, desc, avail, used, awake, dvars>>

reread ==
    /\ pc = "reread"
    /\ pc' = IF status = seen THEN "panicked" ELSE "wait"
    /\ UNCHANGED <<device, masked, op, calls, k, seen, irq, desc, avail, used, status, awake, dvars>>

\* The call returns: its stack frame is gone.
disable ==
    /\ pc = "disable"
    /\ irq' = FALSE /\ pc' = "idle"
    /\ UNCHANGED <<device, masked, op, calls, k, seen, desc, avail, used, status, awake, dvars>>

Driver ==
    /\ Runs
    /\ \/ describe \/ set_ring \/ publish \/ notify \/ enable
       \/ poll \/ read_status \/ ack \/ reread \/ disable

-----------------------------------------------------------------------------
(* The device                                                              *)

\* It takes the next request, of which it knows the head,
dev_take(q) ==
    /\ awake[q] /\ dev[q] = "idle" /\ last[q] # avail[q]
    /\ last' = [last EXCEPT ![q] = (@ + 1) % IdxMod]
    /\ dev' = [dev EXCEPT ![q] = "read"]
    /\ at' = [at EXCEPT ![q] = 0] /\ chain' = [chain EXCEPT ![q] = <<>>]
    /\ UNCHANGED <<device, masked, driver, desc, avail, used, status, awake>>

\* or finds none and waits to be notified;
dev_sleep(q) ==
    /\ awake[q] /\ dev[q] = "idle" /\ last[q] = avail[q]
    /\ awake' = [awake EXCEPT ![q] = FALSE]
    /\ UNCHANGED <<device, masked, driver, desc, avail, used, status, dvars>>

\* reads the descriptors,
dev_read(q) ==
    /\ dev[q] = "read"
    /\ chain' = [chain EXCEPT ![q] = Append(@, desc[q][at[q]])]
    /\ IF desc[q][at[q]].flags % 2 = 1
       THEN at' = [at EXCEPT ![q] = desc[q][at[q]].next] /\ dev' = dev
       ELSE dev' = [dev EXCEPT ![q] = "serve"] /\ at' = at
    /\ UNCHANGED <<device, masked, driver, desc, avail, used, status, awake, last>>

\* reads and writes the buffers and says so,
dev_serve(q) ==
    /\ dev[q] = "serve"
    /\ used' = [used EXCEPT ![q] = (@ + 1) % IdxMod]
    /\ dev' = [dev EXCEPT ![q] = "raise"]
    /\ UNCHANGED <<device, masked, driver, desc, avail, status, awake, last, at, chain>>

\* and then raises its interrupt.
dev_raise(q) ==
    /\ dev[q] = "raise"
    /\ status' = 1
    /\ dev' = [dev EXCEPT ![q] = "idle"]
    /\ UNCHANGED <<device, masked, driver, desc, avail, used, awake, last, at, chain>>

Next ==
    \/ new \/ Driver \/ \E o \in Ops : call(o)
    \/ \E q \in Queues : dev_take(q) \/ dev_sleep(q) \/ dev_read(q) \/ dev_serve(q) \/ dev_raise(q)

\* A call that is under way continues.  The device works off its queues; but
\* it fills the buffer of a network read only when a packet arrives.
Fairness ==
    /\ WF_vars(Driver)
    /\ \A q \in Queues :
        /\ WF_vars(dev_take(q) \/ dev_read(q) \/ dev_raise(q))
        /\ WF_vars(op # net_read /\ dev_serve(q))

Spec == Init /\ [][Next]_vars /\ Fairness

-----------------------------------------------------------------------------
(* Properties                                                              *)

Descriptors == [call : 0 .. MaxCalls, part : {"none", "hdr", "data", "status"}, flags : 0 .. 3, next : 0 .. 2]

\* Type correctness: the indexes stay within the 16 bits they have.
TypeOK ==
    /\ device \in {"blk", "entropy", "net"} /\ masked \in BOOLEAN
    /\ pc \in {"new", "idle", "desc", "ring", "idx", "notify", "enable", "wait", "status", "ack",
               "reread", "disable", "panicked"}
    /\ op \in Ops /\ calls \in 0 .. MaxCalls /\ k \in 0 .. 3 /\ seen \in {0, 1} /\ irq \in BOOLEAN
    /\ desc \in [Queues -> [0 .. 2 -> Descriptors]]
    /\ avail \in [Queues -> 0 .. IdxMod - 1] /\ used \in [Queues -> 0 .. IdxMod - 1]
    /\ status \in {0, 1} /\ awake \in [Queues -> BOOLEAN]
    /\ dev \in [Queues -> {"idle", "read", "serve", "raise"}]
    /\ last \in [Queues -> 0 .. IdxMod - 1] /\ at \in [Queues -> 0 .. 2]
    /\ chain \in [Queues -> Seq(Descriptors)]

\* When the device goes to the buffers, the call they belong to is still
\* waiting (or has panicked while it did: its frame is there until the machine
\* is off), and the descriptors the device has read are exactly those of that
\* call: none is left from an earlier one, none is missing, and the device
\* never writes to the stack of a call that has returned.
OnlyTheCallsBuffers ==
    \A q \in Queues : dev[q] = "serve" =>
        /\ pc \in {"notify", "enable", "wait", "status", "ack", "reread", "panicked"}
        /\ op.queue = q /\ chain[q] = Written(op, calls)

\* A driver panics only if the device refuses its features, if more requests
\* were made than the ring has entries and the index is not reduced (blk.rs
\* and entropy.rs), or if the interrupt of an earlier call, which nobody
\* had acknowledged, is acknowledged now and the device raises that of this
\* call, or a late one of the call before, right afterwards.
OnlyKnownPanics ==
    pc = "panicked" =>
        \/ calls = 0
        \/ device # "net" /\ avail[op.queue] = RingLen /\ calls = RingLen + 1
        \/ op.ack = "checked" /\ calls > 1 /\ seen = 1 /\ status = 1

\* Every call returns (or panics), if the caller has masked interrupts; a
\* network read may wait for ever for a packet.
UnderWay == pc \notin {"new", "idle", "panicked"}
CallsReturn == (UnderWay /\ masked /\ op # net_read) ~> ~UnderWay
=============================================================================
