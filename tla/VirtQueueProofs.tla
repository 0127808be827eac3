--------------------------- MODULE VirtQueueProofs ---------------------------
(***************************************************************************)
(* Proof that the device only ever goes to the buffers of the call that is *)
(* waiting for it, and of what makes a driver panic, for every length of   *)
(* the ring, every width of the index and any number of calls.             *)
(* In the second part, the line that UART::read_line reads, for every      *)
(* length of the buffer and any keys.                                      *)
(***************************************************************************)
EXTENDS VirtQueue, ReadLine, SequenceTheorems, WellFoundedInduction, TLAPS

\* The request of the call is in the queue, and the call has not returned.  It
\* may have panicked: only the check after an acknowledgement leaves seen at 1.
Flight ==
    \/ pc \in {"notify", "enable", "wait", "status", "ack", "reread"}
    \/ pc = "panicked" /\ seen = 1

\* How far the device has come with a queue.
Idle(q) == used[q] = avail[q] /\ last[q] = avail[q] /\ dev[q] \in {"idle", "raise"}
Waiting(q) ==
    /\ last[q] = used[q] /\ avail[q] = (used[q] + 1) % IdxMod
    /\ dev[q] \in {"idle", "raise"}
Taken(q) ==
    /\ last[q] = avail[q] /\ avail[q] = (used[q] + 1) % IdxMod
    /\ dev[q] \in {"read", "serve"}

\* At most one request is outstanding, that of the call under way.
Outstanding ==
    \A q \in Queues :
        IF Flight /\ op.queue = q THEN Idle(q) \/ Waiting(q) \/ Taken(q) ELSE Idle(q)

\* The descriptors of the call are written one by one, and not touched as long
\* as it is waiting; the device reads them in their order.
Described(n) == \A i \in 0 .. n - 1 : desc[op.queue][i] = Written(op, calls)[i + 1]
Chains ==
    /\ pc = "desc" => k < Len(op.descs) /\ Described(k)
    /\ pc \in {"ring", "idx"} \/ Flight => Described(Len(op.descs))
    /\ \A q \in Queues : dev[q] = "read" =>
          at[q] < Len(op.descs) /\ chain[q] = SubSeq(Written(op, calls), 1, at[q])
    /\ \A q \in Queues : dev[q] = "serve" => chain[q] = Written(op, calls)

\* Where the call is, and what it has seen of the interrupt.
Calling ==
    /\ op.device = device
    /\ pc = "new" => calls = 0
    /\ pc \in {"new", "desc", "ring", "idx", "notify", "enable"} => seen = 0
    /\ pc \in {"ack", "reread"} => seen = 1
    /\ pc = "reread" => op.ack = "checked"
    /\ pc = "idx" => op.modulo \/ avail[op.queue] < RingLen
    /\ pc \notin {"new", "idle", "panicked"} => calls > 0
    /\ OnlyKnownPanics

\* A driver with one queue: as many requests as calls; and in the first call
\* there is no interrupt but its own.
OneQueue ==
    device # "net" =>
        /\ avail[0] <= RingLen /\ avail[0] <= calls
        /\ pc \notin {"desc", "ring", "idx", "panicked"} => avail[0] = calls
        /\ pc \in {"desc", "ring", "idx"} => avail[0] = calls - 1
        /\ dev[1] = "idle"
        /\ calls < 2 =>
              /\ avail[0] = 0 => dev[0] = "idle"
              /\ dev[0] = "raise" => used[0] = avail[0]
              /\ status = 1 \/ seen = 1 => avail[0] = 1 /\ used[0] = avail[0] /\ dev[0] = "idle"
              /\ pc = "reread" => status = 0

IInv == TypeOK /\ Outstanding /\ Chains /\ Calling /\ OneQueue

-----------------------------------------------------------------------------
(* The operations and the index                                            *)

\* What is common to the operations: one device per driver, at most three
\* descriptors, an index that only the network driver reduces.
LEMMA Operation ==
    ASSUME NEW o \in Ops
    PROVE  /\ o.queue \in Queues /\ o.modulo \in BOOLEAN
           /\ o.descs \in Seq([part : {"hdr", "data", "status"}, flags : 0 .. 3, next : 0 .. 2])
           /\ Len(o.descs) \in 1 .. 3
           /\ o.device # "net" => o.queue = 0 /\ ~o.modulo
           /\ o.device = "net" => o.modulo /\ o.ack = "all"
           /\ \A i \in 1 .. Len(o.descs) :
                 /\ o.descs[i].flags % 2 = 1 <=> i < Len(o.descs)
                 /\ i < Len(o.descs) => o.descs[i].next = i
<1>1. CASE o = blk_read
  BY <1>1 DEF blk_read, Desc, Queues
<1>2. CASE o = blk_write
  BY <1>2 DEF blk_write, Desc, Queues
<1>3. CASE o = entropy_read
  BY <1>3 DEF entropy_read, Desc, Queues
<1>4. CASE o = net_read
  BY <1>4 DEF net_read, Desc, Queues
<1>5. CASE o = net_write
  BY <1>5 DEF net_write, Desc, Queues
<1> QED BY <1>1, <1>2, <1>3, <1>4, <1>5 DEF Ops

\* The chain a call writes: every descriptor but the last leads to the next.
LEMMA WrittenChain ==
    ASSUME NEW o \in Ops, NEW c \in 0 .. MaxCalls
    PROVE  /\ Written(o, c) \in Seq(Descriptors) /\ Len(Written(o, c)) = Len(o.descs)
           /\ \A i \in 1 .. Len(o.descs) :
                 /\ Written(o, c)[i] \in Descriptors
                 /\ Written(o, c)[i].flags % 2 = 1 <=> i < Len(o.descs)
                 /\ i < Len(o.descs) => Written(o, c)[i].next = i
<1> DEFINE D == [part : {"hdr", "data", "status"}, flags : 0 .. 3, next : 0 .. 2]
           n == Len(o.descs)
           w(i) == [call |-> c, part |-> o.descs[i].part, flags |-> o.descs[i].flags, next |-> o.descs[i].next]
<1>1. n \in Nat /\ \A i \in 1 .. n : o.descs[i] \in D
  <2>1. o.descs \in Seq(D)
    BY Operation
  <2> HIDE DEF D
  <2> QED BY <2>1, ElementOfSeq, LenProperties
<1>2. \A i \in 1 .. n : w(i) \in Descriptors
  BY <1>1 DEF Descriptors
<1>3. Written(o, c) = [i \in 1 .. n |-> w(i)]
  BY DEF Written
<1> HIDE DEF w, n
<1>4. Written(o, c) \in Seq(Descriptors) /\ Len(Written(o, c)) = n
  BY <1>1, <1>2, <1>3, IsASeq
<1>5. \A i \in 1 .. n : Written(o, c)[i] = w(i)
  BY <1>3
<1>6. \A i \in 1 .. n : w(i).flags = o.descs[i].flags /\ w(i).next = o.descs[i].next
  BY DEF w
<1> QED BY <1>2, <1>4, <1>5, <1>6, Operation DEF n

\* The index after one more request.
LEMMA Succ ==
    ASSUME NEW a \in 0 .. IdxMod - 1
    PROVE  /\ (a + 1) % IdxMod = IF a + 1 = IdxMod THEN 0 ELSE a + 1
           /\ (a + 1) % IdxMod \in 0 .. IdxMod - 1 /\ (a + 1) % IdxMod # a
<1>1. IdxMod \in Nat /\ IdxMod > 1
  BY QueueAssumption
<1>2. (a + 1) % IdxMod = IF a + 1 = IdxMod THEN 0 ELSE a + 1
  BY <1>1
<1> QED BY <1>1, <1>2

\* A request the device has yet to use keeps the waiting loop going.
LEMMA Unequal ==
    ASSUME TypeOK, NEW q \in Queues, Waiting(q) \/ Taken(q)
    PROVE  used[q] # avail[q]
BY Succ DEF TypeOK, Waiting, Taken

-----------------------------------------------------------------------------
(* The device                                                              *)

\* The device takes the request.
LEMMA DevTake ==
    ASSUME IInv, NEW q \in Queues, dev_take(q)
    PROVE  IInv'
<1>1. /\ dev[q] = "idle" /\ last[q] # avail[q] /\ last' = [last EXCEPT ![q] = (last[q] + 1) % IdxMod]
      /\ dev' = [dev EXCEPT ![q] = "read"] /\ at' = [at EXCEPT ![q] = 0] /\ chain' = [chain EXCEPT ![q] = <<>>]
      /\ UNCHANGED <<device, masked, pc, op, calls, k, seen, irq, desc, avail, used, status, awake>>
  BY DEF dev_take, driver
<1>2. TypeOK
  BY DEF IInv
<1>3. /\ op \in Ops /\ calls \in 0 .. MaxCalls /\ last \in [Queues -> 0 .. IdxMod - 1]
      /\ dev \in [Queues -> {"idle", "read", "serve", "raise"}] /\ at \in [Queues -> 0 .. 2]
      /\ chain \in [Queues -> Seq(Descriptors)] /\ used \in [Queues -> 0 .. IdxMod - 1]
  BY <1>2 DEF TypeOK
<1>4. Flight /\ op.queue = q /\ Waiting(q)
  BY <1>1 DEF IInv, Outstanding, Idle, Taken
<1>5. TypeOK'
  <2>1. (last[q] + 1) % IdxMod \in 0 .. IdxMod - 1
    BY <1>3, Succ
  <2>2. last' \in [Queues -> 0 .. IdxMod - 1] /\ at' \in [Queues -> 0 .. 2]
    BY <1>1, <1>3, <2>1
  <2>3. chain' \in [Queues -> Seq(Descriptors)] /\ dev' \in [Queues -> {"idle", "read", "serve", "raise"}]
    BY <1>1, <1>3
  <2> QED BY <1>1, <1>2, <2>2, <2>3 DEF TypeOK
<1>6. \A r \in Queues \ {q} : last'[r] = last[r] /\ dev'[r] = dev[r] /\ at'[r] = at[r] /\ chain'[r] = chain[r]
  BY <1>1, <1>3
<1>7. last'[q] = (last[q] + 1) % IdxMod /\ dev'[q] = "read" /\ at'[q] = 0 /\ chain'[q] = <<>>
  BY <1>1, <1>3
<1>8. Outstanding'
  <2>1. Taken(q)'
    BY <1>1, <1>4, <1>7 DEF Waiting, Taken
  <2>2. Flight' /\ op'.queue = q
    BY <1>1, <1>4 DEF Flight
  <2>3. \A r \in Queues \ {q} : Idle(r)'
    BY <1>1, <1>4, <1>6 DEF IInv, Outstanding, Idle
  <2> QED BY <2>1, <2>2, <2>3 DEF Outstanding
<1>9. Chains'
  <2>1. 0 < Len(op.descs) /\ SubSeq(Written(op, calls), 1, 0) = <<>>
    <3>1. Len(op.descs) \in 1 .. 3
      BY <1>3, Operation, Zenon
    <3>2. SubSeq(Written(op, calls), 1, 0) = <<>>
      BY SubSeqEmpty
    <3>3. \A n \in 1 .. 3 : 0 < n
      OBVIOUS
    <3> QED BY <3>1, <3>2, <3>3, Zenon
  <2>2. at'[q] < Len(op'.descs) /\ chain'[q] = SubSeq(Written(op', calls'), 1, at'[q])
    BY <1>1, <1>7, <2>1
  <2>3. /\ pc' = "desc" => k' < Len(op'.descs) /\ Described(k)'
        /\ pc' \in {"ring", "idx"} \/ Flight' => Described(Len(op.descs))'
    BY <1>1 DEF IInv, Chains, Described, Flight
  <2>4. \A r \in Queues \ {q} :
           /\ dev'[r] = "read" => at'[r] < Len(op'.descs) /\ chain'[r] = SubSeq(Written(op', calls'), 1, at'[r])
           /\ dev'[r] = "serve" => chain'[r] = Written(op', calls')
    BY <1>1, <1>6 DEF IInv, Chains
  <2> QED BY <1>7, <2>2, <2>3, <2>4 DEF Chains
<1>10. Calling'
  BY <1>1 DEF IInv, Calling, OnlyKnownPanics
<1>11. OneQueue'
  <2>1. used[q] # avail[q]
    BY <1>2, <1>4, Unequal
  <2>2. q = 1 => device = "net"
    BY <1>3, <1>4, Operation DEF IInv, Calling
  <2>3. q = 0 => avail[q] # used[q] /\ dev'[1] = dev[1]
    BY <1>6, <2>1 DEF Queues
  <2>4. q = 0 \/ q = 1
    BY DEF Queues
  <2>5. CASE q = 0
    <3>1. device # "net" /\ calls < 2 => status # 1 /\ seen # 1 /\ avail[0] # 0
      <4>1. device # "net" /\ calls < 2 /\ avail[0] = 0 => FALSE
        <5> SUFFICES ASSUME device # "net", calls < 2, avail[0] = 0 PROVE FALSE
          OBVIOUS
        <5>1. seen # 1
          BY DEF IInv, OneQueue
        <5>2. pc \in {"notify", "enable", "wait", "status", "ack", "reread"}
          BY <1>4, <5>1 DEF Flight
        <5>3. avail[0] = calls /\ calls > 0
          BY <5>2 DEF IInv, OneQueue, Calling
        <5> QED BY <1>3, <5>3
      <4> QED BY <2>1, <2>5, <4>1 DEF IInv, OneQueue
    <3> QED BY <1>1, <1>7, <2>3, <2>5, <3>1 DEF IInv, OneQueue
  <2> QED BY <1>1, <2>2, <2>4, <2>5 DEF OneQueue
<1> QED BY <1>5, <1>8, <1>9, <1>10, <1>11 DEF IInv

\* The device goes to sleep on an empty queue.
LEMMA DevSleep ==
    ASSUME IInv, NEW q \in Queues, dev_sleep(q)
    PROVE  IInv'
<1>1. /\ awake' = [awake EXCEPT ![q] = FALSE]
      /\ UNCHANGED <<device, masked, pc, op, calls, k, seen, irq, desc, avail, used, status, dev, last, at, chain>>
  BY DEF dev_sleep, driver, dvars
<1>2. TypeOK'
  BY <1>1 DEF IInv, TypeOK
<1>3. Outstanding' /\ Chains'
  BY <1>1 DEF IInv, Outstanding, Flight, Idle, Waiting, Taken, Chains, Described
<1>4. Calling' /\ OneQueue'
  BY <1>1 DEF IInv, Calling, OnlyKnownPanics, OneQueue
<1> QED BY <1>2, <1>3, <1>4 DEF IInv

\* The device reads a descriptor.
LEMMA DevRead ==
    ASSUME IInv, NEW q \in Queues, dev_read(q)
    PROVE  IInv'
<1> DEFINE d == desc[q][at[q]]
           w == Written(op, calls)
           n == Len(op.descs)
<1>1. /\ dev[q] = "read" /\ chain' = [chain EXCEPT ![q] = Append(chain[q], d)]
      /\ IF d.flags % 2 = 1
         THEN at' = [at EXCEPT ![q] = d.next] /\ dev' = dev
         ELSE dev' = [dev EXCEPT ![q] = "serve"] /\ at' = at
      /\ UNCHANGED <<device, masked, pc, op, calls, k, seen, irq, desc, avail, used, status, awake, last>>
  BY DEF dev_read, driver
<1>2. TypeOK
  BY DEF IInv
<1>3. /\ op \in Ops /\ calls \in 0 .. MaxCalls
      /\ dev \in [Queues -> {"idle", "read", "serve", "raise"}] /\ at \in [Queues -> 0 .. 2]
      /\ chain \in [Queues -> Seq(Descriptors)]
  BY <1>2 DEF TypeOK
<1>4. Flight /\ op.queue = q /\ Taken(q)
  BY <1>1 DEF IInv, Outstanding, Idle, Waiting
<1>5. /\ n \in 1 .. 3 /\ w \in Seq(Descriptors) /\ Len(w) = n
      /\ \A i \in 1 .. n : /\ w[i] \in Descriptors
                           /\ w[i].flags % 2 = 1 <=> i < n
                           /\ i < n => w[i].next = i
  BY <1>3, Operation, WrittenChain
<1>6. /\ at[q] \in 0 .. n - 1 /\ chain[q] = SubSeq(w, 1, at[q])
  BY <1>1, <1>3, <1>5 DEF IInv, Chains
<1>7. d = w[at[q] + 1]
  BY <1>4, <1>6 DEF IInv, Chains, Described
<1> HIDE DEF d, w, n
<1>8. at[q] + 1 \in 1 .. n /\ d \in Descriptors
  BY <1>5, <1>6, <1>7
<1>9. Append(chain[q], d) = SubSeq(w, 1, at[q] + 1) /\ SubSeq(w, 1, at[q] + 1) \in Seq(Descriptors)
  <2>1. SubSeq(w, 1, at[q] + 1) = SubSeq(w, 1, (at[q] + 1) - 1) \o <<w[at[q] + 1]>>
    <3>1. 1 \in 1 .. Len(w) /\ at[q] + 1 \in 1 .. Len(w)
      BY <1>5, <1>8
    <3>2. \A m \in 1 .. Len(w) : \A i \in m .. Len(w) : SubSeq(w, m, i) = SubSeq(w, m, i - 1) \o <<w[i]>>
      BY <1>5, SubSeqRecursiveSecond
    <3> QED BY <3>1, <3>2
  <2>2. (at[q] + 1) - 1 = at[q]
    BY <1>6
  <2>3. SubSeq(w, 1, at[q] + 1) \in Seq(Descriptors) /\ SubSeq(w, 1, at[q]) \in Seq(Descriptors)
    BY <1>5, <1>6
  <2> QED BY <1>6, <1>7, <1>8, <2>1, <2>2, <2>3, AppendIsConcat
<1>10. /\ dev'[q] \in {"read", "serve"} /\ dev' \in [Queues -> {"idle", "read", "serve", "raise"}]
       /\ \A r \in Queues \ {q} : dev'[r] = dev[r] /\ at'[r] = at[r] /\ chain'[r] = chain[r]
       /\ chain'[q] = SubSeq(w, 1, at[q] + 1)
  BY <1>1, <1>3, <1>9
<1>11. TypeOK'
  <2>1. chain' \in [Queues -> Seq(Descriptors)]
    BY <1>1, <1>3, <1>9
  <2>2. d.next \in 0 .. 2
    BY <1>8 DEF Descriptors
  <2>3. at' \in [Queues -> 0 .. 2]
    BY <1>1, <1>3, <2>2
  <2> QED BY <1>1, <1>2, <1>10, <2>1, <2>3 DEF TypeOK
<1>12. Outstanding'
  <2>1. Taken(q)'
    BY <1>1, <1>4, <1>10 DEF Taken
  <2>2. Flight' /\ op'.queue = q
    BY <1>1, <1>4 DEF Flight
  <2>3. \A r \in Queues \ {q} : Idle(r)'
    BY <1>1, <1>4, <1>10 DEF IInv, Outstanding, Idle
  <2> QED BY <2>1, <2>2, <2>3 DEF Outstanding
<1>13. Chains'
  <2>1. w' = w /\ n' = n
    BY <1>1 DEF w, n, Written
  <2>2. dev'[q] = "read" => at'[q] < n /\ chain'[q] = SubSeq(w, 1, at'[q])
    <3> SUFFICES ASSUME dev'[q] = "read" PROVE at'[q] < n /\ chain'[q] = SubSeq(w, 1, at'[q])
      OBVIOUS
    <3>1. d.flags % 2 = 1
      BY <1>1, <1>3
    <3>2. at[q] + 1 < n /\ d.next = at[q] + 1
      BY <1>5, <1>7, <1>8, <3>1
    <3>3. at'[q] = at[q] + 1
      BY <1>1, <1>3, <3>1, <3>2
    <3> QED BY <1>10, <3>2, <3>3
  <2>3. dev'[q] = "serve" => chain'[q] = w
    <3> SUFFICES ASSUME dev'[q] = "serve" PROVE chain'[q] = w
      OBVIOUS
    <3>1. ~(d.flags % 2 = 1)
      BY <1>1, <1>3
    <3>2. at[q] + 1 = n
      BY <1>5, <1>7, <1>8, <3>1
    <3> QED BY <1>5, <1>10, <3>2, SubSeqFull
  <2>4. \A r \in Queues : dev'[r] = "read" => at'[r] < n /\ chain'[r] = SubSeq(w, 1, at'[r])
    BY <1>10, <2>2 DEF IInv, Chains, w, n
  <2>5. \A r \in Queues : dev'[r] = "serve" => chain'[r] = w
    BY <1>10, <2>3 DEF IInv, Chains, w
  <2>6. /\ pc' = "desc" => k' < Len(op'.descs) /\ Described(k)'
        /\ pc' \in {"ring", "idx"} \/ Flight' => Described(Len(op.descs))'
    BY <1>1 DEF IInv, Chains, Described, Flight
  <2> QED BY <1>1, <2>4, <2>5, <2>6 DEF Chains, w, n
<1>14. Calling'
  BY <1>1 DEF IInv, Calling, OnlyKnownPanics
<1>15. OneQueue'
  <2>1. q = 1 => device = "net"
    BY <1>3, <1>4, Operation DEF IInv, Calling
  <2>2. used[q] # avail[q]
    BY <1>2, <1>4, Unequal
  <2>3. q = 0 \/ q = 1
    BY DEF Queues
  <2>4. q = 0 => dev'[1] = dev[1]
    BY <1>10 DEF Queues
  <2>5. device # "net" /\ avail[0] = 0 /\ calls < 2 => dev[0] = "idle"
    BY DEF IInv, OneQueue
  <2> QED BY <1>1, <1>10, <2>1, <2>2, <2>3, <2>4, <2>5 DEF IInv, OneQueue
<1> QED BY <1>11, <1>12, <1>13, <1>14, <1>15 DEF IInv

\* The device uses the buffers and gives them back.
LEMMA DevServe ==
    ASSUME IInv, NEW q \in Queues, dev_serve(q)
    PROVE  IInv'
<1>1. /\ dev[q] = "serve" /\ used' = [used EXCEPT ![q] = (used[q] + 1) % IdxMod]
      /\ dev' = [dev EXCEPT ![q] = "raise"]
      /\ UNCHANGED <<device, masked, pc, op, calls, k, seen, irq, desc, avail, status, awake, last, at, chain>>
  BY DEF dev_serve, driver
<1>2. TypeOK
  BY DEF IInv
<1>3. /\ op \in Ops /\ used \in [Queues -> 0 .. IdxMod - 1]
      /\ dev \in [Queues -> {"idle", "read", "serve", "raise"}]
  BY <1>2 DEF TypeOK
<1>4. Flight /\ op.queue = q /\ Taken(q)
  BY <1>1 DEF IInv, Outstanding, Idle, Waiting
<1>5. used'[q] = avail[q] /\ dev'[q] = "raise" /\ \A r \in Queues \ {q} : dev'[r] = dev[r] /\ used'[r] = used[r]
  BY <1>1, <1>3, <1>4 DEF Taken
<1>6. TypeOK'
  <2>1. (used[q] + 1) % IdxMod \in 0 .. IdxMod - 1
    BY <1>3, Succ
  <2>2. used' \in [Queues -> 0 .. IdxMod - 1] /\ dev' \in [Queues -> {"idle", "read", "serve", "raise"}]
    BY <1>1, <1>3, <2>1
  <2> QED BY <1>1, <1>2, <2>2 DEF TypeOK
<1>7. Outstanding'
  <2>1. Idle(q)'
    BY <1>1, <1>4, <1>5 DEF Taken, Idle
  <2>2. \A r \in Queues \ {q} : Idle(r)'
    BY <1>1, <1>4, <1>5 DEF IInv, Outstanding, Idle
  <2> QED BY <2>1, <2>2 DEF Outstanding
<1>8. Chains'
  BY <1>1, <1>3, <1>5 DEF IInv, Chains, Described, Flight
<1>9. Calling'
  BY <1>1 DEF IInv, Calling, OnlyKnownPanics
<1>10. OneQueue'
  <2>1. q = 1 => device = "net"
    BY <1>3, <1>4, Operation DEF IInv, Calling
  <2>2. used[q] # avail[q]
    BY <1>2, <1>4, Unequal
  <2>3. q = 0 \/ q = 1
    BY DEF Queues
  <2>4. q = 0 => dev'[1] = dev[1]
    BY <1>5 DEF Queues
  <2> QED BY <1>1, <1>5, <2>1, <2>2, <2>3, <2>4 DEF IInv, OneQueue
<1> QED BY <1>6, <1>7, <1>8, <1>9, <1>10 DEF IInv

\* The device raises its interrupt.
LEMMA DevRaise ==
    ASSUME IInv, NEW q \in Queues, dev_raise(q)
    PROVE  IInv'
<1>1. /\ dev[q] = "raise" /\ status' = 1 /\ dev' = [dev EXCEPT ![q] = "idle"]
      /\ UNCHANGED <<device, masked, pc, op, calls, k, seen, irq, desc, avail, used, awake, last, at, chain>>
  BY DEF dev_raise, driver
<1>2. TypeOK /\ dev \in [Queues -> {"idle", "read", "serve", "raise"}]
  BY DEF IInv, TypeOK
<1>3. TypeOK'
  BY <1>1, <1>2 DEF TypeOK
<1>4. dev'[q] = "idle" /\ \A r \in Queues \ {q} : dev'[r] = dev[r]
  BY <1>1, <1>2
<1>5. Outstanding'
  <2>1. ASSUME NEW r \in Queues PROVE (Idle(r) => Idle(r)') /\ (Waiting(r) => Waiting(r)') /\ (Taken(r) => Taken(r)')
    BY <1>1, <1>4 DEF Idle, Waiting, Taken
  <2> QED BY <1>1, <2>1 DEF IInv, Outstanding, Flight
<1>6. Chains'
  BY <1>1, <1>4 DEF IInv, Chains, Described, Flight
<1>7. Calling'
  BY <1>1 DEF IInv, Calling, OnlyKnownPanics
<1>8. OneQueue'
  <2>1. q = 0 \/ q = 1
    BY DEF Queues
  <2>2. q = 0 => dev'[1] = dev[1]
    BY <1>4 DEF Queues
  <2>3. device # "net" => q = 0
    BY <1>1, <2>1 DEF IInv, OneQueue
  <2>4. device # "net" /\ calls < 2 => avail[0] = 1 /\ used[0] = avail[0] /\ pc # "reread"
    <3> SUFFICES ASSUME device # "net", calls < 2 PROVE avail[0] = 1 /\ used[0] = avail[0] /\ pc # "reread"
      OBVIOUS
    <3>1. used[0] = avail[0] /\ avail[0] # 0
      BY <1>1, <2>3 DEF IInv, OneQueue
    <3>2. avail[0] = calls \/ avail[0] = calls - 1 \/ pc = "panicked"
      BY <1>2 DEF TypeOK, IInv, OneQueue
    <3>3. pc # "panicked" => avail[0] = 1
      BY <1>2, <3>1, <3>2 DEF TypeOK, Queues
    <3>4. pc = "panicked" => FALSE
      <4>1. avail[0] <= calls /\ avail[0] \in Nat /\ calls \in Nat
        BY <1>2 DEF TypeOK, IInv, OneQueue, Queues
      <4>2. calls = 1
        BY <3>1, <4>1
      <4> QED BY <4>2, QueueAssumption DEF IInv, Calling, OnlyKnownPanics
    <3>5. pc = "reread" => seen = 1
      BY DEF IInv, Calling
    <3>6. seen # 1
      BY <1>1, <2>3 DEF IInv, OneQueue
    <3> QED BY <3>1, <3>3, <3>4, <3>5, <3>6
  <2> QED BY <1>1, <1>4, <2>2, <2>3, <2>4 DEF IInv, OneQueue
<1> QED BY <1>3, <1>5, <1>6, <1>7, <1>8 DEF IInv

-----------------------------------------------------------------------------
(* The driver                                                              *)

\* Before the request is in the queue, the device has nothing to do.
LEMMA NotInFlight ==
    ASSUME IInv, ~Flight
    PROVE  \A q \in Queues : Idle(q) /\ dev[q] # "read" /\ dev[q] # "serve"
BY DEF IInv, Outstanding, Idle

\* A step of the driver that changes no more than where it is, what it has
\* seen, and the interrupt.
LEMMA DriverFrame ==
    ASSUME IInv, Flight' <=> Flight, pc' \notin {"desc", "ring", "idx"},
           UNCHANGED <<op, calls, desc, avail, used, dev, last, at, chain>>
    PROVE  Outstanding' /\ Chains'
<1>1. Outstanding'
  BY DEF IInv, Outstanding, Idle, Waiting, Taken
<1>2. Chains'
  BY DEF IInv, Chains, Described
<1> QED BY <1>1, <1>2

\* A driver is set up.
LEMMA New ==
    ASSUME IInv, new
    PROVE  IInv'
<1>1. /\ pc = "new" /\ pc' \in {"idle", "panicked"}
      /\ UNCHANGED <<device, masked, op, calls, k, seen, irq, desc, avail, used, status, awake, dev, last, at, chain>>
  BY DEF new, dvars
<1>2. seen = 0 /\ calls = 0
  BY <1>1 DEF IInv, Calling
<1>3. TypeOK'
  BY <1>1 DEF IInv, TypeOK
<1>4. ~Flight /\ ~Flight'
  BY <1>1, <1>2 DEF Flight
<1>5. Outstanding' /\ Chains'
  BY <1>1, <1>4, DriverFrame
<1>6. Calling'
  BY <1>1, <1>2 DEF IInv, Calling, OnlyKnownPanics
<1>7. OneQueue'
  BY <1>1 DEF IInv, OneQueue
<1> QED BY <1>3, <1>5, <1>6, <1>7 DEF IInv

\* A call begins.
LEMMA Call ==
    ASSUME IInv, NEW o \in Ops, call(o)
    PROVE  IInv'
<1>1. /\ pc = "idle" /\ o.device = device /\ calls < MaxCalls
      /\ op' = o /\ calls' = calls + 1 /\ k' = 0 /\ seen' = 0 /\ pc' = "desc"
      /\ UNCHANGED <<device, masked, irq, desc, avail, used, status, awake, dev, last, at, chain>>
  BY DEF call, dvars
<1>2. TypeOK /\ calls \in Nat
  BY DEF IInv, TypeOK
<1>3. TypeOK'
  BY <1>1, <1>2, QueueAssumption DEF TypeOK
<1>4. ~Flight /\ ~Flight'
  BY <1>1 DEF Flight
<1>5. \A q \in Queues : Idle(q) /\ dev[q] # "read" /\ dev[q] # "serve"
  BY <1>4, NotInFlight
<1>6. Outstanding'
  BY <1>1, <1>4, <1>5 DEF Outstanding, Idle
<1>7. Chains'
  <2>1. Len(o.descs) \in 1 .. 3
    BY Operation, Zenon
  <2>2. k' < Len(op'.descs) /\ Described(k)'
    <3>1. 0 < Len(o.descs)
      <4>1. \A n \in 1 .. 3 : 0 < n
        OBVIOUS
      <4> QED BY <2>1, <4>1, Zenon
    <3>2. 0 .. 0 - 1 = {}
      OBVIOUS
    <3> QED BY <1>1, <3>1, <3>2 DEF Described
  <2> QED BY <1>1, <1>4, <1>5, <2>2 DEF Chains
<1>8. Calling'
  BY <1>1, <1>2 DEF Calling, OnlyKnownPanics
<1>9. OneQueue'
  <2>1. device # "net" => avail[0] = calls
    BY <1>1 DEF IInv, OneQueue
  <2>2. device # "net" /\ calls' < 2 => calls = 0 /\ status # 1 /\ dev[0] = "idle"
    BY <1>1, <1>2, <2>1 DEF IInv, OneQueue
  <2> QED BY <1>1, <1>2, <2>1, <2>2 DEF IInv, OneQueue
<1> QED BY <1>3, <1>6, <1>7, <1>8, <1>9 DEF IInv

\* A call writes a descriptor.
LEMMA Describe ==
    ASSUME IInv, describe
    PROVE  IInv'
<1> DEFINE w == Written(op, calls)
           n == Len(op.descs)
           Q == op.queue
<1>1. /\ pc = "desc" /\ desc' = [desc EXCEPT ![Q][k] = w[k + 1]] /\ k' = k + 1
      /\ pc' = IF k' = n THEN "ring" ELSE "desc"
      /\ UNCHANGED <<device, masked, op, calls, seen, irq, avail, used, status, awake, dev, last, at, chain>>
  BY DEF describe, dvars
<1>2. TypeOK
  BY DEF IInv
<1>3. /\ op \in Ops /\ calls \in 0 .. MaxCalls /\ k \in 0 .. 3
      /\ desc \in [Queues -> [0 .. 2 -> Descriptors]]
  BY <1>2 DEF TypeOK
<1>4. n \in 1 .. 3 /\ Q \in Queues
  BY <1>3, Operation, Zenon
<1>5. k < n /\ Described(k)
  BY <1>1 DEF IInv, Chains
<1>6. \A i \in 1 .. n : w[i] \in Descriptors
  BY <1>3, WrittenChain
<1> HIDE DEF w, n, Q
<1>7. k \in 0 .. 2 /\ k + 1 \in 1 .. n /\ w[k + 1] \in Descriptors
  BY <1>3, <1>4, <1>5, <1>6
<1>8. desc' \in [Queues -> [0 .. 2 -> Descriptors]]
  BY <1>1, <1>3, <1>4, <1>7
<1>9. TypeOK'
  BY <1>1, <1>2, <1>7, <1>8 DEF TypeOK
<1>10. ~Flight /\ ~Flight'
  BY <1>1 DEF Flight
<1>11. \A q \in Queues : Idle(q) /\ dev[q] # "read" /\ dev[q] # "serve"
  BY <1>10, NotInFlight
<1>12. Outstanding'
  BY <1>1, <1>10, <1>11 DEF Outstanding, Idle
<1>13. Described(k)'
  <2>1. w' = w /\ Q' = Q
    BY <1>1 DEF w, Q, Written
  <2>2. \A i \in 0 .. k' - 1 : desc'[Q][i] = w[i + 1]
    <3> SUFFICES ASSUME NEW i \in 0 .. k PROVE desc'[Q][i] = w[i + 1]
      BY <1>1, <1>3
    <3>1. i \in 0 .. 2
      BY <1>7
    <3>2. desc'[Q][i] = IF i = k THEN w[k + 1] ELSE desc[Q][i]
      BY <1>1, <1>3, <1>4, <1>7, <3>1
    <3>3. i # k => desc[Q][i] = w[i + 1]
      <4>1. i # k => i \in 0 .. k - 1
        BY <1>3
      <4> QED BY <1>5, <4>1 DEF Described, Q, w
    <3> QED BY <3>2, <3>3
  <2> QED BY <1>1, <2>1, <2>2 DEF Described, w, Q
<1>14. Chains'
  <2>1. n' = n
    BY <1>1 DEF n
  <2>2. pc' = "desc" => k' < n'
    BY <1>1, <1>3, <1>4, <1>5, <2>1
  <2>3. pc' = "ring" => k' = n'
    BY <1>1, <2>1
  <2>4. pc' # "idx"
    BY <1>1
  <2>5. \A q \in Queues : dev'[q] # "read" /\ dev'[q] # "serve"
    BY <1>1, <1>11
  <2>6. pc' = "ring" => Described(Len(op.descs))'
    BY <1>13, <2>3 DEF Described, n
  <2> QED BY <1>10, <1>13, <2>2, <2>4, <2>5, <2>6 DEF Chains, n
<1>15. Calling'
  BY <1>1 DEF IInv, Calling, OnlyKnownPanics
<1>16. OneQueue'
  BY <1>1 DEF IInv, OneQueue
<1> QED BY <1>9, <1>12, <1>14, <1>15, <1>16 DEF IInv

\* A call puts its chain into the available ring.
LEMMA SetRing ==
    ASSUME IInv, set_ring
    PROVE  IInv'
<1>1. /\ pc = "ring"
      /\ pc' = IF op.modulo \/ avail[op.queue] < RingLen THEN "idx" ELSE "panicked"
      /\ UNCHANGED <<device, masked, op, calls, k, seen, irq, desc, avail, used, status, awake, dev, last, at, chain>>
  BY DEF set_ring, dvars
<1>2. TypeOK /\ op \in Ops /\ calls \in Nat /\ avail \in [Queues -> 0 .. IdxMod - 1]
  BY DEF IInv, TypeOK
<1>3. TypeOK'
  BY <1>1, <1>2 DEF TypeOK
<1>4. seen = 0 /\ ~Flight /\ ~Flight'
  BY <1>1 DEF IInv, Calling, Flight
<1>5. Outstanding' /\ Chains'
  <2>1. Outstanding'
    BY <1>1, <1>4 DEF IInv, Outstanding, Idle
  <2>2. Chains'
    BY <1>1, <1>4 DEF IInv, Chains, Described
  <2> QED BY <2>1, <2>2
<1>6. pc' = "panicked" => device # "net" /\ op.queue = 0 /\ avail[0] = RingLen /\ calls = RingLen + 1
  <2> SUFFICES ASSUME ~op.modulo, ~(avail[op.queue] < RingLen)
               PROVE  device # "net" /\ op.queue = 0 /\ avail[0] = RingLen /\ calls = RingLen + 1
    BY <1>1
  <2>1. op.device # "net" /\ op.queue = 0 /\ op.device = device
    BY <1>2, Operation DEF IInv, Calling
  <2>2. avail[0] <= RingLen /\ avail[0] = calls - 1 /\ avail[0] \in Nat
    BY <1>1, <1>2, <2>1 DEF IInv, OneQueue, Queues
  <2> QED BY <1>2, <2>1, <2>2, QueueAssumption
<1>7. Calling'
  BY <1>1, <1>6 DEF IInv, Calling, OnlyKnownPanics
<1>8. OneQueue'
  BY <1>1 DEF IInv, OneQueue
<1> QED BY <1>3, <1>5, <1>7, <1>8 DEF IInv

\* A call advances the available index.
LEMMA Publish ==
    ASSUME IInv, publish
    PROVE  IInv'
<1> DEFINE Q == op.queue
<1>1. /\ pc = "idx" /\ pc' = "notify"
      /\ avail' = [avail EXCEPT ![Q] = IF op.modulo THEN (avail[Q] + 1) % IdxMod ELSE avail[Q] + 1]
      /\ UNCHANGED <<device, masked, op, calls, k, seen, irq, desc, used, status, awake, dev, last, at, chain>>
  BY DEF publish, dvars
<1>2. TypeOK /\ op \in Ops /\ calls \in Nat /\ avail \in [Queues -> 0 .. IdxMod - 1]
  BY DEF IInv, TypeOK
<1>3. Q \in Queues
  BY <1>2, Operation
<1>4. ~Flight /\ Flight'
  BY <1>1 DEF Flight
<1>5. \A q \in Queues : Idle(q) /\ dev[q] # "read" /\ dev[q] # "serve"
  BY <1>4, NotInFlight
<1>6. avail[Q] \in 0 .. IdxMod - 1 /\ (op.modulo \/ avail[Q] < RingLen)
  BY <1>1, <1>2, <1>3 DEF IInv, Calling
<1> HIDE DEF Q
<1>7. avail'[Q] = (avail[Q] + 1) % IdxMod /\ avail'[Q] \in 0 .. IdxMod - 1
  <2>1. /\ (avail[Q] + 1) % IdxMod = IF avail[Q] + 1 = IdxMod THEN 0 ELSE avail[Q] + 1
        /\ (avail[Q] + 1) % IdxMod \in 0 .. IdxMod - 1
    BY <1>6, Succ
  <2>2. ~op.modulo => avail[Q] + 1 # IdxMod
    BY <1>6, QueueAssumption
  <2> QED BY <1>1, <1>2, <1>3, <2>1, <2>2
<1>8. avail' \in [Queues -> 0 .. IdxMod - 1] /\ \A q \in Queues \ {Q} : avail'[q] = avail[q]
  BY <1>1, <1>2, <1>3, <1>7
<1>9. TypeOK'
  BY <1>1, <1>2, <1>8 DEF TypeOK
<1>10. Outstanding'
  <2>1. Waiting(Q)'
    BY <1>1, <1>3, <1>5, <1>7 DEF Waiting, Idle, Q
  <2>2. \A q \in Queues \ {Q} : Idle(q)'
    BY <1>1, <1>5, <1>8 DEF Idle
  <2> QED BY <1>1, <1>4, <2>1, <2>2 DEF Outstanding, Q, Waiting
<1>11. Chains'
  <2>1. Described(Len(op.descs))'
    BY <1>1 DEF IInv, Chains, Described
  <2> QED BY <1>1, <1>5, <2>1 DEF Chains
<1>12. Calling'
  BY <1>1 DEF IInv, Calling, OnlyKnownPanics
<1>13. OneQueue'
  <2> SUFFICES ASSUME device # "net" PROVE OneQueue'
    BY <1>1 DEF OneQueue
  <2>1. op.device # "net" /\ Q = 0 /\ ~op.modulo
    BY <1>2, Operation DEF IInv, Calling, Q
  <2>2. avail[0] = calls - 1 /\ avail[0] < RingLen /\ avail[0] \in Nat /\ dev[1] = "idle"
    BY <1>1, <1>6, <2>1 DEF IInv, OneQueue
  <2>3. avail'[0] = avail[0] + 1
    BY <1>1, <1>2, <1>3, <2>1
  <2>4. avail'[0] = calls /\ avail'[0] <= RingLen
    BY <1>2, <2>2, <2>3, QueueAssumption
  <2>5. calls < 2 => avail[0] = 0
    BY <1>2, <2>2
  <2>6. calls < 2 => dev[0] = "idle" /\ status # 1 /\ seen # 1
    BY <2>5 DEF IInv, OneQueue
  <2>7. calls < 2 => avail'[0] # 0
    BY <2>2, <2>3
  <2> QED BY <1>1, <1>2, <2>2, <2>4, <2>6, <2>7 DEF OneQueue
<1> QED BY <1>9, <1>10, <1>11, <1>12, <1>13 DEF IInv

\* A call notifies the device and enables its interrupt.
LEMMA NotifyEnable ==
    ASSUME IInv, notify \/ enable
    PROVE  IInv'
<1>1. /\ pc \in {"notify", "enable"} /\ pc' \in {"enable", "wait"}
      /\ UNCHANGED <<device, masked, op, calls, k, seen, desc, avail, used, status, dev, last, at, chain>>
  BY DEF notify, enable, dvars
<1>2. TypeOK /\ op \in Ops
  BY DEF IInv, TypeOK
<1>3. TypeOK'
  <2>1. op.queue \in Queues
    BY <1>2, Operation
  <2>2. awake' \in [Queues -> BOOLEAN] /\ irq' \in BOOLEAN
    BY <1>2, <2>1 DEF TypeOK, notify, enable
  <2> QED BY <1>1, <1>2, <2>2 DEF TypeOK
<1>4. Flight /\ Flight'
  BY <1>1 DEF Flight
<1>5. Outstanding' /\ Chains'
  BY <1>1, <1>4, DriverFrame
<1>6. Calling'
  BY <1>1 DEF IInv, Calling, OnlyKnownPanics
<1>7. OneQueue'
  BY <1>1 DEF IInv, OneQueue
<1> QED BY <1>3, <1>5, <1>6, <1>7 DEF IInv

\* A call looks at the used index.
LEMMA Poll ==
    ASSUME IInv, poll
    PROVE  IInv'
<1>1. /\ pc = "wait"
      /\ pc' = IF used[op.queue] = avail[op.queue] THEN "disable"
               ELSE IF op.ack = "none" THEN "wait" ELSE "status"
      /\ UNCHANGED <<device, masked, op, calls, k, seen, irq, desc, avail, used, status, awake, dev, last, at, chain>>
  BY DEF poll, dvars
<1>2. TypeOK /\ op \in Ops /\ op.queue \in Queues
  BY Operation DEF IInv, TypeOK
<1>3. TypeOK'
  BY <1>1, <1>2 DEF TypeOK
<1>4. Flight
  BY <1>1 DEF Flight
<1>5. Outstanding' /\ Chains'
  <2>1. CASE used[op.queue] = avail[op.queue]
    <3>1. Idle(op.queue)
      BY <1>2, <1>4, <2>1, Unequal DEF IInv, Outstanding
    <3>2. \A q \in Queues : Idle(q)
      BY <1>2, <3>1 DEF IInv, Outstanding
    <3>3. ~Flight'
      BY <1>1, <2>1 DEF Flight
    <3>4. Outstanding'
      BY <1>1, <3>2, <3>3 DEF Outstanding, Idle
    <3>5. Chains'
      BY <1>1, <2>1, <3>2, <3>3 DEF Chains, Idle
    <3> QED BY <3>4, <3>5
  <2>2. CASE used[op.queue] # avail[op.queue]
    <3>1. Flight' /\ pc' \notin {"desc", "ring", "idx"}
      BY <1>1, <2>2 DEF Flight
    <3> QED BY <1>1, <1>4, <3>1, DriverFrame
  <2> QED BY <2>1, <2>2
<1>6. Calling'
  BY <1>1 DEF IInv, Calling, OnlyKnownPanics
<1>7. OneQueue'
  BY <1>1 DEF IInv, OneQueue
<1> QED BY <1>3, <1>5, <1>6, <1>7 DEF IInv

\* A call reads the interrupt status.
LEMMA ReadStatus ==
    ASSUME IInv, read_status
    PROVE  IInv'
<1>1. /\ pc = "status" /\ seen' = status /\ pc' = IF status # 0 THEN "ack" ELSE "wait"
      /\ UNCHANGED <<device, masked, op, calls, k, irq, desc, avail, used, status, awake, dev, last, at, chain>>
  BY DEF read_status, dvars
<1>2. TypeOK /\ status \in {0, 1}
  BY DEF IInv, TypeOK
<1>3. TypeOK'
  BY <1>1, <1>2 DEF TypeOK
<1>4. Flight /\ Flight'
  BY <1>1 DEF Flight
<1>5. Outstanding' /\ Chains'
  BY <1>1, <1>4, DriverFrame
<1>6. Calling'
  BY <1>1, <1>2 DEF IInv, Calling, OnlyKnownPanics
<1>7. OneQueue'
  BY <1>1, <1>2 DEF IInv, OneQueue
<1> QED BY <1>3, <1>5, <1>6, <1>7 DEF IInv

\* A call acknowledges the interrupt.
LEMMA Ack ==
    ASSUME IInv, ack
    PROVE  IInv'
<1>1. /\ pc = "ack" /\ status' = 0 /\ pc' = IF op.ack = "checked" THEN "reread" ELSE "wait"
      /\ UNCHANGED <<device, masked, op, calls, k, seen, irq, desc, avail, used, awake, dev, last, at, chain>>
  BY DEF ack, dvars
<1>2. TypeOK
  BY DEF IInv
<1>3. TypeOK'
  BY <1>1, <1>2 DEF TypeOK
<1>4. Flight /\ Flight'
  BY <1>1 DEF Flight
<1>5. Outstanding' /\ Chains'
  BY <1>1, <1>4, DriverFrame
<1>6. Calling'
  BY <1>1, <1>2 DEF IInv, Calling, OnlyKnownPanics
<1>7. OneQueue'
  BY <1>1, <1>2 DEF IInv, OneQueue
<1> QED BY <1>3, <1>5, <1>6, <1>7 DEF IInv

\* A call checks that the status was cleared.
LEMMA Reread ==
    ASSUME IInv, reread
    PROVE  IInv'
<1>1. /\ pc = "reread" /\ pc' = IF status = seen THEN "panicked" ELSE "wait"
      /\ UNCHANGED <<device, masked, op, calls, k, seen, irq, desc, avail, used, status, awake, dev, last, at, chain>>
  BY DEF reread, dvars
<1>2. TypeOK /\ op \in Ops /\ calls \in Nat
  BY DEF IInv, TypeOK
<1>3. TypeOK'
  BY <1>1, <1>2 DEF TypeOK
<1>4. seen = 1 /\ op.ack = "checked" /\ calls > 0
  BY <1>1 DEF IInv, Calling
<1>5. Flight /\ Flight'
  BY <1>1, <1>4 DEF Flight
<1>6. Outstanding' /\ Chains'
  BY <1>1, <1>5, DriverFrame
<1>7. pc' = "panicked" => status = 1 /\ calls > 1
  <2> SUFFICES ASSUME status = seen PROVE status = 1 /\ calls > 1
    BY <1>1
  <2>1. device # "net"
    BY <1>2, <1>4, Operation DEF IInv, Calling
  <2>2. ~(calls < 2)
    BY <1>1, <1>4, <2>1 DEF IInv, OneQueue
  <2> QED BY <1>2, <1>4, <2>2
<1>8. Calling'
  BY <1>1, <1>4, <1>7 DEF IInv, Calling, OnlyKnownPanics
<1>9. OneQueue'
  BY <1>1 DEF IInv, OneQueue
<1> QED BY <1>3, <1>6, <1>8, <1>9 DEF IInv

\* A call disables the interrupt and returns.
LEMMA Disable ==
    ASSUME IInv, disable
    PROVE  IInv'
<1>1. /\ pc = "disable" /\ irq' = FALSE /\ pc' = "idle"
      /\ UNCHANGED <<device, masked, op, calls, k, seen, desc, avail, used, status, awake, dev, last, at, chain>>
  BY DEF disable, dvars
<1>2. TypeOK'
  BY <1>1 DEF IInv, TypeOK
<1>3. ~Flight /\ ~Flight'
  BY <1>1 DEF Flight
<1>4. Outstanding' /\ Chains'
  BY <1>1, <1>3, DriverFrame
<1>5. Calling'
  BY <1>1 DEF IInv, Calling, OnlyKnownPanics
<1>6. OneQueue'
  BY <1>1 DEF IInv, OneQueue
<1> QED BY <1>2, <1>4, <1>5, <1>6 DEF IInv

-----------------------------------------------------------------------------
(* The theorems                                                            *)

\* No driver is set up at first.
LEMMA InitInv == Init => IInv
<1> SUFFICES ASSUME Init PROVE IInv
  OBVIOUS
<1>0. 0 \in 0 .. IdxMod - 1 /\ 0 \in 0 .. MaxCalls
  BY QueueAssumption
<1>1. TypeOK
  <2>1. Empty \in Descriptors /\ <<>> \in Seq(Descriptors)
    BY <1>0 DEF Empty, Descriptors
  <2>2. desc \in [Queues -> [0 .. 2 -> Descriptors]]
    BY <2>1 DEF Init
  <2>3. chain \in [Queues -> Seq(Descriptors)]
    BY <2>1 DEF Init
  <2>4. op \in Ops
    BY DEF Init
  <2>5. /\ avail \in [Queues -> 0 .. IdxMod - 1] /\ used \in [Queues -> 0 .. IdxMod - 1]
        /\ last \in [Queues -> 0 .. IdxMod - 1] /\ at \in [Queues -> 0 .. 2]
    BY <1>0 DEF Init
  <2>6. awake \in [Queues -> BOOLEAN] /\ dev \in [Queues -> {"idle", "read", "serve", "raise"}]
    BY DEF Init
  <2>7. /\ pc = "new" /\ calls \in 0 .. MaxCalls /\ k \in 0 .. 3 /\ seen \in {0, 1} /\ status \in {0, 1}
    BY <1>0 DEF Init
  <2>8. device \in {"blk", "entropy", "net"} /\ masked \in BOOLEAN /\ irq \in BOOLEAN
    BY Zenon DEF Init
  <2> QED BY <2>2, <2>3, <2>4, <2>5, <2>6, <2>7, <2>8, Zenon DEF TypeOK
<1>2. ~Flight
  BY DEF Init, Flight
<1>3. Outstanding /\ Chains
  BY <1>2 DEF Init, Outstanding, Idle, Chains
<1>4. Calling
  BY DEF Init, Calling, OnlyKnownPanics
<1>5. OneQueue
  BY QueueAssumption DEF Init, OneQueue, Queues
<1> QED BY <1>1, <1>3, <1>4, <1>5 DEF IInv

\* Every step preserves the invariant.
LEMMA NextInv == IInv /\ [Next]_vars => IInv'
<1> SUFFICES ASSUME IInv, [Next]_vars PROVE IInv'
  OBVIOUS
<1>1. CASE UNCHANGED vars
  <2>1. UNCHANGED <<device, masked, pc, op, calls, k, seen, irq, desc, avail, used, status, awake,
                    dev, last, at, chain>>
    BY <1>1 DEF vars, driver, dvars
  <2>2. TypeOK' /\ Calling' /\ OneQueue'
    BY <2>1 DEF IInv, TypeOK, Calling, OnlyKnownPanics, OneQueue
  <2>3. Outstanding' /\ Chains'
    BY <2>1 DEF IInv, Outstanding, Flight, Idle, Waiting, Taken, Chains, Described
  <2> QED BY <2>2, <2>3 DEF IInv
<1>2. CASE new
  BY <1>2, New
<1>3. CASE Driver
  <2>1. CASE describe
    BY <2>1, Describe
  <2>2. CASE set_ring
    BY <2>2, SetRing
  <2>3. CASE publish
    BY <2>3, Publish
  <2>4. CASE notify \/ enable
    BY <2>4, NotifyEnable
  <2>5. CASE poll
    BY <2>5, Poll
  <2>6. CASE read_status
    BY <2>6, ReadStatus
  <2>7. CASE ack
    BY <2>7, Ack
  <2>8. CASE reread
    BY <2>8, Reread
  <2>9. CASE disable
    BY <2>9, Disable
  <2> QED BY <1>3, <2>1, <2>2, <2>3, <2>4, <2>5, <2>6, <2>7, <2>8, <2>9 DEF Driver
<1>4. CASE \E o \in Ops : call(o)
  BY <1>4, Call
<1>5. ASSUME NEW q \in Queues, dev_take(q) \/ dev_sleep(q) \/ dev_read(q) \/ dev_serve(q) \/ dev_raise(q)
      PROVE  IInv'
  BY <1>5, DevTake, DevSleep, DevRead, DevServe, DevRaise
<1> QED BY <1>1, <1>2, <1>3, <1>4, <1>5 DEF Next

\* The driver and the device keep to the types, and never have more than the
\* request of the call under way between them.
THEOREM Invariance == Spec => []IInv
<1>1. Init => IInv
  BY InitInv
<1>2. IInv /\ [Next]_vars => IInv'
  BY NextInv
<1> QED BY <1>1, <1>2, PTL DEF Spec

\* When the device goes to the buffers, they are those of the call that is
\* waiting for it, all of them and no others, however its steps fall between
\* those of the driver and however often the index has wrapped.
THEOREM BuffersRight == Spec => []OnlyTheCallsBuffers
<1>1. ASSUME IInv PROVE OnlyTheCallsBuffers
  <2> SUFFICES ASSUME NEW q \in Queues, dev[q] = "serve"
               PROVE  /\ pc \in {"notify", "enable", "wait", "status", "ack", "reread", "panicked"}
                      /\ op.queue = q /\ chain[q] = Written(op, calls)
    BY DEF OnlyTheCallsBuffers
  <2>1. Flight /\ op.queue = q
    BY <1>1 DEF IInv, Outstanding, Idle
  <2> QED BY <1>1, <2>1 DEF IInv, Chains, Flight
<1> QED BY <1>1, Invariance, PTL

\* A driver panics only in three ways: the features are refused, the ring is
\* full and the index not reduced, or an interrupt follows right on one that an
\* earlier call left.
THEOREM PanicsKnown == Spec => []OnlyKnownPanics
<1>1. IInv => OnlyKnownPanics
  BY DEF IInv, Calling
<1> QED BY <1>1, Invariance, PTL

-----------------------------------------------------------------------------
(* UART::read_line: the line that is read is the one that was typed.  What *)
(* the keys say is a recursive function of them, so that its equation has  *)
(* to be shown by induction on their number (Upward).                      *)

\* What has the first number and, with a number, the next, has all numbers up to n.
LEMMA Upward ==
  ASSUME NEW n \in Nat, NEW T, 0 \in T, \A i \in 0 .. n - 1 : i \in T => i + 1 \in T
  PROVE  0 .. n \subseteq T
<1> DEFINE R == OpToRel(<, Nat)
           B == (0 .. n) \ T
<1> SUFFICES ASSUME B # {} PROVE FALSE
  OBVIOUS
<1>1. IsWellFoundedOn(R, Nat)
  BY NatLessThanWellFounded
<1>2. \A x, y \in Nat : <<y, x>> \in R <=> y < x
  BY DEF OpToRel
<1>3. B \in SUBSET Nat
  OBVIOUS
<1>4. PICK x \in B : \A y \in B : ~(<<y, x>> \in R)
  <2> HIDE DEF R, B
  <2> QED BY <1>1, <1>3, WFMin
<1> HIDE DEF R
<1>5. x \in Nat /\ x # 0 /\ x - 1 \in 0 .. n - 1 /\ (x - 1) + 1 = x /\ x - 1 < x /\ x - 1 \in Nat
  OBVIOUS
<1>6. x - 1 \notin B
  BY <1>2, <1>4, <1>5
<1> QED BY <1>5, <1>6

NoText == [text |-> <<>>, idle |-> 0]

\* f is the text after each of the first n keys of s.
Edits(f, s, n) == f = [i \in 0 .. n |-> IF i = 0 THEN NoText ELSE edit(f[i - 1], s[i])]

LEMMA EditsExist ==
  ASSUME NEW s, NEW n \in Nat
  PROVE  \E f : Edits(f, s, n)
<1> DEFINE T == {m \in Nat : \E f : Edits(f, s, m)}
<1>1. 0 \in T
  <2>1. Edits([i \in 0 .. 0 |-> NoText], s, 0)
    BY DEF Edits
  <2> QED BY <2>1
<1>2. ASSUME NEW i \in 0 .. n - 1, i \in T PROVE i + 1 \in T
  <2>1. PICK f : Edits(f, s, i)
    BY <1>2
  <2> DEFINE g == [j \in 0 .. i + 1 |-> IF j = i + 1 THEN edit(f[i], s[i + 1]) ELSE f[j]]
  <2>2. \A j \in 0 .. i : f[j] = IF j = 0 THEN NoText ELSE edit(f[j - 1], s[j])
    BY <2>1 DEF Edits
  <2>3. ASSUME NEW j \in 0 .. i + 1 PROVE g[j] = IF j = 0 THEN NoText ELSE edit(g[j - 1], s[j])
    <3>1. CASE j = i + 1
      <4>1. j # 0 /\ j - 1 = i /\ i \in 0 .. i + 1 /\ i # i + 1
        BY <3>1
      <4>2. g[i] = f[i] /\ g[j] = edit(f[i], s[i + 1])
        BY <3>1, <4>1
      <4> QED BY <3>1, <4>1, <4>2
    <3>2. CASE j # i + 1
      <4>1. j \in 0 .. i /\ g[j] = f[j]
        BY <3>2
      <4>2. j # 0 => g[j - 1] = f[j - 1]
        BY <4>1
      <4> QED BY <2>2, <4>1, <4>2
    <3> QED BY <3>1, <3>2
  <2>4. g = [j \in 0 .. i + 1 |-> g[j]]
    OBVIOUS
  <2>5. Edits(g, s, i + 1)
    <3> HIDE DEF g
    <3> QED BY <2>3, <2>4 DEF Edits
  <2> QED BY <2>5
<1> HIDE DEF T
<1>3. 0 .. n \subseteq T
  BY <1>1, <1>2, Upward
<1> QED BY <1>3 DEF T

\* Edit takes the keys one by one.
LEMMA EditsAre ==
  ASSUME NEW s \in Seq(Key)
  PROVE  \E f : Edits(f, s, Len(s)) /\ Edit(s) = f[Len(s)]
<1> DEFINE P(f) == f = [i \in 0 .. Len(s) |->
                          IF i = 0 THEN [text |-> <<>>, idle |-> 0] ELSE edit(f[i - 1], s[i])]
           g == CHOOSE f : P(f)
<1>1. \E f : P(f)
  <2>1. PICK f : Edits(f, s, Len(s))
    BY EditsExist
  <2> QED BY <2>1 DEF Edits, NoText
<1>2. P(g)
  <2> HIDE DEF P
  <2> QED BY <1>1
<1>3. Edit(s) = g[Len(s)]
  BY DEF Edit
<1>4. Edits(g, s, Len(s))
  <2> HIDE DEF g
  <2> QED BY <1>2 DEF Edits, NoText
<1> HIDE DEF g
<1> QED BY <1>3, <1>4

LEMMA EditNothing == Edit(<<>>) = NoText
<1>1. <<>> \in Seq(Key) /\ Len(<<>>) = 0
  OBVIOUS
<1>2. PICK f : Edits(f, <<>>, 0) /\ Edit(<<>>) = f[0]
  BY <1>1, EditsAre
<1>3. f[0] = NoText
  BY <1>2 DEF Edits
<1> QED BY <1>2, <1>3

LEMMA EditMore ==
  ASSUME NEW s \in Seq(Key), NEW key \in Key
  PROVE  Edit(Append(s, key)) = edit(Edit(s), key)
<1> DEFINE r == Append(s, key)
           n == Len(s)
<1>1. r \in Seq(Key) /\ Len(r) = n + 1 /\ n \in Nat /\ r[n + 1] = key /\ \A i \in 1 .. n : r[i] = s[i]
  OBVIOUS
<1> HIDE DEF r
<1>2. PICK f : Edits(f, s, n) /\ Edit(s) = f[n]
  BY EditsAre
<1>3. PICK g : Edits(g, r, n + 1) /\ Edit(r) = g[n + 1]
  BY <1>1, EditsAre
<1> HIDE DEF n
<1>4. \A i \in 0 .. n : f[i] = IF i = 0 THEN NoText ELSE edit(f[i - 1], s[i])
  BY <1>2 DEF Edits
<1>5. \A i \in 0 .. n + 1 : g[i] = IF i = 0 THEN NoText ELSE edit(g[i - 1], r[i])
  BY <1>3 DEF Edits
<1> DEFINE T == {i \in 0 .. n : f[i] = g[i]}
<1>6. 0 \in T
  BY <1>1, <1>4, <1>5
<1>7. ASSUME NEW i \in 0 .. n - 1, i \in T PROVE i + 1 \in T
  <2>1. i + 1 \in 1 .. n /\ i + 1 \in 0 .. n /\ i + 1 \in 0 .. n + 1 /\ i + 1 # 0 /\ (i + 1) - 1 = i
    BY <1>1
  <2>2. f[i + 1] = edit(f[i], s[i + 1]) /\ g[i + 1] = edit(g[i], r[i + 1])
    BY <1>4, <1>5, <2>1
  <2>3. f[i] = g[i] /\ r[i + 1] = s[i + 1]
    BY <1>1, <1>7, <2>1
  <2>4. f[i + 1] = g[i + 1]
    BY <2>2, <2>3
  <2> QED BY <2>1, <2>4
<1> HIDE DEF T
<1>8. 0 .. n \subseteq T
  BY <1>1, <1>6, <1>7, Upward
<1>9. f[n] = g[n]
  BY <1>1, <1>8 DEF T
<1>10. g[n + 1] = edit(g[n], key)
  <2>1. n + 1 \in 0 .. n + 1 /\ n + 1 # 0 /\ (n + 1) - 1 = n
    BY <1>1
  <2> QED BY <1>1, <1>5, <2>1
<1> QED BY <1>2, <1>3, <1>9, <1>10 DEF r

\* A key more, and a key less, on the screen behind the prompt
LEMMA ShowMore ==
  ASSUME NEW S, NEW t \in Seq(S), NEW x \in S
  PROVE  Append(<<"prompt">> \o t, x) = <<"prompt">> \o Append(t, x)
OBVIOUS

LEMMA ShowLess ==
  ASSUME NEW S, NEW t \in Seq(S), NEW n \in Nat, Len(t) = n + 1
  PROVE  LET s == <<"prompt">> \o t IN SubSeq(s, 1, Len(s) - 1) = <<"prompt">> \o SubSeq(t, 1, n)
OBVIOUS

\* Where read_line waits for a key
InLoop == rd \in {"byte", "check", "wfi", "take"}
\* What the buffer holds
Text == SubSeq(buf, 1, count)
\* The deletions of an empty line
Vain == Edit(taken).idle

LineTypes ==
    /\ rd \in {"idle", "byte", "check", "wfi", "take", "return", "returned", "panic"}
    /\ fifo \in Seq(Key) /\ taken \in Seq(Key) /\ echo \in BOOLEAN
    /\ buf \in [1 .. BufLen -> Char \cup {"zero"}]
    /\ count \in 0 .. BufLen /\ max_len \in Nat

\* What was taken so far was put into the line, there is room in the loop, and a
\* key is taken only if there is one.
LineInv ==
    /\ LineTypes
    /\ rd = "idle" => taken = <<>> /\ screen = <<"prompt">>
    /\ rd = "take" => fifo # <<>>
    /\ InLoop => /\ max_len > 0 /\ count + max_len = BufLen + Vain
                 /\ screen = <<"prompt">> \o (IF echo THEN Text ELSE <<>>)
    /\ InLoop \/ rd \in {"return", "returned"} =>
          Vain \in Nat /\ Edit(taken) = [text |-> Text, idle |-> Vain]
    /\ rd = "panic" => Vain > 0

LEMMA NothingReadInv == NothingRead => LineInv
<1> SUFFICES ASSUME NothingRead PROVE LineInv
  OBVIOUS
<1>1. LineTypes
  <2>1. /\ rd \in {"idle", "byte", "check", "wfi", "take", "return", "returned", "panic"}
        /\ fifo \in Seq(Key) /\ taken \in Seq(Key) /\ count \in 0 .. BufLen /\ max_len \in Nat
    BY LineAssumption DEF NothingRead
  <2>2. echo \in BOOLEAN
    BY DEF NothingRead
  <2>3. buf \in [1 .. BufLen -> Char \cup {"zero"}]
    BY DEF NothingRead
  <2> QED BY <2>1, <2>2, <2>3 DEF LineTypes
<1> QED BY <1>1 DEF NothingRead, LineInv, InLoop

LEMMA CallLine == LineInv /\ read_line => LineInv'
<1> SUFFICES ASSUME LineInv, read_line PROVE LineInv'
  OBVIOUS
<1>1. LineTypes'
  BY LineAssumption DEF LineInv, LineTypes, read_line
<1>2. taken' = <<>> /\ screen' = <<"prompt">> /\ rd' = "byte" /\ max_len' = BufLen /\ count' = 0
  BY DEF LineInv, read_line
<1>3. Text' = <<>>
  BY <1>1, <1>2 DEF Text, LineTypes
<1>4. Edit(taken') = [text |-> Text', idle |-> 0]
  BY <1>2, <1>3, EditNothing DEF NoText
<1>5. screen' = <<"prompt">> \o (IF echo' THEN Text' ELSE <<>>)
  BY <1>2, <1>3
<1>6. Vain' = 0
  BY <1>4 DEF Vain
<1>7. InLoop' /\ max_len' > 0 /\ count' + max_len' = BufLen + Vain' /\ Vain' \in Nat
  BY <1>2, <1>6, LineAssumption DEF InLoop
<1> QED BY <1>1, <1>2, <1>4, <1>5, <1>6, <1>7 DEF LineInv

\* The steps that take no key leave the line as it is.
LEMMA Wait ==
  ASSUME LineInv, NEW wired, NEW ticking, read_byte \/ check \/ wfi(wired, ticking) \/ type_key
  PROVE  LineInv'
<1>1. /\ UNCHANGED <<echo, count, max_len, buf, screen, taken>>
      /\ InLoop /\ InLoop' /\ rd' \in {"byte", "check", "wfi", "take"}
      /\ fifo' = fifo \/ (rd' = rd /\ \E key \in Key : fifo' = Append(fifo, key))
      /\ rd' = "take" => rd = "take" \/ fifo' # <<>>
  BY DEF read_byte, check, wfi, type_key, InLoop
<1>2. fifo' \in Seq(Key) /\ (fifo # <<>> => fifo' # <<>>)
  <2>1. fifo \in Seq(Key)
    BY DEF LineInv, LineTypes
  <2>2. ASSUME NEW key \in Key, fifo' = Append(fifo, key) PROVE fifo' \in Seq(Key) /\ fifo' # <<>>
    BY <2>1, <2>2
  <2> QED BY <1>1, <2>1, <2>2
<1>3. LineTypes'
  BY <1>1, <1>2 DEF LineInv, LineTypes
<1>4. Text' = Text /\ Vain' = Vain
  BY <1>1 DEF Text, Vain
<1>5. rd' = "take" => fifo' # <<>>
  BY <1>1, <1>2 DEF LineInv
<1> QED BY <1>1, <1>3, <1>4, <1>5 DEF LineInv, InLoop

\* What is known when a key is taken
LEMMA TakeOne ==
  ASSUME LineInv, Take
  PROVE  /\ Head(fifo) \in Key /\ fifo' \in Seq(Key) /\ taken' \in Seq(Key)
         /\ \E idle \in Nat : /\ Edit(taken) = [text |-> Text, idle |-> idle]
                            /\ Edit(taken') = edit([text |-> Text, idle |-> idle], Head(fifo))
                            /\ count + max_len = BufLen + idle
         /\ max_len > 0 /\ screen = <<"prompt">> \o (IF echo THEN Text ELSE <<>>)
         /\ Text \in Seq(Char \cup {"zero"}) /\ Len(Text) = count
<1>1. rd = "take" /\ InLoop /\ fifo \in Seq(Key) /\ fifo # <<>> /\ taken \in Seq(Key)
  BY DEF LineInv, LineTypes, Take, InLoop
<1>2. Head(fifo) \in Key /\ fifo' \in Seq(Key) /\ taken' \in Seq(Key) /\ taken' = Append(taken, Head(fifo))
  BY <1>1 DEF Take
<1>3. Vain \in Nat /\ Edit(taken) = [text |-> Text, idle |-> Vain] /\ count + max_len = BufLen + Vain
  BY <1>1 DEF LineInv
<1>4. Edit(taken') = edit([text |-> Text, idle |-> Vain], Head(fifo))
  BY <1>1, <1>2, <1>3, EditMore
<1>5. Text \in Seq(Char \cup {"zero"}) /\ Len(Text) = count
  BY LineAssumption DEF LineInv, LineTypes, Text
<1> QED BY <1>1, <1>2, <1>3, <1>4, <1>5 DEF LineInv

LEMMA TakeKey == LineInv /\ take_key => LineInv'
<1> SUFFICES ASSUME LineInv, take_key PROVE LineInv'
  OBVIOUS
<1>1. Take /\ (delete_key \/ print_key) /\ echo' = echo /\ rd' = IF max_len' > 0 THEN "byte" ELSE "return"
  BY DEF take_key
<1>2. /\ Head(fifo) \in Key /\ fifo' \in Seq(Key) /\ taken' \in Seq(Key) /\ echo \in BOOLEAN
      /\ max_len > 0 /\ screen = <<"prompt">> \o (IF echo THEN Text ELSE <<>>)
      /\ Text \in Seq(Char \cup {"zero"}) /\ Len(Text) = count
      /\ buf \in [1 .. BufLen -> Char \cup {"zero"}] /\ count \in 0 .. BufLen /\ max_len \in Nat
  BY <1>1, TakeOne DEF LineInv, LineTypes
<1>3. PICK idle \in Nat : /\ Edit(taken') = edit([text |-> Text, idle |-> idle], Head(fifo))
                          /\ count + max_len = BufLen + idle
  BY <1>1, TakeOne
<1>4. SUFFICES /\ buf' \in [1 .. BufLen -> Char \cup {"zero"}] /\ count' \in 0 .. BufLen /\ max_len' \in Nat
               /\ screen' = <<"prompt">> \o (IF echo THEN Text' ELSE <<>>)
               /\ \E more \in Nat : /\ Edit(taken') = [text |-> Text', idle |-> more]
                                     /\ count' + max_len' = BufLen + more
  <2> DEFINE Done == \E more \in Nat : /\ Edit(taken') = [text |-> Text', idle |-> more]
                                        /\ count' + max_len' = BufLen + more
  <2> SUFFICES ASSUME /\ buf' \in [1 .. BufLen -> Char \cup {"zero"}]
                      /\ count' \in 0 .. BufLen /\ max_len' \in Nat
                      /\ screen' = <<"prompt">> \o (IF echo THEN Text' ELSE <<>>)
                      /\ Done
               PROVE  LineInv'
    OBVIOUS
  <2>1. rd' \in {"byte", "return"} /\ (rd' = "byte" => max_len' > 0)
    BY <1>1
  <2>2. LineTypes'
    BY <1>1, <1>2, <2>1 DEF LineTypes
  <2>3. PICK more \in Nat : Edit(taken') = [text |-> Text', idle |-> more] /\ count' + max_len' = BufLen + more
    OBVIOUS
  <2>4. Vain' = more
    BY <2>3 DEF Vain
  <2> HIDE DEF Done
  <2> QED BY <1>1, <2>1, <2>2, <2>3, <2>4 DEF LineInv, InLoop
<1>5. CASE print_key
  <2>1. /\ Head(fifo) \in Char /\ count < BufLen /\ count' = count + 1 /\ max_len' = max_len - 1
        /\ buf' = [buf EXCEPT ![count + 1] = Head(fifo)]
        /\ screen' = IF echo THEN Append(screen, Head(fifo)) ELSE screen
    BY <1>5 DEF print_key
  <2>2. buf' \in [1 .. BufLen -> Char \cup {"zero"}] /\ count' \in 0 .. BufLen /\ max_len' \in Nat
    BY <1>2, <2>1, LineAssumption
  <2>3. Text' = Append(Text, Head(fifo))
    <3>1. Len(Text') = count + 1 /\ Len(Append(Text, Head(fifo))) = count + 1
      BY <1>2, <2>1, <2>2, LineAssumption DEF Text
    <3>2. \A i \in 1 .. count + 1 : Text'[i] = Append(Text, Head(fifo))[i]
      BY <1>2, <2>1, <2>2, LineAssumption DEF Text
    <3>3. Text' \in Seq(Char \cup {"zero"}) /\ Append(Text, Head(fifo)) \in Seq(Char \cup {"zero"})
      BY <1>2, <2>1, <2>2, LineAssumption DEF Text
    <3> QED BY <3>1, <3>2, <3>3, SeqEqual
  <2>4. Edit(taken') = [text |-> Text', idle |-> idle]
    BY <1>3, <2>1, <2>3, LineAssumption DEF edit
  <2>5. count' + max_len' = BufLen + idle
    BY <1>2, <1>3, <2>1, LineAssumption
  <2>6. screen' = <<"prompt">> \o (IF echo THEN Text' ELSE <<>>)
    <3>1. CASE echo
      <4>1. Append(<<"prompt">> \o Text, Head(fifo)) = <<"prompt">> \o Append(Text, Head(fifo))
        <5>1. Head(fifo) \in Char \cup {"zero"}
          BY <2>1
        <5> QED BY <1>2, <5>1, ShowMore
      <4> QED BY <1>2, <2>1, <2>3, <3>1, <4>1
    <3>2. CASE ~echo
      BY <1>2, <2>1, <3>2
    <3> QED BY <3>1, <3>2
  <2> QED BY <2>2, <2>4, <2>5, <2>6
<1>6. CASE delete_key
  <2>1. /\ Head(fifo) = "del" /\ buf' = buf /\ max_len' = max_len + 1
        /\ count' = IF count > 0 THEN count - 1 ELSE 0
        /\ screen' = IF echo /\ count > 0 THEN SubSeq(screen, 1, Len(screen) - 1) ELSE screen
    BY <1>6 DEF delete_key
  <2>2. buf' \in [1 .. BufLen -> Char \cup {"zero"}] /\ count' \in 0 .. BufLen /\ max_len' \in Nat
    BY <1>2, <2>1, LineAssumption
  <2>3. Head(fifo) \notin Char
    BY <2>1, LineAssumption
  <2>4. CASE count = 0
    <3>1. Text = <<>> /\ Text' = <<>> /\ count' = 0
      BY <1>2, <2>1, <2>4 DEF Text
    <3>2. Edit(taken') = [text |-> Text', idle |-> idle + 1]
      BY <1>3, <2>1, <2>3, <3>1 DEF edit
    <3>3. count' + max_len' = BufLen + (idle + 1) /\ idle + 1 \in Nat
      BY <1>2, <1>3, <2>1, <2>4, <3>1, LineAssumption
    <3>4. screen' = <<"prompt">> \o (IF echo THEN Text' ELSE <<>>)
      BY <1>2, <2>1, <2>4, <3>1
    <3> QED BY <2>2, <3>2, <3>3, <3>4
  <2>5. CASE count > 0
    <3>1. count' = count - 1 /\ Text # <<>> /\ count - 1 \in Nat
      BY <1>2, <2>1, <2>5
    <3>2. Text' = SubSeq(Text, 1, Len(Text) - 1)
      <4>0. Text' = SubSeq(buf, 1, count - 1) /\ buf \in Seq(Char \cup {"zero"}) /\ Len(buf) = BufLen
        BY <1>2, <2>1, <3>1, LineAssumption DEF Text
      <4>1. /\ Text' \in Seq(Char \cup {"zero"}) /\ Len(Text') = count - 1
            /\ \A i \in 1 .. count - 1 : Text'[i] = buf[i] /\ Text[i] = buf[i]
        BY <1>2, <3>1, <4>0, LineAssumption DEF Text
      <4>2. /\ SubSeq(Text, 1, Len(Text) - 1) \in Seq(Char \cup {"zero"})
            /\ Len(SubSeq(Text, 1, Len(Text) - 1)) = count - 1
            /\ \A i \in 1 .. count - 1 : SubSeq(Text, 1, Len(Text) - 1)[i] = Text[i]
        BY <1>2, <2>5
      <4> QED BY <4>1, <4>2, SeqEqual
    <3>3. Edit(taken') = [text |-> Text', idle |-> idle]
      BY <1>3, <2>1, <2>3, <3>1, <3>2 DEF edit
    <3>4. count' + max_len' = BufLen + idle
      BY <1>2, <1>3, <2>1, <3>1, LineAssumption
    <3>5. screen' = <<"prompt">> \o (IF echo THEN Text' ELSE <<>>)
      <4>1. CASE echo
        <5>1. screen = <<"prompt">> \o Text /\ screen' = SubSeq(screen, 1, Len(screen) - 1)
          BY <1>2, <2>1, <2>5, <4>1
        <5>2. Len(Text) = (count - 1) + 1 /\ Len(Text) - 1 = count - 1
          BY <1>2, <3>1
        <5>3. SubSeq(<<"prompt">> \o Text, 1, Len(<<"prompt">> \o Text) - 1)
                 = <<"prompt">> \o SubSeq(Text, 1, count - 1)
          BY <1>2, <3>1, <5>2, ShowLess
        <5> QED BY <3>2, <4>1, <5>1, <5>2, <5>3
      <4>2. CASE ~echo
        BY <1>2, <2>1, <4>2
      <4> QED BY <4>1, <4>2
    <3> QED BY <2>2, <3>3, <3>4, <3>5
  <2> QED BY <1>2, <2>4, <2>5
<1> QED BY <1>1, <1>5, <1>6

\* The key for which there is no room, although max_len says so
LEMMA TakeOutside == LineInv /\ take_outside => LineInv'
<1> SUFFICES ASSUME LineInv, take_outside PROVE LineInv'
  OBVIOUS
<1>1. /\ Take /\ Head(fifo) \in Char /\ count = BufLen /\ rd' = "panic"
      /\ UNCHANGED <<echo, count, max_len, buf>>
  BY DEF take_outside
<1>2. fifo' \in Seq(Key) /\ taken' \in Seq(Key) /\ max_len > 0 /\ max_len \in Nat
  BY <1>1, TakeOne DEF LineInv, LineTypes
<1>3. PICK idle \in Nat : /\ Edit(taken') = edit([text |-> Text, idle |-> idle], Head(fifo))
                          /\ count + max_len = BufLen + idle
  BY <1>1, TakeOne
<1>4. idle > 0
  BY <1>1, <1>2, <1>3, LineAssumption
<1>5. Vain' = idle
  BY <1>1, <1>3, LineAssumption DEF edit, Vain
<1>6. LineTypes'
  BY <1>1, <1>2 DEF LineInv, LineTypes
<1> QED BY <1>1, <1>4, <1>5, <1>6 DEF LineInv, InLoop

LEMMA TakeEnter == LineInv /\ take_enter => LineInv'
<1> SUFFICES ASSUME LineInv, take_enter PROVE LineInv'
  OBVIOUS
<1>1. Take /\ Head(fifo) = "enter" /\ rd' = "return" /\ UNCHANGED <<echo, count, max_len, buf, screen>>
  BY DEF take_enter
<1>2. fifo' \in Seq(Key) /\ taken' \in Seq(Key)
  BY <1>1, TakeOne
<1>3. PICK idle \in Nat : Edit(taken') = edit([text |-> Text, idle |-> idle], Head(fifo))
  BY <1>1, TakeOne
<1>4. Edit(taken') = [text |-> Text', idle |-> idle]
  BY <1>1, <1>3, LineAssumption DEF edit, Text
<1>5. LineTypes'
  BY <1>1, <1>2 DEF LineInv, LineTypes
<1>6. Vain' = idle
  BY <1>4 DEF Vain
<1> QED BY <1>1, <1>4, <1>5, <1>6 DEF LineInv, InLoop

LEMMA ReturnLine == LineInv /\ return_line => LineInv'
<1> SUFFICES ASSUME LineInv, return_line PROVE LineInv'
  OBVIOUS
<1>1. rd = "return" /\ rd' = "returned" /\ UNCHANGED <<echo, count, max_len, buf, fifo, taken>>
  BY DEF return_line
<1>2. Text' = Text /\ Vain' = Vain
  BY <1>1 DEF Text, Vain
<1>3. LineTypes'
  BY <1>1 DEF LineInv, LineTypes
<1> QED BY <1>1, <1>2, <1>3 DEF LineInv, InLoop

\* The inductive invariant of read_line: what it has taken is in the buffer and on the
\* screen as edited, and the room it counts is the room there is but for the deletions
\* of an empty line.
THEOREM LineInvariance == LineSpec => []LineInv
<1>1. NothingRead => LineInv
  BY NothingReadInv
<1>2. LineInv /\ [LineNext]_lineVars => LineInv'
  <2> SUFFICES ASSUME LineInv, [LineNext]_lineVars PROVE LineInv'
    OBVIOUS
  <2>1. CASE UNCHANGED lineVars
    <3>1. UNCHANGED <<rd, echo, count, max_len, buf, fifo, screen, taken>>
      BY <2>1 DEF lineVars
    <3>2. Text' = Text /\ InLoop' = InLoop /\ Vain' = Vain
      BY <3>1 DEF Text, InLoop, Vain
    <3>3. LineTypes'
      BY <3>1 DEF LineInv, LineTypes
    <3> QED BY <3>1, <3>2, <3>3 DEF LineInv
  <2>2. CASE read_line
    BY <2>2, CallLine
  <2>3. CASE type_key
    BY <2>3, Wait
  <2>4. ASSUME NEW wired \in BOOLEAN, NEW ticking \in BOOLEAN, Reader(wired, ticking) PROVE LineInv'
    BY <2>4, Wait, TakeKey, TakeOutside, TakeEnter, ReturnLine DEF Reader
  <2> QED BY <2>1, <2>2, <2>3, <2>4 DEF LineNext
<1> QED BY <1>1, <1>2, PTL DEF LineSpec

\* Whatever is typed and however the keys fall between the steps of the reader, the
\* buffer and the screen hold the text as edited after every key, the line returned is
\* the one typed, and buf is overrun only after a deletion of an empty line.
THEOREM LineTyped == LineSpec => []LineRight
<1>1. ASSUME LineInv PROVE LineRight
  <2>1. ASSUME InLoop
        PROVE  /\ SubSeq(buf, 1, count) = Edit(taken).text
               /\ count + max_len = BufLen + Edit(taken).idle
               /\ screen = <<"prompt">> \o (IF echo THEN Edit(taken).text ELSE <<>>)
    <3>1. /\ Edit(taken) = [text |-> Text, idle |-> Vain] /\ count + max_len = BufLen + Vain
          /\ screen = <<"prompt">> \o (IF echo THEN Text ELSE <<>>)
      BY <1>1, <2>1 DEF LineInv
    <3>2. Edit(taken).text = Text
      BY <3>1
    <3> QED BY <3>1, <3>2 DEF Text, Vain
  <2>2. ASSUME rd = "returned" PROVE SubSeq(buf, 1, count) = Edit(taken).text
    <3>1. Edit(taken) = [text |-> Text, idle |-> Vain]
      BY <1>1, <2>2 DEF LineInv
    <3>2. Edit(taken).text = Text
      BY <3>1
    <3> QED BY <3>2 DEF Text
  <2>3. rd = "panic" => Edit(taken).idle > 0
    BY <1>1 DEF LineInv, Vain
  <2> QED BY <2>1, <2>2, <2>3 DEF LineRight, InLoop
<1> QED BY <1>1, LineInvariance, PTL
=============================================================================
