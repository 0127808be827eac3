----------------------------- MODULE LfChannel -----------------------------
(***************************************************************************)
(* The channel of lfchannel/channel.rs over the linked list of             *)
(* lfchannel/list.rs: one sender, one receiver (Sender and Receiver are    *)
(* neither Clone nor Sync), preempted between any two accesses to shared   *)
(* memory.  The machine has one core, so an interleaving of these accesses *)
(* is what the Relaxed and Acquire/Release orderings amount to.            *)
(*                                                                         *)
(* A node is the address the allocator gave its Box: 1, 2, 3... in the     *)
(* order of allocation.  Nodes are never freed ("kept for GC"); the flag   *)
(* Channel::destroy is never set by any code, so its test is left out.     *)
(***************************************************************************)
EXTENDS Naturals, Sequences

CONSTANTS
    Msg,           \* messages
    NoMsg,         \* content of memory no entry was written to
    MaxSends       \* bound: how many messages the sender sends

ASSUME MaxSendsAssumption == MaxSends \in Nat
ASSUME NoMsgAssumption == NoMsg \notin Msg

VARIABLES
    headNext,      \* next of the dummy node List::head points to
    elem, next,    \* per node: its Entry and its next pointer
    alloc,         \* nodes allocated so far
    version,       \* Channel::version
    spc, sEntry, sNext,        \* sender: where it is, its entry, the next it read
    rpc, cur, history,         \* receiver: where it is, its cursor, to_vec's result
    seen, fi, vec,             \* recv_in: last_seen on entry, filter index, result
    lastSeen,      \* WrapperReceiver::last_seen
    batch,         \* what the last completed receive returned (<<>>: None)
    panicAt        \* "none", or the statement that stopped the kernel

senderVars == <<spc, sEntry, sNext>>
filterVars == <<seen, fi, vec>>
receiverVars == <<rpc, cur, history, filterVars, lastSeen, batch>>
listVars == <<headNext, elem, next, alloc>>
vars == <<listVars, version, senderVars, receiverVars, panicAt>>

Addr == 1 .. MaxSends
Null == 0
Dummy == MaxSends + 1
Entry == [msg : Msg \cup {NoMsg}, version : 0 .. MaxSends]
NoEntry == [msg |-> NoMsg, version |-> 0]

\* channel_in: an empty list behind a zeroed dummy node, version 0.
Init ==
    /\ headNext = Null /\ alloc = 0 /\ version = 0
    /\ elem = [a \in Addr |-> NoEntry]
    /\ next = [a \in Addr |-> Null]
    /\ spc = "idle" /\ sEntry = NoEntry /\ sNext = Null
    /\ rpc = "idle" /\ cur = Null /\ history = <<>>
    /\ seen = 0 /\ fi = 1 /\ vec = <<>>
    /\ lastSeen = 0 /\ batch = <<>>
    /\ panicAt = "none"

-----------------------------------------------------------------------------
(* The sender                                                              *)

\* Sender::send up to the call of push.
send(m) ==
    /\ spc = "idle"
    /\ version < MaxSends
    /\ version' = version + 1
    /\ sEntry' = [msg |-> m, version |-> version + 1]
    /\ spc' = "push"
    /\ UNCHANGED <<listVars, sNext, receiverVars, panicAt>>

\* Mutant: the next pointer of the new node is left null.
push_link_unlinked ==
    /\ spc = "push"
    /\ alloc' = alloc + 1
    /\ elem' = [elem EXCEPT ![alloc + 1] = sEntry]
    /\ sNext' = headNext
    /\ UNCHANGED next
    /\ spc' = "cas"
    /\ UNCHANGED <<headNext, version, sEntry, receiverVars, panicAt>>

\* Mutant: the expected value is not loaded but assumed to be null.
push_link_unread ==
    /\ spc = "push"
    /\ alloc' = alloc + 1
    /\ elem' = [elem EXCEPT ![alloc + 1] = sEntry]
    /\ sNext' = Null
    /\ next' = [next EXCEPT ![alloc + 1] = sNext']
    /\ spc' = "cas"
    /\ UNCHANGED <<headNext, version, sEntry, receiverVars, panicAt>>

\* List::push up to the compare_exchange: the new node is still private.
push_link ==
    /\ spc = "push"
    /\ alloc' = alloc + 1
    /\ elem' = [elem EXCEPT ![alloc + 1] = sEntry]
    /\ sNext' = headNext
    /\ next' = [next EXCEPT ![alloc + 1] = headNext]
    /\ spc' = "cas"
    /\ UNCHANGED <<headNext, version, sEntry, receiverVars, panicAt>>

\* The compare_exchange of List::push and its panic("data corrupted").
push_cas ==
    /\ spc = "cas"
    /\ IF headNext = sNext
         THEN headNext' = alloc /\ UNCHANGED panicAt
         ELSE panicAt' = "cas" /\ UNCHANGED headNext
    /\ spc' = "idle"
    /\ UNCHANGED <<elem, next, alloc, version, sEntry, sNext, receiverVars>>

-----------------------------------------------------------------------------
(* The receiver                                                            *)

ReturnNone ==
    /\ batch' = <<>>
    /\ UNCHANGED <<rpc, cur, history, filterVars, lastSeen, panicAt>>

StartToVec ==
    /\ rpc' = "to_vec"
    /\ cur' = Dummy
    /\ history' = <<>>
    /\ UNCHANGED <<filterVars, lastSeen, batch, panicAt>>

\* Mutant: the comparison with last_seen is off by one.
recv_first_off_by_one ==
    /\ rpc = "idle"
    /\ headNext # Null
    /\ IF elem[headNext].version <= lastSeen + 1 THEN ReturnNone ELSE StartToVec
    /\ UNCHANGED <<listVars, version, senderVars>>

\* recv_in up to its first branch, on a list that has a node.
recv_first ==
    /\ rpc = "idle"
    /\ headNext # Null
    /\ IF elem[headNext].version <= lastSeen THEN ReturnNone ELSE StartToVec
    /\ UNCHANGED <<listVars, version, senderVars>>

\* The same on an empty list: List::first reads through a null pointer.
\* Whatever lies at address 0 is taken for a version, or the read faults.
recv_first_null ==
    /\ rpc = "idle"
    /\ headNext = Null
    /\ \/ ReturnNone
       \/ StartToVec
       \/ panicAt' = "null" /\ UNCHANGED receiverVars
    /\ UNCHANGED <<listVars, version, senderVars>>

NextOf(a) == IF a = Dummy THEN headNext ELSE next[a]

\* One turn of the loop of List::to_vec_in.
to_vec ==
    /\ rpc = "to_vec"
    /\ cur' = NextOf(cur)
    /\ IF cur' = Null
         THEN rpc' = "update" /\ UNCHANGED history
         ELSE history' = Append(history, elem[cur']) /\ UNCHANGED rpc
    /\ UNCHANGED <<listVars, version, senderVars, filterVars, lastSeen, batch, panicAt>>

\* Mutant: last_seen is advanced one too far.
recv_update_too_far ==
    /\ rpc = "update"
    /\ history # <<>>
    /\ seen' = lastSeen
    /\ lastSeen' = history[1].version + 1
    /\ rpc' = "filter" /\ fi' = 1 /\ vec' = <<>>
    /\ UNCHANGED <<listVars, version, senderVars, cur, history, batch, panicAt>>

\* recv_in: history.first().unwrap() and last_seen.set.
recv_update ==
    /\ rpc = "update"
    /\ IF history = <<>>
         THEN panicAt' = "unwrap" /\ UNCHANGED <<rpc, filterVars, lastSeen>>
         ELSE /\ seen' = lastSeen
              /\ lastSeen' = history[1].version
              /\ rpc' = "filter" /\ fi' = 1 /\ vec' = <<>>
              /\ UNCHANGED panicAt
    /\ UNCHANGED <<listVars, version, senderVars, cur, history, batch>>

\* One element through the filter, map and for_each of recv_in.
recv_filter ==
    /\ rpc = "filter"
    /\ fi <= Len(history)
    /\ vec' = IF history[fi].version > seen THEN Append(vec, history[fi].msg) ELSE vec
    /\ fi' = fi + 1
    /\ UNCHANGED <<listVars, version, senderVars, rpc, cur, history, seen, lastSeen, batch, panicAt>>

\* recv_in returns Some(vec).
recv_return ==
    /\ rpc = "filter"
    /\ fi > Len(history)
    /\ batch' = vec
    /\ rpc' = "idle"
    /\ UNCHANGED <<listVars, version, senderVars, cur, history, filterVars, lastSeen, panicAt>>

Sender == push_link \/ push_cas \/ \E m \in Msg : send(m)
Receiver == recv_first \/ recv_first_null \/ to_vec \/ recv_update \/ recv_filter \/ recv_return

\* A panic switches the machine off: no step of anyone follows.
Next == panicAt = "none" /\ (Sender \/ Receiver)

\* The pool scheduler polls its channel for ever (main.rs); nothing obliges
\* the sender to send, or even to finish a send it was preempted in.
Spec == Init /\ [][Next]_vars /\ WF_vars(panicAt = "none" /\ Receiver)

-----------------------------------------------------------------------------
(* Properties                                                              *)

TypeOK ==
    /\ headNext \in 0 .. MaxSends /\ alloc \in 0 .. MaxSends /\ version \in 0 .. MaxSends
    /\ elem \in [Addr -> Entry]
    /\ next \in [Addr -> 0 .. MaxSends]
    /\ spc \in {"idle", "push", "cas"} /\ sEntry \in Entry /\ sNext \in 0 .. MaxSends
    /\ rpc \in {"idle", "to_vec", "update", "filter"}
    /\ cur \in 0 .. Dummy /\ history \in Seq(Entry)
    /\ seen \in 0 .. MaxSends /\ fi \in Nat \ {0} /\ vec \in Seq(Msg \cup {NoMsg})
    /\ lastSeen \in 0 .. MaxSends /\ batch \in Seq(Msg \cup {NoMsg})
    /\ panicAt \in {"none", "cas", "null", "unwrap"}

\* List::push never meets its panic("data corrupted"), and recv_in stops the
\* kernel only by polling an empty list: at the null pointer behind the dummy
\* node, or, if something was read through it, at the unwrap of a history that
\* is empty too, which happens to no receiver that has ever received.
OnlyEmptyPollPanics ==
    /\ panicAt # "cas"
    /\ panicAt = "null" => headNext = Null
    /\ panicAt = "unwrap" => lastSeen = 0

\* The channel is a mailbox: what recv_in returns is, newest first, exactly
\* what was published and not yet handed over when it began to read the list,
\* each message once, whatever the sender pushes meanwhile; None is returned
\* only when nothing is new.
M == INSTANCE Mailbox WITH
        published <- [i \in 1 .. headNext |-> elem[i].msg],
        taken <- IF rpc = "filter" THEN seen ELSE lastSeen
IsMailbox == M!Spec

\* A message that reached the list is handed over, unless the kernel stops.
Delivered ==
    \A v \in Addr : (headNext >= v) ~> (panicAt # "none" \/ (rpc = "idle" /\ lastSeen >= v))
=============================================================================
