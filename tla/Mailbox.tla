------------------------------ MODULE Mailbox ------------------------------
(***************************************************************************)
(* What a channel of lfchannel/channel.rs promises its two ends: a send    *)
(* appends a message; a receive hands over, newest first, everything that  *)
(* had been published at some instant during the call and had not been     *)
(* handed over before; a receive says None only if nothing is new.         *)
(***************************************************************************)
EXTENDS Naturals, Sequences

CONSTANT
    Msg            \* the messages a sender may send

VARIABLES
    published,     \* every message sent so far, oldest first
    taken,         \* how many of them the receiver has been handed
    batch          \* what the last completed receive returned (<<>>: None)

vars == <<published, taken, batch>>

Init ==
    /\ published = <<>>
    /\ taken = 0
    /\ batch = <<>>

\* Sender::send
Publish(m) ==
    /\ published' = Append(published, m)
    /\ UNCHANGED <<taken, batch>>

\* Messages lo+1 .. hi, newest first.
NewestFirst(lo, hi) == [i \in 1 .. (hi - lo) |-> published[hi + 1 - i]]

\* WrapperReceiver::recv_in that returns Some
Receive ==
    \E n \in (taken + 1) .. Len(published) :
        /\ batch' = NewestFirst(taken, n)
        /\ taken' = n
        /\ UNCHANGED published

\* WrapperReceiver::recv_in that returns None
ReceiveNone ==
    /\ taken = Len(published)
    /\ batch' = <<>>
    /\ UNCHANGED <<published, taken>>

Next == Receive \/ ReceiveNone \/ \E m \in Msg : Publish(m)

Spec == Init /\ [][Next]_vars
=============================================================================
