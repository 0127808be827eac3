-------------------------- MODULE LfChannelProofs --------------------------
(***************************************************************************)
(* For any set of messages and any number of sends, the channel implements *)
(* the mailbox, and the only way to stop the kernel is to poll an empty    *)
(* list.                                                                   *)
(***************************************************************************)
EXTENDS LfChannel, TLAPS

-----------------------------------------------------------------------------
(* The inductive invariant                                                 *)

\* The sender is ahead of the list by the node it is pushing, if any.
SenderInv ==
    /\ spc = "idle" => alloc = version /\ headNext = alloc
    /\ spc = "push" => /\ version = alloc + 1 /\ headNext = alloc
                       /\ sEntry.msg \in Msg /\ sEntry.version = version
    /\ spc = "cas"  => version = alloc /\ alloc = headNext + 1 /\ sNext = headNext

\* Node a carries version a and points to node a - 1: a chain down to null.
ListInv ==
    \A a \in 1 .. alloc :
        /\ elem[a].msg \in Msg /\ elem[a].version = a
        /\ next[a] = a - 1

\* The node to_vec found first.
Top == history[1].version

\* What to_vec has copied: the chain from Top downwards, with no gap.
HistoryInv ==
    /\ history # <<>> => Top \in 1 .. headNext /\ Len(history) <= Top
    /\ \A i \in 1 .. Len(history) : history[i] = elem[Top + 1 - i]

\* What the filter lets through: the entries newer than last_seen, which are
\* a prefix of the history.
FilterInv ==
    rpc = "filter" =>
        /\ history # <<>> /\ Len(history) = Top
        /\ lastSeen = Top /\ seen < Top
        /\ fi <= Len(history) + 1
        /\ Len(vec) = IF fi - 1 <= Top - seen THEN fi - 1 ELSE Top - seen
        /\ \A i \in 1 .. Len(vec) : vec[i] = history[i].msg

ReceiverInv ==
    /\ lastSeen <= headNext
    /\ rpc = "to_vec" /\ cur = Dummy =>
          history = <<>> /\ (lastSeen < headNext \/ headNext = Null)
    /\ rpc = "to_vec" /\ cur # Dummy =>
          history # <<>> /\ cur = Top + 1 - Len(history) /\ lastSeen < Top
    /\ rpc = "update" /\ history # <<>> => Len(history) = Top /\ lastSeen < Top
    /\ rpc = "update" /\ history = <<>> => lastSeen = 0

IInv == TypeOK /\ SenderInv /\ ListInv /\ HistoryInv /\ FilterInv /\ ReceiverInv
                /\ OnlyEmptyPollPanics

-----------------------------------------------------------------------------
(* The initial state of channel_in satisfies the invariant.                *)
LEMMA InitIInv == Init => IInv
<1> SUFFICES ASSUME Init PROVE IInv
  OBVIOUS
<1> USE MaxSendsAssumption, NoMsgAssumption DEF Init, Addr, Null, Dummy, NoEntry, Entry
<1>1. TypeOK
  BY DEF TypeOK
<1>2. SenderInv /\ ListInv
  BY DEF SenderInv, ListInv
<1>3. HistoryInv /\ FilterInv
  BY DEF HistoryInv, FilterInv, Top
<1>4. ReceiverInv /\ OnlyEmptyPollPanics
  BY DEF ReceiverInv, OnlyEmptyPollPanics
<1> QED
  BY <1>1, <1>2, <1>3, <1>4 DEF IInv

\* Every step of the sender and of the receiver preserves the invariant.
LEMMA NextIInv == IInv /\ [Next]_vars => IInv'
<1> SUFFICES ASSUME IInv, [Next]_vars PROVE IInv'
  OBVIOUS
<1> USE MaxSendsAssumption DEF Addr, Null, Dummy, listVars, senderVars, filterVars, receiverVars
<1>a. /\ TypeOK /\ SenderInv /\ ListInv /\ HistoryInv /\ FilterInv /\ ReceiverInv
      /\ OnlyEmptyPollPanics
  BY DEF IInv
<1>1. ASSUME NEW m \in Msg, panicAt = "none", send(m) PROVE IInv'
  <2>1. TypeOK'
    <3>1. sEntry' \in Entry
      BY <1>a, <1>1 DEF TypeOK, send, Entry
    <3> QED
      BY <1>a, <1>1, <3>1 DEF TypeOK, send
  <2>2. SenderInv'
    BY <1>a, <1>1 DEF SenderInv, TypeOK, send
  <2>3. ListInv'
    BY <1>a, <1>1 DEF ListInv, SenderInv, TypeOK, send
  <2>4. HistoryInv'
    BY <1>a, <1>1 DEF HistoryInv, Top, ReceiverInv, TypeOK, ListInv, SenderInv, send
  <2>5. FilterInv'
    BY <1>a, <1>1 DEF FilterInv, HistoryInv, ReceiverInv, Top, TypeOK, ListInv, SenderInv, send
  <2>6. ReceiverInv'
    BY <1>a, <1>1 DEF ReceiverInv, HistoryInv, FilterInv, ListInv, SenderInv, Top, TypeOK, send
  <2>7. OnlyEmptyPollPanics'
    BY <1>a, <1>1 DEF OnlyEmptyPollPanics, SenderInv, ReceiverInv, TypeOK, send
  <2> QED
    BY <2>1, <2>2, <2>3, <2>4, <2>5, <2>6, <2>7 DEF IInv
<1>2. CASE panicAt = "none" /\ push_link
  <2>1. TypeOK'
    BY <1>a, <1>2 DEF TypeOK, SenderInv, HistoryInv, ListInv, Top, push_link
  <2>2. SenderInv'
    BY <1>a, <1>2 DEF SenderInv, TypeOK, push_link
  <2>3. ListInv'
    BY <1>a, <1>2 DEF ListInv, SenderInv, TypeOK, push_link
  <2>4. HistoryInv'
    <3>1. history' = history /\ headNext' = headNext /\ headNext = alloc
      BY <1>a, <1>2 DEF push_link, SenderInv
    <3>2. \A a \in 1 .. headNext : elem'[a] = elem[a]
      BY <1>a, <1>2, <3>1 DEF push_link, TypeOK
    <3>3. ASSUME NEW i \in 1 .. Len(history) PROVE history[i] = elem'[Top + 1 - i]
      <4>1. history # <<>> /\ Len(history) \in Nat
        BY <1>a DEF TypeOK
      <4>2. Top \in 1 .. headNext /\ Len(history) <= Top /\ headNext \in Nat
        BY <1>a, <4>1 DEF HistoryInv, TypeOK
      <4>3. Top + 1 - i \in 1 .. headNext
        BY <4>1, <4>2
      <4> QED
        BY <1>a, <3>2, <4>3 DEF HistoryInv
    <3> QED
      BY <1>a, <3>1, <3>3 DEF HistoryInv, Top
  <2>5. FilterInv'
    BY <1>a, <1>2 DEF FilterInv, HistoryInv, ReceiverInv, Top, TypeOK, ListInv, SenderInv, push_link
  <2>6. ReceiverInv'
    BY <1>a, <1>2 DEF ReceiverInv, HistoryInv, FilterInv, ListInv, SenderInv, Top, TypeOK, push_link
  <2>7. OnlyEmptyPollPanics'
    BY <1>a, <1>2 DEF OnlyEmptyPollPanics, SenderInv, ReceiverInv, TypeOK, push_link
  <2> QED
    BY <2>1, <2>2, <2>3, <2>4, <2>5, <2>6, <2>7 DEF IInv
<1>3. CASE panicAt = "none" /\ push_cas
  <2>1. TypeOK'
    BY <1>a, <1>3 DEF TypeOK, SenderInv, HistoryInv, ListInv, Top, push_cas
  <2>2. SenderInv'
    BY <1>a, <1>3 DEF SenderInv, TypeOK, push_cas
  <2>3. ListInv'
    BY <1>a, <1>3 DEF ListInv, SenderInv, TypeOK, push_cas
  <2>4. HistoryInv'
    BY <1>a, <1>3 DEF HistoryInv, Top, ReceiverInv, TypeOK, ListInv, SenderInv, push_cas
  <2>5. FilterInv'
    BY <1>a, <1>3 DEF FilterInv, HistoryInv, ReceiverInv, Top, TypeOK, ListInv, SenderInv, push_cas
  <2>6. ReceiverInv'
    BY <1>a, <1>3 DEF ReceiverInv, HistoryInv, FilterInv, ListInv, SenderInv, Top, TypeOK, push_cas
  <2>7. OnlyEmptyPollPanics'
    BY <1>a, <1>3 DEF OnlyEmptyPollPanics, SenderInv, ReceiverInv, TypeOK, push_cas
  <2> QED
    BY <2>1, <2>2, <2>3, <2>4, <2>5, <2>6, <2>7 DEF IInv
<1>4. CASE panicAt = "none" /\ recv_first
  <2>1. TypeOK'
    <3>1. CASE ReturnNone
      BY <1>a, <1>4, <3>1 DEF TypeOK, recv_first, ReturnNone
    <3>2. CASE StartToVec
      BY <1>a, <1>4, <3>2 DEF TypeOK, recv_first, StartToVec
    <3> QED
      BY <1>4, <3>1, <3>2 DEF recv_first
  <2>2. SenderInv'
    BY <1>a, <1>4 DEF SenderInv, TypeOK, recv_first, ReturnNone, StartToVec
  <2>3. ListInv'
    BY <1>a, <1>4 DEF ListInv, SenderInv, TypeOK, recv_first, ReturnNone, StartToVec
  <2>4. HistoryInv'
    <3>1. CASE ReturnNone
      BY <1>a, <1>4, <3>1 DEF HistoryInv, Top, recv_first, ReturnNone
    <3>2. CASE StartToVec
      BY <1>a, <1>4, <3>2 DEF HistoryInv, Top, recv_first, StartToVec
    <3> QED
      BY <1>4, <3>1, <3>2 DEF recv_first
  <2>5. FilterInv'
    BY <1>a, <1>4 DEF FilterInv, HistoryInv, ReceiverInv, Top, TypeOK, ListInv, SenderInv, recv_first, ReturnNone, StartToVec
  <2>6. ReceiverInv'
    <3>1. CASE ReturnNone
      BY <1>a, <1>4, <3>1 DEF ReceiverInv, Top, recv_first, ReturnNone
    <3>2. CASE StartToVec /\ ~(elem[headNext].version <= lastSeen)
      <4>1. elem[headNext].version = headNext
        BY <1>a, <1>4 DEF ListInv, SenderInv, TypeOK, recv_first
      <4> QED
        BY <1>a, <1>4, <3>2, <4>1 DEF ReceiverInv, TypeOK, recv_first, StartToVec
    <3> QED
      BY <1>4, <3>1, <3>2 DEF recv_first
  <2>7. OnlyEmptyPollPanics'
    BY <1>a, <1>4 DEF OnlyEmptyPollPanics, SenderInv, ReceiverInv, TypeOK, recv_first, ReturnNone, StartToVec
  <2> QED
    BY <2>1, <2>2, <2>3, <2>4, <2>5, <2>6, <2>7 DEF IInv
<1>5. CASE panicAt = "none" /\ recv_first_null
  <2>1. TypeOK'
    <3>1. CASE ReturnNone
      BY <1>a, <1>5, <3>1 DEF TypeOK, recv_first_null, ReturnNone
    <3>2. CASE StartToVec
      BY <1>a, <1>5, <3>2 DEF TypeOK, recv_first_null, StartToVec
    <3>3. CASE panicAt' = "null" /\ UNCHANGED receiverVars
      BY <1>a, <1>5, <3>3 DEF TypeOK, recv_first_null
    <3> QED
      BY <1>5, <3>1, <3>2, <3>3 DEF recv_first_null
  <2>2. SenderInv'
    BY <1>a, <1>5 DEF SenderInv, TypeOK, recv_first_null, ReturnNone, StartToVec
  <2>3. ListInv'
    BY <1>a, <1>5 DEF ListInv, SenderInv, TypeOK, recv_first_null, ReturnNone, StartToVec
  <2>4. HistoryInv'
    BY <1>a, <1>5 DEF HistoryInv, Top, ReceiverInv, TypeOK, ListInv, SenderInv, recv_first_null, ReturnNone, StartToVec
  <2>5. FilterInv'
    BY <1>a, <1>5 DEF FilterInv, HistoryInv, ReceiverInv, Top, TypeOK, ListInv, SenderInv, recv_first_null, ReturnNone, StartToVec
  <2>6. ReceiverInv'
    BY <1>a, <1>5 DEF ReceiverInv, HistoryInv, FilterInv, ListInv, SenderInv, Top, TypeOK, recv_first_null, ReturnNone, StartToVec
  <2>7. OnlyEmptyPollPanics'
    BY <1>a, <1>5 DEF OnlyEmptyPollPanics, SenderInv, ReceiverInv, TypeOK, recv_first_null, ReturnNone, StartToVec
  <2> QED
    BY <2>1, <2>2, <2>3, <2>4, <2>5, <2>6, <2>7 DEF IInv
<1>6. CASE panicAt = "none" /\ to_vec
  <2>a. /\ UNCHANGED <<headNext, elem, next, alloc, version, spc, sEntry, sNext>>
        /\ UNCHANGED <<seen, fi, vec, lastSeen, batch, panicAt>>
        /\ rpc = "to_vec"
    BY <1>6 DEF to_vec
  <2>b. /\ headNext \in Nat /\ alloc \in Nat /\ headNext <= alloc /\ alloc <= MaxSends
        /\ lastSeen \in Nat /\ Len(history) \in Nat
    BY <1>a DEF TypeOK, SenderInv
  <2>c. cur # Dummy => /\ history # <<>> /\ cur \in 1 .. headNext
                       /\ cur = Top + 1 - Len(history) /\ Top \in 1 .. headNext
                       /\ lastSeen < Top
    BY <1>a, <2>a, <2>b DEF ReceiverInv, HistoryInv
  <2>d. cur' = IF cur = Dummy THEN headNext ELSE cur - 1
    BY <1>a, <1>6, <2>b, <2>c DEF to_vec, NextOf, ListInv
  <2>e. cur' \in 0 .. headNext
    BY <2>b, <2>c, <2>d
  <2>f. CASE cur' = Null
    <3>1. rpc' = "update" /\ history' = history
      BY <1>6, <2>f DEF to_vec
    <3>2. TypeOK'
      BY <1>a, <2>a, <2>f, <3>1 DEF TypeOK
    <3>3. SenderInv' /\ ListInv' /\ OnlyEmptyPollPanics'
      BY <1>a, <2>a DEF SenderInv, ListInv, OnlyEmptyPollPanics
    <3>4. HistoryInv' /\ FilterInv'
      BY <1>a, <2>a, <3>1 DEF HistoryInv, FilterInv, Top
    <3>5. ReceiverInv'
      BY <1>a, <2>a, <2>b, <2>c, <2>d, <2>f, <3>1 DEF ReceiverInv, Top
    <3> QED
      BY <3>2, <3>3, <3>4, <3>5 DEF IInv
  <2>g. CASE cur' # Null
    <3>1. rpc' = "to_vec" /\ history' = Append(history, elem[cur'])
      BY <1>6, <2>a, <2>g DEF to_vec
    <3>2. cur' \in 1 .. headNext /\ elem[cur'] \in Entry /\ elem[cur'].version = cur'
      BY <1>a, <2>b, <2>e, <2>g DEF TypeOK, ListInv
    <3>3. TypeOK'
      BY <1>a, <2>a, <2>b, <3>1, <3>2 DEF TypeOK
    <3>4. SenderInv' /\ ListInv' /\ OnlyEmptyPollPanics'
      BY <1>a, <2>a DEF SenderInv, ListInv, OnlyEmptyPollPanics
    <3>5. /\ Len(history') = Len(history) + 1 /\ history' # <<>>
          /\ history'[Len(history) + 1] = elem[cur']
          /\ \A i \in 1 .. Len(history) : history'[i] = history[i]
      BY <1>a, <3>1, <3>2 DEF TypeOK
    <3>6. CASE cur = Dummy
      <4>1. history = <<>> /\ (lastSeen < headNext \/ headNext = Null)
        BY <1>a, <2>a, <3>6 DEF ReceiverInv
      <4>2. Len(history) = 0 /\ Top' = headNext /\ cur' = headNext
        BY <2>d, <3>2, <3>5, <3>6, <4>1 DEF Top
      <4>3. HistoryInv'
        BY <2>a, <2>b, <3>2, <3>5, <4>2 DEF HistoryInv
      <4>4. ReceiverInv' /\ FilterInv'
        BY <1>a, <2>a, <2>b, <2>g, <3>1, <3>2, <3>5, <4>1, <4>2 DEF ReceiverInv, FilterInv
      <4> QED
        BY <3>3, <3>4, <4>3, <4>4 DEF IInv
    <3>7. CASE cur # Dummy
      <4>1. history # <<>> /\ 1 \in 1 .. Len(history) /\ Top' = Top
        <5>1. history # <<>>
          BY <2>c, <3>7
        <5>2. 1 \in 1 .. Len(history)
          BY <1>a, <5>1 DEF TypeOK
        <5> QED
          BY <3>5, <5>1, <5>2 DEF Top
      <4>2. cur' = Top - Len(history) /\ Len(history) + 1 <= Top
        BY <2>b, <2>c, <2>d, <3>2, <3>7
      <4>3. HistoryInv'
        <5>1. ASSUME NEW i \in 1 .. Len(history) + 1 PROVE history'[i] = elem[Top + 1 - i]
          <6>1. CASE i \in 1 .. Len(history)
            BY <1>a, <3>5, <6>1 DEF HistoryInv
          <6>2. CASE i = Len(history) + 1
            BY <2>b, <2>c, <3>5, <3>7, <4>2, <6>2
          <6> QED
            BY <2>b, <6>1, <6>2
        <5> QED
          BY <2>a, <2>c, <3>5, <3>7, <4>1, <4>2, <5>1 DEF HistoryInv
      <4>4. ReceiverInv' /\ FilterInv'
        BY <1>a, <2>a, <2>b, <2>c, <3>1, <3>5, <3>7, <4>1, <4>2 DEF ReceiverInv, FilterInv
      <4> QED
        BY <3>3, <3>4, <4>3, <4>4 DEF IInv
    <3> QED
      BY <3>6, <3>7
  <2> QED
    BY <2>f, <2>g
<1>7. CASE panicAt = "none" /\ recv_update
  <2>1. TypeOK'
    <3>1. CASE history = <<>>
      BY <1>a, <1>7, <3>1 DEF TypeOK, recv_update
    <3>2. CASE history # <<>>
      <4>1. Top \in 0 .. MaxSends
        BY <1>a, <3>2 DEF HistoryInv, TypeOK
      <4> QED
        BY <1>a, <1>7, <3>2, <4>1 DEF TypeOK, recv_update, Top
    <3> QED
      BY <3>1, <3>2
  <2>2. SenderInv'
    BY <1>a, <1>7 DEF SenderInv, TypeOK, recv_update
  <2>3. ListInv'
    BY <1>a, <1>7 DEF ListInv, SenderInv, TypeOK, recv_update
  <2>4. HistoryInv'
    BY <1>a, <1>7 DEF HistoryInv, Top, ReceiverInv, TypeOK, ListInv, SenderInv, recv_update
  <2>5. FilterInv'
    <3>1. CASE history = <<>>
      BY <1>7, <3>1 DEF FilterInv, recv_update
    <3>2. CASE history # <<>>
      <4>1. Len(history) = Top /\ lastSeen < Top /\ Top \in Nat
        BY <1>a, <1>7, <3>2 DEF ReceiverInv, HistoryInv, recv_update, TypeOK
      <4>2. /\ history' = history /\ Top' = Top /\ lastSeen' = Top /\ seen' = lastSeen
            /\ fi' = 1 /\ vec' = <<>>
        BY <1>7, <3>2 DEF recv_update, Top
      <4> QED
        BY <1>a, <3>2, <4>1, <4>2 DEF FilterInv, TypeOK
    <3> QED
      BY <3>1, <3>2
  <2>6. ReceiverInv'
    <3>1. CASE history = <<>>
      BY <1>a, <1>7, <3>1 DEF ReceiverInv, recv_update
    <3>2. CASE history # <<>>
      <4>1. Top \in 1 .. headNext
        BY <1>a, <3>2 DEF HistoryInv
      <4>2. rpc' = "filter" /\ lastSeen' = Top /\ headNext' = headNext
        BY <1>7, <3>2 DEF recv_update, Top
      <4> QED
        BY <4>1, <4>2 DEF ReceiverInv
    <3> QED
      BY <3>1, <3>2
  <2>7. OnlyEmptyPollPanics'
    BY <1>a, <1>7 DEF OnlyEmptyPollPanics, SenderInv, ReceiverInv, TypeOK, recv_update
  <2> QED
    BY <2>1, <2>2, <2>3, <2>4, <2>5, <2>6, <2>7 DEF IInv
<1>8. CASE panicAt = "none" /\ recv_filter
  <2>a. /\ UNCHANGED <<headNext, elem, next, alloc, version, spc, sEntry, sNext>>
        /\ UNCHANGED <<rpc, cur, history, seen, lastSeen, batch, panicAt>>
        /\ rpc = "filter" /\ fi <= Len(history) /\ fi' = fi + 1
        /\ vec' = IF history[fi].version > seen THEN Append(vec, history[fi].msg) ELSE vec
    BY <1>8 DEF recv_filter
  <2>b. /\ fi \in 1 .. Len(history) /\ Len(history) \in Nat /\ seen \in Nat
        /\ history # <<>> /\ Top \in Nat /\ seen < Top /\ Len(history) = Top
        /\ headNext \in Nat /\ Top <= headNext /\ headNext <= alloc /\ alloc \in Nat
    <3>1. /\ fi \in Nat \ {0} /\ Len(history) \in Nat /\ seen \in Nat
          /\ headNext \in Nat /\ alloc \in Nat
      BY <1>a DEF TypeOK
    <3>2. history # <<>> /\ seen < Top /\ Len(history) = Top
      BY <1>a, <2>a DEF FilterInv
    <3>3. Top \in 1 .. headNext
      BY <1>a, <3>2 DEF HistoryInv
    <3>4. headNext <= alloc
      BY <1>a, <3>1 DEF TypeOK, SenderInv
    <3> QED
      BY <2>a, <3>1, <3>2, <3>3, <3>4
  <2>c. Top + 1 - fi \in 1 .. alloc /\ history[fi] = elem[Top + 1 - fi]
    BY <1>a, <2>b DEF HistoryInv
  <2>d. history[fi].version = Top + 1 - fi /\ history[fi].msg \in Msg
    BY <1>a, <2>c DEF ListInv
  <2>1. TypeOK'
    BY <1>a, <2>a, <2>b, <2>d DEF TypeOK
  <2>2. SenderInv' /\ ListInv' /\ OnlyEmptyPollPanics'
    BY <1>a, <2>a DEF SenderInv, ListInv, OnlyEmptyPollPanics
  <2>3. HistoryInv' /\ ReceiverInv' /\ Top' = Top
    BY <1>a, <2>a DEF HistoryInv, ReceiverInv, Top
  <2>4. FilterInv'
    <3>1. CASE fi <= Top - seen
      <4>1. vec' = Append(vec, history[fi].msg) /\ Len(vec) = fi - 1
        <5>1. history[fi].version > seen
          BY <2>b, <2>d, <3>1
        <5>2. Len(vec) = IF fi - 1 <= Top - seen THEN fi - 1 ELSE Top - seen
          BY <1>a, <2>a DEF FilterInv
        <5> QED
          BY <2>a, <2>b, <3>1, <5>1, <5>2
      <4>2. /\ Len(vec') = fi /\ vec'[fi] = history[fi].msg
            /\ \A i \in 1 .. (fi - 1) : vec'[i] = vec[i]
        BY <1>a, <2>b, <2>d, <4>1 DEF TypeOK
      <4>3. \A i \in 1 .. Len(vec') : vec'[i] = history[i].msg
        BY <1>a, <2>a, <2>b, <4>1, <4>2 DEF FilterInv
      <4> QED
        BY <1>a, <2>a, <2>b, <2>3, <3>1, <4>2, <4>3 DEF FilterInv
    <3>2. CASE fi > Top - seen
      <4>1. vec' = vec /\ Len(vec) = Top - seen
        BY <1>a, <2>a, <2>b, <2>d, <3>2 DEF FilterInv
      <4> QED
        BY <1>a, <2>a, <2>b, <2>3, <3>2, <4>1 DEF FilterInv
    <3> QED
      BY <2>b, <3>1, <3>2
  <2> QED
    BY <2>1, <2>2, <2>3, <2>4 DEF IInv
<1>9. CASE panicAt = "none" /\ recv_return
  <2>1. TypeOK'
    BY <1>a, <1>9 DEF TypeOK, SenderInv, HistoryInv, ListInv, Top, recv_return
  <2>2. SenderInv'
    BY <1>a, <1>9 DEF SenderInv, TypeOK, recv_return
  <2>3. ListInv'
    BY <1>a, <1>9 DEF ListInv, SenderInv, TypeOK, recv_return
  <2>4. HistoryInv'
    BY <1>a, <1>9 DEF HistoryInv, Top, ReceiverInv, TypeOK, ListInv, SenderInv, recv_return
  <2>5. FilterInv'
    BY <1>a, <1>9 DEF FilterInv, HistoryInv, ReceiverInv, Top, TypeOK, ListInv, SenderInv, recv_return
  <2>6. ReceiverInv'
    BY <1>a, <1>9 DEF ReceiverInv, HistoryInv, FilterInv, ListInv, SenderInv, Top, TypeOK, recv_return
  <2>7. OnlyEmptyPollPanics'
    BY <1>a, <1>9 DEF OnlyEmptyPollPanics, SenderInv, ReceiverInv, TypeOK, recv_return
  <2> QED
    BY <2>1, <2>2, <2>3, <2>4, <2>5, <2>6, <2>7 DEF IInv
<1>10. CASE UNCHANGED vars
  <2>1. TypeOK'
    BY <1>a, <1>10 DEF vars, TypeOK
  <2>2. SenderInv'
    BY <1>a, <1>10 DEF vars, SenderInv
  <2>3. ListInv'
    BY <1>a, <1>10 DEF vars, ListInv
  <2>4. HistoryInv'
    BY <1>a, <1>10 DEF vars, HistoryInv, Top
  <2>5. FilterInv'
    BY <1>a, <1>10 DEF vars, FilterInv, Top
  <2>6. ReceiverInv'
    BY <1>a, <1>10 DEF vars, ReceiverInv, Top
  <2>7. OnlyEmptyPollPanics'
    BY <1>a, <1>10 DEF vars, OnlyEmptyPollPanics
  <2> QED
    BY <2>1, <2>2, <2>3, <2>4, <2>5, <2>6, <2>7 DEF IInv
<1> QED
  BY <1>1, <1>2, <1>3, <1>4, <1>5, <1>6, <1>7, <1>8, <1>9, <1>10 DEF Next, Sender, Receiver

-----------------------------------------------------------------------------
(* The theorems                                                            *)

\* The sender and the receiver keep the list, the versions and the copy being
\* read consistent, whatever the interleaving.
THEOREM Invariance == Spec => []IInv
<1> QED
  BY InitIInv, NextIInv, PTL DEF Spec

\* The variables of the channel keep their types.
THEOREM TypeCorrect == Spec => []TypeOK
<1>1. IInv => TypeOK
  BY DEF IInv
<1> QED
  BY <1>1, Invariance, PTL

\* The compare_exchange of List::push always succeeds, and a receive stops the
\* kernel only on a list that was empty when it began to read.
THEOREM PanicOnlyOnEmptyPoll == Spec => []OnlyEmptyPollPanics
<1>1. IInv => OnlyEmptyPollPanics
  BY DEF IInv
<1> QED
  BY <1>1, Invariance, PTL

\* Publishing a node appends its message to the messages of the list.
LEMMA AppendPublished ==
    ASSUME NEW n \in Nat, NEW f, NEW S,
           \A i \in 1 .. n + 1 : f[i] \in S
    PROVE  [i \in 1 .. n + 1 |-> f[i]] = Append([i \in 1 .. n |-> f[i]], f[n + 1])
<1> DEFINE p == [i \in 1 .. n |-> f[i]]
<1> DEFINE q == [i \in 1 .. n + 1 |-> f[i]]
<1>1. p \in Seq(S) /\ Len(p) = n
  OBVIOUS
<1>2. q \in Seq(S) /\ Len(q) = n + 1
  OBVIOUS
<1>3. f[n + 1] \in S
  OBVIOUS
<1>4. Append(p, f[n + 1]) \in Seq(S) /\ Len(Append(p, f[n + 1])) = n + 1
  BY <1>1, <1>3
<1>5. \A i \in 1 .. n + 1 : Append(p, f[n + 1])[i] = q[i]
  BY <1>1, <1>3
<1> QED
  BY <1>2, <1>4, <1>5

\* The channel implements the mailbox: every step is a publication, the hand
\* over of a whole unread suffix, a None with nothing unread, or invisible.
THEOREM ImplementsMailbox == Spec => IsMailbox
<1> DEFINE pub == [i \in 1 .. headNext |-> elem[i].msg]
<1> DEFINE tkn == IF rpc = "filter" THEN seen ELSE lastSeen
<1>1. Init => M!Init
  BY DEF Init, M!Init, Null
<1>2. IInv /\ [Next]_vars => [M!Next]_(M!vars)
  <2> SUFFICES ASSUME IInv, [Next]_vars PROVE [M!Next]_(M!vars)
    OBVIOUS
  <2> USE MaxSendsAssumption DEF Addr, Null, Dummy, listVars, senderVars, filterVars, receiverVars
  <2>a. TypeOK /\ SenderInv /\ ListInv /\ HistoryInv /\ FilterInv /\ ReceiverInv
    BY DEF IInv
  <2>b. headNext \in Nat /\ headNext <= alloc /\ alloc \in Nat /\ Len(pub) = headNext
    BY <2>a DEF TypeOK, SenderInv
  <2>1. ASSUME NEW m \in Msg, send(m) PROVE UNCHANGED <<pub, tkn, batch>>
    BY <2>1 DEF send
  <2>2. CASE push_link
    <3>1. headNext' = headNext /\ \A i \in 1 .. headNext : elem'[i] = elem[i]
      BY <2>2, <2>a, <2>b DEF push_link, SenderInv, TypeOK
    <3> QED
      BY <2>2, <3>1 DEF push_link, M!vars
  <2>3. CASE push_cas
    <3>1. headNext' = headNext + 1 /\ elem' = elem /\ alloc = headNext + 1
      BY <2>3, <2>a DEF push_cas, SenderInv
    <3>2. \A i \in 1 .. headNext + 1 : elem[i].msg \in Msg
      BY <2>a, <3>1 DEF ListInv
    <3>3. pub' = Append(pub, elem[headNext + 1].msg)
      <4> DEFINE g == [i \in 1 .. headNext + 1 |-> elem[i].msg]
      <4>1. [i \in 1 .. headNext + 1 |-> g[i]] = Append([i \in 1 .. headNext |-> g[i]], g[headNext + 1])
        <5>1. \A i \in 1 .. headNext + 1 : g[i] \in Msg
          BY <3>2
        <5> HIDE DEF g
        <5> QED
          BY <5>1, <2>b, AppendPublished
      <4>2. [i \in 1 .. headNext + 1 |-> g[i]] = pub'
        BY <2>b, <3>1
      <4>3. [i \in 1 .. headNext |-> g[i]] = pub
        BY <2>b
      <4>4. g[headNext + 1] = elem[headNext + 1].msg
        BY <2>b
      <4> HIDE DEF g, pub
      <4> QED
        BY <4>1, <4>2, <4>3, <4>4
    <3>4. elem[headNext + 1].msg \in Msg /\ UNCHANGED <<tkn, batch>>
      BY <2>3, <2>b, <3>2 DEF push_cas
    <3> QED
      BY <3>3, <3>4 DEF M!Next, M!Publish
  <2>4. CASE ReturnNone /\ rpc = "idle" /\ UNCHANGED <<headNext, elem>> /\ headNext <= lastSeen
    <3>1. tkn = headNext /\ batch' = <<>> /\ UNCHANGED <<pub, tkn>>
      BY <2>4, <2>a DEF ReturnNone, ReceiverInv, TypeOK
    <3> QED
      BY <2>b, <3>1 DEF M!Next, M!ReceiveNone
  <2>5. CASE StartToVec /\ rpc = "idle" /\ UNCHANGED <<headNext, elem>>
    BY <2>5 DEF StartToVec, M!vars
  <2>6. CASE recv_first
    <3>1. elem[headNext].version = headNext
      BY <2>6, <2>a, <2>b DEF recv_first, ListInv
    <3> QED
      BY <2>4, <2>5, <2>6, <3>1 DEF recv_first
  <2>7. CASE recv_first_null
    <3>1. headNext <= lastSeen
      BY <2>7, <2>a DEF recv_first_null, TypeOK
    <3>2. CASE UNCHANGED receiverVars
      BY <2>7, <3>2 DEF recv_first_null, M!vars
    <3> QED
      BY <2>4, <2>5, <2>7, <3>1, <3>2 DEF recv_first_null
  <2>8. CASE to_vec
    BY <2>8 DEF to_vec, M!vars
  <2>9. CASE recv_update
    BY <2>9 DEF recv_update, M!vars
  <2>10. CASE recv_filter
    BY <2>10 DEF recv_filter, M!vars
  <2>11. CASE recv_return
    <3>1. /\ batch' = vec /\ UNCHANGED pub /\ tkn = seen /\ tkn' = lastSeen
          /\ rpc = "filter" /\ fi > Len(history)
      BY <2>11 DEF recv_return
    <3>2. /\ lastSeen = Top /\ Len(history) = Top /\ seen < Top /\ Top \in 1 .. headNext
          /\ seen \in Nat /\ Len(vec) = Top - seen
          /\ \A i \in 1 .. Len(vec) : vec[i] = history[i].msg
      <4>1. /\ lastSeen = Top /\ Len(history) = Top /\ seen < Top /\ history # <<>>
            /\ Len(vec) = IF fi - 1 <= Top - seen THEN fi - 1 ELSE Top - seen
            /\ \A i \in 1 .. Len(vec) : vec[i] = history[i].msg
        BY <2>a, <3>1 DEF FilterInv
      <4>2. Top \in 1 .. headNext
        BY <2>a, <4>1 DEF HistoryInv
      <4>3. fi \in Nat /\ seen \in Nat /\ headNext \in Nat
        BY <2>a DEF TypeOK
      <4> QED
        BY <3>1, <4>1, <4>2, <4>3
    <3>3. ASSUME NEW i \in 1 .. (Top - seen) PROVE vec[i] = pub[Top + 1 - i]
      <4>1. i \in 1 .. Len(history) /\ i \in 1 .. Len(vec) /\ Top + 1 - i \in 1 .. headNext
        BY <2>b, <3>2
      <4> QED
        BY <2>a, <3>2, <4>1 DEF HistoryInv
    <3>4. vec = [i \in 1 .. (Top - seen) |-> pub[Top + 1 - i]]
      <4>1. vec = [i \in 1 .. Len(vec) |-> vec[i]]
        BY <2>a DEF TypeOK
      <4> QED
        BY <3>2, <3>3, <4>1
    <3>5. Top \in (tkn + 1) .. Len(pub)
      BY <2>b, <3>1, <3>2
    <3> QED
      <4>1. batch' = M!NewestFirst(tkn, Top)
        BY <3>1, <3>4 DEF M!NewestFirst
      <4>2. M!Receive
        BY <3>1, <3>2, <3>5, <4>1 DEF M!Receive
      <4> QED
        BY <4>2 DEF M!Next
  <2>12. CASE UNCHANGED vars
    BY <2>12 DEF vars, M!vars
  <2> QED
    BY <2>1, <2>2, <2>3, <2>6, <2>7, <2>8, <2>9, <2>10, <2>11, <2>12 DEF Next, Sender, Receiver, M!vars
<1> QED
  BY <1>1, <1>2, Invariance, PTL DEF Spec, IsMailbox, M!Spec
=============================================================================
