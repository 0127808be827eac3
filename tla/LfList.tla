------------------------------- MODULE LfList -------------------------------
(***************************************************************************)
(* The list of collections/list.rs, in which a container keeps the         *)
(* containers it knows: a chain of boxed nodes behind a dummy node.        *)
(* Threads push, remove and iterate at the same time, preempted between    *)
(* any two accesses to shared memory (the kernel reaches a list through    *)
(* KObjectRef::as_mut, which lends it to any number of threads, so the     *)
(* &mut self of push and remove excludes nobody).                          *)
(*                                                                         *)
(* A node is its address; the allocator may give a freed address to the    *)
(* next push.  An element is the number of the push that brought it.       *)
(***************************************************************************)
EXTENDS Naturals, Sequences

CONSTANTS
    Pusher, Remover, Reader,   \* the threads that push, remove, iterate
    NAddr,         \* bound: addresses the allocator may give out
    MaxPush,       \* bound: elements pushed
    MaxNth         \* bound: positions asked for

ASSUME LfListAssumption == NAddr \in Nat /\ MaxPush \in Nat /\ MaxNth \in Nat

VARIABLES
    next, elem,    \* per node: Node::next and Node::elem
    live,          \* the addresses that are allocated
    pushed,        \* elements pushed so far
    items,         \* history: the nodes in the list, first to last
    taken,         \* history: the elements removals have returned
    clash,         \* history: a node was removed during another removal or iteration
    pc,            \* per thread: where it is
    cur, prev,     \* per thread: the node it is at (push: its own), and the one before
    val,           \* per thread: the pointer it loaded (old of try_push, new of a removal)
    arg,           \* per thread: steps left (remove_nth), element sought (remove)
    seen, first    \* per thread: elements iterated over; the list when iter was called

heap == <<next, elem, live>>
history == <<items, taken, clash>>
locals == <<cur, prev, val, arg>>
iteration == <<seen, first>>
vars == <<heap, pushed, history, pc, locals, iteration>>

Thread == Pusher \cup Remover \cup Reader
Addr == 1 .. NAddr
Null == 0
Dummy == NAddr + 1
Node == Addr \cup {Dummy}

\* List::new_in: the dummy node, and nothing behind it.
Init ==
    /\ next = [a \in Node |-> Null] /\ elem = [a \in Node |-> 0] /\ live = {Dummy}
    /\ pushed = 0 /\ items = <<>> /\ taken = {} /\ clash = FALSE
    /\ pc = [t \in Thread |-> "idle"]
    /\ cur = [t \in Thread |-> Null] /\ prev = [t \in Thread |-> Null]
    /\ val = [t \in Thread |-> Null] /\ arg = [t \in Thread |-> 0]
    /\ seen = [t \in Thread |-> <<>>] /\ first = [t \in Thread |-> <<>>]

Elems(nodes) == [i \in 1 .. Len(nodes) |-> elem[nodes[i]]]

\* The places of a node in the list, of which there is at most one, and the
\* list without it.
Behind(a) == {i \in 1 .. Len(items) : items[i] = a}
Without(a) ==
    LET k == CHOOSE i \in Behind(a) : TRUE
    IN  IF Behind(a) = {} THEN items
        ELSE SubSeq(items, 1, k - 1) \o SubSeq(items, k + 1, Len(items))

\* A call returns; its locals are gone.
Return(t) ==
    /\ pc' = [pc EXCEPT ![t] = "idle"]
    /\ cur' = [cur EXCEPT ![t] = Null] /\ prev' = [prev EXCEPT ![t] = Null]
    /\ val' = [val EXCEPT ![t] = Null] /\ arg' = [arg EXCEPT ![t] = 0]

Goto(t, where) == pc' = [pc EXCEPT ![t] = where]

-----------------------------------------------------------------------------
(* push                                                                    *)

\* push: the node of the element is allocated.
push(t) ==
    /\ pc[t] = "idle" /\ pushed < MaxPush
    /\ \E a \in Addr \ live :
          /\ live' = live \cup {a}
          /\ elem' = [elem EXCEPT ![a] = pushed + 1]
          /\ next' = [next EXCEPT ![a] = Null]
          /\ cur' = [cur EXCEPT ![t] = a]
    /\ pushed' = pushed + 1
    /\ Goto(t, "push")
    /\ UNCHANGED <<history, prev, val, arg, iteration>>

\* try_push up to the exchange: head.next is loaded and stored in the new
\* node, which no other thread has seen yet.
push_link(t) ==
    /\ pc[t] = "push"
    /\ val' = [val EXCEPT ![t] = next[Dummy]]
    /\ next' = [next EXCEPT ![cur[t]] = next[Dummy]]
    /\ Goto(t, "exchange")
    /\ UNCHANGED <<elem, live, pushed, history, cur, prev, arg, iteration>>

\* The compare_exchange on head.next that succeeds.
push_done(t) ==
    /\ pc[t] = "exchange" /\ next[Dummy] = val[t]
    /\ next' = [next EXCEPT ![Dummy] = cur[t]]
    /\ items' = <<cur[t]>> \o items
    /\ Return(t)
    /\ UNCHANGED <<elem, live, pushed, taken, clash, iteration>>

\* Mutant: the exchange is tried again with the old value.
push_retry_stale(t) ==
    /\ pc[t] = "exchange" /\ next[Dummy] # val[t]
    /\ UNCHANGED vars

\* Mutant: the result of try_push is not looked at.
push_retry_ignored(t) ==
    /\ pc[t] = "exchange" /\ next[Dummy] # val[t]
    /\ Return(t)
    /\ UNCHANGED <<heap, pushed, history, iteration>>

\* The one that fails: push calls try_push again.
push_retry(t) ==
    /\ pc[t] = "exchange" /\ next[Dummy] # val[t]
    /\ Goto(t, "push")
    /\ UNCHANGED <<heap, pushed, history, locals, iteration>>

-----------------------------------------------------------------------------
(* remove_nth, pop and remove                                              *)

\* remove_nth(nth), from the dummy node on; pop is remove_nth(1).  For 0 it
\* returns None without a look at the list.
remove_nth(t, nth) ==
    /\ pc[t] = "idle"
    /\ cur' = [cur EXCEPT ![t] = Dummy] /\ arg' = [arg EXCEPT ![t] = nth]
    /\ Goto(t, "count")
    /\ UNCHANGED <<heap, pushed, history, prev, val, iteration>>

\* remove(f), where f holds of the element e only.
remove(t, e) ==
    /\ pc[t] = "idle"
    /\ cur' = [cur EXCEPT ![t] = Dummy] /\ arg' = [arg EXCEPT ![t] = e]
    /\ Goto(t, "seek")
    /\ UNCHANGED <<heap, pushed, history, prev, val, iteration>>

\* An iteration of either loop: the next node is loaded and becomes cur; the
\* loop is left at the nth node, or at the node f holds of.
step(t) ==
    LET node == next[cur[t]]
        arrived == IF pc[t] = "count" THEN arg[t] = 1 ELSE elem[node] = arg[t]
    IN  /\ pc[t] \in {"count", "seek"} /\ node # Null
        /\ prev' = [prev EXCEPT ![t] = cur[t]] /\ cur' = [cur EXCEPT ![t] = node]
        /\ arg' = [arg EXCEPT ![t] = IF pc[t] = "count" THEN @ - 1 ELSE @]
        /\ Goto(t, IF arrived THEN "found" ELSE pc[t])
        /\ UNCHANGED <<heap, pushed, history, val, iteration>>

\* The end of the list comes first: None.
step_end(t) ==
    /\ pc[t] \in {"count", "seek"} /\ next[cur[t]] = Null
    /\ Return(t)
    /\ UNCHANGED <<heap, pushed, history, iteration>>

\* Mutant: the node is taken out of its box before it is unlinked.
load_new_frees(t) ==
    /\ pc[t] = "found"
    /\ val' = [val EXCEPT ![t] = next[cur[t]]]
    /\ live' = live \ {cur[t]}
    /\ Goto(t, "unlink")
    /\ UNCHANGED <<next, elem, pushed, history, cur, prev, arg, iteration>>

\* cur.next is loaded.
load_new(t) ==
    /\ pc[t] = "found"
    /\ val' = [val EXCEPT ![t] = next[cur[t]]]
    /\ Goto(t, "unlink")
    /\ UNCHANGED <<heap, pushed, history, cur, prev, arg, iteration>>

Removing(t) == pc[t] \in {"count", "seek", "found", "unlink"}
Iterating(t) == pc[t] = "iter"

\* Mutant: prev.next is stored to and not exchanged.
unlink_stores(t) ==
    /\ pc[t] = "unlink"
    /\ next' = [next EXCEPT ![prev[t]] = val[t], ![cur[t]] = Null]
    /\ elem' = [elem EXCEPT ![cur[t]] = 0]
    /\ items' = Without(cur[t])
    /\ taken' = taken \cup {elem[cur[t]]}
    /\ live' = live \ {cur[t]}
    /\ clash' = \E u \in Thread \ {t} : Removing(u) \/ Iterating(u)
    /\ Return(t)
    /\ UNCHANGED <<pushed, iteration>>

\* The compare_exchange on prev.next that succeeds: the node is freed (what its
\* memory holds then is of no account, MemorySafe says) and its element
\* returned.
unlink(t) ==
    /\ pc[t] = "unlink" /\ next[prev[t]] = cur[t]
    /\ next' = [next EXCEPT ![prev[t]] = val[t], ![cur[t]] = Null]
    /\ elem' = [elem EXCEPT ![cur[t]] = 0]
    /\ items' = Without(cur[t])
    /\ taken' = taken \cup {elem[cur[t]]}
    /\ live' = live \ {cur[t]}
    /\ clash' = \E u \in Thread \ {t} : Removing(u) \/ Iterating(u)
    /\ Return(t)
    /\ UNCHANGED <<pushed, iteration>>

\* The one that fails: None.
unlink_fails(t) ==
    /\ pc[t] = "unlink" /\ next[prev[t]] # cur[t]
    /\ Return(t)
    /\ UNCHANGED <<heap, pushed, history, iteration>>

-----------------------------------------------------------------------------
(* iter and iter_mut; len is an iteration                                  *)

iter(t) ==
    /\ pc[t] = "idle"
    /\ cur' = [cur EXCEPT ![t] = next[Dummy]]
    /\ seen' = [seen EXCEPT ![t] = <<>>]
    /\ first' = [first EXCEPT ![t] = Elems(items)]
    /\ Goto(t, "iter")
    /\ UNCHANGED <<heap, pushed, history, prev, val, arg>>

\* Mutant: the iterator moves before it takes the element.
iter_next_skips(t) ==
    /\ pc[t] = "iter" /\ cur[t] # Null /\ next[cur[t]] # Null
    /\ seen' = [seen EXCEPT ![t] = Append(@, elem[next[cur[t]]])]
    /\ cur' = [cur EXCEPT ![t] = next[cur[t]]]
    /\ UNCHANGED <<heap, pushed, history, pc, prev, val, arg, first>>

\* Iter::next, IterMut::next that return Some
iter_next(t) ==
    /\ pc[t] = "iter" /\ cur[t] # Null
    /\ seen' = [seen EXCEPT ![t] = Append(@, elem[cur[t]])]
    /\ cur' = [cur EXCEPT ![t] = next[cur[t]]]
    /\ UNCHANGED <<heap, pushed, history, pc, prev, val, arg, first>>

\* and None
iter_end(t) ==
    /\ pc[t] = "iter" /\ cur[t] = Null
    /\ Return(t)
    /\ seen' = [seen EXCEPT ![t] = <<>>] /\ first' = [first EXCEPT ![t] = <<>>]
    /\ UNCHANGED <<heap, pushed, history>>

-----------------------------------------------------------------------------
call(t) ==
    \/ t \in Pusher /\ push(t)
    \/ t \in Remover /\ \E nth \in 1 .. MaxNth : remove_nth(t, nth)
    \/ t \in Remover /\ \E e \in 1 .. MaxPush : remove(t, e)
    \/ t \in Reader /\ iter(t)

run(t) ==
    \/ push_link(t) \/ push_done(t) \/ push_retry(t)
    \/ step(t) \/ step_end(t) \/ load_new(t) \/ unlink(t) \/ unlink_fails(t)
    \/ iter_next(t) \/ iter_end(t)

\* What follows a clash is not looked at: the other thread may hold a node
\* that is freed.
Next == ~clash /\ \E t \in Thread : call(t) \/ run(t)

\* A thread in the middle of a call is scheduled again.
Spec == Init /\ [][Next]_vars /\ \A t \in Thread : WF_vars(~clash /\ run(t))

-----------------------------------------------------------------------------
(* Properties                                                              *)

\* Up to a removal during another removal or an iteration, and whatever
\* pushes do meanwhile: the links lead through the nodes of the list in order,
\* so that no compare_exchange ever cut off or revived a node.
At(i) == IF i = 0 THEN Dummy ELSE IF i > Len(items) THEN Null ELSE items[i]
Linked == ~clash => \A i \in 0 .. Len(items) : next[At(i)] = At(i + 1)

\* Every pushed element is in the list, or was returned by one removal, or is
\* still on its way, and only once: a push that loses its race or a failed
\* removal loses or doubles nothing, although addresses are used again.
Pending == {elem[cur[t]] : t \in {u \in Thread : pc[u] \in {"push", "exchange"}}}
InList == {elem[items[i]] : i \in 1 .. Len(items)}
NothingLost ==
    /\ 1 .. pushed = InList \cup taken \cup Pending
    /\ InList \cap taken = {} /\ InList \cap Pending = {} /\ taken \cap Pending = {}
    /\ \A i, j \in 1 .. Len(items) : elem[items[i]] = elem[items[j]] => i = j

\* No thread follows a pointer to a node that is freed, pushes that run during
\* a removal included, as long as removals keep clear of removals and
\* iterations.
Held(t) == IF pc[t] = "idle" THEN {} ELSE {cur[t], prev[t]} \ {Null}
MemorySafe == ~clash => \A t \in Thread : Held(t) \subseteq live

\* An iteration sees exactly what was in the list when it began, in order,
\* however much is pushed in front of it meanwhile.
IterExact ==
    ~clash => \A t \in Thread : Iterating(t) =>
        \/ cur[t] = Null /\ seen[t] = first[t]
        \/ \E i \in Behind(cur[t]) :
              first[t] = seen[t] \o Elems(SubSeq(items, i, Len(items)))

\* A push returns once the other writers have stopped ("blocks only when multiple
\* writers"; the number of pushes is bounded here): every failed exchange is
\* tried again with a fresh look at the list, and no two pushes hold each other up.
PushesEnd ==
    \A t \in Thread : (pc[t] \in {"push", "exchange"}) ~> (pc[t] = "idle" \/ clash)
=============================================================================
