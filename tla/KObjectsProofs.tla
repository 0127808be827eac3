--------------------------- MODULE KObjectsProofs ---------------------------
(***************************************************************************)
(* Proofs for every number of pages, pools and tasks, as long as no two    *)
(* schedulers create objects in the same container: every page is taken    *)
(* once, an arena leaves the pages of its object only behind a thread,     *)
(* every object is in one slot, every reference points to an object of its *)
(* type, and the pages taken stay with their container.                    *)
(***************************************************************************)
EXTENDS KObjects, SequenceTheorems, WellFoundedInduction, TLAPS

\* Where an actor works on a container, and where its page is one.
Busy == {"check", "slot", "find", "take", "create", "set", "label", "done"}
Paged == {"take", "create", "set", "label", "done", "move_take", "move_insert"}

\* Types, and how far boot has come.
Local ==
    /\ pc[Main] # "root" => root \in Page
    /\ \A a \in Actor : pc[a] \in Paged => page[a] \in Page
    /\ \A a \in Actor : part[a] \in {"Label", op[a]}
    /\ \A p \in Pool : op[p] = "Thread"
    /\ \A p \in Pool : pc[p] \in (Busy \ {"label"}) \cup {"wait", "loop"}
    /\ \A p \in Pool : pc[p] # "wait" => pc[Main] = "idle"
    /\ \A p \in Pool : pc[p] \in Busy => todo[p] > 0
    /\ \A p \in Pool : todo[p] <= Tasks[p]

Pools ==
    /\ \A q \in Pool : q < boot => pool[q] \in Page
    /\ pc[Main] \in {"grant", "idle"} => \A q \in Pool : pool[q] \in Page
    /\ pc[Main] \in {"move_find", "move_take", "move_insert"} => pool[boot] \in Page
    /\ pc[Main] \in {"label", "done"} => part[Main] = op[Main]
    /\ pc[Main] = "label" => op[Main] = "Container"
    /\ pc[Main] = "root" => \A o \in Page : kind[o] = "None"
    /\ root \in Page => kind[root] = "Container"
    /\ \A q \in Pool : pool[q] \in Page => kind[pool[q]] = "Container"
    /\ \A q, r \in Pool : q # r /\ pool[q] = pool[r] => pool[q] = Invalid
    /\ part[Main] = "Container" /\ pc[Main] \in {"set", "label", "done"} =>
          kind[page[Main]] = "Container" /\ \A q \in Pool : pool[q] # page[Main]

\* What get_multiple has found is still there when it deletes it, and only
\* containers have free pages.
Tree ==
    /\ \A o \in Page : kind[o] = "None" => free[o] = {}
    /\ \A o \in Page : Extent(o) \subseteq Page
    /\ \A a \in Actor : Held(a) \subseteq Page
    /\ \A a \in Actor : pc[a] = "take" => Run(page[a], Size(part[a])) \subseteq free[Ct(a)]
    /\ pc[Main] = "move_take" => Run(page[Main], NMove) \subseteq free[root]

IInv == TypeOK /\ Local /\ Pools /\ Tree /\ TakenOnce

\* Where the object of an actor is written, and where it has a slot to put it in.
Created == {"set", "label", "done"}
Reserving == {"find", "take", "create", "set"}

\* What an actor has written is an object of the kind it meant, with its label
\* at hand; the root knows containers of pools only, and boot goes on to the
\* next pool when the last one has its scheduler.
Refs ==
    /\ \A a \in Actor : pc[a] \in Created => kind[page[a]] = part[a]
    /\ \A a \in Actor : pc[a] \in {"label", "done"} => part[a] = op[a]
    /\ \A a \in Actor : part[a] # "Label" => lb[a] \in Page
    /\ pc[Main] = "done" /\ op[Main] = "Container" => label[page[Main]] \in Page
    /\ \A i \in 1 .. Len(known) : \E q \in Pool : known[i] = pool[q]
    /\ \A q \in Pool : q < boot \/ pc[Main] \in {"grant", "idle"} => scheduler[pool[q]] \in Page
    /\ \A q \in Pool : q > boot => pool[q] = Invalid
    /\ op[Main] = "Container" /\ pc[Main] \in Busy => pool[boot] = Invalid
    /\ pc[Main] = "root" =>
          \A o \in Page : parent[o] = Invalid /\ label[o] = Invalid /\ scheduler[o] = Invalid

\* Slots hold objects, each object one of them; the slot an actor was given is
\* still vacant, and what it is about to put there is nowhere yet.
Filed ==
    /\ \A c \in Page : \A i \in 1 .. Len(slots[c]) : slots[c][i] # Invalid =>
          kind[c] = "Container" /\ kind[slots[c][i]] # "None"
    /\ \A c, d \in Page : \A i \in 1 .. Len(slots[c]), j \in 1 .. Len(slots[d]) :
          slots[c][i] = slots[d][j] /\ slots[c][i] # Invalid => c = d /\ i = j
    /\ \A o \in Page : kind[o] # "None" /\ o # root /\ o # label[root] =>
          \/ \E c \in Page : \E i \in 1 .. Len(slots[c]) : slots[c][i] = o
          \/ \E a \in Actor : pc[a] = "set" /\ page[a] = o
    /\ \A a \in Actor : pc[a] \in Reserving =>
          slot[a] \in 1 .. Len(slots[Ct(a)]) /\ slots[Ct(a)][slot[a]] = Invalid
    /\ \A a \in Actor : pc[a] = "set" =>
          \A c \in Page : \A i \in 1 .. Len(slots[c]) : slots[c][i] # page[a]
    /\ \A a, b \in Actor : a # b /\ pc[a] = "set" /\ pc[b] = "set" => page[a] # page[b]
    /\ pc[Main] \in {"set", "label"} => page[Main] # root
    /\ pc[Main] = "root" => root = Invalid

-----------------------------------------------------------------------------
(* Runs of pages                                                           *)

\* A nonempty set of natural numbers has a least element.
LEMMA Minimum ==
    ASSUME NEW S \in SUBSET Nat, S # {}
    PROVE  \E p \in S : \A q \in S : p <= q
<1> DEFINE R == {ss \in Nat \X Nat : ss[1] < ss[2]}
<1>1. IsWellFoundedOn(R, Nat)
  BY NatLessThanWellFounded DEF OpToRel
<1> HIDE DEF R
<1>2. PICK p \in S : \A q \in S : ~(<<q, p>> \in R)
  BY <1>1, WFMin, Zenon
<1>3. \A q \in S : ~(q < p)
  BY <1>2 DEF R
<1> QED BY <1>3

\* What get_multiple returns is the first page of a free run.
LEMMA FirstFitFits ==
    ASSUME NEW S \in SUBSET Page, NEW n, Fits(S, n) # {}
    PROVE  FirstFit(S, n) \in Page /\ Run(FirstFit(S, n), n) \subseteq S
<1>1. Page \subseteq Nat
  BY KObjectsAssumption DEF Page
<1>2. Fits(S, n) \in SUBSET Nat
  BY <1>1 DEF Fits
<1>3. \E p \in Fits(S, n) : \A q \in Fits(S, n) : p <= q
  BY <1>2, Minimum
<1>4. FirstFit(S, n) \in Fits(S, n)
  BY <1>3, Zenon DEF FirstFit
<1> QED BY <1>4 DEF Fits

\* A run that is not empty contains its first page.
LEMMA RunStart ==
    ASSUME NEW p \in Page, NEW n \in Nat \ {0}
    PROVE  p \in Run(p, n)
BY KObjectsAssumption DEF Run, Page

\* Assigning an element of a sequence leaves a sequence.
LEMMA SeqUpdate ==
    ASSUME NEW S, NEW s \in Seq(S), NEW i, NEW x \in S
    PROVE  [s EXCEPT ![i] = x] \in Seq(S)
<1>1. Len(s) \in Nat /\ s \in [1 .. Len(s) -> S]
  OBVIOUS
<1>2. [s EXCEPT ![i] = x] \in [1 .. Len(s) -> S]
  BY <1>1
<1> QED BY <1>1, <1>2, SeqDef

\* Every object has at least one page.
LEMMA SizePositive == \A k : Size(k) \in Nat \ {0}
BY KObjectsAssumption DEF Size

-----------------------------------------------------------------------------
(* The partition, step by step                                             *)

\* A step that neither takes nor makes anything.
LEMMA PartitionFrame ==
    ASSUME TakenOnce, pc[Main] # "root",
           free' = free, kind' = kind,
           \A a \in Actor : Held(a)' = Held(a)
    PROVE  TakenOnce'
<1>1. \A o \in Page : Extent(o)' = Extent(o)
  BY DEF Extent
<1> QED BY <1>1 DEF TakenOnce

\* A run leaves the free pages of a container.
LEMMA PartitionTake ==
    ASSUME TakenOnce, pc[Main] # "root", kind' = kind,
           NEW c \in Page, NEW R, NEW a \in Actor, R \subseteq free[c], Held(a) = {},
           free \in [Page -> SUBSET Page],
           free' = [free EXCEPT ![c] = free[c] \ R],
           Held(a)' = R, \A b \in Actor \ {a} : Held(b)' = Held(b)
    PROVE  TakenOnce'
<1>1. \A o \in Page : Extent(o)' = Extent(o)
  BY DEF Extent
<1>2. \A d \in Page : free'[d] = IF d = c THEN free[c] \ R ELSE free[d]
  OBVIOUS
<1>3. \A d \in Page : free'[d] \subseteq free[d]
  BY <1>2
<1>4. \A d, e \in Page : d # e => free'[d] \cap free'[e] = {} /\ Extent(d)' \cap Extent(e)' = {}
  BY <1>1, <1>3 DEF TakenOnce
<1>5. \A d, e \in Page : free'[d] \cap Extent(e)' = {}
  BY <1>1, <1>3 DEF TakenOnce
<1>6. \A b \in Actor, d \in Page : Held(b)' \cap free'[d] = {} /\ Held(b)' \cap Extent(d)' = {}
  BY <1>1, <1>2 DEF TakenOnce
<1>7. \A b, d \in Actor : b # d => Held(b)' \cap Held(d)' = {}
  BY DEF TakenOnce
<1>8. \A p \in Page : \/ \E d \in Page : p \in free'[d] \cup Extent(d)'
                      \/ \E b \in Actor : p \in Held(b)'
  <2> SUFFICES ASSUME NEW p \in Page, \A b \in Actor : p \notin Held(b)'
               PROVE  \E d \in Page : p \in free'[d] \cup Extent(d)'
    OBVIOUS
  <2>1. p \notin R /\ \A b \in Actor : p \notin Held(b)
    OBVIOUS
  <2>2. PICK d \in Page : p \in free[d] \cup Extent(d)
    BY <2>1 DEF TakenOnce
  <2> QED BY <2>1, <2>2, <1>1, <1>2
<1> QED BY <1>4, <1>5, <1>6, <1>7, <1>8 DEF TakenOnce

\* A run that was taken becomes an object.
LEMMA PartitionCreate ==
    ASSUME TakenOnce, pc[Main] # "root", free' = free,
           NEW a \in Actor, NEW o \in Page,
           Extent(o) = {}, Extent(o)' = Held(a), Held(a)' = {},
           \A q \in Page \ {o} : Extent(q)' = Extent(q),
           \A b \in Actor \ {a} : Held(b)' = Held(b)
    PROVE  TakenOnce'
<1>1. \A d, e \in Page : d # e => free'[d] \cap free'[e] = {} /\ Extent(d)' \cap Extent(e)' = {}
  BY DEF TakenOnce
<1>2. \A d, e \in Page : free'[d] \cap Extent(e)' = {}
  BY DEF TakenOnce
<1>3. \A b \in Actor, d \in Page : Held(b)' \cap free'[d] = {} /\ Held(b)' \cap Extent(d)' = {}
  BY DEF TakenOnce
<1>4. \A b, d \in Actor : b # d => Held(b)' \cap Held(d)' = {}
  BY DEF TakenOnce
<1>5. \A p \in Page : \/ \E d \in Page : p \in free'[d] \cup Extent(d)'
                      \/ \E b \in Actor : p \in Held(b)'
  BY DEF TakenOnce
<1> QED BY <1>1, <1>2, <1>3, <1>4, <1>5 DEF TakenOnce

\* A run that was taken goes to another container.
LEMMA PartitionInsert ==
    ASSUME TakenOnce, pc[Main] # "root", kind' = kind,
           NEW a \in Actor, NEW c \in Page,
           free \in [Page -> SUBSET Page],
           free' = [free EXCEPT ![c] = free[c] \cup Held(a)], Held(a)' = {},
           \A b \in Actor \ {a} : Held(b)' = Held(b)
    PROVE  TakenOnce'
<1>1. \A o \in Page : Extent(o)' = Extent(o)
  BY DEF Extent
<1>2. \A d \in Page : free'[d] = IF d = c THEN free[c] \cup Held(a) ELSE free[d]
  OBVIOUS
<1>3. \A d, e \in Page : d # e => free'[d] \cap free'[e] = {} /\ Extent(d)' \cap Extent(e)' = {}
  BY <1>1, <1>2 DEF TakenOnce
<1>4. \A d, e \in Page : free'[d] \cap Extent(e)' = {}
  BY <1>1, <1>2 DEF TakenOnce
<1>5. \A b \in Actor, d \in Page : Held(b)' \cap free'[d] = {} /\ Held(b)' \cap Extent(d)' = {}
  BY <1>1, <1>2 DEF TakenOnce
<1>6. \A b, d \in Actor : b # d => Held(b)' \cap Held(d)' = {}
  BY DEF TakenOnce
<1>7. \A p \in Page : \/ \E d \in Page : p \in free'[d] \cup Extent(d)'
                      \/ \E b \in Actor : p \in Held(b)'
  BY <1>1, <1>2 DEF TakenOnce
<1> QED BY <1>3, <1>4, <1>5, <1>6, <1>7 DEF TakenOnce

-----------------------------------------------------------------------------
(* Who works where                                                         *)

\* The container an actor works in is one.
LEMMA CtContainer ==
    ASSUME IInv, NEW a \in Actor, pc[a] \in Busy
    PROVE  Ct(a) \in Page /\ kind[Ct(a)] = "Container" /\ pc[Main] # "root"
<1>1. CASE a = Main
  BY <1>1 DEF IInv, TypeOK, Local, Pools, Ct, Busy
<1>2. CASE a # Main
  <2>1. a \in Pool /\ Home[a] \in Pool
    BY <1>2, KObjectsAssumption DEF Actor
  <2>2. pc[Main] = "idle"
    BY <2>1 DEF IInv, Local, Busy
  <2>3. pool[Home[a]] \in Page /\ kind[pool[Home[a]]] = "Container"
    BY <2>1, <2>2 DEF IInv, Pools
  <2> QED BY <1>2, <2>2, <2>3 DEF Ct
<1> QED BY <1>1, <1>2

\* No two actors work in the same one.
LEMMA CtDistinct ==
    ASSUME IInv, Exclusive, NEW a \in Actor, NEW b \in Actor, a # b,
           pc[a] \in Busy, pc[b] \in Busy
    PROVE  Ct(a) # Ct(b)
<1>1. a \in Pool /\ b \in Pool
  BY DEF IInv, Local, Busy, Actor
<1>2. Home[a] # Home[b]
  <2>1. todo[a] > 0 /\ todo[b] > 0 /\ todo[a] <= Tasks[a] /\ todo[b] <= Tasks[b]
    BY <1>1 DEF IInv, Local
  <2>2. todo[a] \in Nat /\ todo[b] \in Nat /\ Tasks[a] \in Nat /\ Tasks[b] \in Nat
    BY <1>1, KObjectsAssumption DEF IInv, TypeOK
  <2>3. Tasks[a] > 0 /\ Tasks[b] > 0
    BY <2>1, <2>2
  <2> QED BY <1>1, <2>3 DEF Exclusive
<1>3. pool[Home[a]] \in Page
  BY <1>1, KObjectsAssumption DEF IInv, Local, Pools, Busy
<1>4. pool[Home[a]] # pool[Home[b]]
  BY <1>1, <1>2, <1>3, KObjectsAssumption DEF IInv, Pools
<1> QED BY <1>1, <1>4 DEF Ct, Main, Pool

-----------------------------------------------------------------------------
(* Every action preserves the invariant                                    *)

\* The steps of a creation.
LEMMA CheckStep ==
    ASSUME IInv, NEW a \in Actor, check(a)
    PROVE  IInv'
<1> USE DEF check, Goto, metaVars, bootVars
<1>1. TypeOK'
  BY DEF IInv, TypeOK, Pc
<1>2. Local'
  BY DEF IInv, TypeOK, Local, Busy, Paged, Actor
<1>3. Pools'
  BY DEF IInv, TypeOK, Pools, Actor
<1>4. \A b \in Actor : Held(b)' = Held(b)
  BY DEF IInv, TypeOK, Held
<1>5. Tree'
  BY <1>4 DEF IInv, TypeOK, Tree, Extent, Ct
<1>6. TakenOnce'
  BY <1>4, CtContainer, PartitionFrame DEF IInv, Busy
<1> QED BY <1>1, <1>2, <1>3, <1>5, <1>6 DEF IInv

LEMMA GetSlotStep ==
    ASSUME IInv, NEW a \in Actor, get_slot(a)
    PROVE  IInv'
<1> USE DEF get_slot, Goto, metaVars, bootVars
<1>1. TypeOK'
  <2> DEFINE s == slots[Ct(a)]
             i == IF Vacant(s) = {} THEN Len(s) + 1
                  ELSE CHOOSE j \in Vacant(s) : \A k \in Vacant(s) : j <= k
  <2>1. Ct(a) \in Page
    BY CtContainer DEF Busy
  <2>2. s \in Seq(Page \cup {Invalid})
    BY <2>1 DEF IInv, TypeOK
  <2>3. i \in Nat
    <3>1. CASE Vacant(s) = {}
      BY <2>2, <3>1
    <3>2. CASE Vacant(s) # {}
      <4>1. Vacant(s) \in SUBSET Nat
        BY <2>2 DEF Vacant
      <4>2. \E j \in Vacant(s) : \A k \in Vacant(s) : j <= k
        BY <3>2, <4>1, Minimum
      <4>3. i \in Vacant(s)
        BY <3>2, <4>2, Zenon
      <4> QED BY <4>1, <4>3
    <3> QED BY <3>1, <3>2
  <2> HIDE DEF i
  <2>4. slots' = [slots EXCEPT ![Ct(a)] = IF i > Len(s) THEN Append(s, Invalid) ELSE s]
    BY DEF i
  <2>5. (IF i > Len(s) THEN Append(s, Invalid) ELSE s) \in Seq(Page \cup {Invalid})
    BY <2>2
  <2>6. slots' \in [Page -> Seq(Page \cup {Invalid})]
    BY <2>4, <2>5 DEF IInv, TypeOK
  <2>7. slot' \in [Actor -> Nat]
    BY <2>3 DEF IInv, TypeOK, i
  <2>8. pc' \in [Actor -> Pc]
    BY DEF IInv, TypeOK, Pc
  <2> QED BY <2>6, <2>7, <2>8 DEF IInv, TypeOK
<1>2. Local'
  BY DEF IInv, TypeOK, Local, Busy, Paged, Actor
<1>3. Pools'
  BY DEF IInv, TypeOK, Pools, Actor
<1>4. \A b \in Actor : Held(b)' = Held(b)
  BY DEF IInv, TypeOK, Held
<1>5. Tree'
  BY <1>4 DEF IInv, TypeOK, Tree, Extent, Ct
<1>6. TakenOnce'
  BY <1>4, CtContainer, PartitionFrame DEF IInv, Busy
<1> QED BY <1>1, <1>2, <1>3, <1>5, <1>6 DEF IInv

LEMMA SetSlotStep ==
    ASSUME IInv, NEW a \in Actor, set_slot(a)
    PROVE  IInv'
<1> USE DEF set_slot, Goto, metaVars, bootVars
<1>1. TypeOK'
  <2>1. Ct(a) \in Page /\ page[a] \in Page
    BY CtContainer DEF IInv, Local, Busy, Paged
  <2>2. slots[Ct(a)] \in Seq(Page \cup {Invalid})
    BY <2>1 DEF IInv, TypeOK
  <2>3. [slots[Ct(a)] EXCEPT ![slot[a]] = page[a]] \in Seq(Page \cup {Invalid})
    BY <2>1, <2>2, SeqUpdate
  <2>4. slots' \in [Page -> Seq(Page \cup {Invalid})]
    BY <2>1, <2>3 DEF IInv, TypeOK
  <2>5. lb' \in [Actor -> Page \cup {Invalid}]
    BY <2>1 DEF IInv, TypeOK
  <2> QED BY <2>4, <2>5 DEF IInv, TypeOK, Pc
<1>2. Local'
  BY DEF IInv, TypeOK, Local, Busy, Paged, Actor
<1>3. Pools'
  BY DEF IInv, TypeOK, Local, Pools, Actor
<1>4. \A b \in Actor : Held(b)' = Held(b)
  BY DEF IInv, TypeOK, Held
<1>5. Tree'
  BY <1>4 DEF IInv, TypeOK, Tree, Extent, Ct
<1>6. TakenOnce'
  BY <1>4, CtContainer, PartitionFrame DEF IInv, Busy
<1> QED BY <1>1, <1>2, <1>3, <1>5, <1>6 DEF IInv

LEMMA SetLabelStep ==
    ASSUME IInv, NEW a \in Actor, set_label(a)
    PROVE  IInv'
<1> USE DEF set_label, Goto, metaVars, bootVars
<1>1. TypeOK'
  BY DEF IInv, TypeOK, Pc
<1>2. Local'
  BY DEF IInv, TypeOK, Local, Busy, Paged, Actor
<1>3. Pools'
  BY DEF IInv, TypeOK, Pools, Actor
<1>4. \A b \in Actor : Held(b)' = Held(b)
  BY DEF IInv, TypeOK, Held
<1>5. Tree'
  BY <1>4 DEF IInv, TypeOK, Tree, Extent, Ct
<1>6. TakenOnce'
  BY <1>4, CtContainer, PartitionFrame DEF IInv, Busy
<1> QED BY <1>1, <1>2, <1>3, <1>5, <1>6 DEF IInv

\* The steps of the boot thread that touch no page.
LEMMA BootThreadStep ==
    ASSUME IInv, boot_thread
    PROVE  IInv'
<1> USE DEF boot_thread, Goto, metaVars, bootVars
<1>1. Main \in Actor /\ page[Main] \in Page /\ root \in Page /\ (\A p \in Pool : pc[p] = "wait")
  BY DEF IInv, Local, Paged, Actor
<1>2. TypeOK'
  BY <1>1 DEF IInv, TypeOK, Pc
<1>3. Local'
  BY DEF IInv, TypeOK, Local, Busy, Paged, Actor
<1>4. Pools'
  BY DEF IInv, TypeOK, Pools, Actor
<1>5. \A b \in Actor : Held(b)' = Held(b)
  BY DEF IInv, TypeOK, Held
<1>6. Tree'
  BY <1>5 DEF IInv, TypeOK, Tree, Extent, Ct
<1>7. TakenOnce'
  BY <1>5, PartitionFrame DEF IInv
<1> QED BY <1>2, <1>3, <1>4, <1>6, <1>7 DEF IInv

LEMMA BootKnownStep ==
    ASSUME IInv, boot_known
    PROVE  IInv'
<1> USE DEF boot_known, Goto, metaVars, bootVars
<1>1. Main \in Actor /\ page[Main] \in Page /\ root \in Page /\ (\A p \in Pool : pc[p] = "wait")
  BY DEF IInv, Local, Paged, Actor
<1>2. TypeOK'
  BY <1>1 DEF IInv, TypeOK, Pc
<1>3. Local'
  BY DEF IInv, TypeOK, Local, Busy, Paged, Actor
<1>4. Pools'
  BY <1>1 DEF IInv, TypeOK, Local, Pools
<1>5. \A b \in Actor : Held(b)' = Held(b)
  BY DEF IInv, TypeOK, Held
<1>6. Tree'
  BY <1>1, <1>5 DEF IInv, TypeOK, Tree, Extent, Actor
<1>7. TakenOnce'
  BY <1>5, PartitionFrame DEF IInv
<1> QED BY <1>2, <1>3, <1>4, <1>6, <1>7 DEF IInv

LEMMA BootSchedulerStep ==
    ASSUME IInv, boot_scheduler
    PROVE  IInv'
<1> USE DEF boot_scheduler, Goto, metaVars, bootVars
<1>1. Main \in Actor /\ page[Main] \in Page /\ root \in Page /\ (\A p \in Pool : pc[p] = "wait")
  BY DEF IInv, Local, Paged, Actor
<1>2. TypeOK'
  <2>1. boot' \in Pool
    BY KObjectsAssumption DEF IInv, TypeOK, Pool
  <2> QED BY <1>1, <2>1 DEF IInv, TypeOK, Pc
<1>3. Local'
  BY DEF IInv, TypeOK, Local, Busy, Paged, Actor
<1>4. Pools'
  <2>1. pool[boot] \in Page
    BY DEF IInv, TypeOK
  <2>2. boot \in Int /\ NPools \in Int /\ \A q \in Pool : q \in Int /\ q <= NPools
    BY KObjectsAssumption DEF IInv, TypeOK, Pool
  <2>3. \A q \in Pool : q < boot' => pool[q] \in Page
    BY <2>1, <2>2 DEF IInv, Pools
  <2>4. boot = NPools => \A q \in Pool : pool[q] \in Page
    BY <2>1, <2>2 DEF IInv, Pools
  <2> QED BY <1>1, <2>3, <2>4 DEF IInv, TypeOK, Pools
<1>5. \A b \in Actor : Held(b)' = Held(b)
  BY DEF IInv, TypeOK, Held
<1>6. Tree'
  BY <1>1, <1>5 DEF IInv, TypeOK, Tree, Extent, Actor
<1>7. TakenOnce'
  BY <1>5, PartitionFrame DEF IInv
<1> QED BY <1>2, <1>3, <1>4, <1>6, <1>7 DEF IInv

LEMMA GrantStep ==
    ASSUME IInv, grant
    PROVE  IInv'
<1> USE DEF grant, Goto, metaVars, bootVars
<1>1. Main \in Actor /\ \A p \in Pool : pc[p] = "wait" /\ p # Main
  BY DEF IInv, Local, Actor, Main, Pool
<1>2. TypeOK'
  BY <1>1, KObjectsAssumption DEF IInv, TypeOK, Pc
<1>3. Local'
  BY <1>1, KObjectsAssumption DEF IInv, TypeOK, Local, Busy, Paged, Actor
<1>4. Pools'
  BY DEF IInv, TypeOK, Pools, Actor
<1>5. \A b \in Actor : Held(b)' = Held(b)
  BY <1>1 DEF IInv, TypeOK, Held, Actor
<1>6. Tree'
  BY <1>1, <1>5 DEF IInv, TypeOK, Tree, Extent, Actor
<1>7. TakenOnce'
  BY <1>5, PartitionFrame DEF IInv
<1> QED BY <1>2, <1>3, <1>4, <1>6, <1>7 DEF IInv

\* The steps of a scheduler between two creations.
LEMMA SchedSpawnStep ==
    ASSUME IInv, NEW p \in Pool, sched_spawn(p)
    PROVE  IInv'
<1> USE DEF sched_spawn, Goto, metaVars, bootVars
<1>1. p \in Actor /\ p # Main /\ pc[Main] # "root"
  BY DEF IInv, Local, Actor, Main, Pool
<1>2. TypeOK'
  BY DEF IInv, TypeOK, Pc
<1>3. Local'
  BY DEF IInv, TypeOK, Local, Busy, Paged, Actor
<1>4. Pools'
  BY DEF IInv, TypeOK, Pools, Actor
<1>5. \A b \in Actor : Held(b)' = Held(b)
  BY DEF IInv, TypeOK, Held
<1>6. Tree'
  BY <1>5 DEF IInv, TypeOK, Tree, Extent, Ct
<1>7. TakenOnce'
  BY <1>1, <1>5, PartitionFrame DEF IInv
<1> QED BY <1>2, <1>3, <1>4, <1>6, <1>7 DEF IInv

LEMMA SchedPushStep ==
    ASSUME IInv, NEW p \in Pool, sched_push(p)
    PROVE  IInv'
<1> USE DEF sched_push, Goto, metaVars, bootVars
<1>1. p \in Actor /\ p # Main /\ pc[Main] # "root"
  BY DEF IInv, Local, Actor, Main, Pool
<1>2. TypeOK'
  <2>1. page[p] \in Page
    BY <1>1 DEF IInv, Local, Paged
  <2>2. todo[p] \in Nat /\ todo[p] > 0
    BY DEF IInv, TypeOK, Local, Busy
  <2>3. todo' \in [Pool -> Nat]
    BY <2>2 DEF IInv, TypeOK
  <2> QED BY <1>1, <2>1, <2>3 DEF IInv, TypeOK, Pc
<1>3. Local'
  <2>1. \A q \in Pool : todo[q] \in Nat /\ Tasks[q] \in Nat /\ todo[q] <= Tasks[q]
    BY KObjectsAssumption DEF IInv, TypeOK, Local
  <2>2. \A q \in Pool : todo'[q] <= Tasks[q]
    BY <2>1 DEF IInv, TypeOK
  <2> QED BY <1>1, <2>2 DEF IInv, TypeOK, Local, Busy, Paged, Actor
<1>4. Pools'
  BY DEF IInv, TypeOK, Pools, Actor
<1>5. \A b \in Actor : Held(b)' = Held(b)
  BY DEF IInv, TypeOK, Held
<1>6. Tree'
  BY <1>5 DEF IInv, TypeOK, Tree, Extent, Ct
<1>7. TakenOnce'
  BY <1>1, <1>5, PartitionFrame DEF IInv
<1> QED BY <1>2, <1>3, <1>4, <1>6, <1>7 DEF IInv

\* get_multiple finds a run and takes it, for an object or for a pool.
LEMMA FindStep ==
    ASSUME IInv, NEW a \in Actor, find(a, Ct(a), Size(part[a]), "find", "take")
    PROVE  IInv'
<1> USE DEF find, Goto, metaVars, bootVars
<1>1. Ct(a) \in Page /\ pc[Main] # "root" /\ free[Ct(a)] \in SUBSET Page
  BY CtContainer DEF Busy, IInv, TypeOK
<1>2. page'[a] \in Page /\ Run(page'[a], Size(part[a])) \subseteq free[Ct(a)]
  BY <1>1, FirstFitFits DEF IInv, TypeOK
<1>3. TypeOK'
  BY <1>2 DEF IInv, TypeOK, Pc
<1>4. Local'
  BY <1>2 DEF IInv, TypeOK, Local, Busy, Paged, Actor
<1>5. Pools'
  BY DEF IInv, TypeOK, Pools, Actor
<1>6. \A b \in Actor : Held(b)' = Held(b)
  BY DEF IInv, TypeOK, Held
<1>7. Tree'
  BY <1>2, <1>6 DEF IInv, TypeOK, Tree, Extent, Ct
<1>8. TakenOnce'
  BY <1>1, <1>6, PartitionFrame DEF IInv
<1> QED BY <1>3, <1>4, <1>5, <1>7, <1>8 DEF IInv

LEMMA MoveFindStep ==
    ASSUME IInv, find(Main, root, NMove, "move_find", "move_take")
    PROVE  IInv'
<1> USE DEF find, Goto, metaVars, bootVars
<1>1. Main \in Actor /\ root \in Page /\ free[root] \in SUBSET Page
  BY DEF IInv, TypeOK, Local, Actor
<1>2. page'[Main] \in Page /\ Run(page'[Main], NMove) \subseteq free[root]
  BY <1>1, FirstFitFits DEF IInv, TypeOK
<1>3. TypeOK'
  BY <1>1, <1>2 DEF IInv, TypeOK, Pc
<1>4. Local'
  BY <1>1, <1>2 DEF IInv, TypeOK, Local, Busy, Paged
<1>5. Pools'
  BY <1>1 DEF IInv, TypeOK, Pools
<1>6. \A b \in Actor : Held(b)' = Held(b)
  BY DEF IInv, TypeOK, Held
<1>7. Tree'
  BY <1>1, <1>2, <1>6 DEF IInv, TypeOK, Tree, Extent, Ct
<1>8. TakenOnce'
  BY <1>1, <1>6, PartitionFrame DEF IInv
<1> QED BY <1>3, <1>4, <1>5, <1>7, <1>8 DEF IInv

LEMMA TakeStep ==
    ASSUME IInv, Exclusive, NEW a \in Actor, take(a, Ct(a), Size(part[a]), "take", "create")
    PROVE  IInv'
<1> DEFINE R == Run(page[a], Size(part[a]))
<1> USE DEF take, Goto, metaVars, bootVars
<1>1. Ct(a) \in Page /\ pc[Main] # "root" /\ kind[Ct(a)] = "Container"
  BY CtContainer DEF Busy
<1>2. R \subseteq free[Ct(a)]
  BY DEF IInv, Tree
<1> HIDE DEF R
<1>3. free' = [free EXCEPT ![Ct(a)] = free[Ct(a)] \ R]
  BY <1>2 DEF Left, R
<1>4. TypeOK'
  BY <1>1, <1>3 DEF IInv, TypeOK, Pc
<1>5. Local'
  BY DEF IInv, TypeOK, Local, Busy, Paged, Actor
<1>6. Pools'
  BY DEF IInv, TypeOK, Pools, Actor
<1>7. Held(a) = {} /\ Held(a)' = R /\ \A b \in Actor \ {a} : Held(b)' = Held(b)
  BY DEF IInv, TypeOK, Held, R
<1>8. TakenOnce'
  BY <1>1, <1>2, <1>3, <1>7, PartitionTake DEF IInv, TypeOK
<1>9. Tree'
  <2>1. \A o \in Page : kind'[o] = "None" => free'[o] = {}
    BY <1>1, <1>3 DEF IInv, TypeOK, Tree
  <2>2. \A o \in Page : Extent(o)' \subseteq Page
    BY DEF IInv, Tree, Extent
  <2>3. \A b \in Actor : Held(b)' \subseteq Page
    <3>1. R \subseteq Page
      BY <1>1, <1>2 DEF IInv, TypeOK
    <3>2. \A b \in Actor : Held(b) \subseteq Page
      BY DEF IInv, Tree
    <3> QED BY <1>7, <3>1, <3>2
  <2>4. \A b \in Actor : pc'[b] = "take" =>
           Run(page'[b], Size(part'[b])) \subseteq free'[Ct(b)']
    <3> SUFFICES ASSUME NEW b \in Actor, pc'[b] = "take"
                 PROVE  Run(page[b], Size(part[b])) \subseteq free'[Ct(b)]
      BY DEF Ct
    <3>1. b # a /\ pc[b] = "take"
      BY DEF IInv, TypeOK
    <3>2. Ct(b) # Ct(a) /\ Ct(b) \in Page
      BY <3>1, CtDistinct, CtContainer DEF Busy
    <3>3. free'[Ct(b)] = free[Ct(b)]
      BY <1>3, <3>2 DEF IInv, TypeOK
    <3> QED BY <3>1, <3>3 DEF IInv, Tree
  <2>5. pc'[Main] # "move_take"
    BY DEF IInv, TypeOK, Local, Actor
  <2> QED BY <2>1, <2>2, <2>3, <2>4, <2>5 DEF Tree
<1> QED BY <1>4, <1>5, <1>6, <1>8, <1>9 DEF IInv

LEMMA MoveTakeStep ==
    ASSUME IInv, take(Main, root, NMove, "move_take", "move_insert")
    PROVE  IInv'
<1> DEFINE R == Run(page[Main], NMove)
<1> USE DEF take, Goto, metaVars, bootVars
<1>1. Main \in Actor /\ root \in Page /\ kind[root] = "Container" /\ \A p \in Pool : pc[p] = "wait"
  BY DEF IInv, Local, Pools, Actor
<1>2. R \subseteq free[root]
  BY DEF IInv, Tree
<1> HIDE DEF R
<1>3. free' = [free EXCEPT ![root] = free[root] \ R]
  BY <1>2 DEF Left, R
<1>4. TypeOK'
  BY <1>1, <1>3 DEF IInv, TypeOK, Pc
<1>5. Local'
  BY <1>1 DEF IInv, TypeOK, Local, Busy, Paged
<1>6. Pools'
  BY <1>1 DEF IInv, TypeOK, Pools
<1>7. Held(Main) = {} /\ Held(Main)' = R /\ \A b \in Actor \ {Main} : Held(b)' = Held(b)
  BY <1>1 DEF IInv, TypeOK, Held, R
<1>8. TakenOnce'
  BY <1>1, <1>2, <1>3, <1>7, PartitionTake DEF IInv, TypeOK
<1>9. Tree'
  <2>1. \A o \in Page : kind'[o] = "None" => free'[o] = {}
    BY <1>1, <1>3 DEF IInv, TypeOK, Tree
  <2>2. \A o \in Page : Extent(o)' \subseteq Page
    BY DEF IInv, Tree, Extent
  <2>3. \A b \in Actor : Held(b)' \subseteq Page
    <3>1. R \subseteq Page
      BY <1>1, <1>2 DEF IInv, TypeOK
    <3>2. \A b \in Actor : Held(b) \subseteq Page
      BY DEF IInv, Tree
    <3> QED BY <1>7, <3>1, <3>2
  <2>4. \A b \in Actor : pc'[b] # "take" /\ pc'[b] # "move_take"
    BY <1>1 DEF IInv, TypeOK, Actor
  <2> QED BY <1>1, <2>1, <2>2, <2>3, <2>4 DEF Tree
<1> QED BY <1>4, <1>5, <1>6, <1>8, <1>9 DEF IInv

\* The pages just taken are those of no object.
LEMMA CreateFresh ==
    ASSUME IInv, NEW a \in Actor, pc[a] = "create"
    PROVE  page[a] \in Page /\ kind[page[a]] = "None"
<1>1. page[a] \in Page
  BY DEF Paged, IInv, Local
<1>2. page[a] \in Held(a)
  BY <1>1, RunStart, SizePositive DEF Held
<1>3. kind[page[a]] # "None" => page[a] \in Extent(page[a])
  BY <1>1, RunStart, SizePositive DEF Extent
<1> QED BY <1>1, <1>2, <1>3 DEF IInv, TakenOnce

\* The run taken becomes an object.
LEMMA CreateStep ==
    ASSUME IInv, NEW a \in Actor, create(a)
    PROVE  IInv'
<1> DEFINE o == page[a]
           R == Run(o, Size(part[a]))
<1> USE DEF create, NewMeta, Goto
<1>1. Ct(a) \in Page /\ pc[Main] # "root" /\ o \in Page
  BY CtContainer DEF Busy, Paged, IInv, Local
<1>2. o \in R /\ Held(a) = R
  BY <1>1, RunStart, SizePositive DEF Held
<1>3. kind[o] = "None"
  BY CreateFresh
<1>4. free' = free
  BY <1>1, <1>3 DEF IInv, TypeOK, Tree
<1>5. part[a] \in Kind \ {"None"} /\ kind' = [kind EXCEPT ![o] = part[a]]
  BY DEF IInv, TypeOK, Kind
<1>6. TypeOK'
  <2>1. kind' \in [Page -> Kind]
    BY <1>5 DEF IInv, TypeOK
  <2>2. parent' \in [Page -> Page \cup {Invalid}] /\ label' \in [Page -> Page \cup {Invalid}]
    BY <1>1 DEF IInv, TypeOK
  <2>3. slots' \in [Page -> Seq(Page \cup {Invalid})]
    <3>1. <<>> \in Seq(Page \cup {Invalid})
      OBVIOUS
    <3> QED BY <3>1 DEF IInv, TypeOK
  <2>4. scheduler' \in [Page -> Page \cup {Invalid}]
    BY DEF IInv, TypeOK
  <2>5. pc' \in [Actor -> Pc]
    BY DEF IInv, TypeOK, Pc
  <2> QED BY <1>4, <2>1, <2>2, <2>3, <2>4, <2>5 DEF IInv, TypeOK
<1>7. Local'
  BY DEF IInv, TypeOK, Local, Busy, Paged, Actor
<1>8. Pools'
  <2>1. root \in Page => root # o /\ kind'[root] = "Container"
    BY <1>3, <1>5 DEF IInv, TypeOK, Pools
  <2>2. \A q \in Pool : pool[q] \in Page => pool[q] # o /\ kind'[pool[q]] = "Container"
    BY <1>3, <1>5 DEF IInv, TypeOK, Pools
  <2>3. \A q \in Pool : pool[q] # o
    BY <1>1, <2>2
  <2>4. a = Main => kind'[o] = part[Main]
    BY <1>1, <1>5 DEF IInv, TypeOK
  <2>5. a # Main => pc[Main] = "idle" /\ pc'[Main] = "idle"
    BY DEF IInv, TypeOK, Local, Actor
  <2>6. CASE a = Main
    BY <1>1, <2>1, <2>2, <2>3, <2>4, <2>6 DEF IInv, TypeOK, Pools
  <2>7. CASE a # Main
    BY <1>1, <2>1, <2>2, <2>5, <2>7 DEF IInv, Pools
  <2> QED BY <2>6, <2>7
<1>9. Extent(o) = {} /\ Extent(o)' = R /\ Held(a)' = {}
  BY <1>1, <1>3, <1>5 DEF IInv, TypeOK, Extent, Held
<1>10. /\ \A q \in Page \ {o} : Extent(q)' = Extent(q)
       /\ \A b \in Actor \ {a} : Held(b)' = Held(b)
  BY <1>5 DEF IInv, TypeOK, Extent, Held
<1>11. TakenOnce'
  BY <1>1, <1>2, <1>4, <1>9, <1>10, PartitionCreate DEF IInv
<1>12. Tree'
  <2>1. \A q \in Page : kind'[q] = "None" => free'[q] = {}
    BY <1>4, <1>5 DEF IInv, TypeOK, Tree
  <2>2. R \subseteq Page
    BY <1>2 DEF IInv, Tree
  <2>3. \A q \in Page : Extent(q)' \subseteq Page
    BY <2>2, <1>9, <1>10 DEF IInv, Tree
  <2>4. \A b \in Actor : Held(b)' \subseteq Page
    BY <1>9, <1>10 DEF IInv, Tree
  <2>5. \A b \in Actor : pc'[b] = "take" =>
           Run(page'[b], Size(part'[b])) \subseteq free'[Ct(b)']
    BY <1>4 DEF IInv, TypeOK, Tree, Ct
  <2>6. pc'[Main] # "move_take"
    BY DEF IInv, TypeOK, Local, Actor
  <2> QED BY <2>1, <2>3, <2>4, <2>5, <2>6 DEF Tree
<1> QED BY <1>6, <1>7, <1>8, <1>11, <1>12 DEF IInv

\* move_npages gives the run to the pool.
LEMMA MoveInsertStep ==
    ASSUME IInv, move_insert
    PROVE  IInv'
<1> USE DEF move_insert, Goto, metaVars, bootVars
<1>1. Main \in Actor /\ pool[boot] \in Page /\ kind[pool[boot]] = "Container"
      /\ \A p \in Pool : pc[p] = "wait"
  BY DEF IInv, TypeOK, Local, Pools, Actor
<1>2. Held(Main) = Run(page[Main], NMove) /\ Held(Main) \subseteq Page
  BY <1>1 DEF IInv, Tree, Held
<1>3. free' = [free EXCEPT ![pool[boot]] = free[pool[boot]] \cup Held(Main)]
  BY <1>2 DEF IInv, TypeOK
<1>4. TypeOK'
  BY <1>1, <1>2, <1>3 DEF IInv, TypeOK, Pc
<1>5. Local'
  BY <1>1 DEF IInv, TypeOK, Local, Busy, Paged
<1>6. Pools'
  BY <1>1 DEF IInv, TypeOK, Pools
<1>7. Held(Main)' = {} /\ \A b \in Actor \ {Main} : Held(b)' = Held(b)
  BY <1>1 DEF IInv, TypeOK, Held
<1>8. TakenOnce'
  BY <1>1, <1>3, <1>7, PartitionInsert DEF IInv, TypeOK
<1>9. Tree'
  <2>1. \A o \in Page : kind'[o] = "None" => free'[o] = {}
    BY <1>1, <1>3 DEF IInv, TypeOK, Tree
  <2>2. \A o \in Page : Extent(o)' \subseteq Page
    BY DEF IInv, Tree, Extent
  <2>3. \A b \in Actor : Held(b)' \subseteq Page
    BY <1>7 DEF IInv, Tree
  <2>4. \A b \in Actor : pc'[b] # "take" /\ pc'[b] # "move_take"
    BY <1>1 DEF IInv, TypeOK, Actor
  <2> QED BY <1>1, <2>1, <2>2, <2>3, <2>4 DEF Tree
<1> QED BY <1>4, <1>5, <1>6, <1>8, <1>9 DEF IInv

\* The first label and the root container are cut out of all pages.
LEMMA BootRootStep ==
    ASSUME IInv, boot_root
    PROVE  IInv'
<1> DEFINE l == FirstFit(Page, KObjNPages)
           rest == Page \ Run(l, KObjNPages)
           r == FirstFit(rest, KObjNPages)
           L == Run(l, KObjNPages)
           R == Run(r, KObjNPages)
<1>1. Main \in Actor /\ pc[Main] = "root" /\ \A p \in Pool : pc[p] = "wait"
  BY DEF IInv, Local, Actor, boot_root, Goto
<1>2. l \in Page /\ L \subseteq Page
  BY FirstFitFits, Zenon DEF boot_root
<1>3. rest \in SUBSET Page
  OBVIOUS
<1>4. r \in Page /\ R \subseteq rest
  BY <1>3, FirstFitFits, Zenon DEF boot_root
<1>5. l \in L /\ r \in R
  BY <1>2, <1>4, RunStart, KObjectsAssumption
<1> DEFINE F == rest \ R
<1>6. /\ kind' = [kind EXCEPT ![l] = "Label", ![r] = "Container"]
      /\ free' = [free EXCEPT ![r] = F]
      /\ root' = r
      /\ parent' = [parent EXCEPT ![l] = r] /\ label' = [label EXCEPT ![r] = l]
      /\ pc' = [pc EXCEPT ![Main] = "slot"]
      /\ UNCHANGED <<text, slots, scheduler, known, pool, boot, todo, ready, op, part, slot, page, lb>>
  BY DEF boot_root, Goto
<1>7. F \subseteq Page /\ F \cap L = {} /\ F \cap R = {} /\ L \cap R = {} /\ F \cup L \cup R = Page
  BY <1>2, <1>4
<1> HIDE DEF l, r, L, R, F
<1>8. l # r
  BY <1>5, <1>7
<1>9. TypeOK'
  <2>1. kind' \in [Page -> Kind]
    BY <1>6 DEF IInv, TypeOK, Kind
  <2>2. free' \in [Page -> SUBSET Page]
    BY <1>6, <1>7 DEF IInv, TypeOK
  <2>3. parent' \in [Page -> Page \cup {Invalid}] /\ label' \in [Page -> Page \cup {Invalid}]
    BY <1>2, <1>4, <1>6 DEF IInv, TypeOK
  <2>4. pc' \in [Actor -> Pc]
    BY <1>6 DEF IInv, TypeOK, Pc
  <2> QED BY <1>4, <1>6, <2>1, <2>2, <2>3, <2>4 DEF IInv, TypeOK
<1>10. /\ \A o \in Page : kind[o] = "None" /\ free[o] = {}
       /\ \A a \in Actor : Held(a) = {} /\ Held(a)' = {}
  BY <1>1, <1>6 DEF IInv, TypeOK, Pools, Tree, Held, Actor
<1>11. \A o \in Page : kind'[o] = IF o = l THEN "Label" ELSE IF o = r THEN "Container" ELSE "None"
  BY <1>6, <1>8, <1>10 DEF IInv, TypeOK
<1>12. \A o \in Page : free'[o] = IF o = r THEN F ELSE {}
  BY <1>6, <1>10 DEF IInv, TypeOK
<1>13. \A o \in Page : Extent(o)' = IF o = l THEN L ELSE IF o = r THEN R ELSE {}
  <2>1. Size("Label") = KObjNPages /\ Size("Container") = KObjNPages
    BY DEF Size
  <2> QED BY <1>8, <1>11, <2>1 DEF Extent, L, R
<1>14. Local'
  BY <1>1, <1>4, <1>6 DEF IInv, TypeOK, Local, Busy, Paged
<1>15. Pools'
  <2>1. \A q \in Pool : pool[q] \notin Page
    BY <1>10 DEF IInv, Pools
  <2>2. root' = r /\ kind'[r] = "Container"
    BY <1>4, <1>6, <1>8, <1>11
  <2>3. pc'[Main] = "slot" /\ pool' = pool /\ boot' = boot
    BY <1>1, <1>6 DEF IInv, TypeOK
  <2>4. \A q \in Pool : ~(q < boot)
    BY <2>1 DEF IInv, Pools
  <2>5. \A q, p \in Pool : q # p /\ pool[q] = pool[p] => pool[q] = Invalid
    BY DEF IInv, Pools
  <2> QED BY <2>1, <2>2, <2>3, <2>4, <2>5 DEF Pools
<1>16. Tree'
  <2>1. \A o \in Page : kind'[o] = "None" => free'[o] = {}
    BY <1>11, <1>12
  <2>2. \A o \in Page : Extent(o)' \subseteq Page
    BY <1>7, <1>13
  <2>3. \A b \in Actor : pc'[b] # "take" /\ pc'[b] # "move_take"
    BY <1>1, <1>6 DEF IInv, TypeOK, Actor
  <2> QED BY <1>1, <1>10, <2>1, <2>2, <2>3 DEF Tree
<1>17. TakenOnce'
  <2>1. \A c, d \in Page : c # d => free'[c] \cap free'[d] = {} /\ Extent(c)' \cap Extent(d)' = {}
    <3>1. \A c, d \in Page : c # d => free'[c] \cap free'[d] = {}
      BY <1>12
    <3>2. \A c, d \in Page : c # d => Extent(c)' \cap Extent(d)' = {}
      BY <1>7, <1>13
    <3> QED BY <3>1, <3>2
  <2>2. \A c, d \in Page : free'[c] \cap Extent(d)' = {}
    BY <1>7, <1>12, <1>13
  <2>3. \A p \in Page : \E c \in Page : p \in free'[c] \cup Extent(c)'
    BY <1>2, <1>4, <1>7, <1>8, <1>12, <1>13
  <2> QED BY <1>10, <2>1, <2>2, <2>3 DEF TakenOnce
<1> QED BY <1>9, <1>14, <1>15, <1>16, <1>17 DEF IInv

-----------------------------------------------------------------------------

\* Nothing exists at first.
LEMMA InitIInv == Init => IInv
<1> SUFFICES ASSUME Init PROVE IInv
  OBVIOUS
<1> USE DEF Init
<1>1. Main \in Actor /\ \A p \in Pool : p # Main /\ p \in Actor
  BY DEF Main, Actor, Pool
<1>2. TypeOK
  BY KObjectsAssumption DEF TypeOK, Kind, Pc, Pool
<1>3. Local
  BY <1>1, KObjectsAssumption DEF Local, Busy, Paged
<1>4. Pools
  BY <1>1, KObjectsAssumption DEF Pools, Pool
<1>5. \A a \in Actor : Held(a) = {}
  BY DEF Held
<1>6. \A o \in Page : Extent(o) = {} /\ free[o] = {}
  BY DEF Extent
<1>7. Tree
  BY <1>1, <1>5, <1>6 DEF Tree
<1>8. TakenOnce
  BY <1>1, <1>5, <1>6 DEF TakenOnce
<1> QED BY <1>2, <1>3, <1>4, <1>7, <1>8 DEF IInv

\* Every step preserves the invariant.
LEMMA NextIInv == Exclusive /\ IInv /\ [Next]_vars => IInv'
<1> SUFFICES ASSUME Exclusive, IInv, [Next]_vars PROVE IInv'
  OBVIOUS
<1>1. Main \in Actor /\ Pool \subseteq Actor
  BY DEF Actor
<1>2. ASSUME NEW a \in Actor, Creation(a) PROVE IInv'
  BY <1>2, CheckStep, GetSlotStep, FindStep, TakeStep, CreateStep, SetSlotStep, SetLabelStep
     DEF Creation
<1>3. CASE Boot
  <2>1. CASE boot_root
    BY <2>1, BootRootStep DEF boot_root, Goto
  <2> QED BY <1>3, <2>1, BootThreadStep, BootKnownStep, BootSchedulerStep, GrantStep,
             MoveFindStep, MoveTakeStep, MoveInsertStep DEF Boot
<1>4. ASSUME NEW p \in Pool, Scheduler(p) PROVE IInv'
  BY <1>1, <1>2, <1>4, SchedSpawnStep, SchedPushStep DEF Scheduler
<1>5. CASE UNCHANGED vars
  <2> USE <1>5 DEF vars, metaVars, bootVars
  <2>1. TypeOK' /\ Local' /\ Pools'
    BY DEF IInv, TypeOK, Local, Pools
  <2>2. Tree'
    BY DEF IInv, Tree, Extent, Held, Ct
  <2>3. TakenOnce'
    <3>1. /\ \A c \in Page : Extent(c)' = Extent(c)
          /\ \A a \in Actor : Held(a)' = Held(a)
      BY DEF Extent, Held
    <3> QED BY <3>1 DEF IInv, TakenOnce
  <2> QED BY <2>1, <2>2, <2>3 DEF IInv
<1> QED BY <1>1, <1>2, <1>3, <1>4, <1>5 DEF Next

\* The invariant holds throughout, if no two schedulers that have tasks spawn
\* them into the same container.
THEOREM Invariance ==
    ASSUME Exclusive
    PROVE  Spec => []IInv
<1>1. Init => IInv
  BY InitIInv
<1>2. IInv /\ [Next]_vars => IInv'
  BY NextIInv
<1> QED BY <1>1, <1>2, PTL DEF Spec

\* Type correctness of the kernel objects, their pages and their creators.
THEOREM TypeCorrect ==
    ASSUME Exclusive
    PROVE  Spec => []TypeOK
<1>1. IInv => TypeOK
  BY DEF IInv
<1> QED BY <1>1, Invariance, PTL

\* What an arena shares with others: nothing, but for the page behind a thread.
LEMMA ArenaShares ==
    ASSUME IInv
    PROVE  ArenasSpill
<1> SUFFICES ASSUME NEW o \in Page
             PROVE  Arena(o) \cap Others(o) =
                       IF kind[o] = "Thread" THEN {o + ThreadNPages} \cap Page ELSE {}
  BY DEF ArenasSpill
<1>1. o \in Int /\ ThreadNPages \in Nat \ {0, 1} /\ KObjNPages \in Nat \ {0, 1}
  BY KObjectsAssumption DEF Page
<1>2. Others(o) \cap Extent(o) = {} /\ Others(o) \subseteq Page
  BY DEF Others, IInv, TypeOK, Tree, TakenOnce
<1>3. CASE kind[o] = "None"
  BY <1>3 DEF Arena
<1>4. CASE kind[o] = "Thread"
  <2>1. Extent(o) = Run(o, ThreadNPages) /\ Arena(o) = Run(o + 1, ThreadNPages)
    BY <1>4 DEF Extent, Size, Arena
  <2>2. Run(o + 1, ThreadNPages) \subseteq Run(o, ThreadNPages) \cup {o + ThreadNPages}
    BY <1>1 DEF Run
  <2>3. o + ThreadNPages \in Run(o + 1, ThreadNPages) /\ o + ThreadNPages \notin Run(o, ThreadNPages)
    BY <1>1 DEF Run
  <2>4. o + ThreadNPages \in Page => o + ThreadNPages \in Others(o)
    <3> DEFINE q == o + ThreadNPages
    <3> SUFFICES ASSUME q \in Page PROVE q \in Others(o)
      OBVIOUS
    <3>1. pc[Main] # "root"
      BY <1>4 DEF IInv, Pools
    <3>2. q \notin Extent(o)
      BY <2>1, <2>3
    <3> HIDE DEF q
    <3>3. \/ \E c \in Page : q \in free[c] \cup Extent(c)
          \/ \E a \in Actor : q \in Held(a)
      BY <3>1 DEF IInv, TakenOnce
    <3> QED BY <3>2, <3>3 DEF Others
  <2> QED BY <1>2, <1>4, <2>1, <2>2, <2>3, <2>4
<1>5. CASE kind[o] \notin {"None", "Thread"}
  <2>1. Arena(o) = Run(o + 1, 1) /\ Extent(o) = Run(o, KObjNPages)
    BY <1>5 DEF Arena, Extent, Size
  <2>2. Run(o + 1, 1) \subseteq Run(o, KObjNPages)
    BY <1>1 DEF Run
  <2> QED BY <1>2, <1>5, <2>1, <2>2
<1> QED BY <1>3, <1>4, <1>5

\* get_multiple and move_npages take every page once, and what _kobject_create
\* gives an object is its own but for the one page behind every thread, for any
\* number of pages, pools and tasks.
THEOREM Partition ==
    ASSUME Exclusive
    PROVE  Spec => []PagesPartition
<1>1. IInv => PagesPartition
  BY ArenaShares DEF IInv, PagesPartition
<1> QED BY <1>1, Invariance, PTL

-----------------------------------------------------------------------------
(* References                                                              *)

\* A step that changes no object and no list.
LEMMA RefsValidFrame ==
    ASSUME RefsValid, UNCHANGED <<kind, parent, label, scheduler, known, ready>>,
           pc'[Main] = "idle" => pc[Main] = "idle",
           \A b \in Actor : part'[b] # "Label" => kind[lb'[b]] = "Label"
    PROVE  RefsValid'
BY DEF RefsValid

\* The steps of a creation that write no object.
LEMMA CheckRefs ==
    ASSUME IInv, Refs, RefsValid, NEW a \in Actor, check(a)
    PROVE  Refs' /\ RefsValid'
<1> USE DEF check, Goto, metaVars, bootVars
<1>1. Main \in Actor /\ Pool \subseteq Actor
  BY DEF Actor
<1>2. Refs'
  BY <1>1 DEF IInv, TypeOK, Local, Pools, Refs, RefsValid, Created, Busy, Paged
<1>3. RefsValid'
  <2>1. pc'[Main] = "idle" => pc[Main] = "idle"
    BY <1>1 DEF IInv, TypeOK
  <2>2. \A b \in Actor : part'[b] # "Label" => kind[lb'[b]] = "Label"
    BY <1>1 DEF IInv, TypeOK, Refs, RefsValid, Created
  <2> QED BY <2>1, <2>2, RefsValidFrame
<1> QED BY <1>2, <1>3

LEMMA GetSlotRefs ==
    ASSUME IInv, Refs, RefsValid, NEW a \in Actor, get_slot(a)
    PROVE  Refs' /\ RefsValid'
<1> USE DEF get_slot, Goto, metaVars, bootVars
<1>1. Main \in Actor /\ Pool \subseteq Actor
  BY DEF Actor
<1>2. Refs'
  BY <1>1 DEF IInv, TypeOK, Local, Pools, Refs, RefsValid, Created, Busy, Paged
<1>3. RefsValid'
  <2>1. pc'[Main] = "idle" => pc[Main] = "idle"
    BY <1>1 DEF IInv, TypeOK
  <2>2. \A b \in Actor : part'[b] # "Label" => kind[lb'[b]] = "Label"
    BY <1>1 DEF IInv, TypeOK, Refs, RefsValid, Created
  <2> QED BY <2>1, <2>2, RefsValidFrame
<1> QED BY <1>2, <1>3

LEMMA FindRefs ==
    ASSUME IInv, Refs, RefsValid, NEW a \in Actor, find(a, Ct(a), Size(part[a]), "find", "take")
    PROVE  Refs' /\ RefsValid'
<1> USE DEF find, Goto, metaVars, bootVars
<1>1. Main \in Actor /\ Pool \subseteq Actor
  BY DEF Actor
<1>2. Refs'
  BY <1>1 DEF IInv, TypeOK, Local, Pools, Refs, RefsValid, Created, Busy, Paged
<1>3. RefsValid'
  <2>1. pc'[Main] = "idle" => pc[Main] = "idle"
    BY <1>1 DEF IInv, TypeOK
  <2>2. \A b \in Actor : part'[b] # "Label" => kind[lb'[b]] = "Label"
    BY <1>1 DEF IInv, TypeOK, Refs, RefsValid, Created
  <2> QED BY <2>1, <2>2, RefsValidFrame
<1> QED BY <1>2, <1>3

LEMMA TakeRefs ==
    ASSUME IInv, Refs, RefsValid, NEW a \in Actor, take(a, Ct(a), Size(part[a]), "take", "create")
    PROVE  Refs' /\ RefsValid'
<1> USE DEF take, Goto, metaVars, bootVars
<1>1. Main \in Actor /\ Pool \subseteq Actor
  BY DEF Actor
<1>2. Refs'
  BY <1>1 DEF IInv, TypeOK, Local, Pools, Refs, RefsValid, Created, Busy, Paged
<1>3. RefsValid'
  <2>1. pc'[Main] = "idle" => pc[Main] = "idle"
    BY <1>1 DEF IInv, TypeOK
  <2>2. \A b \in Actor : part'[b] # "Label" => kind[lb'[b]] = "Label"
    BY <1>1 DEF IInv, TypeOK, Refs, RefsValid, Created
  <2> QED BY <2>1, <2>2, RefsValidFrame
<1> QED BY <1>2, <1>3

\* A label that was stored is the one to attach.
LEMMA SetSlotRefs ==
    ASSUME IInv, Refs, RefsValid, NEW a \in Actor, set_slot(a)
    PROVE  Refs' /\ RefsValid'
<1> USE DEF set_slot, Goto, metaVars, bootVars
<1>1. Main \in Actor /\ Pool \subseteq Actor
  BY DEF Actor
<1>2. Refs'
  BY <1>1 DEF IInv, TypeOK, Local, Pools, Refs, RefsValid, Created, Busy, Paged
<1>3. RefsValid'
  <2>1. pc'[Main] = "idle" => pc[Main] = "idle"
    BY <1>1 DEF IInv, TypeOK
  <2>2. \A b \in Actor : part'[b] # "Label" => kind[lb'[b]] = "Label"
    BY <1>1 DEF IInv, TypeOK, Refs, RefsValid, Created
  <2> QED BY <2>1, <2>2, RefsValidFrame
<1> QED BY <1>2, <1>3

\* The new container gets its label.
LEMMA SetLabelRefs ==
    ASSUME IInv, Refs, RefsValid, NEW a \in Actor, set_label(a)
    PROVE  Refs' /\ RefsValid'
<1> USE DEF set_label, Goto, metaVars, bootVars
<1>1. Main \in Actor /\ Pool \subseteq Actor
  BY DEF Actor
<1>2. page[a] \in Page /\ part[a] = "Container" /\ lb[a] \in Page /\ kind[lb[a]] = "Label"
  BY <1>1 DEF IInv, TypeOK, Local, Pools, Refs, RefsValid, Paged, Actor
<1>3. a = Main
  BY DEF IInv, Local, Actor
<1>4. Refs'
  <2>1. pc'[Main] = "done" /\ \A b \in Actor : b # Main => pc'[b] = pc[b]
    BY <1>1, <1>3 DEF IInv, TypeOK
  <2>2. label'[page[Main]] = lb[Main] /\ lb[Main] \in Page
    BY <1>2, <1>3 DEF IInv, TypeOK
  <2>3. op[Main] = "Container"
    BY <1>3 DEF IInv, Pools
  <2>4. part[Main] = op[Main] /\ kind[page[Main]] = part[Main]
    BY <1>1, <1>3 DEF Refs, Created
  <2>5. pool[boot] = Invalid
    BY <1>3, <2>3 DEF Refs, Busy
  <2> QED BY <1>1, <2>1, <2>2, <2>4, <2>5 DEF Refs, Created
<1>5. RefsValid'
  <2>1. \A o \in Page : kind'[o] # "None" =>
           /\ parent'[o] # Invalid => kind'[parent'[o]] = "Container"
           /\ label'[o] # Invalid => kind'[label'[o]] = "Label"
           /\ kind'[o] = "Container" /\ scheduler'[o] # Invalid => kind'[scheduler'[o]] = "Thread"
    BY <1>1, <1>2 DEF IInv, TypeOK, Local, Refs, RefsValid, Created
  <2>2. \A i \in 1 .. Len(known') :
           /\ kind'[known'[i]] = "Container" /\ label'[known'[i]] # Invalid
           /\ pc'[Main] = "idle" => scheduler'[known'[i]] # Invalid
    <3>1. \A i \in 1 .. Len(known) : known[i] \in Page
      BY DEF IInv, TypeOK
    <3>2. \A i \in 1 .. Len(known) : label'[known[i]] # Invalid
      BY <1>2, <3>1, KObjectsAssumption DEF IInv, TypeOK, RefsValid
    <3>3. pc'[Main] = "idle" => pc[Main] = "idle"
      BY <1>1 DEF IInv, TypeOK
    <3> QED BY <3>1, <3>2, <3>3 DEF RefsValid
  <2>3. \A b \in Actor : part'[b] # "Label" => kind'[lb'[b]] = "Label"
    BY <1>1 DEF IInv, TypeOK, Refs, RefsValid
  <2>4. \A q \in Pool : \A i \in 1 .. Len(ready'[q]) : kind'[ready'[q][i]] = "Thread"
    BY <1>1 DEF IInv, TypeOK, Local, Refs, RefsValid
  <2> QED BY <2>1, <2>2, <2>3, <2>4 DEF RefsValid
<1> QED BY <1>4, <1>5

\* The steps of the boot thread, one by one.
LEMMA BootThreadRefs ==
    ASSUME IInv, Refs, RefsValid, boot_thread
    PROVE  Refs' /\ RefsValid'
<1> USE DEF boot_thread, Goto, metaVars, bootVars
<1>1. Main \in Actor /\ Pool \subseteq Actor
  BY DEF Actor
<1>2. Refs'
  BY <1>1 DEF IInv, TypeOK, Local, Pools, Refs, RefsValid, Created, Busy, Paged
<1>3. RefsValid'
  BY <1>1 DEF IInv, TypeOK, Local, Pools, Refs, RefsValid, Created, Busy, Paged
<1> QED BY <1>2, <1>3

LEMMA BootKnownRefs ==
    ASSUME IInv, Refs, RefsValid, boot_known
    PROVE  Refs' /\ RefsValid'
<1> USE DEF boot_known, Goto, metaVars, bootVars
<1>1. Main \in Actor /\ Pool \subseteq Actor
  BY DEF Actor
<1>2. /\ page[Main] \in Page /\ kind[page[Main]] = "Container" /\ label[page[Main]] \in Page
      /\ pool[boot] = Invalid /\ boot \in Pool
  BY <1>1 DEF IInv, TypeOK, Local, Pools, Refs, RefsValid, Busy, Paged
<1>3. /\ Len(known') = Len(known) + 1 /\ Len(known) \in Nat
      /\ \A i \in 1 .. Len(known) : known'[i] = known[i]
      /\ known'[Len(known')] = page[Main]
  BY <1>2 DEF IInv, TypeOK
<1>4. \A i \in 1 .. Len(known') : i \in 1 .. Len(known) \/ i = Len(known')
  BY <1>3
<1>5. \A q \in Pool : pool'[q] = IF q = boot THEN page[Main] ELSE pool[q]
  BY DEF IInv, TypeOK
<1>6. Refs'
  <2>1. \A i \in 1 .. Len(known') : \E q \in Pool : known'[i] = pool'[q]
    <3> SUFFICES ASSUME NEW i \in 1 .. Len(known')
                 PROVE  \E q \in Pool : known'[i] = pool'[q]
      OBVIOUS
    <3>1. CASE i = Len(known')
      BY <1>2, <1>3, <1>5, <3>1
    <3>2. CASE i \in 1 .. Len(known)
      <4>1. PICK q \in Pool : known[i] = pool[q]
        BY <3>2 DEF Refs
      <4>2. known[i] \in Page
        BY <3>2 DEF IInv, TypeOK
      <4> QED BY <1>2, <1>3, <1>5, <3>2, <4>1, <4>2, KObjectsAssumption
    <3> QED BY <1>4, <3>1, <3>2
  <2>2. \A q \in Pool : q < boot => scheduler[pool'[q]] \in Page
    BY <1>2, <1>5 DEF IInv, Refs, Pool
  <2>3. \A q \in Pool : q > boot => pool'[q] = Invalid
    BY <1>2, <1>5 DEF IInv, Refs, Pool
  <2>4. pc'[Main] = "move_find" /\ \A b \in Actor : b # Main => pc'[b] = pc[b]
    BY <1>1 DEF IInv, TypeOK
  <2>5. pc'[Main] \notin Busy
    BY <2>4 DEF Busy
  <2> QED BY <1>1, <2>1, <2>2, <2>3, <2>4, <2>5 DEF Refs, Created
<1>7. RefsValid'
  <2>1. \A o \in Page : kind'[o] # "None" =>
           /\ parent'[o] # Invalid => kind'[parent'[o]] = "Container"
           /\ label'[o] # Invalid => kind'[label'[o]] = "Label"
           /\ kind'[o] = "Container" /\ scheduler'[o] # Invalid => kind'[scheduler'[o]] = "Thread"
    BY <1>1 DEF IInv, TypeOK, Local, Refs, RefsValid, Created
  <2>2. \A i \in 1 .. Len(known') :
           /\ kind'[known'[i]] = "Container" /\ label'[known'[i]] # Invalid
           /\ pc'[Main] = "idle" => scheduler'[known'[i]] # Invalid
    <3>1. pc'[Main] # "idle"
      BY <1>1 DEF IInv, TypeOK
    <3>2. \A i \in 1 .. Len(known) : kind[known[i]] = "Container" /\ label[known[i]] # Invalid
      BY DEF RefsValid
    <3>3. label[page[Main]] # Invalid
      BY <1>2, KObjectsAssumption
    <3> QED BY <1>2, <1>3, <1>4, <3>1, <3>2, <3>3
  <2>3. \A b \in Actor : part'[b] # "Label" => kind'[lb'[b]] = "Label"
    BY <1>1 DEF IInv, TypeOK, Refs, RefsValid
  <2>4. \A q \in Pool : \A i \in 1 .. Len(ready'[q]) : kind'[ready'[q][i]] = "Thread"
    BY <1>1 DEF IInv, TypeOK, Local, Refs, RefsValid
  <2> QED BY <2>1, <2>2, <2>3, <2>4 DEF RefsValid
<1> QED BY <1>6, <1>7

LEMMA BootSchedulerRefs ==
    ASSUME IInv, Refs, RefsValid, boot_scheduler
    PROVE  Refs' /\ RefsValid'
<1> USE DEF boot_scheduler, Goto, metaVars, bootVars
<1>1. Main \in Actor /\ Pool \subseteq Actor
  BY DEF Actor
<1>2. page[Main] \in Page /\ pool[boot] \in Page /\ boot \in Nat /\ NPools \in Nat
  BY <1>1, KObjectsAssumption DEF IInv, TypeOK, Local, Paged, Pool
<1>3. \A q \in Pool : q < boot' \/ pc'[Main] = "grant" => q < boot \/ q = boot
  BY <1>1, <1>2, KObjectsAssumption DEF IInv, TypeOK, Pool
<1>4. \A q \in Pool : q < boot' \/ pc'[Main] = "grant" => scheduler'[pool[q]] \in Page
  BY <1>2, <1>3 DEF IInv, TypeOK, Pools, Refs
<1>5. /\ \A q \in Pool : q > boot' => pool[q] = Invalid
      /\ pc'[Main] # "grant" => boot' > boot /\ boot' \in Pool
  <2>1. /\ boot = NPools => boot' = boot
        /\ boot # NPools => boot' = boot + 1 /\ boot < NPools
        /\ pc'[Main] # "grant" => boot # NPools
    BY <1>1, <1>2 DEF IInv, TypeOK, Pool
  <2>2. \A q \in Pool : q > boot' => q > boot
    BY <1>2, <2>1 DEF Pool
  <2>3. pc'[Main] # "grant" => boot' > boot /\ boot' \in Pool
    BY <1>2, <2>1 DEF Pool
  <2> QED BY <2>2, <2>3 DEF Refs
<1>6. pc'[Main] \in {"grant", "check"}
  BY <1>1 DEF IInv, TypeOK
<1>7. Refs'
  BY <1>1, <1>4, <1>5, <1>6 DEF IInv, TypeOK, Local, Refs, Created, Busy
<1>8. RefsValid'
  BY <1>1 DEF IInv, TypeOK, Local, Pools, Refs, RefsValid, Created, Busy, Paged
<1> QED BY <1>7, <1>8

LEMMA GrantRefs ==
    ASSUME IInv, Refs, RefsValid, grant
    PROVE  Refs' /\ RefsValid'
<1> USE DEF grant, Goto, metaVars, bootVars
<1>1. Main \in Actor /\ Pool \subseteq Actor
  BY DEF Actor
<1>2. Refs'
  BY <1>1 DEF IInv, TypeOK, Local, Pools, Refs, RefsValid, Created, Busy, Paged
<1>3. \A i \in 1 .. Len(known) : scheduler[known[i]] \in Page
  BY DEF Refs
<1>4. RefsValid'
  <2>1. \A o \in Page : kind'[o] # "None" =>
           /\ parent'[o] # Invalid => kind'[parent'[o]] = "Container"
           /\ label'[o] # Invalid => kind'[label'[o]] = "Label"
           /\ kind'[o] = "Container" /\ scheduler'[o] # Invalid => kind'[scheduler'[o]] = "Thread"
    BY <1>1 DEF IInv, TypeOK, Local, Refs, RefsValid, Created
  <2>2. \A i \in 1 .. Len(known') :
           /\ kind'[known'[i]] = "Container" /\ label'[known'[i]] # Invalid
           /\ pc'[Main] = "idle" => scheduler'[known'[i]] # Invalid
    BY <1>3, KObjectsAssumption DEF RefsValid
  <2>3. \A b \in Actor : part'[b] # "Label" => kind'[lb'[b]] = "Label"
    BY <1>1 DEF IInv, TypeOK, Refs, RefsValid
  <2>4. \A q \in Pool : \A i \in 1 .. Len(ready'[q]) : kind'[ready'[q][i]] = "Thread"
    BY <1>1 DEF IInv, TypeOK, Local, Refs, RefsValid
  <2> QED BY <2>1, <2>2, <2>3, <2>4 DEF RefsValid
<1> QED BY <1>2, <1>4

LEMMA MoveFindRefs ==
    ASSUME IInv, Refs, RefsValid, find(Main, root, NMove, "move_find", "move_take")
    PROVE  Refs' /\ RefsValid'
<1> USE DEF find, Goto, metaVars, bootVars
<1>1. Main \in Actor /\ Pool \subseteq Actor
  BY DEF Actor
<1>2. Refs'
  BY <1>1 DEF IInv, TypeOK, Local, Pools, Refs, RefsValid, Created, Busy, Paged
<1>3. RefsValid'
  <2>1. pc'[Main] = "idle" => pc[Main] = "idle"
    BY <1>1 DEF IInv, TypeOK
  <2>2. \A b \in Actor : part'[b] # "Label" => kind[lb'[b]] = "Label"
    BY <1>1 DEF IInv, TypeOK, Refs, RefsValid, Created
  <2> QED BY <2>1, <2>2, RefsValidFrame
<1> QED BY <1>2, <1>3

LEMMA MoveTakeRefs ==
    ASSUME IInv, Refs, RefsValid, take(Main, root, NMove, "move_take", "move_insert")
    PROVE  Refs' /\ RefsValid'
<1> USE DEF take, Goto, metaVars, bootVars
<1>1. Main \in Actor /\ Pool \subseteq Actor
  BY DEF Actor
<1>2. Refs'
  BY <1>1 DEF IInv, TypeOK, Local, Pools, Refs, RefsValid, Created, Busy, Paged
<1>3. RefsValid'
  <2>1. pc'[Main] = "idle" => pc[Main] = "idle"
    BY <1>1 DEF IInv, TypeOK
  <2>2. \A b \in Actor : part'[b] # "Label" => kind[lb'[b]] = "Label"
    BY <1>1 DEF IInv, TypeOK, Refs, RefsValid, Created
  <2> QED BY <2>1, <2>2, RefsValidFrame
<1> QED BY <1>2, <1>3

LEMMA MoveInsertRefs ==
    ASSUME IInv, Refs, RefsValid, move_insert
    PROVE  Refs' /\ RefsValid'
<1> USE DEF move_insert, Goto, metaVars, bootVars
<1>1. Main \in Actor /\ Pool \subseteq Actor
  BY DEF Actor
<1>2. Refs'
  BY <1>1 DEF IInv, TypeOK, Local, Pools, Refs, RefsValid, Created, Busy, Paged
<1>3. RefsValid'
  <2>1. pc'[Main] = "idle" => pc[Main] = "idle"
    BY <1>1 DEF IInv, TypeOK
  <2>2. \A b \in Actor : part'[b] # "Label" => kind[lb'[b]] = "Label"
    BY <1>1 DEF IInv, TypeOK, Refs, RefsValid, Created
  <2> QED BY <2>1, <2>2, RefsValidFrame
<1> QED BY <1>2, <1>3

\* The steps of a scheduler between two creations.
LEMMA SchedSpawnRefs ==
    ASSUME IInv, Refs, RefsValid, NEW p \in Pool, sched_spawn(p)
    PROVE  Refs' /\ RefsValid'
<1> USE DEF sched_spawn, Goto, metaVars, bootVars
<1>1. Main \in Actor /\ Pool \subseteq Actor /\ p # Main /\ p \in Actor
  BY DEF Actor, Main, Pool
<1>2. Refs'
  <2>1. \A b \in Actor : /\ b # p => pc'[b] = pc[b] /\ part'[b] = part[b]
                         /\ pc'[p] = "check" /\ part'[p] = "Label"
    BY <1>1 DEF IInv, TypeOK
  <2> QED BY <1>1, <2>1 DEF Refs, Created
<1>3. RefsValid'
  <2>1. pc'[Main] = "idle" => pc[Main] = "idle"
    BY <1>1 DEF IInv, TypeOK
  <2>2. \A b \in Actor : part'[b] # "Label" => kind[lb'[b]] = "Label"
    BY <1>1 DEF IInv, TypeOK, RefsValid
  <2> QED BY <2>1, <2>2, RefsValidFrame
<1> QED BY <1>2, <1>3

LEMMA SchedPushRefs ==
    ASSUME IInv, Refs, RefsValid, NEW p \in Pool, sched_push(p)
    PROVE  Refs' /\ RefsValid'
<1> USE DEF sched_push, Goto, metaVars, bootVars
<1>1. Main \in Actor /\ Pool \subseteq Actor /\ p # Main /\ p \in Actor
  BY DEF Actor, Main, Pool
<1>2. Refs'
  BY <1>1 DEF IInv, TypeOK, Refs, Created, Busy
<1>3. page[p] \in Page /\ kind[page[p]] = "Thread"
  BY <1>1 DEF IInv, Local, Paged, Refs, Created
<1>4. \A q \in Pool : \A i \in 1 .. Len(ready'[q]) :
        \/ i \in 1 .. Len(ready[q]) /\ ready'[q][i] = ready[q][i]
        \/ ready'[q][i] = page[p]
  <2> SUFFICES ASSUME NEW q \in Pool, NEW i \in 1 .. Len(ready'[q])
               PROVE  \/ i \in 1 .. Len(ready[q]) /\ ready'[q][i] = ready[q][i]
                      \/ ready'[q][i] = page[p]
    OBVIOUS
  <2>1. ready[q] \in Seq(Page) /\ ready'[q] = IF q = p THEN Append(ready[p], page[p]) ELSE ready[q]
    BY DEF IInv, TypeOK
  <2>2. CASE q = p
    BY <1>3, <2>1, <2>2
  <2> QED BY <2>1, <2>2
<1>5. RefsValid'
  <2>1. \A o \in Page : kind'[o] # "None" =>
           /\ parent'[o] # Invalid => kind'[parent'[o]] = "Container"
           /\ label'[o] # Invalid => kind'[label'[o]] = "Label"
           /\ kind'[o] = "Container" /\ scheduler'[o] # Invalid => kind'[scheduler'[o]] = "Thread"
    BY <1>1 DEF IInv, TypeOK, Local, Refs, RefsValid, Created
  <2>2. \A i \in 1 .. Len(known') :
           /\ kind'[known'[i]] = "Container" /\ label'[known'[i]] # Invalid
           /\ pc'[Main] = "idle" => scheduler'[known'[i]] # Invalid
    <3>1. pc'[Main] = pc[Main]
      BY <1>1 DEF IInv, TypeOK
    <3> QED BY <3>1 DEF RefsValid
  <2>3. \A b \in Actor : part'[b] # "Label" => kind'[lb'[b]] = "Label"
    BY <1>1 DEF IInv, TypeOK, Refs, RefsValid
  <2>4. \A q \in Pool : \A i \in 1 .. Len(ready'[q]) : kind'[ready'[q][i]] = "Thread"
    <3>1. \A q \in Pool : \A i \in 1 .. Len(ready[q]) : kind[ready[q][i]] = "Thread"
      BY DEF RefsValid
    <3> QED BY <1>3, <1>4, <3>1
  <2> QED BY <2>1, <2>2, <2>3, <2>4 DEF RefsValid
<1> QED BY <1>2, <1>5

\* Nothing refers to the page of a new object but what is meant to.
LEMMA CreateRefs ==
    ASSUME IInv, Refs, RefsValid, NEW a \in Actor, create(a)
    PROVE  Refs' /\ RefsValid'
<1> DEFINE o == page[a]
<1>1. Main \in Actor /\ Pool \subseteq Actor /\ pc[a] = "create" /\ pc' = [pc EXCEPT ![a] = "set"]
  BY DEF Actor, create, Goto
<1>2. o \in Page /\ kind[o] = "None"
  BY <1>1, CreateFresh
<1>3. Ct(a) \in Page /\ kind[Ct(a)] = "Container" /\ pc[Main] # "root"
  BY <1>1, CtContainer DEF Busy
<1>4. /\ kind' = [kind EXCEPT ![o] = part[a]]
      /\ parent' = [parent EXCEPT ![o] = IF op[a] = "Thread" /\ Ct(a) # root THEN Ct(a) ELSE Invalid]
      /\ label' = [label EXCEPT ![o] = IF part[a] = "Thread" THEN lb[a] ELSE Invalid]
      /\ scheduler' = IF part[a] = "Container" THEN [scheduler EXCEPT ![o] = Invalid] ELSE scheduler
      /\ UNCHANGED <<known, root, pool, boot, todo, ready, op, part, slot, page, lb>>
  BY DEF create, NewMeta
<1>5. \A q \in Page : kind'[q] = IF q = o THEN part[a] ELSE kind[q]
  BY <1>4 DEF IInv, TypeOK
<1>6. \A q \in Page : kind[q] # "None" =>
         /\ q # o /\ kind'[q] = kind[q] /\ parent'[q] = parent[q] /\ label'[q] = label[q]
         /\ scheduler'[q] = scheduler[q]
  BY <1>2, <1>4 DEF IInv, TypeOK
<1>7. pc'[Main] # "root" /\ pc'[a] = "set" /\ \A b \in Actor : b # a => pc'[b] = pc[b]
  BY <1>1, <1>3 DEF IInv, TypeOK
<1>8. \A b \in Actor : pc[b] \in Created => page[b] \in Page /\ kind[page[b]] # "None"
  BY DEF IInv, TypeOK, Local, Paged, Created, Refs
<1> HIDE DEF o
<1>9. Refs'
  <2>1. \A b \in Actor : pc'[b] \in Created => kind'[page'[b]] = part'[b]
    <3>1. kind'[page[a]] = part[a]
      BY <1>2, <1>5 DEF o
    <3> QED BY <1>4, <1>6, <1>7, <1>8, <3>1 DEF Refs
  <2>2. \A b \in Actor : pc'[b] \in {"label", "done"} => part'[b] = op'[b]
    BY <1>4, <1>7 DEF Refs
  <2>3. \A b \in Actor : part'[b] # "Label" => lb'[b] \in Page
    BY <1>4 DEF Refs
  <2>4. pc'[Main] = "done" /\ op'[Main] = "Container" => label'[page'[Main]] \in Page
    BY <1>1, <1>4, <1>6, <1>7, <1>8 DEF Refs, Created
  <2>5. \A i \in 1 .. Len(known') : \E q \in Pool : known'[i] = pool'[q]
    BY <1>4 DEF Refs
  <2>6. \A q \in Pool : q < boot' \/ pc'[Main] \in {"grant", "idle"} => scheduler'[pool'[q]] \in Page
    <3> SUFFICES ASSUME NEW q \in Pool, q < boot \/ pc[Main] \in {"grant", "idle"}
                 PROVE  scheduler'[pool[q]] \in Page
      BY <1>1, <1>4, <1>7
    <3>1. pool[q] \in Page /\ kind[pool[q]] = "Container" /\ scheduler[pool[q]] \in Page
      BY DEF IInv, Pools, Refs
    <3> QED BY <1>6, <3>1
  <2>7. \A q \in Pool : q > boot' => pool'[q] = Invalid
    BY <1>4 DEF Refs
  <2>8. op'[Main] = "Container" /\ pc'[Main] \in Busy => pool'[boot'] = Invalid
    BY <1>1, <1>4, <1>7 DEF Refs, Busy
  <2> QED BY <1>7, <2>1, <2>2, <2>3, <2>4, <2>5, <2>6, <2>7, <2>8 DEF Refs
<1>10. RefsValid'
  <2>1. \A q \in Page : kind'[q] # "None" =>
           /\ parent'[q] # Invalid => kind'[parent'[q]] = "Container"
           /\ label'[q] # Invalid => kind'[label'[q]] = "Label"
           /\ kind'[q] = "Container" /\ scheduler'[q] # Invalid => kind'[scheduler'[q]] = "Thread"
    <3> SUFFICES ASSUME NEW q \in Page, kind'[q] # "None"
                 PROVE  /\ parent'[q] # Invalid => kind'[parent'[q]] = "Container"
                        /\ label'[q] # Invalid => kind'[label'[q]] = "Label"
                        /\ kind'[q] = "Container" /\ scheduler'[q] # Invalid =>
                              kind'[scheduler'[q]] = "Thread"
      OBVIOUS
    <3>1. CASE q = o
      <4>1. parent'[o] # Invalid => parent'[o] = Ct(a)
        BY <1>2, <1>4 DEF IInv, TypeOK
      <4>2. label'[o] # Invalid => label'[o] \in Page /\ kind[label'[o]] = "Label"
        BY <1>2, <1>4 DEF IInv, TypeOK, Refs, RefsValid
      <4>3. kind'[o] = "Container" => scheduler'[o] = Invalid
        BY <1>2, <1>4, <1>5 DEF IInv, TypeOK
      <4> QED BY <1>3, <1>6, <3>1, <4>1, <4>2, <4>3
    <3>2. CASE q # o
      <4>1. /\ kind'[q] = kind[q] /\ parent'[q] = parent[q] /\ label'[q] = label[q]
            /\ scheduler'[q] = scheduler[q]
        BY <1>5, <1>4, <3>2 DEF IInv, TypeOK
      <4>2. /\ parent[q] # Invalid => parent[q] \in Page /\ kind[parent[q]] = "Container"
            /\ label[q] # Invalid => label[q] \in Page /\ kind[label[q]] = "Label"
            /\ kind[q] = "Container" /\ scheduler[q] # Invalid =>
                  scheduler[q] \in Page /\ kind[scheduler[q]] = "Thread"
        BY <4>1 DEF IInv, TypeOK, RefsValid
      <4> QED BY <1>6, <4>1, <4>2
    <3> QED BY <3>1, <3>2
  <2>2. \A i \in 1 .. Len(known') :
           /\ kind'[known'[i]] = "Container" /\ label'[known'[i]] # Invalid
           /\ pc'[Main] = "idle" => scheduler'[known'[i]] # Invalid
    <3>1. \A i \in 1 .. Len(known) : known[i] \in Page /\ kind[known[i]] = "Container"
      BY DEF IInv, TypeOK, RefsValid
    <3>2. pc'[Main] = "idle" => pc[Main] = "idle"
      BY <1>1, <1>7
    <3> QED BY <1>4, <1>6, <3>1, <3>2 DEF RefsValid
  <2>3. \A b \in Actor : part'[b] # "Label" => kind'[lb'[b]] = "Label"
    BY <1>4, <1>6 DEF Refs, RefsValid
  <2>4. \A q \in Pool : \A i \in 1 .. Len(ready'[q]) : kind'[ready'[q][i]] = "Thread"
    <3>1. \A q \in Pool : \A i \in 1 .. Len(ready[q]) :
             ready[q][i] \in Page /\ kind[ready[q][i]] = "Thread"
      BY DEF IInv, TypeOK, RefsValid
    <3> QED BY <1>4, <1>6, <3>1
  <2> QED BY <2>1, <2>2, <2>3, <2>4 DEF RefsValid
<1> QED BY <1>9, <1>10

\* The root and its label are the first objects.
LEMMA BootRootRefs ==
    ASSUME IInv, Refs, RefsValid, boot_root
    PROVE  Refs' /\ RefsValid'
<1> DEFINE l == FirstFit(Page, KObjNPages)
           rest == Page \ Run(l, KObjNPages)
           r == FirstFit(rest, KObjNPages)
<1>1. Main \in Actor /\ pc[Main] = "root" /\ \A p \in Pool : pc[p] = "wait"
  BY DEF IInv, Local, Actor, boot_root, Goto
<1>2. l \in Page
  BY FirstFitFits, Zenon DEF boot_root
<1>3. rest \in SUBSET Page
  OBVIOUS
<1>4. r \in Page /\ Run(r, KObjNPages) \subseteq rest
  BY <1>3, FirstFitFits, Zenon DEF boot_root
<1>5. l # r
  BY <1>2, <1>4, RunStart, KObjectsAssumption
<1>6. /\ kind' = [kind EXCEPT ![l] = "Label", ![r] = "Container"]
      /\ parent' = [parent EXCEPT ![l] = r] /\ label' = [label EXCEPT ![r] = l]
      /\ pc' = [pc EXCEPT ![Main] = "slot"]
      /\ UNCHANGED <<scheduler, known, pool, boot, todo, ready, op, part, slot, page, lb>>
  BY DEF boot_root, Goto
<1> HIDE DEF l, r
<1>7. /\ kind'[l] = "Label" /\ kind'[r] = "Container"
      /\ \A o \in Page : kind[o] = "None" /\ (o # l /\ o # r => kind'[o] = "None")
  BY <1>1, <1>2, <1>4, <1>5, <1>6 DEF IInv, TypeOK, Pools
<1>8. \A a \in Actor : part[a] = "Label"
  BY <1>7 DEF Refs, RefsValid
<1>9. Len(known) = 0 /\ \A q \in Pool : Len(ready[q]) = 0
  <2>1. \A i \in 1 .. Len(known) : known[i] \in Page /\ kind[known[i]] = "Container"
    BY DEF IInv, TypeOK, RefsValid
  <2>2. \A q \in Pool : \A i \in 1 .. Len(ready[q]) :
           ready[q][i] \in Page /\ kind[ready[q][i]] = "Thread"
    BY DEF IInv, TypeOK, RefsValid
  <2>3. Len(known) \in Nat /\ \A q \in Pool : Len(ready[q]) \in Nat
    BY DEF IInv, TypeOK
  <2>4. 1 .. Len(known) = {}
    BY <1>7, <2>1
  <2>5. \A q \in Pool : 1 .. Len(ready[q]) = {}
    BY <1>7, <2>2
  <2>6. \A n \in Nat : 1 .. n = {} => n = 0
    OBVIOUS
  <2> QED BY <2>3, <2>4, <2>5, <2>6
<1>10. \A q \in Pool : ~(q < boot)
  BY <1>7 DEF IInv, Pools
<1>11. pc'[Main] = "slot" /\ \A p \in Pool : pc'[p] = "wait"
  BY <1>1, <1>6 DEF IInv, TypeOK, Actor
<1>12. op[Main] = "Container" => pool[boot] = Invalid
  BY <1>7 DEF IInv, TypeOK, Pools
<1>13. Refs'
  BY <1>6, <1>8, <1>9, <1>10, <1>11, <1>12 DEF Refs, Created, Actor
<1>14. RefsValid'
  <2>1. \A o \in Page : kind'[o] # "None" =>
           /\ parent'[o] # Invalid => parent'[o] = r
           /\ label'[o] # Invalid => label'[o] = l
           /\ scheduler'[o] = Invalid
    BY <1>1, <1>6 DEF IInv, TypeOK, Refs
  <2>2. 1 .. Len(known') = {} /\ \A q \in Pool : 1 .. Len(ready'[q]) = {}
    BY <1>6, <1>9
  <2>3. \A a \in Actor : part'[a] = "Label"
    BY <1>6, <1>8
  <2> QED BY <1>7, <2>1, <2>2, <2>3 DEF RefsValid
<1> QED BY <1>13, <1>14

\* Nothing exists at first.
LEMMA InitRefs == Init => Refs /\ RefsValid
<1> SUFFICES ASSUME Init PROVE Refs /\ RefsValid
  OBVIOUS
<1> USE DEF Init
<1>1. Main \in Actor /\ \A p \in Pool : p # Main /\ p \in Actor /\ ~(p < 1)
  BY DEF Main, Actor, Pool
<1>2. Len(known) = 0 /\ \A q \in Pool : Len(ready[q]) = 0
  OBVIOUS
<1>3. Refs
  BY <1>1, <1>2 DEF Refs, Created, Busy
<1>4. RefsValid
  BY <1>1, <1>2 DEF RefsValid
<1> QED BY <1>3, <1>4

\* Every step preserves the references.
LEMMA NextRefs == IInv /\ Refs /\ RefsValid /\ [Next]_vars => Refs' /\ RefsValid'
<1> SUFFICES ASSUME IInv, Refs, RefsValid, [Next]_vars PROVE Refs' /\ RefsValid'
  OBVIOUS
<1>1. Main \in Actor /\ Pool \subseteq Actor
  BY DEF Actor
<1>2. ASSUME NEW a \in Actor, Creation(a) PROVE Refs' /\ RefsValid'
  BY <1>2, CheckRefs, GetSlotRefs, FindRefs, TakeRefs, CreateRefs, SetSlotRefs, SetLabelRefs
     DEF Creation
<1>3. CASE Boot
  BY <1>3, BootRootRefs, BootThreadRefs, BootKnownRefs, BootSchedulerRefs, GrantRefs,
     MoveFindRefs, MoveTakeRefs, MoveInsertRefs DEF Boot
<1>4. ASSUME NEW p \in Pool, Scheduler(p) PROVE Refs' /\ RefsValid'
  BY <1>1, <1>2, <1>4, SchedSpawnRefs, SchedPushRefs DEF Scheduler
<1>5. CASE UNCHANGED vars
  BY <1>5 DEF vars, metaVars, bootVars, Refs, RefsValid
<1> QED BY <1>1, <1>2, <1>3, <1>4, <1>5 DEF Next

-----------------------------------------------------------------------------
(* Slots                                                                   *)

\* A step that writes no slot and begins or ends nothing.
LEMMA FiledFrame ==
    ASSUME Filed, slots' = slots, slot' = slot, kind' = kind, root' = root,
           label'[root] = label[root], Main \in Actor,
           \A b \in Actor : (pc'[b] = "set" <=> pc[b] = "set") /\ (pc[b] = "set" => page'[b] = page[b]),
           \A b \in Actor : pc'[b] \in Reserving => pc[b] \in Reserving /\ Ct(b)' = Ct(b),
           pc'[Main] \in {"set", "label"} => pc[Main] \in {"set", "label"} /\ page'[Main] = page[Main],
           pc'[Main] = "root" => pc[Main] = "root"
    PROVE  Filed'
<1>1. \A c \in Page : \A i \in 1 .. Len(slots[c]) : slots[c][i] # Invalid =>
         kind'[c] = "Container" /\ kind'[slots[c][i]] # "None"
  BY DEF Filed
<1>2. \A o \in Page : kind'[o] # "None" /\ o # root' /\ o # label'[root'] =>
         \/ \E c \in Page : \E i \in 1 .. Len(slots'[c]) : slots'[c][i] = o
         \/ \E a \in Actor : pc'[a] = "set" /\ page'[a] = o
  BY DEF Filed
<1>3. \A a \in Actor : pc'[a] \in Reserving =>
         slot'[a] \in 1 .. Len(slots'[Ct(a)']) /\ slots'[Ct(a)'][slot'[a]] = Invalid
  BY DEF Filed
<1>4. \A a \in Actor : pc'[a] = "set" =>
         \A c \in Page : \A i \in 1 .. Len(slots'[c]) : slots'[c][i] # page'[a]
  BY DEF Filed
<1>5. \A a, b \in Actor : a # b /\ pc'[a] = "set" /\ pc'[b] = "set" => page'[a] # page'[b]
  BY DEF Filed
<1>6. \A c, d \in Page : \A i \in 1 .. Len(slots'[c]), j \in 1 .. Len(slots'[d]) :
         slots'[c][i] = slots'[d][j] /\ slots'[c][i] # Invalid => c = d /\ i = j
  BY DEF Filed
<1> QED BY <1>1, <1>2, <1>3, <1>4, <1>5, <1>6 DEF Filed

\* The steps to which this applies, one by one.
LEMMA CheckFiled ==
    ASSUME IInv, Filed, NEW a \in Actor, check(a)
    PROVE  Filed'
<1> USE DEF check, Goto, metaVars, bootVars
<1>1. Main \in Actor /\ Pool \subseteq Actor /\ \A q \in Pool : q # Main
  BY DEF Actor, Main, Pool
<1>2. /\ slots' = slots /\ slot' = slot /\ kind' = kind /\ root' = root
      /\ label'[root] = label[root]
  OBVIOUS
<1>3. \A b \in Actor : (pc'[b] = "set" <=> pc[b] = "set") /\ (pc[b] = "set" => page'[b] = page[b])
  BY <1>1 DEF IInv, TypeOK, Local
<1>4. \A b \in Actor : pc'[b] \in Reserving => pc[b] \in Reserving /\ Ct(b)' = Ct(b)
  BY <1>1 DEF IInv, TypeOK, Local, Reserving, Ct, Actor
<1>5. /\ pc'[Main] \in {"set", "label"} => pc[Main] \in {"set", "label"} /\ page'[Main] = page[Main]
      /\ pc'[Main] = "root" => pc[Main] = "root"
  BY <1>1 DEF IInv, TypeOK
<1> QED BY <1>1, <1>2, <1>3, <1>4, <1>5, FiledFrame

LEMMA FindFiled ==
    ASSUME IInv, Filed, NEW a \in Actor, find(a, Ct(a), Size(part[a]), "find", "take")
    PROVE  Filed'
<1> USE DEF find, Goto, metaVars, bootVars
<1>1. Main \in Actor /\ Pool \subseteq Actor /\ \A q \in Pool : q # Main
  BY DEF Actor, Main, Pool
<1>2. /\ slots' = slots /\ slot' = slot /\ kind' = kind /\ root' = root
      /\ label'[root] = label[root]
  OBVIOUS
<1>3. \A b \in Actor : (pc'[b] = "set" <=> pc[b] = "set") /\ (pc[b] = "set" => page'[b] = page[b])
  BY <1>1 DEF IInv, TypeOK, Local
<1>4. \A b \in Actor : pc'[b] \in Reserving => pc[b] \in Reserving /\ Ct(b)' = Ct(b)
  BY <1>1 DEF IInv, TypeOK, Local, Reserving, Ct, Actor
<1>5. /\ pc'[Main] \in {"set", "label"} => pc[Main] \in {"set", "label"} /\ page'[Main] = page[Main]
      /\ pc'[Main] = "root" => pc[Main] = "root"
  BY <1>1 DEF IInv, TypeOK
<1> QED BY <1>1, <1>2, <1>3, <1>4, <1>5, FiledFrame

LEMMA TakeFiled ==
    ASSUME IInv, Filed, NEW a \in Actor, take(a, Ct(a), Size(part[a]), "take", "create")
    PROVE  Filed'
<1> USE DEF take, Goto, metaVars, bootVars
<1>1. Main \in Actor /\ Pool \subseteq Actor /\ \A q \in Pool : q # Main
  BY DEF Actor, Main, Pool
<1>2. /\ slots' = slots /\ slot' = slot /\ kind' = kind /\ root' = root
      /\ label'[root] = label[root]
  OBVIOUS
<1>3. \A b \in Actor : (pc'[b] = "set" <=> pc[b] = "set") /\ (pc[b] = "set" => page'[b] = page[b])
  BY <1>1 DEF IInv, TypeOK, Local
<1>4. \A b \in Actor : pc'[b] \in Reserving => pc[b] \in Reserving /\ Ct(b)' = Ct(b)
  BY <1>1 DEF IInv, TypeOK, Local, Reserving, Ct, Actor
<1>5. /\ pc'[Main] \in {"set", "label"} => pc[Main] \in {"set", "label"} /\ page'[Main] = page[Main]
      /\ pc'[Main] = "root" => pc[Main] = "root"
  BY <1>1 DEF IInv, TypeOK
<1> QED BY <1>1, <1>2, <1>3, <1>4, <1>5, FiledFrame

LEMMA SetLabelFiled ==
    ASSUME IInv, Filed, NEW a \in Actor, set_label(a)
    PROVE  Filed'
<1> USE DEF set_label, Goto, metaVars, bootVars
<1>1. Main \in Actor /\ Pool \subseteq Actor /\ \A q \in Pool : q # Main
  BY DEF Actor, Main, Pool
<1>2. /\ slots' = slots /\ slot' = slot /\ kind' = kind /\ root' = root
      /\ label'[root] = label[root]
  <2>1. a = Main
    BY DEF IInv, Local, Actor
  <2>2. page[a] # root
    BY <2>1 DEF Filed
  <2> QED BY <2>2 DEF IInv, TypeOK
<1>3. \A b \in Actor : (pc'[b] = "set" <=> pc[b] = "set") /\ (pc[b] = "set" => page'[b] = page[b])
  BY <1>1 DEF IInv, TypeOK, Local
<1>4. \A b \in Actor : pc'[b] \in Reserving => pc[b] \in Reserving /\ Ct(b)' = Ct(b)
  BY <1>1 DEF IInv, TypeOK, Local, Reserving, Ct, Actor
<1>5. /\ pc'[Main] \in {"set", "label"} => pc[Main] \in {"set", "label"} /\ page'[Main] = page[Main]
      /\ pc'[Main] = "root" => pc[Main] = "root"
  BY <1>1 DEF IInv, TypeOK
<1> QED BY <1>1, <1>2, <1>3, <1>4, <1>5, FiledFrame

LEMMA BootThreadFiled ==
    ASSUME IInv, Filed, boot_thread
    PROVE  Filed'
<1> USE DEF boot_thread, Goto, metaVars, bootVars
<1>1. Main \in Actor /\ Pool \subseteq Actor /\ \A q \in Pool : q # Main
  BY DEF Actor, Main, Pool
<1>2. /\ slots' = slots /\ slot' = slot /\ kind' = kind /\ root' = root
      /\ label'[root] = label[root]
  OBVIOUS
<1>3. \A b \in Actor : (pc'[b] = "set" <=> pc[b] = "set") /\ (pc[b] = "set" => page'[b] = page[b])
  BY <1>1 DEF IInv, TypeOK, Local
<1>4. \A b \in Actor : pc'[b] \in Reserving => pc[b] \in Reserving /\ Ct(b)' = Ct(b)
  BY <1>1 DEF IInv, TypeOK, Local, Reserving, Ct, Actor
<1>5. /\ pc'[Main] \in {"set", "label"} => pc[Main] \in {"set", "label"} /\ page'[Main] = page[Main]
      /\ pc'[Main] = "root" => pc[Main] = "root"
  BY <1>1 DEF IInv, TypeOK
<1> QED BY <1>1, <1>2, <1>3, <1>4, <1>5, FiledFrame

LEMMA BootKnownFiled ==
    ASSUME IInv, Filed, boot_known
    PROVE  Filed'
<1> USE DEF boot_known, Goto, metaVars, bootVars
<1>1. Main \in Actor /\ Pool \subseteq Actor /\ \A q \in Pool : q # Main
  BY DEF Actor, Main, Pool
<1>2. /\ slots' = slots /\ slot' = slot /\ kind' = kind /\ root' = root
      /\ label'[root] = label[root]
  OBVIOUS
<1>3. \A b \in Actor : (pc'[b] = "set" <=> pc[b] = "set") /\ (pc[b] = "set" => page'[b] = page[b])
  BY <1>1 DEF IInv, TypeOK, Local
<1>4. \A b \in Actor : pc'[b] \in Reserving => pc[b] \in Reserving /\ Ct(b)' = Ct(b)
  BY <1>1 DEF IInv, TypeOK, Local, Reserving, Ct, Actor
<1>5. /\ pc'[Main] \in {"set", "label"} => pc[Main] \in {"set", "label"} /\ page'[Main] = page[Main]
      /\ pc'[Main] = "root" => pc[Main] = "root"
  BY <1>1 DEF IInv, TypeOK
<1> QED BY <1>1, <1>2, <1>3, <1>4, <1>5, FiledFrame

LEMMA BootSchedulerFiled ==
    ASSUME IInv, Filed, boot_scheduler
    PROVE  Filed'
<1> USE DEF boot_scheduler, Goto, metaVars, bootVars
<1>1. Main \in Actor /\ Pool \subseteq Actor /\ \A q \in Pool : q # Main
  BY DEF Actor, Main, Pool
<1>2. /\ slots' = slots /\ slot' = slot /\ kind' = kind /\ root' = root
      /\ label'[root] = label[root]
  OBVIOUS
<1>3. \A b \in Actor : (pc'[b] = "set" <=> pc[b] = "set") /\ (pc[b] = "set" => page'[b] = page[b])
  BY <1>1 DEF IInv, TypeOK, Local
<1>4. \A b \in Actor : pc'[b] \in Reserving => pc[b] \in Reserving /\ Ct(b)' = Ct(b)
  BY <1>1 DEF IInv, TypeOK, Local, Reserving, Ct, Actor
<1>5. /\ pc'[Main] \in {"set", "label"} => pc[Main] \in {"set", "label"} /\ page'[Main] = page[Main]
      /\ pc'[Main] = "root" => pc[Main] = "root"
  BY <1>1 DEF IInv, TypeOK
<1> QED BY <1>1, <1>2, <1>3, <1>4, <1>5, FiledFrame

LEMMA GrantFiled ==
    ASSUME IInv, Filed, grant
    PROVE  Filed'
<1> USE DEF grant, Goto, metaVars, bootVars
<1>1. Main \in Actor /\ Pool \subseteq Actor /\ \A q \in Pool : q # Main
  BY DEF Actor, Main, Pool
<1>2. /\ slots' = slots /\ slot' = slot /\ kind' = kind /\ root' = root
      /\ label'[root] = label[root]
  OBVIOUS
<1>3. \A b \in Actor : (pc'[b] = "set" <=> pc[b] = "set") /\ (pc[b] = "set" => page'[b] = page[b])
  BY <1>1 DEF IInv, TypeOK, Local, Actor
<1>4. \A b \in Actor : pc'[b] \in Reserving => pc[b] \in Reserving /\ Ct(b)' = Ct(b)
  BY <1>1 DEF IInv, TypeOK, Local, Reserving, Ct, Actor
<1>5. /\ pc'[Main] \in {"set", "label"} => pc[Main] \in {"set", "label"} /\ page'[Main] = page[Main]
      /\ pc'[Main] = "root" => pc[Main] = "root"
  BY <1>1 DEF IInv, TypeOK
<1> QED BY <1>1, <1>2, <1>3, <1>4, <1>5, FiledFrame

LEMMA MoveFindFiled ==
    ASSUME IInv, Filed, find(Main, root, NMove, "move_find", "move_take")
    PROVE  Filed'
<1> USE DEF find, Goto, metaVars, bootVars
<1>1. Main \in Actor /\ Pool \subseteq Actor /\ \A q \in Pool : q # Main
  BY DEF Actor, Main, Pool
<1>2. /\ slots' = slots /\ slot' = slot /\ kind' = kind /\ root' = root
      /\ label'[root] = label[root]
  OBVIOUS
<1>3. \A b \in Actor : (pc'[b] = "set" <=> pc[b] = "set") /\ (pc[b] = "set" => page'[b] = page[b])
  BY <1>1 DEF IInv, TypeOK, Local
<1>4. \A b \in Actor : pc'[b] \in Reserving => pc[b] \in Reserving /\ Ct(b)' = Ct(b)
  BY <1>1 DEF IInv, TypeOK, Local, Reserving, Ct, Actor
<1>5. /\ pc'[Main] \in {"set", "label"} => pc[Main] \in {"set", "label"} /\ page'[Main] = page[Main]
      /\ pc'[Main] = "root" => pc[Main] = "root"
  BY <1>1 DEF IInv, TypeOK
<1> QED BY <1>1, <1>2, <1>3, <1>4, <1>5, FiledFrame

LEMMA MoveTakeFiled ==
    ASSUME IInv, Filed, take(Main, root, NMove, "move_take", "move_insert")
    PROVE  Filed'
<1> USE DEF take, Goto, metaVars, bootVars
<1>1. Main \in Actor /\ Pool \subseteq Actor /\ \A q \in Pool : q # Main
  BY DEF Actor, Main, Pool
<1>2. /\ slots' = slots /\ slot' = slot /\ kind' = kind /\ root' = root
      /\ label'[root] = label[root]
  OBVIOUS
<1>3. \A b \in Actor : (pc'[b] = "set" <=> pc[b] = "set") /\ (pc[b] = "set" => page'[b] = page[b])
  BY <1>1 DEF IInv, TypeOK, Local
<1>4. \A b \in Actor : pc'[b] \in Reserving => pc[b] \in Reserving /\ Ct(b)' = Ct(b)
  BY <1>1 DEF IInv, TypeOK, Local, Reserving, Ct, Actor
<1>5. /\ pc'[Main] \in {"set", "label"} => pc[Main] \in {"set", "label"} /\ page'[Main] = page[Main]
      /\ pc'[Main] = "root" => pc[Main] = "root"
  BY <1>1 DEF IInv, TypeOK
<1> QED BY <1>1, <1>2, <1>3, <1>4, <1>5, FiledFrame

LEMMA MoveInsertFiled ==
    ASSUME IInv, Filed, move_insert
    PROVE  Filed'
<1> USE DEF move_insert, Goto, metaVars, bootVars
<1>1. Main \in Actor /\ Pool \subseteq Actor /\ \A q \in Pool : q # Main
  BY DEF Actor, Main, Pool
<1>2. /\ slots' = slots /\ slot' = slot /\ kind' = kind /\ root' = root
      /\ label'[root] = label[root]
  OBVIOUS
<1>3. \A b \in Actor : (pc'[b] = "set" <=> pc[b] = "set") /\ (pc[b] = "set" => page'[b] = page[b])
  BY <1>1 DEF IInv, TypeOK, Local
<1>4. \A b \in Actor : pc'[b] \in Reserving => pc[b] \in Reserving /\ Ct(b)' = Ct(b)
  BY <1>1 DEF IInv, TypeOK, Local, Reserving, Ct, Actor
<1>5. /\ pc'[Main] \in {"set", "label"} => pc[Main] \in {"set", "label"} /\ page'[Main] = page[Main]
      /\ pc'[Main] = "root" => pc[Main] = "root"
  BY <1>1 DEF IInv, TypeOK
<1> QED BY <1>1, <1>2, <1>3, <1>4, <1>5, FiledFrame

LEMMA SchedSpawnFiled ==
    ASSUME IInv, Filed, NEW p \in Pool, sched_spawn(p)
    PROVE  Filed'
<1> USE DEF sched_spawn, Goto, metaVars, bootVars
<1>1. Main \in Actor /\ Pool \subseteq Actor /\ \A q \in Pool : q # Main
  BY DEF Actor, Main, Pool
<1>2. /\ slots' = slots /\ slot' = slot /\ kind' = kind /\ root' = root
      /\ label'[root] = label[root]
  OBVIOUS
<1>3. \A b \in Actor : (pc'[b] = "set" <=> pc[b] = "set") /\ (pc[b] = "set" => page'[b] = page[b])
  BY <1>1 DEF IInv, TypeOK, Local
<1>4. \A b \in Actor : pc'[b] \in Reserving => pc[b] \in Reserving /\ Ct(b)' = Ct(b)
  BY <1>1 DEF IInv, TypeOK, Local, Reserving, Ct, Actor
<1>5. /\ pc'[Main] \in {"set", "label"} => pc[Main] \in {"set", "label"} /\ page'[Main] = page[Main]
      /\ pc'[Main] = "root" => pc[Main] = "root"
  BY <1>1 DEF IInv, TypeOK
<1> QED BY <1>1, <1>2, <1>3, <1>4, <1>5, FiledFrame

LEMMA SchedPushFiled ==
    ASSUME IInv, Filed, NEW p \in Pool, sched_push(p)
    PROVE  Filed'
<1> USE DEF sched_push, Goto, metaVars, bootVars
<1>1. Main \in Actor /\ Pool \subseteq Actor /\ \A q \in Pool : q # Main
  BY DEF Actor, Main, Pool
<1>2. /\ slots' = slots /\ slot' = slot /\ kind' = kind /\ root' = root
      /\ label'[root] = label[root]
  OBVIOUS
<1>3. \A b \in Actor : (pc'[b] = "set" <=> pc[b] = "set") /\ (pc[b] = "set" => page'[b] = page[b])
  BY <1>1 DEF IInv, TypeOK, Local
<1>4. \A b \in Actor : pc'[b] \in Reserving => pc[b] \in Reserving /\ Ct(b)' = Ct(b)
  BY <1>1 DEF IInv, TypeOK, Local, Reserving, Ct, Actor
<1>5. /\ pc'[Main] \in {"set", "label"} => pc[Main] \in {"set", "label"} /\ page'[Main] = page[Main]
      /\ pc'[Main] = "root" => pc[Main] = "root"
  BY <1>1 DEF IInv, TypeOK
<1> QED BY <1>1, <1>2, <1>3, <1>4, <1>5, FiledFrame

\* get_slot finds a vacant slot or makes one, and no other actor is at that container.
LEMMA GetSlotFiled ==
    ASSUME IInv, Filed, Exclusive, NEW a \in Actor, get_slot(a)
    PROVE  Filed'
<1> DEFINE ct == Ct(a)
           s == slots[ct]
           i == IF Vacant(s) = {} THEN Len(s) + 1
                ELSE CHOOSE j \in Vacant(s) : \A k \in Vacant(s) : j <= k
           t == IF i > Len(s) THEN Append(s, Invalid) ELSE s
<1>1. pc[a] = "slot" /\ pc[a] \in Busy /\ Main \in Actor
  BY DEF get_slot, Goto, Busy, Actor
<1>2. ct \in Page /\ pc[Main] # "root" /\ s \in Seq(Page \cup {Invalid}) /\ Len(s) \in Nat
  BY <1>1, CtContainer DEF IInv, TypeOK
<1>3. i \in Nat /\ (i = Len(s) + 1 \/ (i \in 1 .. Len(s) /\ s[i] = Invalid))
  <2>1. CASE Vacant(s) = {}
    BY <1>2, <2>1
  <2>2. CASE Vacant(s) # {}
    <3>1. Vacant(s) \in SUBSET Nat
      BY <1>2 DEF Vacant
    <3>2. \E j \in Vacant(s) : \A k \in Vacant(s) : j <= k
      BY <2>2, <3>1, Minimum
    <3>3. i \in Vacant(s)
      BY <2>2, <3>2, Zenon
    <3> QED BY <1>2, <3>1, <3>3 DEF Vacant
  <2> QED BY <2>1, <2>2
<1> HIDE DEF i
<1>4. /\ slot' = [slot EXCEPT ![a] = i]
      /\ slots' = [slots EXCEPT ![ct] = t]
      /\ pc' = [pc EXCEPT ![a] = "find"]
      /\ UNCHANGED <<metaVars, free, bootVars, todo, ready, op, part, page, lb>>
  BY DEF get_slot, Goto, i
<1>5. /\ t \in Seq(Page \cup {Invalid}) /\ Len(t) \in Nat /\ Len(t) >= Len(s) /\ i \in 1 .. Len(t)
      /\ \A j \in 1 .. Len(t) : t[j] = IF j \in 1 .. Len(s) THEN s[j] ELSE Invalid
      /\ t[i] = Invalid
  <2>1. CASE i > Len(s)
    BY <1>2, <1>3, <2>1
  <2>2. CASE ~(i > Len(s))
    BY <1>2, <1>3, <2>2
  <2> QED BY <2>1, <2>2
<1> HIDE DEF t
<1>6. \A c \in Page : slots'[c] = IF c = ct THEN t ELSE slots[c]
  BY <1>4 DEF IInv, TypeOK
<1>7. \A c \in Page : \A j \in 1 .. Len(slots'[c]) :
         slots'[c][j] # Invalid => j \in 1 .. Len(slots[c]) /\ slots'[c][j] = slots[c][j]
  BY <1>5, <1>6
<1>8. \A c \in Page : \A j \in 1 .. Len(slots[c]) :
         j \in 1 .. Len(slots'[c]) /\ slots'[c][j] = slots[c][j]
  BY <1>2, <1>5, <1>6
<1>9. \A b \in Actor : pc'[b] = IF b = a THEN "find" ELSE pc[b]
  BY <1>4 DEF IInv, TypeOK
<1>10. kind' = kind /\ label' = label /\ root' = root /\ page' = page /\ \A b \in Actor : Ct(b)' = Ct(b)
  BY <1>4 DEF metaVars, bootVars, Ct
<1> HIDE DEF ct, s
<1>11. \A c \in Page : \A j \in 1 .. Len(slots'[c]) : slots'[c][j] # Invalid =>
          kind'[c] = "Container" /\ kind'[slots'[c][j]] # "None"
  BY <1>7, <1>10 DEF Filed
<1>12. \A c, d \in Page : \A k \in 1 .. Len(slots'[c]), j \in 1 .. Len(slots'[d]) :
          slots'[c][k] = slots'[d][j] /\ slots'[c][k] # Invalid => c = d /\ k = j
  BY <1>7 DEF Filed
<1>13. \A o \in Page : kind'[o] # "None" /\ o # root' /\ o # label'[root'] =>
          \/ \E c \in Page : \E j \in 1 .. Len(slots'[c]) : slots'[c][j] = o
          \/ \E b \in Actor : pc'[b] = "set" /\ page'[b] = o
  <2> SUFFICES ASSUME NEW o \in Page, kind[o] # "None", o # root, o # label[root]
               PROVE  \/ \E c \in Page : \E j \in 1 .. Len(slots'[c]) : slots'[c][j] = o
                      \/ \E b \in Actor : pc'[b] = "set" /\ page'[b] = o
    BY <1>10
  <2>1. \/ \E c \in Page : \E j \in 1 .. Len(slots[c]) : slots[c][j] = o
        \/ \E b \in Actor : pc[b] = "set" /\ page[b] = o
    BY DEF Filed
  <2> QED BY <1>1, <1>8, <1>9, <1>10, <2>1
<1>14. \A b \in Actor : pc'[b] \in Reserving =>
          slot'[b] \in 1 .. Len(slots'[Ct(b)']) /\ slots'[Ct(b)'][slot'[b]] = Invalid
  <2> SUFFICES ASSUME NEW b \in Actor, pc'[b] \in Reserving
               PROVE  slot'[b] \in 1 .. Len(slots'[Ct(b)]) /\ slots'[Ct(b)][slot'[b]] = Invalid
    BY <1>10
  <2>1. CASE b = a
    <3>1. slot'[a] = i /\ slots'[Ct(a)] = t
      BY <1>2, <1>4, <1>6 DEF IInv, TypeOK, ct
    <3> QED BY <1>5, <2>1, <3>1
  <2>2. CASE b # a
    <3>1. pc[b] \in Reserving /\ pc[b] \in Busy
      BY <1>9, <2>2 DEF Reserving, Busy
    <3>2. Ct(b) # ct /\ Ct(b) \in Page
      BY <1>1, <2>2, <3>1, CtDistinct, CtContainer DEF ct
    <3>3. slots'[Ct(b)] = slots[Ct(b)] /\ slot'[b] = slot[b]
      BY <1>4, <1>6, <2>2, <3>2 DEF IInv, TypeOK
    <3> QED BY <3>1, <3>3 DEF Filed
  <2> QED BY <2>1, <2>2
<1>15. \A b \in Actor : pc'[b] = "set" =>
          \A c \in Page : \A j \in 1 .. Len(slots'[c]) : slots'[c][j] # page'[b]
  <2> SUFFICES ASSUME NEW b \in Actor, pc'[b] = "set", NEW c \in Page, NEW j \in 1 .. Len(slots'[c])
               PROVE  slots'[c][j] # page[b]
    BY <1>10
  <2>1. pc[b] = "set" /\ page[b] \in Page
    BY <1>9 DEF IInv, Local, Paged
  <2>2. CASE slots'[c][j] = Invalid
    BY <2>1, <2>2, KObjectsAssumption
  <2>3. CASE slots'[c][j] # Invalid
    BY <1>7, <2>1, <2>3 DEF Filed
  <2> QED BY <2>2, <2>3
<1>16. \A b, d \in Actor : b # d /\ pc'[b] = "set" /\ pc'[d] = "set" => page'[b] # page'[d]
  BY <1>9, <1>10 DEF Filed
<1>17. pc'[Main] # "root" /\ (pc'[Main] \in {"set", "label"} => page'[Main] # root')
  BY <1>1, <1>2, <1>9, <1>10 DEF Filed
<1> QED BY <1>11, <1>12, <1>13, <1>14, <1>15, <1>16, <1>17 DEF Filed

\* set_slot fills the slot that get_slot gave, which is vacant still.
LEMMA SetSlotFiled ==
    ASSUME IInv, Refs, Filed, Exclusive, NEW a \in Actor, set_slot(a)
    PROVE  Filed'
<1> DEFINE ct == Ct(a)
           s == slots[ct]
           o == page[a]
<1>1. pc[a] = "set" /\ pc[a] \in Busy /\ pc[a] \in Reserving /\ pc[a] \in Created /\ Main \in Actor
  BY DEF set_slot, Goto, Busy, Reserving, Created, Actor
<1>2. /\ ct \in Page /\ kind[ct] = "Container" /\ pc[Main] # "root"
      /\ s \in Seq(Page \cup {Invalid}) /\ Len(s) \in Nat
  BY <1>1, CtContainer DEF IInv, TypeOK
<1>3. o \in Page /\ kind[o] # "None"
  BY <1>1 DEF IInv, TypeOK, Local, Paged, Refs
<1>4. slot[a] \in 1 .. Len(s) /\ s[slot[a]] = Invalid
  BY <1>1 DEF Filed
<1>5. /\ slots' = [slots EXCEPT ![ct] = [s EXCEPT ![slot[a]] = o]]
      /\ pc' = [pc EXCEPT ![a] = IF part[a] = "Label" THEN "slot"
                                 ELSE IF part[a] = "Container" THEN "label" ELSE "done"]
      /\ UNCHANGED <<metaVars, free, bootVars, todo, ready, op, slot, page>>
  BY DEF set_slot, Goto
<1>6. \A c \in Page : /\ Len(slots'[c]) = Len(slots[c])
                      /\ \A j \in 1 .. Len(slots[c]) :
                            slots'[c][j] = IF c = ct /\ j = slot[a] THEN o ELSE slots[c][j]
  <2>1. Len([s EXCEPT ![slot[a]] = o]) = Len(s)
    BY <1>2
  <2>2. \A j \in 1 .. Len(s) : [s EXCEPT ![slot[a]] = o][j] = IF j = slot[a] THEN o ELSE s[j]
    BY <1>2
  <2>3. \A c \in Page : slots'[c] = IF c = ct THEN [s EXCEPT ![slot[a]] = o] ELSE slots[c]
    BY <1>5 DEF IInv, TypeOK
  <2> QED BY <2>1, <2>2, <2>3
<1>7. \A b \in Actor : /\ b # a => pc'[b] = pc[b]
                       /\ pc'[a] \in {"slot", "label", "done"}
  BY <1>5 DEF IInv, TypeOK
<1>8. kind' = kind /\ label' = label /\ root' = root /\ page' = page /\ slot' = slot
      /\ \A b \in Actor : Ct(b)' = Ct(b)
  BY <1>5 DEF metaVars, bootVars, Ct
<1>9. \A c \in Page : \A j \in 1 .. Len(slots[c]) : slots[c][j] # o
  BY <1>1 DEF Filed
<1> HIDE DEF ct, s, o
<1>10. \A c \in Page : \A j \in 1 .. Len(slots'[c]) : slots'[c][j] # Invalid =>
         kind'[c] = "Container" /\ kind'[slots'[c][j]] # "None"
  BY <1>2, <1>3, <1>6, <1>8 DEF Filed
<1>11. \A c, d \in Page : \A k \in 1 .. Len(slots'[c]), j \in 1 .. Len(slots'[d]) :
          slots'[c][k] = slots'[d][j] /\ slots'[c][k] # Invalid => c = d /\ k = j
  <2> SUFFICES ASSUME NEW c \in Page, NEW d \in Page,
                      NEW k \in 1 .. Len(slots[c]), NEW j \in 1 .. Len(slots[d]),
                      slots'[c][k] = slots'[d][j], slots'[c][k] # Invalid
               PROVE  c = d /\ k = j
    BY <1>6
  <2>1. CASE c = ct /\ k = slot[a]
    BY <1>6, <1>9, <2>1
  <2>2. CASE d = ct /\ j = slot[a]
    BY <1>6, <1>9, <2>2
  <2>3. CASE ~(c = ct /\ k = slot[a]) /\ ~(d = ct /\ j = slot[a])
    <3>1. slots'[c][k] = slots[c][k] /\ slots'[d][j] = slots[d][j]
      BY <1>6, <2>3
    <3>2. slots[c][k] = slots[d][j] /\ slots[c][k] # Invalid
      BY <3>1
    <3> QED BY <3>2 DEF Filed
  <2> QED BY <2>1, <2>2, <2>3
<1>12. \A q \in Page : kind'[q] # "None" /\ q # root' /\ q # label'[root'] =>
          \/ \E c \in Page : \E j \in 1 .. Len(slots'[c]) : slots'[c][j] = q
          \/ \E b \in Actor : pc'[b] = "set" /\ page'[b] = q
  <2> SUFFICES ASSUME NEW q \in Page, kind[q] # "None", q # root, q # label[root]
               PROVE  \/ \E c \in Page : \E j \in 1 .. Len(slots'[c]) : slots'[c][j] = q
                      \/ \E b \in Actor : pc'[b] = "set" /\ page'[b] = q
    BY <1>8
  <2>1. slot[a] \in 1 .. Len(slots'[ct]) /\ slots'[ct][slot[a]] = o
    BY <1>2, <1>4, <1>6 DEF s
  <2>2. CASE q = o
    BY <1>2, <2>1, <2>2
  <2>3. CASE q # o
    <3>1. CASE \E c \in Page : \E j \in 1 .. Len(slots[c]) : slots[c][j] = q
      <4>1. PICK c \in Page : \E j \in 1 .. Len(slots[c]) : slots[c][j] = q
        BY <3>1
      <4>2. PICK j \in 1 .. Len(slots[c]) : slots[c][j] = q
        BY <4>1
      <4>3. ~(c = ct /\ j = slot[a])
        BY <1>4, <4>2, KObjectsAssumption DEF s
      <4> QED BY <1>6, <4>2, <4>3
    <3>2. CASE \E b \in Actor : pc[b] = "set" /\ page[b] = q
      BY <1>7, <1>8, <2>3, <3>2 DEF o
    <3> QED BY <3>1, <3>2 DEF Filed
  <2> QED BY <2>2, <2>3
<1>13. \A b \in Actor : pc'[b] \in Reserving =>
          slot'[b] \in 1 .. Len(slots'[Ct(b)']) /\ slots'[Ct(b)'][slot'[b]] = Invalid
  <2> SUFFICES ASSUME NEW b \in Actor, pc'[b] \in Reserving
               PROVE  slot[b] \in 1 .. Len(slots'[Ct(b)]) /\ slots'[Ct(b)][slot[b]] = Invalid
    BY <1>8
  <2>1. b # a
    BY <1>7 DEF Reserving
  <2>2. pc[b] \in Reserving /\ pc[b] \in Busy
    BY <1>7, <2>1 DEF Reserving, Busy
  <2>3. Ct(b) # ct /\ Ct(b) \in Page
    BY <1>1, <2>1, <2>2, CtDistinct, CtContainer DEF ct
  <2>4. slot[b] \in 1 .. Len(slots[Ct(b)]) /\ slots[Ct(b)][slot[b]] = Invalid
    BY <2>2 DEF Filed
  <2> QED BY <1>6, <2>3, <2>4
<1>14. \A b \in Actor : pc'[b] = "set" =>
          \A c \in Page : \A j \in 1 .. Len(slots'[c]) : slots'[c][j] # page'[b]
  <2> SUFFICES ASSUME NEW b \in Actor, pc'[b] = "set", NEW c \in Page, NEW j \in 1 .. Len(slots[c])
               PROVE  slots'[c][j] # page[b]
    BY <1>6, <1>8
  <2>1. b # a /\ pc[b] = "set"
    BY <1>7
  <2>2. page[b] # o /\ slots[c][j] # page[b]
    BY <1>1, <2>1 DEF Filed, o
  <2> QED BY <1>6, <2>2
<1>15. \A b, d \in Actor : b # d /\ pc'[b] = "set" /\ pc'[d] = "set" => page'[b] # page'[d]
  BY <1>7, <1>8 DEF Filed
<1>16. pc'[Main] # "root" /\ (pc'[Main] \in {"set", "label"} => page'[Main] # root')
  BY <1>1, <1>2, <1>7, <1>8 DEF Filed
<1> QED BY <1>10, <1>11, <1>12, <1>13, <1>14, <1>15, <1>16 DEF Filed

\* A new object is nowhere yet, and no slot is lost when a new container has none.
LEMMA CreateFiled ==
    ASSUME IInv, Refs, Filed, NEW a \in Actor, create(a)
    PROVE  Filed'
<1> DEFINE o == page[a]
<1>1. Main \in Actor /\ pc[a] = "create" /\ pc' = [pc EXCEPT ![a] = "set"]
  BY DEF Actor, create, Goto
<1>2. o \in Page /\ kind[o] = "None"
  BY <1>1, CreateFresh
<1>3. pc[Main] # "root" /\ root \in Page /\ kind[root] = "Container"
  BY <1>1, CtContainer DEF Busy, IInv, Local, Pools
<1>4. /\ kind' = [kind EXCEPT ![o] = part[a]]
      /\ label' = [label EXCEPT ![o] = IF part[a] = "Thread" THEN lb[a] ELSE Invalid]
      /\ slots' = IF part[a] = "Container" THEN [slots EXCEPT ![o] = <<>>] ELSE slots
      /\ UNCHANGED <<known, root, pool, boot, todo, ready, op, part, slot, page, lb>>
  BY DEF create, NewMeta
<1>5. /\ \A q \in Page : q # o => kind'[q] = kind[q] /\ slots'[q] = slots[q]
      /\ kind'[o] # "None" /\ label'[root] = label[root]
      /\ slots'[o] = slots[o] \/ Len(slots'[o]) = 0
  BY <1>2, <1>3, <1>4 DEF IInv, TypeOK
<1>6. \A b \in Actor : pc'[b] = IF b = a THEN "set" ELSE pc[b]
  BY <1>1 DEF IInv, TypeOK
<1>7. /\ root' = root /\ page' = page /\ slot' = slot
      /\ \A b \in Actor : Ct(b)' = Ct(b)
  BY <1>4 DEF Ct
<1>8. \A c \in Page : \A j \in 1 .. Len(slots'[c]) :
         j \in 1 .. Len(slots[c]) /\ slots'[c][j] = slots[c][j]
  BY <1>5
<1>9. \A c \in Page : \A j \in 1 .. Len(slots[c]) :
         slots[c][j] # Invalid => c # o /\ slots[c][j] # o /\ slots[c][j] \in Page
  <2>1. \A c \in Page : \A j \in 1 .. Len(slots[c]) : slots[c][j] \in Page \cup {Invalid}
    BY DEF IInv, TypeOK
  <2> QED BY <1>2, <2>1 DEF Filed
<1>10. \A b \in Actor : b # a /\ pc[b] = "set" => page[b] # o
  BY <1>2 DEF IInv, TypeOK, Refs, Created
<1>11. \A c \in Page : \A j \in 1 .. Len(slots'[c]) : slots'[c][j] # Invalid =>
          kind'[c] = "Container" /\ kind'[slots'[c][j]] # "None"
  <2> SUFFICES ASSUME NEW c \in Page, NEW j \in 1 .. Len(slots'[c]), slots'[c][j] # Invalid
               PROVE  kind'[c] = "Container" /\ kind'[slots'[c][j]] # "None"
    OBVIOUS
  <2>1. j \in 1 .. Len(slots[c]) /\ slots'[c][j] = slots[c][j]
    BY <1>8
  <2>2. c # o /\ slots[c][j] # o /\ slots[c][j] \in Page
    BY <1>9, <2>1
  <2>3. kind[c] = "Container" /\ kind[slots[c][j]] # "None"
    BY <2>1, <2>2, KObjectsAssumption DEF Filed
  <2> QED BY <1>5, <2>1, <2>2, <2>3
<1>12. \A c, d \in Page : \A k \in 1 .. Len(slots'[c]), j \in 1 .. Len(slots'[d]) :
          slots'[c][k] = slots'[d][j] /\ slots'[c][k] # Invalid => c = d /\ k = j
  BY <1>8 DEF Filed
<1>13. \A q \in Page : kind'[q] # "None" /\ q # root' /\ q # label'[root'] =>
          \/ \E c \in Page : \E j \in 1 .. Len(slots'[c]) : slots'[c][j] = q
          \/ \E b \in Actor : pc'[b] = "set" /\ page'[b] = q
  <2> SUFFICES ASSUME NEW q \in Page, kind'[q] # "None", q # root, q # label[root]
               PROVE  \/ \E c \in Page : \E j \in 1 .. Len(slots'[c]) : slots'[c][j] = q
                      \/ \E b \in Actor : pc'[b] = "set" /\ page'[b] = q
    BY <1>5, <1>7
  <2>1. CASE q = o
    BY <1>6, <1>7, <2>1
  <2>2. CASE q # o
    <3>1. \/ \E c \in Page : \E j \in 1 .. Len(slots[c]) : slots[c][j] = q
          \/ \E b \in Actor : pc[b] = "set" /\ page[b] = q
      BY <1>5, <2>2 DEF Filed
    <3>2. CASE \E c \in Page : \E j \in 1 .. Len(slots[c]) : slots[c][j] = q
      <4>1. PICK c \in Page : \E j \in 1 .. Len(slots[c]) : slots[c][j] = q
        BY <3>2
      <4>2. c # o
        BY <1>9, <4>1, KObjectsAssumption
      <4> QED BY <1>5, <4>1, <4>2
    <3>3. CASE \E b \in Actor : pc[b] = "set" /\ page[b] = q
      BY <1>1, <1>6, <1>7, <3>3
    <3> QED BY <3>1, <3>2, <3>3
  <2> QED BY <2>1, <2>2
<1>14. \A b \in Actor : pc'[b] \in Reserving =>
          slot'[b] \in 1 .. Len(slots'[Ct(b)']) /\ slots'[Ct(b)'][slot'[b]] = Invalid
  <2> SUFFICES ASSUME NEW b \in Actor, pc'[b] \in Reserving
               PROVE  slot[b] \in 1 .. Len(slots'[Ct(b)]) /\ slots'[Ct(b)][slot[b]] = Invalid
    BY <1>7
  <2>1. pc[b] \in Reserving
    BY <1>1, <1>6 DEF Reserving
  <2>2. Ct(b) \in Page /\ kind[Ct(b)] = "Container"
    BY <2>1, CtContainer DEF Reserving, Busy
  <2>3. slots'[Ct(b)] = slots[Ct(b)]
    BY <1>2, <1>5, <2>2
  <2> QED BY <2>1, <2>3 DEF Filed
<1>15. \A b \in Actor : pc'[b] = "set" =>
          \A c \in Page : \A j \in 1 .. Len(slots'[c]) : slots'[c][j] # page'[b]
  <2> SUFFICES ASSUME NEW b \in Actor, pc'[b] = "set", NEW c \in Page, NEW j \in 1 .. Len(slots'[c])
               PROVE  slots'[c][j] # page[b]
    BY <1>7
  <2>1. j \in 1 .. Len(slots[c]) /\ slots'[c][j] = slots[c][j]
    BY <1>8
  <2>2. CASE b = a
    BY <1>2, <1>9, <2>1, <2>2, KObjectsAssumption
  <2>3. CASE b # a
    BY <1>6, <2>1, <2>3 DEF Filed
  <2> QED BY <2>2, <2>3
<1>16. \A b, d \in Actor : b # d /\ pc'[b] = "set" /\ pc'[d] = "set" => page'[b] # page'[d]
  BY <1>6, <1>7, <1>10 DEF Filed
<1>17. pc'[Main] # "root" /\ (pc'[Main] \in {"set", "label"} => page'[Main] # root')
  BY <1>1, <1>2, <1>3, <1>6, <1>7 DEF Filed
<1> QED BY <1>11, <1>12, <1>13, <1>14, <1>15, <1>16, <1>17 DEF Filed

\* The root and its label are in no slot.
LEMMA BootRootFiled ==
    ASSUME IInv, Filed, boot_root
    PROVE  Filed'
<1> DEFINE l == FirstFit(Page, KObjNPages)
           rest == Page \ Run(l, KObjNPages)
           r == FirstFit(rest, KObjNPages)
<1>1. Main \in Actor /\ pc[Main] = "root" /\ \A p \in Pool : pc[p] = "wait"
  BY DEF IInv, Local, Actor, boot_root, Goto
<1>2. l \in Page
  BY FirstFitFits, Zenon DEF boot_root
<1>3. rest \in SUBSET Page
  OBVIOUS
<1>4. r \in Page
  BY <1>3, FirstFitFits, Zenon DEF boot_root
<1>5. /\ kind' = [kind EXCEPT ![l] = "Label", ![r] = "Container"]
      /\ label' = [label EXCEPT ![r] = l] /\ root' = r
      /\ pc' = [pc EXCEPT ![Main] = "slot"] /\ slots' = slots
  BY DEF boot_root, Goto
<1> HIDE DEF l, r
<1>6. /\ \A o \in Page : kind[o] = "None"
      /\ \A o \in Page : kind'[o] # "None" => o = root' \/ o = label'[root']
  BY <1>1, <1>2, <1>4, <1>5 DEF IInv, TypeOK, Pools
<1>7. \A c \in Page : \A i \in 1 .. Len(slots[c]) : slots[c][i] = Invalid
  BY <1>6 DEF Filed
<1>8. \A b \in Actor : pc'[b] \in {"slot", "wait"}
  BY <1>1, <1>5 DEF IInv, TypeOK, Actor
<1>9. /\ \A b \in Actor : pc'[b] \notin Reserving /\ pc'[b] # "set"
      /\ pc'[Main] \notin {"set", "label", "root"}
  BY <1>1, <1>5, <1>8 DEF IInv, TypeOK, Reserving
<1>10. \A c \in Page : \A i \in 1 .. Len(slots'[c]) : slots'[c][i] = Invalid
  BY <1>5, <1>7
<1> QED BY <1>6, <1>9, <1>10 DEF Filed

\* Nothing is stored at first.
LEMMA InitFiled == Init => Filed
<1> SUFFICES ASSUME Init PROVE Filed
  OBVIOUS
<1> USE DEF Init
<1>1. Main \in Actor /\ \A c \in Page : Len(slots[c]) = 0
  BY DEF Actor
<1>2. \A c \in Page : 1 .. Len(slots[c]) = {}
  BY <1>1
<1>3. \A a \in Actor : pc[a] \in {"root", "wait"}
  OBVIOUS
<1> QED BY <1>1, <1>2, <1>3 DEF Filed, Reserving

\* Every step keeps the slots in order.
LEMMA NextFiled == Exclusive /\ IInv /\ Refs /\ Filed /\ [Next]_vars => Filed'
<1> SUFFICES ASSUME Exclusive, IInv, Refs, Filed, [Next]_vars PROVE Filed'
  OBVIOUS
<1>1. Main \in Actor /\ Pool \subseteq Actor
  BY DEF Actor
<1>2. ASSUME NEW a \in Actor, Creation(a) PROVE Filed'
  BY <1>2, CheckFiled, GetSlotFiled, FindFiled, TakeFiled, CreateFiled, SetSlotFiled, SetLabelFiled
     DEF Creation
<1>3. CASE Boot
  BY <1>3, BootRootFiled, BootThreadFiled, BootKnownFiled, BootSchedulerFiled, GrantFiled,
     MoveFindFiled, MoveTakeFiled, MoveInsertFiled DEF Boot
<1>4. ASSUME NEW p \in Pool, Scheduler(p) PROVE Filed'
  BY <1>1, <1>2, <1>4, SchedSpawnFiled, SchedPushFiled DEF Scheduler
<1>5. CASE UNCHANGED vars
  BY <1>1, <1>5, FiledFrame DEF vars, metaVars, bootVars, Ct
<1> QED BY <1>1, <1>2, <1>3, <1>4, <1>5 DEF Next

\* What is filed is sound: each object in one slot at most.
LEMMA FiledSound == TypeOK /\ Filed => SlotsSound
<1> SUFFICES ASSUME TypeOK, Filed PROVE SlotsSound
  OBVIOUS
<1>1. \A c \in Page : \A o \in Stored(c) : kind[c] = "Container" /\ kind[o] # "None"
  BY DEF Filed, Stored
<1>2. \A o, c, i : <<c, i>> \in Places(o) <=> c \in Page /\ i \in 1 .. Len(slots[c]) /\ slots[c][i] = o
  BY DEF Places
<1>3. \A o : \A x \in Places(o) : x = <<x[1], x[2]>>
  BY DEF Places
<1>4. \A o \in Page : kind[o] # "None" /\ o # root /\ o # label[root] =>
         \/ \E place \in Places(o) : Places(o) = {place}
         \/ Places(o) = {} /\ \E a \in Actor : pc[a] = "set" /\ page[a] = o
  <2> SUFFICES ASSUME NEW o \in Page, kind[o] # "None", o # root, o # label[root]
               PROVE  \/ \E place \in Places(o) : Places(o) = {place}
                      \/ Places(o) = {} /\ \E a \in Actor : pc[a] = "set" /\ page[a] = o
    OBVIOUS
  <2>1. CASE \E c \in Page : \E i \in 1 .. Len(slots[c]) : slots[c][i] = o
    <3>1. PICK c \in Page : \E i \in 1 .. Len(slots[c]) : slots[c][i] = o
      BY <2>1
    <3>2. PICK i \in 1 .. Len(slots[c]) : slots[c][i] = o
      BY <3>1
    <3>3. <<c, i>> \in Places(o)
      BY <1>2, <3>2
    <3>4. ASSUME NEW x \in Places(o) PROVE x = <<c, i>>
      <4>1. x = <<x[1], x[2]>>
        BY <1>3
      <4>2. x[1] \in Page /\ x[2] \in 1 .. Len(slots[x[1]]) /\ slots[x[1]][x[2]] = o
        BY <1>2, <4>1
      <4>3. x[1] = c /\ x[2] = i
        BY <3>2, <4>2, KObjectsAssumption DEF Filed
      <4> QED BY <4>1, <4>3
    <3> QED BY <3>3, <3>4
  <2>2. CASE ~ \E c \in Page : \E i \in 1 .. Len(slots[c]) : slots[c][i] = o
    <3>1. Places(o) = {}
      <4>1. ASSUME NEW x \in Places(o) PROVE FALSE
        BY <1>2, <1>3, <2>2
      <4> QED BY <4>1
    <3> QED BY <2>2, <3>1 DEF Filed
  <2> QED BY <2>1, <2>2
<1> QED BY <1>1, <1>4 DEF SlotsSound

-----------------------------------------------------------------------------
(* Pages of a container                                                    *)

\* A step that changes neither what is free or made of pages nor what is stored.
LEMMA OwnedFrame ==
    ASSUME NEW c, free'[c] = free[c], Stored(c)' = Stored(c),
           \A o \in Stored(c) : Extent(o)' = Extent(o),
           \A a \in Actor : pc'[a] \in {"create", "set"} <=> pc[a] \in {"create", "set"},
           \A a \in Actor : pc[a] \in {"create", "set"} =>
              Ct(a)' = Ct(a) /\ page'[a] = page[a] /\ part'[a] = part[a]
    PROVE  Owned(c)' = Owned(c)
<1>1. Making(c)' = Making(c)
  BY DEF Making
<1>2. \A a \in Making(c) : Run(page'[a], Size(part'[a])) = Run(page[a], Size(part[a]))
  BY DEF Making
<1>3. (UNION {Extent(o) : o \in Stored(c)})' = UNION {Extent(o) : o \in Stored(c)}
  <2>1. {Extent(o) : o \in Stored(c)}' = {Extent(o)' : o \in Stored(c)'}
    OBVIOUS
  <2>2. {Extent(o)' : o \in Stored(c)'} = {Extent(o) : o \in Stored(c)}
    OBVIOUS
  <2> QED BY <2>1, <2>2
<1>4. (UNION {Run(page[a], Size(part[a])) : a \in Making(c)})'
         = UNION {Run(page[a], Size(part[a])) : a \in Making(c)}
  <2>1. {Run(page'[a], Size(part'[a])) : a \in Making(c)'} = {Run(page[a], Size(part[a])) : a \in Making(c)}
    BY <1>1, <1>2
  <2> QED BY <2>1
<1> QED BY <1>3, <1>4 DEF Owned

\* The steps to which this applies, one by one.
LEMMA CheckOwned ==
    ASSUME IInv, NEW a \in Actor, check(a), NEW c \in Page
    PROVE  Owned(c)' = Owned(c)
<1> USE DEF check, Goto, metaVars, bootVars
<1>1. Main \in Actor /\ Pool \subseteq Actor /\ \A q \in Pool : q # Main
  BY DEF Actor, Main, Pool
<1>2. free' = free /\ kind' = kind /\ slots' = slots
  OBVIOUS
<1>3. Stored(c)' = Stored(c) /\ \A o \in Stored(c) : Extent(o)' = Extent(o)
  BY <1>2 DEF Stored, Extent
<1>4. \A b \in Actor : pc'[b] \in {"create", "set"} <=> pc[b] \in {"create", "set"}
  BY <1>1 DEF IInv, TypeOK, Local, Actor
<1>5. \A b \in Actor : pc[b] \in {"create", "set"} =>
         Ct(b)' = Ct(b) /\ page'[b] = page[b] /\ part'[b] = part[b]
  BY <1>1 DEF IInv, TypeOK, Local, Ct, Actor
<1> QED BY <1>2, <1>3, <1>4, <1>5, OwnedFrame

LEMMA FindOwned ==
    ASSUME IInv, NEW a \in Actor, find(a, Ct(a), Size(part[a]), "find", "take"), NEW c \in Page
    PROVE  Owned(c)' = Owned(c)
<1> USE DEF find, Goto, metaVars, bootVars
<1>1. Main \in Actor /\ Pool \subseteq Actor /\ \A q \in Pool : q # Main
  BY DEF Actor, Main, Pool
<1>2. free' = free /\ kind' = kind /\ slots' = slots
  OBVIOUS
<1>3. Stored(c)' = Stored(c) /\ \A o \in Stored(c) : Extent(o)' = Extent(o)
  BY <1>2 DEF Stored, Extent
<1>4. \A b \in Actor : pc'[b] \in {"create", "set"} <=> pc[b] \in {"create", "set"}
  BY <1>1 DEF IInv, TypeOK, Local, Actor
<1>5. \A b \in Actor : pc[b] \in {"create", "set"} =>
         Ct(b)' = Ct(b) /\ page'[b] = page[b] /\ part'[b] = part[b]
  BY <1>1 DEF IInv, TypeOK, Local, Ct, Actor
<1> QED BY <1>2, <1>3, <1>4, <1>5, OwnedFrame

LEMMA SetLabelOwned ==
    ASSUME IInv, NEW a \in Actor, set_label(a), NEW c \in Page
    PROVE  Owned(c)' = Owned(c)
<1> USE DEF set_label, Goto, metaVars, bootVars
<1>1. Main \in Actor /\ Pool \subseteq Actor /\ \A q \in Pool : q # Main
  BY DEF Actor, Main, Pool
<1>2. free' = free /\ kind' = kind /\ slots' = slots
  OBVIOUS
<1>3. Stored(c)' = Stored(c) /\ \A o \in Stored(c) : Extent(o)' = Extent(o)
  BY <1>2 DEF Stored, Extent
<1>4. \A b \in Actor : pc'[b] \in {"create", "set"} <=> pc[b] \in {"create", "set"}
  BY <1>1 DEF IInv, TypeOK, Local, Actor
<1>5. \A b \in Actor : pc[b] \in {"create", "set"} =>
         Ct(b)' = Ct(b) /\ page'[b] = page[b] /\ part'[b] = part[b]
  BY <1>1 DEF IInv, TypeOK, Local, Ct, Actor
<1> QED BY <1>2, <1>3, <1>4, <1>5, OwnedFrame

LEMMA BootThreadOwned ==
    ASSUME IInv, boot_thread, NEW c \in Page
    PROVE  Owned(c)' = Owned(c)
<1> USE DEF boot_thread, Goto, metaVars, bootVars
<1>1. Main \in Actor /\ Pool \subseteq Actor /\ \A q \in Pool : q # Main
  BY DEF Actor, Main, Pool
<1>2. free' = free /\ kind' = kind /\ slots' = slots
  OBVIOUS
<1>3. Stored(c)' = Stored(c) /\ \A o \in Stored(c) : Extent(o)' = Extent(o)
  BY <1>2 DEF Stored, Extent
<1>4. \A b \in Actor : pc'[b] \in {"create", "set"} <=> pc[b] \in {"create", "set"}
  BY <1>1 DEF IInv, TypeOK, Local, Actor
<1>5. \A b \in Actor : pc[b] \in {"create", "set"} =>
         Ct(b)' = Ct(b) /\ page'[b] = page[b] /\ part'[b] = part[b]
  BY <1>1 DEF IInv, TypeOK, Local, Ct, Actor
<1> QED BY <1>2, <1>3, <1>4, <1>5, OwnedFrame

LEMMA BootKnownOwned ==
    ASSUME IInv, boot_known, NEW c \in Page
    PROVE  Owned(c)' = Owned(c)
<1> USE DEF boot_known, Goto, metaVars, bootVars
<1>1. Main \in Actor /\ Pool \subseteq Actor /\ \A q \in Pool : q # Main
  BY DEF Actor, Main, Pool
<1>2. free' = free /\ kind' = kind /\ slots' = slots
  OBVIOUS
<1>3. Stored(c)' = Stored(c) /\ \A o \in Stored(c) : Extent(o)' = Extent(o)
  BY <1>2 DEF Stored, Extent
<1>4. \A b \in Actor : pc'[b] \in {"create", "set"} <=> pc[b] \in {"create", "set"}
  BY <1>1 DEF IInv, TypeOK, Local, Actor
<1>5. \A b \in Actor : pc[b] \in {"create", "set"} =>
         Ct(b)' = Ct(b) /\ page'[b] = page[b] /\ part'[b] = part[b]
  BY <1>1 DEF IInv, TypeOK, Local, Ct, Actor
<1> QED BY <1>2, <1>3, <1>4, <1>5, OwnedFrame

LEMMA BootSchedulerOwned ==
    ASSUME IInv, boot_scheduler, NEW c \in Page
    PROVE  Owned(c)' = Owned(c)
<1> USE DEF boot_scheduler, Goto, metaVars, bootVars
<1>1. Main \in Actor /\ Pool \subseteq Actor /\ \A q \in Pool : q # Main
  BY DEF Actor, Main, Pool
<1>2. free' = free /\ kind' = kind /\ slots' = slots
  OBVIOUS
<1>3. Stored(c)' = Stored(c) /\ \A o \in Stored(c) : Extent(o)' = Extent(o)
  BY <1>2 DEF Stored, Extent
<1>4. \A b \in Actor : pc'[b] \in {"create", "set"} <=> pc[b] \in {"create", "set"}
  BY <1>1 DEF IInv, TypeOK, Local, Actor
<1>5. \A b \in Actor : pc[b] \in {"create", "set"} =>
         Ct(b)' = Ct(b) /\ page'[b] = page[b] /\ part'[b] = part[b]
  BY <1>1 DEF IInv, TypeOK, Local, Ct, Actor
<1> QED BY <1>2, <1>3, <1>4, <1>5, OwnedFrame

LEMMA GrantOwned ==
    ASSUME IInv, grant, NEW c \in Page
    PROVE  Owned(c)' = Owned(c)
<1> USE DEF grant, Goto, metaVars, bootVars
<1>1. Main \in Actor /\ Pool \subseteq Actor /\ \A q \in Pool : q # Main
  BY DEF Actor, Main, Pool
<1>2. free' = free /\ kind' = kind /\ slots' = slots
  OBVIOUS
<1>3. Stored(c)' = Stored(c) /\ \A o \in Stored(c) : Extent(o)' = Extent(o)
  BY <1>2 DEF Stored, Extent
<1>4. \A b \in Actor : pc'[b] \in {"create", "set"} <=> pc[b] \in {"create", "set"}
  BY <1>1 DEF IInv, TypeOK, Local, Actor
<1>5. \A b \in Actor : pc[b] \in {"create", "set"} =>
         Ct(b)' = Ct(b) /\ page'[b] = page[b] /\ part'[b] = part[b]
  BY <1>1 DEF IInv, TypeOK, Local, Ct, Actor
<1> QED BY <1>2, <1>3, <1>4, <1>5, OwnedFrame

LEMMA MoveFindOwned ==
    ASSUME IInv, find(Main, root, NMove, "move_find", "move_take"), NEW c \in Page
    PROVE  Owned(c)' = Owned(c)
<1> USE DEF find, Goto, metaVars, bootVars
<1>1. Main \in Actor /\ Pool \subseteq Actor /\ \A q \in Pool : q # Main
  BY DEF Actor, Main, Pool
<1>2. free' = free /\ kind' = kind /\ slots' = slots
  OBVIOUS
<1>3. Stored(c)' = Stored(c) /\ \A o \in Stored(c) : Extent(o)' = Extent(o)
  BY <1>2 DEF Stored, Extent
<1>4. \A b \in Actor : pc'[b] \in {"create", "set"} <=> pc[b] \in {"create", "set"}
  BY <1>1 DEF IInv, TypeOK, Local, Actor
<1>5. \A b \in Actor : pc[b] \in {"create", "set"} =>
         Ct(b)' = Ct(b) /\ page'[b] = page[b] /\ part'[b] = part[b]
  BY <1>1 DEF IInv, TypeOK, Local, Ct, Actor
<1> QED BY <1>2, <1>3, <1>4, <1>5, OwnedFrame

LEMMA SchedSpawnOwned ==
    ASSUME IInv, NEW p \in Pool, sched_spawn(p), NEW c \in Page
    PROVE  Owned(c)' = Owned(c)
<1> USE DEF sched_spawn, Goto, metaVars, bootVars
<1>1. Main \in Actor /\ Pool \subseteq Actor /\ \A q \in Pool : q # Main
  BY DEF Actor, Main, Pool
<1>2. free' = free /\ kind' = kind /\ slots' = slots
  OBVIOUS
<1>3. Stored(c)' = Stored(c) /\ \A o \in Stored(c) : Extent(o)' = Extent(o)
  BY <1>2 DEF Stored, Extent
<1>4. \A b \in Actor : pc'[b] \in {"create", "set"} <=> pc[b] \in {"create", "set"}
  BY <1>1 DEF IInv, TypeOK, Local, Actor
<1>5. \A b \in Actor : pc[b] \in {"create", "set"} =>
         Ct(b)' = Ct(b) /\ page'[b] = page[b] /\ part'[b] = part[b]
  BY <1>1 DEF IInv, TypeOK, Local, Ct, Actor
<1> QED BY <1>2, <1>3, <1>4, <1>5, OwnedFrame

LEMMA SchedPushOwned ==
    ASSUME IInv, NEW p \in Pool, sched_push(p), NEW c \in Page
    PROVE  Owned(c)' = Owned(c)
<1> USE DEF sched_push, Goto, metaVars, bootVars
<1>1. Main \in Actor /\ Pool \subseteq Actor /\ \A q \in Pool : q # Main
  BY DEF Actor, Main, Pool
<1>2. free' = free /\ kind' = kind /\ slots' = slots
  OBVIOUS
<1>3. Stored(c)' = Stored(c) /\ \A o \in Stored(c) : Extent(o)' = Extent(o)
  BY <1>2 DEF Stored, Extent
<1>4. \A b \in Actor : pc'[b] \in {"create", "set"} <=> pc[b] \in {"create", "set"}
  BY <1>1 DEF IInv, TypeOK, Local, Actor
<1>5. \A b \in Actor : pc[b] \in {"create", "set"} =>
         Ct(b)' = Ct(b) /\ page'[b] = page[b] /\ part'[b] = part[b]
  BY <1>1 DEF IInv, TypeOK, Local, Ct, Actor
<1> QED BY <1>2, <1>3, <1>4, <1>5, OwnedFrame

\* A slot more holds nothing.
LEMMA GetSlotOwned ==
    ASSUME IInv, NEW a \in Actor, get_slot(a), NEW c \in Page
    PROVE  Owned(c)' = Owned(c)
<1> DEFINE s == slots[Ct(a)]
<1>1. Ct(a) \in Page /\ s \in Seq(Page \cup {Invalid}) /\ Len(s) \in Nat
  BY CtContainer DEF get_slot, Goto, Busy, IInv, TypeOK
<1>2. \/ slots' = [slots EXCEPT ![Ct(a)] = Append(s, Invalid)]
      \/ slots' = [slots EXCEPT ![Ct(a)] = s]
  BY DEF get_slot
<1>3. Stored(c)' = Stored(c)
  <2>1. CASE slots'[c] = slots[c]
    BY <2>1 DEF Stored
  <2>2. CASE slots'[c] = Append(s, Invalid) /\ c = Ct(a)
    <3>1. Len(slots'[c]) = Len(s) + 1 /\ slots'[c][Len(s) + 1] = Invalid
          /\ \A i \in 1 .. Len(s) : slots'[c][i] = s[i]
      BY <1>1, <2>2
    <3>2. 1 .. (Len(s) + 1) = (1 .. Len(s)) \cup {Len(s) + 1}
      BY <1>1
    <3> QED BY <2>2, <3>1, <3>2 DEF Stored
  <2> QED BY <1>1, <1>2, <2>1, <2>2 DEF IInv, TypeOK
<1>4. \A o \in Stored(c) : Extent(o)' = Extent(o)
  BY DEF get_slot, metaVars, Extent
<1>5. \A b \in Actor : pc'[b] \in {"create", "set"} <=> pc[b] \in {"create", "set"}
  BY DEF get_slot, Goto, IInv, TypeOK
<1>6. \A b \in Actor : Ct(b)' = Ct(b) /\ page'[b] = page[b] /\ part'[b] = part[b]
  BY DEF get_slot, bootVars, Ct
<1>7. free' = free
  BY DEF get_slot
<1> QED BY <1>3, <1>4, <1>5, <1>6, <1>7, OwnedFrame

\* The pages taken become those of an object that is not stored yet.
LEMMA CreateOwned ==
    ASSUME IInv, Filed, NEW a \in Actor, create(a), NEW c \in Page, kind[c] = "Container"
    PROVE  Owned(c)' = Owned(c)
<1> DEFINE o == page[a]
<1>1. o \in Page /\ kind[o] = "None" /\ c # o
  BY CreateFresh DEF create, Goto
<1>2. /\ kind' = [kind EXCEPT ![o] = part[a]]
      /\ free' = [free EXCEPT ![o] = {}]
      /\ slots' = IF part[a] = "Container" THEN [slots EXCEPT ![o] = <<>>] ELSE slots
      /\ pc[a] = "create" /\ pc' = [pc EXCEPT ![a] = "set"]
      /\ UNCHANGED <<known, root, pool, boot, todo, ready, op, part, slot, page, lb>>
  BY DEF create, NewMeta, Goto
<1> HIDE DEF o
<1>3. free'[c] = free[c] /\ slots'[c] = slots[c]
  BY <1>1, <1>2 DEF IInv, TypeOK
<1>4. Stored(c)' = Stored(c)
  BY <1>3 DEF Stored
<1>5. \A q \in Stored(c) : Extent(q)' = Extent(q)
  <2> SUFFICES ASSUME NEW q \in Stored(c) PROVE Extent(q)' = Extent(q)
    OBVIOUS
  <2>1. kind[q] # "None" /\ q \in Page
    <3>1. \A i \in 1 .. Len(slots[c]) : slots[c][i] \in Page \cup {Invalid}
      BY DEF IInv, TypeOK
    <3> QED BY <3>1 DEF Stored, Filed
  <2>2. kind'[q] = kind[q]
    BY <1>1, <1>2, <2>1 DEF IInv, TypeOK
  <2> QED BY <2>2 DEF Extent
<1>6. \A b \in Actor : pc'[b] \in {"create", "set"} <=> pc[b] \in {"create", "set"}
  BY <1>2 DEF IInv, TypeOK
<1>7. \A b \in Actor : Ct(b)' = Ct(b) /\ page'[b] = page[b] /\ part'[b] = part[b]
  BY <1>2 DEF Ct
<1> QED BY <1>3, <1>4, <1>5, <1>6, <1>7, OwnedFrame

\* The run taken is still in the making in the container it was taken from.
LEMMA TakeOwned ==
    ASSUME IInv, NEW a \in Actor, take(a, Ct(a), Size(part[a]), "take", "create"), NEW c \in Page
    PROVE  Owned(c)' = Owned(c)
<1> DEFINE R == Run(page[a], Size(part[a]))
<1>1. pc[a] = "take" /\ pc' = [pc EXCEPT ![a] = "create"]
  BY DEF take, Goto
<1>2. Ct(a) \in Page /\ R \subseteq free[Ct(a)]
  BY <1>1, CtContainer DEF Busy, IInv, Tree
<1>3. free' = [free EXCEPT ![Ct(a)] = free[Ct(a)] \ R]
  <2> HIDE DEF R
  <2> QED BY <1>2 DEF take, Left, R
<1>4. kind' = kind /\ slots' = slots /\ page' = page /\ part' = part /\ \A b \in Actor : Ct(b)' = Ct(b)
  BY DEF take, metaVars, bootVars, Ct
<1>5. Stored(c)' = Stored(c) /\ \A o \in Stored(c) : Extent(o)' = Extent(o)
  BY <1>4 DEF Stored, Extent
<1>6. \A b \in Actor : pc'[b] = IF b = a THEN "create" ELSE pc[b]
  BY <1>1 DEF IInv, TypeOK
<1>7. Making(c)' = IF c = Ct(a) THEN Making(c) \cup {a} ELSE Making(c)
  BY <1>1, <1>4, <1>6 DEF Making
<1>8. free'[c] = IF c = Ct(a) THEN free[c] \ R ELSE free[c]
  BY <1>3 DEF IInv, TypeOK
<1> DEFINE E == UNION {Extent(o) : o \in Stored(c)}
           M == UNION {Run(page[b], Size(part[b])) : b \in Making(c)}
<1>9. E' = E
  <2>1. {Extent(o)' : o \in Stored(c)'} = {Extent(o) : o \in Stored(c)}
    BY <1>5
  <2> QED BY <2>1
<1>10. M' = IF c = Ct(a) THEN M \cup R ELSE M
  <2>1. M' = UNION {Run(page[b], Size(part[b])) : b \in Making(c)'}
    BY <1>4
  <2> QED BY <1>7, <2>1
<1>11. Owned(c) = free[c] \cup E \cup M /\ Owned(c)' = free'[c] \cup E' \cup M'
  BY DEF Owned
<1> HIDE DEF E, M, R
<1> QED BY <1>2, <1>8, <1>9, <1>10, <1>11

\* What was in the making is stored.
LEMMA SetSlotOwned ==
    ASSUME IInv, Refs, Filed, NEW a \in Actor, set_slot(a), NEW c \in Page
    PROVE  Owned(c)' = Owned(c)
<1> DEFINE o == page[a]
           R == Run(o, Size(part[a]))
           s == slots[Ct(a)]
<1>1. /\ pc[a] = "set" /\ pc'[a] \notin {"create", "set"}
      /\ \A b \in Actor \ {a} : pc'[b] = pc[b] /\ part'[b] = part[b]
  BY DEF set_slot, Goto, IInv, TypeOK
<1>2. Ct(a) \in Page /\ o \in Page /\ s \in Seq(Page \cup {Invalid}) /\ Len(s) \in Nat
  BY <1>1, CtContainer DEF Busy, IInv, TypeOK, Local, Paged
<1>3. kind[o] = part[a] /\ Extent(o) = R
  BY <1>1 DEF Refs, Created, Extent, IInv, TypeOK
<1>4. slot[a] \in 1 .. Len(s) /\ s[slot[a]] = Invalid
  BY <1>1 DEF Filed, Reserving
<1>5. /\ slots' = [slots EXCEPT ![Ct(a)] = [s EXCEPT ![slot[a]] = o]]
      /\ kind' = kind /\ free' = free /\ page' = page /\ \A b \in Actor : Ct(b)' = Ct(b)
  BY DEF set_slot, metaVars, bootVars, Ct
<1> HIDE DEF o
<1>6. Stored(c)' = IF c = Ct(a) THEN Stored(c) \cup {o} ELSE Stored(c)
  <2>1. CASE c # Ct(a)
    <3>1. slots'[c] = slots[c]
      BY <1>5, <2>1 DEF IInv, TypeOK
    <3> QED BY <2>1, <3>1 DEF Stored
  <2>2. CASE c = Ct(a)
    <3>1. /\ Len(slots'[c]) = Len(s)
          /\ \A i \in 1 .. Len(s) : slots'[c][i] = IF i = slot[a] THEN o ELSE s[i]
      BY <1>2, <1>5, <2>2 DEF IInv, TypeOK
    <3>2. Stored(c)' = {slots'[c][i] : i \in 1 .. Len(s)} \ {Invalid}
      BY <3>1 DEF Stored
    <3>3. Stored(c) = {s[i] : i \in 1 .. Len(s)} \ {Invalid}
      BY <2>2 DEF Stored
    <3>4. o # Invalid
      BY <1>2, KObjectsAssumption
    <3> HIDE DEF s
    <3> QED BY <1>4, <2>2, <3>1, <3>2, <3>3, <3>4
  <2> QED BY <2>1, <2>2
<1>7. \A q : Extent(q)' = Extent(q)
  BY <1>5 DEF Extent
<1>8. /\ Making(c)' = Making(c) \ {a}
      /\ a \in Making(c) <=> c = Ct(a)
  BY <1>1, <1>5 DEF Making
<1> DEFINE E == UNION {Extent(q) : q \in Stored(c)}
           M == UNION {Run(page[b], Size(part[b])) : b \in Making(c)}
<1>9. E' = IF c = Ct(a) THEN E \cup R ELSE E
  <2>1. E' = UNION {Extent(q) : q \in Stored(c)'}
    <3>1. {Extent(q)' : q \in Stored(c)'} = {Extent(q) : q \in Stored(c)'}
      BY <1>7
    <3> QED BY <3>1
  <2> QED BY <1>3, <1>6, <2>1
<1>10. M = IF c = Ct(a) THEN M' \cup R ELSE M'
  <2>1. M' = UNION {Run(page[b], Size(part[b])) : b \in Making(c) \ {a}}
    <3>1. \A b \in Making(c)' : b \in Actor \ {a} /\ page'[b] = page[b] /\ part'[b] = part[b]
      BY <1>1, <1>5, <1>8 DEF Making
    <3>2. {Run(page'[b], Size(part'[b])) : b \in Making(c)'} = {Run(page[b], Size(part[b])) : b \in Making(c)'}
      BY <3>1
    <3> QED BY <1>8, <3>2
  <2>2. CASE c = Ct(a)
    <3>1. Making(c) = (Making(c) \ {a}) \cup {a}
      BY <1>8, <2>2
    <3>2. M = UNION {Run(page[b], Size(part[b])) : b \in (Making(c) \ {a}) \cup {a}}
      BY <3>1
    <3> QED BY <2>1, <2>2, <3>2 DEF o
  <2>3. CASE c # Ct(a)
    <3>1. Making(c) \ {a} = Making(c)
      BY <1>8, <2>3
    <3> QED BY <2>1, <2>3, <3>1
  <2> QED BY <2>2, <2>3
<1>11. Owned(c) = free[c] \cup E \cup M /\ Owned(c)' = free'[c] \cup E' \cup M'
  BY DEF Owned
<1> HIDE DEF E, M, R
<1> QED BY <1>5, <1>9, <1>10, <1>11

\* Only move_npages takes pages from one container to another.
LEMMA StepOwned ==
    ASSUME IInv, Refs, Filed, Next, pc[Main] \notin {"move_take", "move_insert"},
           NEW c \in Container
    PROVE  Owned(c)' = Owned(c)
<1>1. Main \in Actor /\ Pool \subseteq Actor
  BY DEF Actor
<1>2. c \in Page /\ kind[c] = "Container"
  BY DEF Container, IInv, TypeOK, Pools
<1>3. ASSUME NEW a \in Actor, Creation(a) PROVE Owned(c)' = Owned(c)
  BY <1>2, <1>3, CheckOwned, GetSlotOwned, FindOwned, TakeOwned, CreateOwned, SetSlotOwned,
     SetLabelOwned DEF Creation
<1>4. CASE Boot
  <2>1. ~boot_root /\ ~move_insert /\ ~take(Main, root, NMove, "move_take", "move_insert")
    BY <1>2 DEF boot_root, move_insert, take, Goto, IInv, Pools
  <2> QED BY <1>2, <1>4, <2>1, BootThreadOwned, BootKnownOwned, BootSchedulerOwned, GrantOwned,
             MoveFindOwned DEF Boot
<1>5. ASSUME NEW p \in Pool, Scheduler(p) PROVE Owned(c)' = Owned(c)
  BY <1>1, <1>2, <1>3, <1>5, SchedSpawnOwned, SchedPushOwned DEF Scheduler
<1> QED BY <1>1, <1>3, <1>4, <1>5 DEF Next

-----------------------------------------------------------------------------

\* References and slots, too, are in order throughout.
THEOREM ObjectsInvariance ==
    ASSUME Exclusive
    PROVE  Spec => [](Refs /\ RefsValid /\ Filed)
<1>1. Init => Refs /\ RefsValid /\ Filed
  BY InitRefs, InitFiled
<1>2. IInv /\ Refs /\ RefsValid /\ Filed /\ [Next]_vars => (Refs /\ RefsValid /\ Filed)'
  BY NextRefs, NextFiled
<1> QED BY <1>1, <1>2, Invariance, PTL DEF Spec

\* Every KObjectRef that the kernel keeps points to an object of its type, at
\* any point at which a scheduler may be preempted.
THEOREM ReferencesValid ==
    ASSUME Exclusive
    PROVE  Spec => []RefsValid
BY ObjectsInvariance, PTL

\* get_slot and set_slot lose no object and store none twice.
THEOREM SlotsRight ==
    ASSUME Exclusive
    PROVE  Spec => []SlotsSound
<1>1. IInv /\ Filed => SlotsSound
  BY FiledSound DEF IInv
<1> QED BY <1>1, Invariance, ObjectsInvariance, PTL

\* Whatever is created in a container is made of its own pages, and only
\* move_npages moves any to another.
THEOREM PagesStayInside ==
    ASSUME Exclusive
    PROVE  Spec => PagesStay
<1>1. IInv /\ Refs /\ Filed /\ [Next]_vars =>
         [pc[Main] \notin {"move_take", "move_insert"} =>
             \A c \in Container : Owned(c)' = Owned(c)]_vars
  BY StepOwned
<1> QED BY <1>1, Invariance, ObjectsInvariance, PTL DEF Spec, PagesStay
=============================================================================
