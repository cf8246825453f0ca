------------------------ MODULE LockFreeQueueRAProof ------------------------
(***************************************************************************)
(* Proofs about lockfreequeue_sptr under the C++ memory model, for one     *)
(* producer and one consumer, any capacity, any number of elements and any *)
(* number of threads that only call count() and is_empty().                *)
(***************************************************************************)
EXTENDS LockFreeQueueRA, TLAPS

-----------------------------------------------------------------------------
(* The ring: what (m - 1) % capacity_ says of element m.                   *)

LEMMA SlotOfInSlots ==
    ASSUME NEW m \in Int
    PROVE  SlotOf(m) \in Slots
  BY CapacityAssumption DEF SlotOf, Slots

\* The slot of element m, by the lap of the ring that m is in.
LEMMA LapOf ==
    ASSUME NEW m \in Int
    PROVE  \E q \in Int : m - 1 = Capacity * q + SlotOf(m)
<1>1. (m - 1) \div Capacity \in Int
  BY CapacityAssumption
<1>2. m - 1 = Capacity * ((m - 1) \div Capacity) + ((m - 1) % Capacity)
  BY CapacityAssumption
<1> QED
  BY <1>1, <1>2 DEF SlotOf

\* Two multiples of the capacity that differ, differ by a capacity.
LEMMA LapsApart ==
    ASSUME NEW p \in Int, NEW q \in Int, Capacity * p < Capacity * q
    PROVE  Capacity * p + Capacity <= Capacity * q
<1>1. p + 1 <= q
  BY CapacityAssumption, SMT
<1>2. Capacity * (p + 1) <= Capacity * q
  BY <1>1, CapacityAssumption, SMT
<1>3. Capacity * (p + 1) = Capacity * p + Capacity
  BY CapacityAssumption, SMT
<1> QED
  BY <1>2, <1>3, CapacityAssumption, SMT

\* Elements less than a capacity apart are in different slots.
LEMMA SlotsDiffer ==
    ASSUME NEW j \in Int, NEW k \in Int, j < k, k < j + Capacity
    PROVE  SlotOf(j) # SlotOf(k)
<1>1. PICK p \in Int : j - 1 = Capacity * p + SlotOf(j)
  BY LapOf
<1>2. PICK q \in Int : k - 1 = Capacity * q + SlotOf(k)
  BY LapOf
<1> SUFFICES ASSUME SlotOf(j) = SlotOf(k) PROVE FALSE
  OBVIOUS
<1>3. SlotOf(j) \in Int
  BY SlotOfInSlots DEF Slots
<1>4. Capacity * p \in Int /\ Capacity * q \in Int
  BY CapacityAssumption
<1>5. Capacity * p < Capacity * q
  BY <1>1, <1>2, <1>3, <1>4
<1>6. Capacity * p + Capacity <= Capacity * q
  BY <1>5, LapsApart
<1> QED
  BY <1>1, <1>2, <1>3, <1>4, <1>6, CapacityAssumption

\* (i + 1) % capacity_ is the slot of the next element.
LEMMA SuccIsNext ==
    ASSUME NEW m \in Int
    PROVE  Succ(SlotOf(m)) = SlotOf(m + 1)
<1>1. PICK q \in Int : m - 1 = Capacity * q + SlotOf(m)
  BY LapOf
<1>2. PICK r \in Int : m = Capacity * r + SlotOf(m + 1)
  BY LapOf
<1>3. SlotOf(m) \in 0 .. Capacity - 1 /\ SlotOf(m + 1) \in 0 .. Capacity - 1
  BY SlotOfInSlots DEF Slots
<1>4. Capacity * q \in Int /\ Capacity * r \in Int
  BY CapacityAssumption
<1>5. CASE SlotOf(m) + 1 < Capacity
  <2>1. Succ(SlotOf(m)) = SlotOf(m) + 1
    BY <1>3, <1>5, CapacityAssumption DEF Succ
  <2>2. ~ Capacity * q < Capacity * r
    BY <1>1, <1>2, <1>3, <1>4, <1>5, LapsApart, CapacityAssumption
  <2>3. ~ Capacity * r < Capacity * q
    BY <1>1, <1>2, <1>3, <1>4, <1>5, LapsApart, CapacityAssumption
  <2> QED
    BY <1>1, <1>2, <1>3, <1>4, <2>1, <2>2, <2>3
<1>6. CASE SlotOf(m) + 1 = Capacity
  <2>1. Succ(SlotOf(m)) = 0
    BY <1>3, <1>6, CapacityAssumption DEF Succ
  <2>2. Capacity * q < Capacity * r
    BY <1>1, <1>2, <1>3, <1>4, <1>6, CapacityAssumption
  <2>3. Capacity * q + Capacity <= Capacity * r
    BY <2>2, LapsApart
  <2> QED
    BY <1>1, <1>2, <1>3, <1>4, <1>6, <2>1, <2>3, CapacityAssumption
<1> QED
  BY <1>3, <1>5, <1>6, CapacityAssumption

\* An element and the one a capacity later share a slot.
LEMMA SlotOfNextLap ==
    ASSUME NEW m \in Int
    PROVE  SlotOf(m + Capacity) = SlotOf(m)
<1>1. PICK q \in Int : m - 1 = Capacity * q + SlotOf(m)
  BY LapOf
<1>2. PICK r \in Int : (m + Capacity) - 1 = Capacity * r + SlotOf(m + Capacity)
  <2>1. m + Capacity \in Int
    BY CapacityAssumption
  <2> QED
    BY <2>1, LapOf
<1>3. /\ SlotOf(m) \in 0 .. Capacity - 1
      /\ SlotOf(m + Capacity) \in 0 .. Capacity - 1
  BY SlotOfInSlots, CapacityAssumption DEF Slots
<1>4. /\ Capacity * q \in Int /\ Capacity * r \in Int
      /\ Capacity * (q + 1) = Capacity * q + Capacity
  BY CapacityAssumption
<1>5. ~ Capacity * (q + 1) < Capacity * r
  BY <1>1, <1>2, <1>3, <1>4, LapsApart, CapacityAssumption
<1>6. ~ Capacity * r < Capacity * (q + 1)
  BY <1>1, <1>2, <1>3, <1>4, LapsApart, CapacityAssumption
<1> QED
  BY <1>1, <1>2, <1>3, <1>4, <1>5, <1>6, CapacityAssumption

\* What count() computes from the indices of two stores no more than a lap
\* apart.
LEMMA CountIsDifference ==
    ASSUME NEW j \in Int, NEW k \in Int, j <= k, k < j + Capacity
    PROVE  CountOf(SlotOf(j), SlotOf(k)) = k - j
<1>1. PICK p \in Int : j - 1 = Capacity * p + SlotOf(j)
  BY LapOf
<1>2. PICK q \in Int : k - 1 = Capacity * q + SlotOf(k)
  BY LapOf
<1>3. SlotOf(j) \in 0 .. Capacity - 1 /\ SlotOf(k) \in 0 .. Capacity - 1
  BY SlotOfInSlots DEF Slots
<1>4. Capacity * p \in Int /\ Capacity * q \in Int
  BY CapacityAssumption
<1>5. ~ Capacity * q < Capacity * p
  BY <1>1, <1>2, <1>3, <1>4, LapsApart, CapacityAssumption
<1>6. CASE Capacity * p = Capacity * q
  BY <1>1, <1>2, <1>3, <1>4, <1>6, CapacityAssumption DEF CountOf
<1>7. CASE Capacity * p < Capacity * q
  <2>1. Capacity * p + Capacity <= Capacity * q
    BY <1>7, LapsApart
  <2>2. ~ Capacity * (p + 1) < Capacity * q
    <3>1. Capacity * (p + 1) = Capacity * p + Capacity
      BY CapacityAssumption
    <3> QED
      BY <1>1, <1>2, <1>3, <1>4, <3>1, LapsApart, CapacityAssumption
  <2>3. Capacity * (p + 1) = Capacity * p + Capacity
    BY CapacityAssumption
  <2> QED
    BY <1>1, <1>2, <1>3, <1>4, <2>1, <2>2, <2>3, CapacityAssumption DEF CountOf
<1> QED
  BY <1>4, <1>5, <1>6, <1>7

\* What count() computes is less than the capacity.
LEMMA CountInSlots ==
    ASSUME NEW h \in Slots, NEW t \in Slots
    PROVE  CountOf(h, t) \in Slots
  BY CapacityAssumption DEF CountOf, Slots

-----------------------------------------------------------------------------
(* The memory orders: what a load, a store and a write do to a view.       *)

\* View w knows all that view v does.
Grew(v, w) ==
    /\ v.head <= w.head
    /\ v.tail <= w.tail
    /\ \A i \in Slots : v.slot[i] <= w.slot[i]

LEMMA JoinGrows ==
    ASSUME NEW v \in Views, NEW w \in Views
    PROVE  Join(v, w) \in Views /\ Grew(v, Join(v, w)) /\ Grew(w, Join(v, w))
  BY DEF Views, Join, Larger, Grew

\* A join knows of nothing that neither of its parts knows of.
LEMMA JoinPast ==
    ASSUME NEW v \in Views, NEW w \in Views, Past(v), Past(w)
    PROVE  Past(Join(v, w))
  BY DEF Views, Join, Larger, Past

\* A view that covers the accesses to a slot still does when it has grown.
LEMMA GrewCovers ==
    ASSUME NEW v \in Views, NEW w \in Views, Grew(v, w), Past(w),
           writes \in [Slots -> Nat], NEW m \in Int, Covers(v, m)
    PROVE  Covers(w, m)
<1>1. SlotOf(m) \in Slots
  BY SlotOfInSlots
<1> QED
  BY <1>1 DEF Views, Grew, Past, Covers

\* The thread's view after a relaxed load has the position that was read.
LEMMA RelaxedLoadHead ==
    ASSUME TypeOK, NEW t \in Threads, NEW k \in 1 .. Len(mem["head"]),
           RelaxedLoad(t, "head", k), Past(view[t])
    PROVE  /\ view' = [view EXCEPT ![t] = view'[t]]
           /\ view'[t] \in Views /\ Grew(view[t], view'[t]) /\ Past(view'[t])
           /\ view'[t].head = k /\ view[t].head <= k
<1>1. view[t] \in Views /\ view \in [Threads -> Views]
  BY DEF TypeOK
<1>2. view' = [view EXCEPT ![t] = [view[t] EXCEPT !["head"] = k]]
  BY DEF RelaxedLoad
<1>3. view'[t] = [view[t] EXCEPT !["head"] = k]
  BY <1>1, <1>2
<1>4. view[t].head <= k
  BY <1>1 DEF RelaxedLoad, Readable, Views
<1> QED
  BY <1>1, <1>2, <1>3, <1>4 DEF Views, Grew, Past

LEMMA RelaxedLoadTail ==
    ASSUME TypeOK, NEW t \in Threads, NEW k \in 1 .. Len(mem["tail"]),
           RelaxedLoad(t, "tail", k), Past(view[t])
    PROVE  /\ view' = [view EXCEPT ![t] = view'[t]]
           /\ view'[t] \in Views /\ Grew(view[t], view'[t]) /\ Past(view'[t])
           /\ view'[t].tail = k /\ view[t].tail <= k
<1>1. view[t] \in Views /\ view \in [Threads -> Views]
  BY DEF TypeOK
<1>2. view' = [view EXCEPT ![t] = [view[t] EXCEPT !["tail"] = k]]
  BY DEF RelaxedLoad
<1>3. view'[t] = [view[t] EXCEPT !["tail"] = k]
  BY <1>1, <1>2
<1>4. view[t].tail <= k
  BY <1>1 DEF RelaxedLoad, Readable, Views
<1> QED
  BY <1>1, <1>2, <1>3, <1>4 DEF Views, Grew, Past

\* What a load reads is an index and a view.
LEMMA StoreType ==
    ASSUME TypeOK, NEW x \in Atomics, NEW k \in 1 .. Len(mem[x])
    PROVE  mem[x][k].index \in Slots /\ mem[x][k].view \in Views
<1>1. mem[x] \in Seq(Stores)
  BY DEF TypeOK
<1>2. mem[x][k] \in Stores
  BY <1>1
<1> QED
  BY <1>2 DEF Stores

\* An acquire load joins to the thread's view that of the store it reads.
LEMMA AcquireLoadJoins ==
    ASSUME TypeOK, NEW t \in Threads, NEW x \in Atomics,
           NEW k \in 1 .. Len(mem[x]),
           AcquireLoad(t, x, k), Past(view[t]), Past(mem[x][k].view)
    PROVE  /\ view' = [view EXCEPT ![t] = view'[t]]
           /\ view'[t] \in Views /\ Grew(view[t], view'[t]) /\ Past(view'[t])
           /\ Grew(mem[x][k].view, view'[t])
           /\ view[t][x] <= k
<1>1. view[t] \in Views /\ mem[x][k].view \in Views
  BY StoreType DEF TypeOK
<1>2. view'[t] = Join(view[t], mem[x][k].view)
  BY DEF TypeOK, AcquireLoad
<1>3. view' = [view EXCEPT ![t] = view'[t]]
  BY <1>2 DEF TypeOK, AcquireLoad
<1>4. view[t][x] <= k
  <2>1. CASE x = "head"
    BY <1>1, <2>1 DEF AcquireLoad, Readable, Views
  <2>2. CASE x = "tail"
    BY <1>1, <2>2 DEF AcquireLoad, Readable, Views
  <2> QED
    BY <2>1, <2>2 DEF Atomics
<1> QED
  BY <1>1, <1>2, <1>3, <1>4, JoinGrows, JoinPast

-----------------------------------------------------------------------------
(* Types.                                                                  *)

LEMMA InitType == Init => TypeOK
<1> SUFFICES ASSUME Init PROVE TypeOK
  OBVIOUS
<1>1. 0 \in Slots
  BY CapacityAssumption DEF Slots
<1>2. NoView \in Views
  BY DEF NoView, Views
<1>3. [index |-> 0, view |-> NoView] \in Stores
  BY <1>1, <1>2 DEF Stores
<1>4. mem \in [Atomics -> Seq(Stores)]
  BY <1>3 DEF Init
<1> QED
  BY <1>1, <1>2, <1>4, MaxItemsAssumption DEF Init, TypeOK, Labels

\* Every view is of the past, also those that the stores carry.
LEMMA StoresOfThePast ==
    ASSUME IInv, NEW x \in Atomics, NEW k \in 1 .. Len(mem[x])
    PROVE  /\ mem[x][k].index = SlotOf(k)
           /\ Past(mem[x][k].view)
<1>1. DOMAIN mem[x] = 1 .. Len(mem[x])
  BY DEF IInv, TypeOK
<1> QED
  BY <1>1 DEF IInv, StoresCarry

\* Thread t reads an atomic, or nothing: the memory stays, its view grows.
Look(t) ==
    /\ UNCHANGED memory
    /\ view' = [view EXCEPT ![t] = view'[t]]
    /\ view'[t] \in Views
    /\ Grew(view[t], view'[t])
    /\ Past(view'[t])

LEMMA RelaxedLoadLooks ==
    ASSUME IInv, NEW t \in Threads, NEW x \in Atomics, NEW k \in 1 .. Len(mem[x]),
           RelaxedLoad(t, x, k), UNCHANGED memory
    PROVE  Look(t) /\ view'[t][x] = k /\ view[t][x] <= k
<1>1. TypeOK /\ Past(view[t])
  BY DEF IInv
<1>2. CASE x = "head"
  BY <1>1, <1>2, RelaxedLoadHead DEF Look, Views
<1>3. CASE x = "tail"
  BY <1>1, <1>3, RelaxedLoadTail DEF Look, Views
<1> QED
  BY <1>2, <1>3 DEF Atomics

LEMMA AcquireLoadLooks ==
    ASSUME IInv, NEW t \in Threads, NEW x \in Atomics, NEW k \in 1 .. Len(mem[x]),
           AcquireLoad(t, x, k), UNCHANGED memory
    PROVE  Look(t) /\ Grew(mem[x][k].view, view'[t]) /\ view[t][x] <= k
  BY AcquireLoadJoins, StoresOfThePast DEF IInv, Look

LEMMA IdleLooks ==
    ASSUME IInv, NEW t \in Threads, UNCHANGED <<memory, view>>
    PROVE  Look(t)
  BY DEF IInv, TypeOK, Look, Grew, Views

LEMMA LookType ==
    ASSUME TypeOK, NEW t \in Threads, Look(t),
           pc' \in [Threads -> Labels], idx' \in [Threads -> Slots],
           seen' \in [Threads -> Nat], val' \in 0 .. MaxItems,
           ans' \in [Threads -> Slots \cup {1}]
    PROVE  TypeOK'
<1>1. view' \in [Threads -> Views]
  BY DEF Look, TypeOK
<1> QED
  BY <1>1 DEF TypeOK, Look, memory

-----------------------------------------------------------------------------
(* Steps that only look: no slot and no index changes.                     *)

\* The part of the invariant that speaks of the memory and of what each side
\* knows of it, wherever the threads are.
Shared ==
    /\ Dequeued \in 0 .. Enqueued /\ Enqueued < Dequeued + Capacity
    /\ \A t \in Threads : Past(view[t])
    /\ SlotsHoldPresent
    /\ StoresCarry

ProducerKnows ==
    LET v == view[Producer]
    IN  /\ v.tail = Len(mem["tail"])
        /\ \A m \in Present : Covers(v, m)
        /\ Enqueued + 2 <= v.head + Capacity

ConsumerKnows ==
    LET v == view[Consumer]
    IN  /\ v.head = Len(mem["head"])
        /\ \A m \in Vacant : Covers(v, m)
        /\ v.tail > Dequeued

\* No slot is filled or emptied and not yet published or released.
SameEnds ==
    /\ pc'[Producer] = "enq_store_tail" <=> pc[Producer] = "enq_store_tail"
    /\ pc'[Consumer] = "deq_store_head" <=> pc[Consumer] = "deq_store_head"

LEMMA Counts ==
    ASSUME TypeOK
    PROVE  /\ Enqueued \in Int /\ Dequeued \in Int
           /\ Len(mem["tail"]) = Enqueued + 1 /\ Len(mem["head"]) = Dequeued + 1
           /\ Len(mem["tail"]) \in Nat /\ Len(mem["head"]) \in Nat
<1>1. mem["tail"] \in Seq(Stores) /\ mem["head"] \in Seq(Stores)
  BY DEF TypeOK, Atomics
<1> QED
  BY <1>1 DEF Enqueued, Dequeued

LEMMA Elements ==
    ASSUME TypeOK
    PROVE  Present \subseteq Int /\ Vacant \subseteq Int
  BY Counts, CapacityAssumption DEF Present, Vacant

LEMMA LookKeepsRing ==
    ASSUME IInv, NEW t \in Threads, Look(t), SameEnds
    PROVE  /\ Enqueued' = Enqueued /\ Dequeued' = Dequeued
           /\ Present' = Present /\ Vacant' = Vacant
           /\ \A v, m : Covers(v, m)' <=> Covers(v, m)
           /\ \A v : Past(v)' <=> Past(v)
<1>1. Enqueued' = Enqueued /\ Dequeued' = Dequeued
  BY DEF Look, memory, Enqueued, Dequeued
<1> QED
  BY <1>1 DEF Look, memory, SameEnds, Present, Vacant, Covers, Past

LEMMA LookKeepsShared ==
    ASSUME IInv, NEW t \in Threads, Look(t), SameEnds
    PROVE  Shared'
<1>1. \A u \in Threads : Past(view[u])'
  BY LookKeepsRing DEF IInv, TypeOK, Look
<1>2. SlotsHoldPresent'
  BY LookKeepsRing DEF IInv, SlotsHoldPresent, Look, memory
<1>3. StoresCarry'
  BY LookKeepsRing DEF IInv, StoresCarry, Look, memory
<1> QED
  BY <1>1, <1>2, <1>3, LookKeepsRing DEF IInv, Shared

LEMMA LookGrows ==
    ASSUME IInv, NEW t \in Threads, Look(t)
    PROVE  \A u \in Threads : /\ view[u] \in Views /\ view'[u] \in Views
                              /\ Grew(view[u], view'[u])
                              /\ Past(view[u]) /\ Past(view'[u])
<1>1. \A u \in Threads : view[u] \in Views /\ Past(view[u])
  BY DEF IInv, TypeOK
<1>2. \A u \in Threads \ {t} : view'[u] = view[u]
  BY DEF IInv, TypeOK, Look
<1>3. \A v \in Views : Grew(v, v)
  BY DEF Grew, Views
<1> QED
  BY <1>1, <1>2, <1>3 DEF Look

LEMMA LookKeepsKnown ==
    ASSUME IInv, NEW t \in Threads, Look(t), SameEnds
    PROVE  ProducerKnows' /\ ConsumerKnows'
<1>1. /\ TypeOK /\ writes \in [Slots -> Nat]
      /\ Producer \in Threads /\ Consumer \in Threads
  BY DEF IInv, TypeOK, Threads
<1>2. mem' = mem
  BY DEF Look, memory
<1>3. ProducerKnows'
  <2> DEFINE v == view[Producer]
             w == view'[Producer]
  <2>1. v \in Views /\ w \in Views /\ Grew(v, w) /\ Past(w)
    BY <1>1, LookGrows
  <2>2. /\ v.tail = Len(mem["tail"])
        /\ \A m \in Present : Covers(v, m)
        /\ Enqueued + 2 <= v.head + Capacity
    BY DEF IInv, ProducerInv
  <2> HIDE DEF v, w
  <2>3. w.tail = Len(mem["tail"])
    BY <1>1, <2>1, <2>2, Counts DEF Grew, Past, Views
  <2>4. \A m \in Present : Covers(w, m)
    BY <1>1, <2>1, <2>2, GrewCovers, Elements
  <2>5. Enqueued + 2 <= w.head + Capacity
    BY <1>1, <2>1, <2>2, Counts, CapacityAssumption DEF Grew, Views
  <2> QED
    BY <1>2, <2>3, <2>4, <2>5, LookKeepsRing DEF ProducerKnows, w
<1>4. ConsumerKnows'
  <2> DEFINE v == view[Consumer]
             w == view'[Consumer]
  <2>1. v \in Views /\ w \in Views /\ Grew(v, w) /\ Past(w)
    BY <1>1, LookGrows
  <2>2. /\ v.head = Len(mem["head"])
        /\ \A m \in Vacant : Covers(v, m)
        /\ v.tail > Dequeued
    BY DEF IInv, ConsumerInv
  <2> HIDE DEF v, w
  <2>3. w.head = Len(mem["head"])
    BY <1>1, <2>1, <2>2, Counts DEF Grew, Past, Views
  <2>4. \A m \in Vacant : Covers(w, m)
    BY <1>1, <2>1, <2>2, GrewCovers, Elements
  <2>5. w.tail > Dequeued
    BY <1>1, <2>1, <2>2, Counts DEF Grew, Views
  <2> QED
    BY <1>2, <2>3, <2>4, <2>5, LookKeepsRing DEF ConsumerKnows, w
<1> QED
  BY <1>3, <1>4

\* The locals of every thread but t stay.
OthersStay(t) ==
    \A u \in Threads \ {t} :
        /\ pc'[u] = pc[u] /\ idx'[u] = idx[u] /\ seen'[u] = seen[u]
        /\ ans'[u] = ans[u]

LEMMA LookKeepsOthers ==
    ASSUME IInv, NEW t \in Threads, Look(t), SameEnds, OthersStay(t)
    PROVE  \A u \in Threads \ {t} : ReadInv(u)'
<1> SUFFICES ASSUME NEW u \in Threads \ {t} PROVE ReadInv(u)'
  OBVIOUS
<1>1. /\ view'[u] = view[u] /\ pc'[u] = pc[u] /\ idx'[u] = idx[u]
      /\ seen'[u] = seen[u] /\ mem' = mem
  BY DEF IInv, TypeOK, Look, memory, OthersStay
<1>2. ReadInv(u)
  BY DEF IInv
<1> QED
  BY <1>1, <1>2, LookKeepsRing DEF ReadInv

\* A step that only looks and is not one of enqueue keeps what the invariant
\* says of the producer.
LEMMA LookKeepsProducer ==
    ASSUME IInv, NEW t \in Threads, Look(t), SameEnds,
           \/ pc'[Producer] = pc[Producer] /\ idx'[Producer] = idx[Producer]
           \/ pc'[Producer] \notin {"enq_load_head", "enq_write", "enq_store_tail"}
    PROVE  ProducerInv'
<1>1. /\ TypeOK /\ writes \in [Slots -> Nat] /\ Producer \in Threads
      /\ ProducerInv
  BY DEF IInv, TypeOK, Threads
<1>2. ProducerKnows'
  BY LookKeepsKnown
<1> DEFINE v == view[Producer]
           w == view'[Producer]
<1>3. v \in Views /\ w \in Views /\ Grew(v, w) /\ Past(w)
  BY <1>1, LookGrows
<1>4. ASSUME pc'[Producer] = pc[Producer], idx'[Producer] = idx[Producer]
      PROVE  ProducerInv'
  <2> HIDE DEF v, w
  <2>1. pc[Producer] \in {"enq_load_head", "enq_write", "enq_store_tail"} =>
            idx[Producer] = SlotOf(Enqueued + 1) /\ Enqueued < MaxItems
    BY <1>1 DEF ProducerInv
  <2>2. pc[Producer] \in {"enq_write", "enq_store_tail"} =>
            Enqueued + 3 <= w.head + Capacity
    <3>1. pc[Producer] \in {"enq_write", "enq_store_tail"} =>
              Enqueued + 3 <= v.head + Capacity
      BY <1>1 DEF ProducerInv, v
    <3> QED
      BY <1>1, <1>3, <3>1, Counts, CapacityAssumption DEF Grew, Views
  <2>3. pc[Producer] = "enq_write" => Covers(w, Enqueued + 1)
    <3>1. pc[Producer] = "enq_write" => Covers(v, Enqueued + 1)
      BY <1>1 DEF ProducerInv, v
    <3>2. Enqueued + 1 \in Int
      BY <1>1, Counts
    <3> QED
      BY <1>1, <1>3, <3>1, <3>2, GrewCovers
  <2> QED
    BY <1>2, <1>4, <2>1, <2>2, <2>3, LookKeepsRing DEF ProducerInv, ProducerKnows, w
<1> QED
  BY <1>2, <1>4 DEF ProducerInv, ProducerKnows

\* The same for the consumer and dequeue.
LEMMA LookKeepsConsumer ==
    ASSUME IInv, NEW t \in Threads, Look(t), SameEnds,
           \/ /\ pc'[Consumer] = pc[Consumer] /\ idx'[Consumer] = idx[Consumer]
              /\ val' = val
           \/ pc'[Consumer] \notin {"deq_load_tail", "deq_check", "deq_copy",
                                    "deq_reset", "deq_store_head"}
    PROVE  ConsumerInv'
<1>1. /\ TypeOK /\ writes \in [Slots -> Nat] /\ Consumer \in Threads
      /\ ConsumerInv
  BY DEF IInv, TypeOK, Threads
<1>2. ConsumerKnows'
  BY LookKeepsKnown
<1> DEFINE v == view[Consumer]
           w == view'[Consumer]
<1>3. v \in Views /\ w \in Views /\ Grew(v, w) /\ Past(w)
  BY <1>1, LookGrows
<1>4. ASSUME pc'[Consumer] = pc[Consumer], idx'[Consumer] = idx[Consumer],
             val' = val
      PROVE  ConsumerInv'
  <2> HIDE DEF v, w
  <2>1. /\ pc[Consumer] \in {"deq_load_tail", "deq_check", "deq_copy", "deq_reset",
                             "deq_store_head"} => idx[Consumer] = SlotOf(Dequeued + 1)
        /\ pc[Consumer] \in {"deq_reset", "deq_store_head"} => val = Dequeued + 1
    BY <1>1 DEF ConsumerInv
  <2>2. pc[Consumer] \in {"deq_check", "deq_copy", "deq_reset", "deq_store_head"} =>
            w.tail > Dequeued + 1
    <3>1. pc[Consumer] \in {"deq_check", "deq_copy", "deq_reset", "deq_store_head"} =>
              v.tail > Dequeued + 1
      BY <1>1 DEF ConsumerInv, v
    <3> QED
      BY <1>1, <1>3, <3>1, Counts DEF Grew, Views
  <2>3. pc[Consumer] \in {"deq_check", "deq_copy", "deq_reset"} =>
            Covers(w, Dequeued + 1)
    <3>1. pc[Consumer] \in {"deq_check", "deq_copy", "deq_reset"} =>
              Covers(v, Dequeued + 1)
      BY <1>1 DEF ConsumerInv, v
    <3>2. Dequeued + 1 \in Int
      BY <1>1, Counts
    <3> QED
      BY <1>1, <1>3, <3>1, <3>2, GrewCovers
  <2> QED
    BY <1>2, <1>4, <2>1, <2>2, <2>3, LookKeepsRing DEF ConsumerInv, ConsumerKnows, w
<1> QED
  BY <1>2, <1>4 DEF ConsumerInv, ConsumerKnows

LEMMA LookKeepsAnswers ==
    ASSUME IInv, NEW t \in Threads, Look(t), SameEnds,
           \A u \in {Producer, Consumer} :
               \/ pc'[u] = pc[u] /\ ans'[u] = ans[u]
               \/ pc'[u] \notin {"cnt_done", "emp_done"}
    PROVE  OwnerQueries'
  BY LookKeepsRing DEF IInv, OwnerQueries

LEMMA LookInv ==
    ASSUME IInv, NEW t \in Threads, Look(t), SameEnds, OthersStay(t),
           TypeOK', ProducerInv', ConsumerInv', ReadInv(t)', OwnerQueries'
    PROVE  IInv'
  BY LookKeepsShared, LookKeepsOthers DEF IInv, Shared

LEMMA LookSameEnds ==
    ASSUME IInv, NEW t \in Threads, pc' \in [Threads -> Labels],
           \A u \in Threads \ {t} : pc'[u] = pc[u],
           pc[t] \notin {"enq_store_tail", "deq_store_head"},
           pc'[t] \notin {"enq_store_tail", "deq_store_head"}
    PROVE  SameEnds
  BY DEF SameEnds, Threads

\* A step of enqueue that only looks: what is left to show of it.
LEMMA ProducerLooks ==
    ASSUME IInv, TypeOK', Look(Producer), OthersStay(Producer),
           pc[Producer] \notin {"enq_store_tail", "deq_store_head"},
           pc'[Producer] \in {"idle", "enq_load_head", "enq_write"},
           val' = val, ProducerInv'
    PROVE  IInv'
<1>1. Producer \in Threads /\ Consumer \in Threads \ {Producer}
  BY ThreadAssumption DEF Threads
<1>2. /\ pc'[Consumer] = pc[Consumer] /\ idx'[Consumer] = idx[Consumer]
      /\ ans'[Consumer] = ans[Consumer]
  BY <1>1 DEF OthersStay
<1>3. SameEnds
  BY <1>1, LookSameEnds DEF TypeOK, OthersStay
<1>4. ConsumerInv'
  BY <1>1, <1>2, <1>3, LookKeepsConsumer
<1>5. OwnerQueries'
  BY <1>1, <1>2, <1>3, LookKeepsAnswers
<1>6. ReadInv(Producer)'
  BY DEF ReadInv
<1> QED
  BY <1>1, <1>3, <1>4, <1>5, <1>6, LookInv

\* A step of dequeue that only looks.
LEMMA ConsumerLooks ==
    ASSUME IInv, TypeOK', Look(Consumer), OthersStay(Consumer),
           pc[Consumer] \notin {"enq_store_tail", "deq_store_head"},
           pc'[Consumer] \in {"idle", "deq_load_tail", "deq_check", "deq_copy",
                              "deq_reset"},
           ConsumerInv'
    PROVE  IInv'
<1>1. Consumer \in Threads /\ Producer \in Threads \ {Consumer}
  BY ThreadAssumption DEF Threads
<1>2. /\ pc'[Producer] = pc[Producer] /\ idx'[Producer] = idx[Producer]
      /\ ans'[Producer] = ans[Producer]
  BY <1>1 DEF OthersStay
<1>3. SameEnds
  BY <1>1, LookSameEnds DEF TypeOK, OthersStay
<1>4. ProducerInv'
  BY <1>1, <1>2, <1>3, LookKeepsProducer
<1>5. OwnerQueries'
  BY <1>1, <1>2, <1>3, LookKeepsAnswers
<1>6. ReadInv(Consumer)'
  BY DEF ReadInv
<1> QED
  BY <1>1, <1>3, <1>4, <1>5, <1>6, LookInv

-----------------------------------------------------------------------------
(* enqueue and push.                                                       *)

LEMMA EnqLoadTailInv ==
    ASSUME IInv, EnqLoadTail
    PROVE  IInv'
<1>1. TypeOK /\ Producer \in Threads /\ "tail" \in Atomics
  BY DEF IInv, Threads, Atomics
<1>2. PICK k \in 1 .. Len(mem["tail"]) :
          RelaxedLoad(Producer, "tail", k) /\ Keep(Producer, "tail", k)
  BY DEF EnqLoadTail
<1>3. Look(Producer) /\ view[Producer]["tail"] <= k
  BY <1>1, <1>2, RelaxedLoadLooks DEF EnqLoadTail
<1>4. /\ pc[Producer] = "idle" /\ pc' = [pc EXCEPT ![Producer] = "enq_load_head"]
      /\ Enqueued < MaxItems /\ val' = val /\ ans' = ans
  BY DEF EnqLoadTail, Goto
<1>5. k = Enqueued + 1
  BY <1>1, <1>3, Counts DEF IInv, ProducerInv
<1>6. /\ idx' = [idx EXCEPT ![Producer] = SlotOf(Enqueued + 1)]
      /\ seen' = [seen EXCEPT ![Producer] = k]
  BY <1>1, <1>2, <1>5, StoresOfThePast DEF Keep
<1>7. SlotOf(Enqueued + 1) \in Slots
  BY <1>1, Counts, SlotOfInSlots
<1>8. TypeOK'
  <2>1. /\ pc' \in [Threads -> Labels] /\ idx' \in [Threads -> Slots]
        /\ seen' \in [Threads -> Nat] /\ val' \in 0 .. MaxItems
        /\ ans' \in [Threads -> Slots \cup {1}]
    BY <1>1, <1>4, <1>6, <1>7 DEF TypeOK, Labels
  <2> QED
    BY <1>1, <1>3, <2>1, LookType
<1>9. /\ pc'[Producer] = "enq_load_head" /\ idx'[Producer] = SlotOf(Enqueued + 1)
      /\ OthersStay(Producer)
  BY <1>1, <1>4, <1>6 DEF TypeOK, OthersStay
<1>10. SameEnds
  BY <1>1, <1>4, <1>8, <1>9, LookSameEnds DEF TypeOK, OthersStay
<1>11. ProducerInv'
  BY <1>1, <1>3, <1>4, <1>9, <1>10, LookKeepsKnown, LookKeepsRing
  DEF ProducerInv, ProducerKnows
<1> QED
  BY <1>3, <1>4, <1>8, <1>9, <1>11, ProducerLooks

\* A release that the producer has read of and that does not fill the ring gives
\* it the slot of the next element: one store less in flight than the capacity,
\* and every access to that slot in its past.
LEMMA RoomForNext ==
    ASSUME IInv, NEW k \in 1 .. Len(mem["head"]),
           pc[Producer] # "enq_store_tail",
           view[Producer].head <= k, Succ(SlotOf(Enqueued + 1)) # SlotOf(k)
    PROVE  /\ Enqueued + 3 <= k + Capacity
           /\ Covers(mem["head"][k].view, Enqueued + 1)
<1>1. TypeOK /\ Producer \in Threads
  BY DEF IInv, Threads
<1>2. Enqueued \in Int /\ Dequeued \in Int /\ k <= Dequeued + 1
      /\ Dequeued <= Enqueued /\ Enqueued < Dequeued + Capacity
  BY <1>1, Counts DEF IInv
<1>3. SlotOf(Enqueued + 2) # SlotOf(k)
  BY <1>2, SuccIsNext
<1>4. Enqueued + 2 <= k + Capacity
  <2>1. Enqueued + 2 <= view[Producer].head + Capacity /\ view[Producer].head \in Int
    BY <1>1 DEF IInv, ProducerInv, TypeOK, Views
  <2> QED
    BY <1>2, <2>1, CapacityAssumption
<1>5. Enqueued + 2 # k + Capacity
  BY <1>3, SlotOfNextLap
<1>6. Enqueued + 3 <= k + Capacity
  BY <1>2, <1>4, <1>5, CapacityAssumption
<1>7. Covers(mem["head"][k].view, Enqueued + 1)
  <2>1. Enqueued + 1 \in Vacant
    BY <1>2, CapacityAssumption DEF Vacant
  <2>2. DOMAIN mem["head"] = 1 .. Len(mem["head"])
    BY <1>1 DEF TypeOK, Atomics
  <2> QED
    BY <1>2, <1>6, <2>1, <2>2, CapacityAssumption DEF IInv, StoresCarry
<1> QED
  BY <1>6, <1>7

LEMMA EnqLoadHeadInv ==
    ASSUME IInv, EnqLoadHead
    PROVE  IInv'
<1>1. TypeOK /\ Producer \in Threads /\ "head" \in Atomics
  BY DEF IInv, Threads, Atomics
<1>2. PICK k \in 1 .. Len(mem["head"]) :
          /\ AcquireLoad(Producer, "head", k)
          /\ IF Succ(idx[Producer]) = mem["head"][k].index
             THEN Goto(Producer, "enq_load_head", "idle")
             ELSE Goto(Producer, "enq_load_head", "enq_write")
          /\ UNCHANGED <<memory, idx, seen, val, ans>>
  BY DEF EnqLoadHead
<1> DEFINE c == mem["head"][k].view
           w == view'[Producer]
<1>3. Look(Producer) /\ Grew(c, w) /\ view[Producer].head <= k
  BY <1>1, <1>2, AcquireLoadLooks DEF Views
<1>4. c \in Views /\ Past(c) /\ mem["head"][k].index = SlotOf(k) /\ c.head = k
  <2>1. DOMAIN mem["head"] = 1 .. Len(mem["head"])
    BY <1>1 DEF TypeOK
  <2> QED
    BY <1>1, <2>1, StoreType, StoresOfThePast DEF IInv, StoresCarry
<1> HIDE DEF c
<1>5. /\ pc[Producer] = "enq_load_head"
      /\ \/ Succ(idx[Producer]) = SlotOf(k) /\ pc' = [pc EXCEPT ![Producer] = "idle"]
         \/ /\ Succ(idx[Producer]) # SlotOf(k)
            /\ pc' = [pc EXCEPT ![Producer] = "enq_write"]
  BY <1>2, <1>4 DEF Goto
<1>6. idx[Producer] = SlotOf(Enqueued + 1) /\ Enqueued < MaxItems
  BY <1>5 DEF IInv, ProducerInv
<1>7. /\ pc' \in [Threads -> Labels] /\ OthersStay(Producer)
      /\ pc'[Producer] \in {"idle", "enq_write"}
  BY <1>1, <1>2, <1>5 DEF TypeOK, Labels, OthersStay
<1>8. TypeOK'
  <2>1. /\ idx' \in [Threads -> Slots]
        /\ seen' \in [Threads -> Nat] /\ val' \in 0 .. MaxItems
        /\ ans' \in [Threads -> Slots \cup {1}]
    BY <1>1, <1>2 DEF TypeOK
  <2> QED
    BY <1>1, <1>3, <1>7, <2>1, LookType
<1>9. SameEnds
  BY <1>1, <1>5, <1>7, LookSameEnds DEF OthersStay
<1>10. CASE pc'[Producer] = "idle"
  <2>1. ProducerInv'
    BY <1>1, <1>3, <1>9, <1>10, LookKeepsProducer
  <2> QED
    BY <1>2, <1>3, <1>5, <1>7, <1>8, <2>1, ProducerLooks
<1>11. CASE pc'[Producer] = "enq_write"
  <2>1. Succ(SlotOf(Enqueued + 1)) # SlotOf(k)
    BY <1>1, <1>5, <1>6, <1>11 DEF TypeOK
  <2>2. Enqueued + 3 <= k + Capacity /\ Covers(c, Enqueued + 1)
    BY <1>3, <1>5, <2>1, RoomForNext DEF c
  <2>3. w \in Views /\ Past(w) /\ writes \in [Slots -> Nat] /\ Enqueued \in Int
    BY <1>1, <1>3, Counts DEF Look, TypeOK
  <2> HIDE DEF w
  <2>4. Enqueued + 3 <= w.head + Capacity
    BY <1>3, <1>4, <2>2, <2>3, CapacityAssumption DEF Grew, Views
  <2>5. Covers(w, Enqueued + 1)
    BY <1>3, <1>4, <2>2, <2>3, GrewCovers
  <2>6. ProducerKnows' /\ Enqueued' = Enqueued
    BY <1>1, <1>3, <1>9, LookKeepsKnown, LookKeepsRing
  <2>7. Covers(view[Producer], Enqueued + 1)'
    BY <1>1, <1>3, <1>9, <2>5, <2>6, LookKeepsRing DEF w
  <2>8. ProducerInv'
    BY <1>2, <1>6, <1>11, <2>4, <2>6, <2>7 DEF ProducerInv, ProducerKnows, w
  <2> QED
    BY <1>2, <1>3, <1>5, <1>7, <1>8, <2>8, ProducerLooks
<1> QED
  BY <1>7, <1>10, <1>11

LEMMA EnqThrowInv ==
    ASSUME IInv, EnqThrow
    PROVE  IInv'
<1>1. TypeOK /\ Producer \in Threads
  BY DEF IInv, Threads
<1>2. /\ pc[Producer] = "enq_write" /\ pc' = [pc EXCEPT ![Producer] = "idle"]
      /\ UNCHANGED <<memory, view, idx, seen, val, ans>>
  BY DEF EnqThrow, Goto
<1>3. Look(Producer)
  BY <1>1, <1>2, IdleLooks
<1>4. /\ pc' \in [Threads -> Labels] /\ OthersStay(Producer)
      /\ pc'[Producer] = "idle"
  BY <1>1, <1>2 DEF TypeOK, Labels, OthersStay
<1>5. TypeOK'
  <2>1. /\ idx' \in [Threads -> Slots]
        /\ seen' \in [Threads -> Nat] /\ val' \in 0 .. MaxItems
        /\ ans' \in [Threads -> Slots \cup {1}]
    BY <1>1, <1>2 DEF TypeOK
  <2> QED
    BY <1>1, <1>3, <1>4, <2>1, LookType
<1>6. SameEnds
  BY <1>1, <1>2, <1>4, LookSameEnds DEF OthersStay
<1>7. ProducerInv'
  BY <1>1, <1>3, <1>4, <1>6, LookKeepsProducer
<1> QED
  BY <1>2, <1>3, <1>4, <1>5, <1>7, ProducerLooks

LEMMA ViewType ==
    ASSUME NEW v \in Views
    PROVE  v.head \in Nat /\ v.tail \in Nat /\ \A i \in Slots : v.slot[i] \in Nat
  BY DEF Views

\* A write to a slot counts, and happens before what its thread does next; other
\* slots and other threads' views stay.
LEMMA WriteSlotEffect ==
    ASSUME TypeOK, NEW t \in Threads, NEW s \in Slots, NEW v, WriteSlot(t, s, v)
    PROVE  /\ writes' \in [Slots -> Nat]
           /\ view' \in [Threads -> Views]
           /\ \A i \in Slots : /\ buffer'[i] = IF i = s THEN v ELSE buffer[i]
                               /\ writes'[i] = IF i = s THEN writes[i] + 1 ELSE writes[i]
                               /\ view'[t].slot[i] = IF i = s THEN writes[i] + 1
                                                              ELSE view[t].slot[i]
           /\ \A i \in Slots : /\ writes[i] \in Nat /\ writes'[i] \in Nat
                               /\ writes[i] <= writes'[i]
           /\ view'[t].head = view[t].head /\ view'[t].tail = view[t].tail
           /\ \A u \in Threads \ {t} : view'[u] = view[u]
<1>1. view \in [Threads -> Views] /\ view[t] \in Views /\ writes[s] + 1 \in Nat
      /\ writes \in [Slots -> Nat] /\ buffer \in [Slots -> 0 .. MaxItems]
  BY DEF TypeOK
<1> DEFINE f == [view[t].slot EXCEPT ![s] = writes[s] + 1]
           w == [view[t] EXCEPT !.slot = f]
<1>2. f \in [Slots -> Nat]
      /\ \A i \in Slots : f[i] = IF i = s THEN writes[i] + 1 ELSE view[t].slot[i]
  BY <1>1 DEF Views
<1>3. view' = [view EXCEPT ![t] = w]
  BY DEF WriteSlot
<1> HIDE DEF f
<1>4. w \in Views /\ w.head = view[t].head /\ w.tail = view[t].tail /\ w.slot = f
  BY <1>1, <1>2 DEF Views
<1> HIDE DEF w
<1>5. view'[t] = w /\ view' \in [Threads -> Views]
      /\ \A u \in Threads \ {t} : view'[u] = view[u]
  BY <1>1, <1>3, <1>4
<1>6. /\ writes' \in [Slots -> Nat]
      /\ \A i \in Slots : /\ buffer'[i] = IF i = s THEN v ELSE buffer[i]
                          /\ writes'[i] = IF i = s THEN writes[i] + 1 ELSE writes[i]
  BY <1>1 DEF WriteSlot
<1>7. \A i \in Slots : writes[i] \in Nat /\ writes'[i] \in Nat /\ writes[i] <= writes'[i]
  <2>1. \A i \in Slots : writes[i] \in Nat
    BY <1>1
  <2> QED
    BY <1>6, <2>1
<1> QED
  BY <1>2, <1>4, <1>5, <1>6, <1>7

LEMMA WriteKeepsPast ==
    ASSUME TypeOK, NEW t \in Threads, NEW s \in Slots, NEW v, WriteSlot(t, s, v),
           mem' = mem, NEW w \in Views, Past(w)
    PROVE  Past(w)'
<1>1. \A i \in Slots : writes[i] \in Nat /\ writes'[i] \in Nat /\ writes[i] <= writes'[i]
  BY WriteSlotEffect
<1>2. \A i \in Slots : w.slot[i] \in Nat /\ w.slot[i] <= writes[i]
  BY ViewType DEF Past
<1>3. \A i \in Slots : w.slot[i] <= writes'[i]
  BY <1>1, <1>2
<1> QED
  BY <1>3 DEF Past

LEMMA WriterOfThePast ==
    ASSUME TypeOK, NEW t \in Threads, NEW s \in Slots, NEW v, WriteSlot(t, s, v),
           mem' = mem, \A u \in Threads : Past(view[u])
    PROVE  \A u \in Threads : Past(view[u])'
<1>1. Past(view[t])'
  <2>1. \A i \in Slots : writes[i] \in Nat /\ view[t].slot[i] <= writes[i]
    BY DEF TypeOK, Past
  <2>2. \A i \in Slots : view'[t].slot[i] <= writes'[i]
    BY <2>1, WriteSlotEffect
  <2> QED
    BY <2>2, WriteSlotEffect DEF Past
<1>2. ASSUME NEW u \in Threads \ {t} PROVE Past(view[u])'
  <2>1. \A i \in Slots : writes[i] \in Nat /\ writes'[i] \in Nat
                         /\ writes[i] <= writes'[i]
    BY WriteSlotEffect
  <2>2. view[u] \in Views /\ view'[u] = view[u]
    BY WriteSlotEffect DEF TypeOK
  <2>3. \A i \in Slots : view[u].slot[i] \in Nat /\ view[u].slot[i] <= writes[i]
    BY <2>2, ViewType DEF Past
  <2>4. \A i \in Slots : view'[u].slot[i] <= writes'[i]
    BY <2>1, <2>2, <2>3
  <2> QED
    BY <2>2, <2>4 DEF Past
<1> QED
  BY <1>1, <1>2

\* What is known of a slot stays known when another slot is written.
LEMMA WriteKeepsCovers ==
    ASSUME TypeOK, NEW t \in Threads, NEW s \in Slots, NEW v, WriteSlot(t, s, v),
           NEW m \in Int, SlotOf(m) # s
    PROVE  /\ \A w : Covers(w, m)' <=> Covers(w, m)
           /\ \A u \in Threads : Covers(view[u], m)' <=> Covers(view[u], m)
           /\ buffer'[SlotOf(m)] = buffer[SlotOf(m)]
<1> DEFINE i == SlotOf(m)
<1>1. i \in Slots
  BY SlotOfInSlots
<1>2. SlotOf(m)' = i
  BY DEF SlotOf
<1> HIDE DEF i
<1>3. writes'[i] = writes[i] /\ buffer'[i] = buffer[i]
  BY <1>1, WriteSlotEffect DEF i
<1>4. \A u \in Threads : view'[u].slot[i] = view[u].slot[i]
  BY <1>1, WriteSlotEffect DEF i
<1> QED
  BY <1>2, <1>3, <1>4 DEF Covers, i

\* The writer knows of its write.
LEMMA WriterCovers ==
    ASSUME TypeOK, NEW t \in Threads, NEW m \in Int, NEW v,
           WriteSlot(t, SlotOf(m), v)
    PROVE  Covers(view[t], m)' /\ buffer'[SlotOf(m)] = v
<1> DEFINE i == SlotOf(m)
<1>1. i \in Slots /\ SlotOf(m)' = i
  BY SlotOfInSlots DEF SlotOf
<1> HIDE DEF i
<1>2. view'[t].slot[i] = writes'[i] /\ buffer'[i] = v
  BY <1>1, WriteSlotEffect DEF i
<1> QED
  BY <1>1, <1>2 DEF Covers, i

\* No two of the elements that are in the ring, or have room in it, share a slot.
LEMMA RingIsOneLap ==
    ASSUME IInv, NEW m \in Present \cup Vacant, NEW n \in Present \cup Vacant,
           m # n
    PROVE  SlotOf(m) # SlotOf(n)
<1>1. Enqueued \in Int /\ Dequeued \in Int /\ Dequeued <= Enqueued
      /\ Enqueued < Dequeued + Capacity
  BY Counts DEF IInv
<1>2. pc[Consumer] = "deq_store_head" => Dequeued < Enqueued
  BY Counts DEF IInv, ConsumerInv, Past, Threads, TypeOK, Views
<1>3. pc[Producer] = "enq_store_tail" => Enqueued + 2 <= Dequeued + Capacity
  <2>1. view[Producer].head <= Dequeued + 1 /\ view[Producer].head \in Int
    BY Counts DEF IInv, Past, Threads
  <2>2. pc[Producer] = "enq_store_tail" => Enqueued + 3 <= view[Producer].head + Capacity
    BY DEF IInv, ProducerInv
  <2> QED
    BY <1>1, <2>1, <2>2, CapacityAssumption
<1> DEFINE first == IF pc[Consumer] = "deq_store_head" THEN Dequeued + 2
                                                      ELSE Dequeued + 1
<1>4. m \in first .. first + Capacity - 1 /\ n \in first .. first + Capacity - 1
      /\ first \in Int
  BY <1>1, <1>2, <1>3, CapacityAssumption DEF Present, Vacant
<1> HIDE DEF first
<1> QED
  BY <1>4, SlotsDiffer, CapacityAssumption

\* The element that dequeue is about to take is in its slot.
LEMMA NextIsPresent ==
    ASSUME IInv, pc[Consumer] \in {"deq_check", "deq_copy", "deq_reset"}
    PROVE  Dequeued + 1 \in Present /\ Dequeued < Enqueued
<1>1. view[Consumer].tail <= Enqueued + 1 /\ view[Consumer].tail \in Int
  BY Counts DEF IInv, Past, Threads
<1>2. view[Consumer].tail > Dequeued + 1
  BY DEF IInv, ConsumerInv
<1>3. Enqueued \in Int /\ Dequeued \in Int
  BY Counts DEF IInv
<1> QED
  BY <1>1, <1>2, <1>3 DEF Present

\* Writing to the slot of element e takes nothing from what the stores carry of
\* the other elements.
LEMMA WriteKeepsOthers ==
    ASSUME IInv, NEW t \in Threads, NEW e \in Present \cup Vacant, NEW v,
           WriteSlot(t, SlotOf(e), v)
    PROVE  \A m \in (Present \cup Vacant) \ {e} :
               /\ \A w : Covers(w, m)' <=> Covers(w, m)
               /\ \A u \in Threads : Covers(view[u], m)' <=> Covers(view[u], m)
               /\ buffer'[SlotOf(m)] = buffer[SlotOf(m)]
<1> SUFFICES ASSUME NEW m \in (Present \cup Vacant) \ {e}
             PROVE  /\ \A w : Covers(w, m)' <=> Covers(w, m)
                    /\ \A u \in Threads : Covers(view[u], m)' <=> Covers(view[u], m)
                    /\ buffer'[SlotOf(m)] = buffer[SlotOf(m)]
  OBVIOUS
<1>1. TypeOK /\ m \in Int /\ e \in Int
  BY Elements DEF IInv
<1>2. SlotOf(e) \in Slots /\ SlotOf(m) # SlotOf(e)
  BY <1>1, SlotOfInSlots, RingIsOneLap
<1> QED
  BY <1>1, <1>2, WriteKeepsCovers

LEMMA WriteKeepsStores ==
    ASSUME IInv, NEW t \in Threads, NEW e \in Present \cup Vacant, NEW v,
           WriteSlot(t, SlotOf(e), v), mem' = mem,
           \A m \in Present' : m \in Present \ {e} \/ m = Enqueued + 1,
           \A m \in Vacant' : m \in Vacant \ {e} \/ m = Dequeued + 1 + Capacity
    PROVE  StoresCarry'
<1>1. TypeOK /\ e \in Int /\ SlotOf(e) \in Slots
  BY Elements, SlotOfInSlots DEF IInv
<1>2. /\ \A x \in Atomics : DOMAIN mem[x] = 1 .. Len(mem[x])
      /\ "head" \in Atomics /\ "tail" \in Atomics
  BY <1>1 DEF TypeOK, Atomics
<1>3. ASSUME NEW x \in Atomics, NEW k \in DOMAIN mem[x]
      PROVE  mem[x][k].index = SlotOf(k) /\ Past(mem[x][k].view)'
  <2> DEFINE c == mem[x][k].view
  <2>1. c \in Views /\ Past(c) /\ mem[x][k].index = SlotOf(k)
    BY <1>1, <1>2, StoreType, StoresOfThePast
  <2>2. \A w \in Views : Past(w) => Past(w)'
    BY <1>1, WriteKeepsPast
  <2>3. c' = c
    OBVIOUS
  <2> HIDE DEF c
  <2>4. Past(c)'
    BY <2>1, <2>2, <2>3
  <2> QED
    BY <2>1, <2>4 DEF c
<1>4. ASSUME NEW k \in DOMAIN mem["tail"], NEW m \in Present', m < k
      PROVE  Covers(mem["tail"][k].view, m)'
  <2>1. k \in 1 .. Enqueued + 1
    BY <1>1, <1>2, Counts
  <2>2. m \in Present \ {e}
    <3>1. m \in Present \ {e} \/ m = Enqueued + 1
      OBVIOUS
    <3>2. Present \subseteq Int /\ Enqueued \in Int
      BY <1>1, Elements, Counts
    <3> QED
      BY <1>4, <2>1, <3>1, <3>2
  <2>3. Covers(mem["tail"][k].view, m)
    BY <1>4, <2>2 DEF IInv, StoresCarry
  <2> QED
    BY <2>2, <2>3, WriteKeepsOthers
<1>5. ASSUME NEW k \in DOMAIN mem["head"], NEW m \in Vacant', m < k + Capacity
      PROVE  Covers(mem["head"][k].view, m)'
  <2>1. k \in 1 .. Dequeued + 1
    BY <1>1, <1>2, Counts
  <2>2. m \in Vacant \ {e}
    <3>1. m \in Vacant \ {e} \/ m = Dequeued + 1 + Capacity
      OBVIOUS
    <3>2. Vacant \subseteq Int /\ Dequeued \in Int
      BY <1>1, Elements, Counts
    <3> QED
      BY <1>5, <2>1, <3>1, <3>2, CapacityAssumption
  <2>3. Covers(mem["head"][k].view, m)
    BY <1>5, <2>2 DEF IInv, StoresCarry
  <2> QED
    BY <2>2, <2>3, WriteKeepsOthers
<1>6. /\ \A k \in DOMAIN mem["tail"] : mem["tail"][k].view.tail = k
      /\ \A k \in DOMAIN mem["head"] :
             mem["head"][k].view.head = k /\ mem["head"][k].view.tail >= k
  BY DEF IInv, StoresCarry
<1> QED
  BY <1>3, <1>4, <1>5, <1>6 DEF StoresCarry

\* The producer writes to the slot of the element it is about to publish, which
\* goes from having room to being present.
LEMMA EnqWriteRing ==
    ASSUME IInv, EnqWrite
    PROVE  /\ Enqueued + 1 \in Vacant
           /\ Present' = Present \cup {Enqueued + 1}
           /\ Vacant' = Vacant \ {Enqueued + 1}
           /\ Enqueued' = Enqueued /\ Dequeued' = Dequeued
<1>1. Enqueued \in Int /\ Dequeued \in Int /\ Dequeued <= Enqueued
      /\ Enqueued < Dequeued + Capacity
  BY Counts DEF IInv
<1>2. Enqueued' = Enqueued /\ Dequeued' = Dequeued
  BY DEF EnqWrite, Enqueued, Dequeued
<1>3. pc[Consumer] = "deq_store_head" => Dequeued < Enqueued
  BY Counts DEF IInv, ConsumerInv, Past, Threads, TypeOK, Views
<1>4. /\ pc[Producer] = "enq_write" /\ pc'[Producer] = "enq_store_tail"
      /\ pc'[Consumer] = pc[Consumer]
  BY ThreadAssumption DEF IInv, TypeOK, Threads, EnqWrite, Goto
<1>5. Enqueued + 1 \in Vacant
  BY <1>1, <1>4, CapacityAssumption DEF Vacant
<1>6. Present' = Present \cup {Enqueued + 1}
  BY <1>1, <1>2, <1>3, <1>4 DEF Present
<1>7. Vacant' = Vacant \ {Enqueued + 1}
  BY <1>1, <1>2, <1>4, CapacityAssumption DEF Vacant
<1> QED
  BY <1>2, <1>5, <1>6, <1>7

LEMMA EnqWriteInv ==
    ASSUME IInv, EnqWrite
    PROVE  IInv'
<1> DEFINE P == Producer
<1>0. PICK e : e = Enqueued + 1
  OBVIOUS
<1>1. TypeOK /\ Producer \in Threads /\ Consumer \in Threads /\ Producer # Consumer
  BY ThreadAssumption DEF IInv, Threads
<1>2. /\ pc[P] = "enq_write" /\ pc' = [pc EXCEPT ![P] = "enq_store_tail"]
      /\ UNCHANGED <<mem, idx, seen, val, ans>>
      /\ idx[P] = SlotOf(e) /\ Enqueued < MaxItems
      /\ Enqueued + 3 <= view[P].head + Capacity
  BY <1>0 DEF EnqWrite, Goto, IInv, ProducerInv
<1>3. WriteSlot(P, SlotOf(e), e)
  BY <1>2, <1>0 DEF EnqWrite
<1>4. e \in Vacant /\ Present' = Present \cup {e} /\ Vacant' = Vacant \ {e}
      /\ Enqueued' = Enqueued /\ Dequeued' = Dequeued
  BY <1>0, EnqWriteRing
<1>5. e \in 1 .. MaxItems /\ SlotOf(e) \in Slots
  <2>1. Enqueued \in Int /\ Enqueued >= 0
    BY <1>1, Counts DEF IInv
  <2> QED
    BY <1>2, <1>0, <2>1, SlotOfInSlots, MaxItemsAssumption
<1>6. pc'[P] = "enq_store_tail" /\ \A u \in Threads \ {P} : pc'[u] = pc[u]
  BY <1>1, <1>2 DEF TypeOK
<1>7. TypeOK'
  <2>1. buffer' \in [Slots -> 0 .. MaxItems]
    BY <1>1, <1>3, <1>5 DEF TypeOK, WriteSlot
  <2>2. pc' \in [Threads -> Labels]
    BY <1>1, <1>2 DEF TypeOK, Labels
  <2>3. writes' \in [Slots -> Nat] /\ view' \in [Threads -> Views]
    BY <1>1, <1>3, <1>5, WriteSlotEffect
  <2> QED
    BY <1>1, <1>2, <2>1, <2>2, <2>3 DEF TypeOK
<1>8. \A m \in (Present \cup Vacant) \ {e} :
          /\ \A u \in Threads : Covers(view[u], m)' <=> Covers(view[u], m)
          /\ buffer'[SlotOf(m)] = buffer[SlotOf(m)]
  BY <1>1, <1>3, <1>4, WriteKeepsOthers
<1>9. Covers(view[P], e)' /\ buffer'[SlotOf(e)] = e
  BY <1>1, <1>3, <1>5, WriterCovers
<1>10. e \notin Present
  BY <1>1, <1>2, <1>0, Counts DEF Present
<1>11. Shared'
  <2>1. \A u \in Threads : Past(view[u])'
    BY <1>1, <1>2, <1>3, <1>5, WriterOfThePast DEF IInv
  <2>2. SlotsHoldPresent'
    BY <1>4, <1>8, <1>9 DEF IInv, SlotsHoldPresent
  <2>3. StoresCarry'
    BY <1>1, <1>2, <1>3, <1>4, <1>10, <1>0, WriteKeepsStores
  <2> QED
    BY <1>4, <2>1, <2>2, <2>3 DEF IInv, Shared
<1>12. /\ view'[P].head = view[P].head /\ view'[P].tail = view[P].tail
       /\ \A u \in Threads \ {P} : view'[u] = view[u]
  BY <1>1, <1>3, <1>5, WriteSlotEffect
<1>13. ProducerInv'
  BY <1>1, <1>2, <1>4, <1>6, <1>8, <1>9, <1>12, <1>0 DEF IInv, ProducerInv
<1>14. ConsumerInv'
  <2>1. \A m \in Vacant' : Covers(view[Consumer], m)'
    BY <1>1, <1>4, <1>8 DEF IInv, ConsumerInv
  <2>2. pc[Consumer] \in {"deq_check", "deq_copy", "deq_reset"} =>
            Covers(view[Consumer], Dequeued + 1)'
    <3> SUFFICES ASSUME pc[Consumer] \in {"deq_check", "deq_copy", "deq_reset"}
                 PROVE  Covers(view[Consumer], Dequeued + 1)'
      OBVIOUS
    <3>1. Dequeued + 1 \in Present
      BY NextIsPresent
    <3>2. Covers(view[Consumer], Dequeued + 1)
      BY DEF IInv, ConsumerInv
    <3>3. PICK d : d = Dequeued + 1
      OBVIOUS
    <3>4. d \in (Present \cup Vacant) \ {e} /\ Covers(view[Consumer], d)
      BY <1>10, <3>1, <3>2, <3>3
    <3>5. Covers(view[Consumer], d)'
      BY <1>1, <1>8, <3>4
    <3>6. d = Dequeued' + 1
      BY <1>4, <3>3
    <3> QED
      BY <3>5, <3>6
  <2> QED
    BY <1>1, <1>2, <1>4, <1>6, <1>12, <2>1, <2>2 DEF IInv, ConsumerInv
<1>15. \A u \in Threads : ReadInv(u)'
  BY <1>1, <1>2, <1>4, <1>6, <1>12 DEF IInv, ReadInv
<1>16. OwnerQueries'
  BY <1>1, <1>2, <1>4, <1>6 DEF IInv, OwnerQueries
<1> QED
  BY <1>7, <1>11, <1>13, <1>14, <1>15, <1>16 DEF IInv, Shared

\* A step of enqueue that is about to publish has left a slot free.
LEMMA RoomWhenFilling ==
    ASSUME IInv, pc[Producer] \in {"enq_write", "enq_store_tail"}
    PROVE  Enqueued + 2 <= Dequeued + Capacity
<1>1. view[Producer].head <= Dequeued + 1 /\ view[Producer].head \in Int
  BY Counts DEF IInv, Past, Threads
<1>2. Enqueued + 3 <= view[Producer].head + Capacity
  BY DEF IInv, ProducerInv
<1>3. Enqueued \in Int /\ Dequeued \in Int
  BY Counts DEF IInv
<1> QED
  BY <1>1, <1>2, <1>3, CapacityAssumption

\* The consumer releases the slot of the element it has taken, and so makes room
\* for the one a capacity later.
LEMMA DeqResetRing ==
    ASSUME IInv, DeqReset
    PROVE  /\ Dequeued + 1 \in Present
           /\ Present' = Present \ {Dequeued + 1}
           /\ Vacant' = Vacant \cup {Dequeued + 1 + Capacity}
           /\ Enqueued' = Enqueued /\ Dequeued' = Dequeued
<1>1. Enqueued \in Int /\ Dequeued \in Int /\ Dequeued <= Enqueued
      /\ Enqueued < Dequeued + Capacity
  BY Counts DEF IInv
<1>2. Enqueued' = Enqueued /\ Dequeued' = Dequeued
  BY DEF DeqReset, Enqueued, Dequeued
<1>3. /\ pc[Consumer] = "deq_reset" /\ pc'[Consumer] = "deq_store_head"
      /\ pc'[Producer] = pc[Producer]
  BY ThreadAssumption DEF IInv, TypeOK, Threads, DeqReset, Goto
<1>4. Dequeued + 1 \in Present /\ Dequeued < Enqueued
  BY <1>3, NextIsPresent
<1>5. Present' = Present \ {Dequeued + 1}
  BY <1>1, <1>2, <1>3 DEF Present
<1>6. pc[Producer] = "enq_store_tail" => Enqueued + 2 <= Dequeued + Capacity
  BY RoomWhenFilling
<1>7. Vacant' = Vacant \cup {Dequeued + 1 + Capacity}
  BY <1>1, <1>2, <1>3, <1>6, CapacityAssumption DEF Vacant
<1> QED
  BY <1>2, <1>4, <1>5, <1>7

LEMMA DeqResetInv ==
    ASSUME IInv, DeqReset
    PROVE  IInv'
<1> DEFINE C == Consumer
<1>0. PICK e : e = Dequeued + 1
  OBVIOUS
<1>1. TypeOK /\ Producer \in Threads /\ Consumer \in Threads /\ Producer # Consumer
  BY ThreadAssumption DEF IInv, Threads
<1>2. /\ pc[C] = "deq_reset" /\ pc' = [pc EXCEPT ![C] = "deq_store_head"]
      /\ UNCHANGED <<mem, idx, seen, val, ans>>
      /\ idx[C] = SlotOf(e) /\ view[C].tail > Dequeued + 1 /\ val = Dequeued + 1
  BY <1>0 DEF DeqReset, Goto, IInv, ConsumerInv
<1>3. WriteSlot(C, SlotOf(e), 0)
  BY <1>2 DEF DeqReset
<1>4. e \in Present /\ Present' = Present \ {e} /\ Vacant' = Vacant \cup {e + Capacity}
      /\ Enqueued' = Enqueued /\ Dequeued' = Dequeued
  BY <1>0, DeqResetRing
<1>5. e \in Int /\ SlotOf(e) \in Slots /\ SlotOf(e + Capacity) = SlotOf(e)
  BY <1>0, <1>1, Counts, SlotOfInSlots, SlotOfNextLap
<1>6. pc'[C] = "deq_store_head" /\ \A u \in Threads \ {C} : pc'[u] = pc[u]
  BY <1>1, <1>2 DEF TypeOK
<1>7. TypeOK'
  <2>1. buffer' \in [Slots -> 0 .. MaxItems]
    BY <1>1, <1>3, <1>5, MaxItemsAssumption DEF TypeOK, WriteSlot
  <2>2. pc' \in [Threads -> Labels]
    BY <1>1, <1>2 DEF TypeOK, Labels
  <2>3. writes' \in [Slots -> Nat] /\ view' \in [Threads -> Views]
    BY <1>1, <1>3, <1>5, WriteSlotEffect
  <2> QED
    BY <1>1, <1>2, <2>1, <2>2, <2>3 DEF TypeOK
<1>8. \A m \in (Present \cup Vacant) \ {e} :
          /\ \A u \in Threads : Covers(view[u], m)' <=> Covers(view[u], m)
          /\ buffer'[SlotOf(m)] = buffer[SlotOf(m)]
  BY <1>1, <1>3, <1>4, WriteKeepsOthers
<1>9. Covers(view[C], e + Capacity)' /\ buffer'[SlotOf(e + Capacity)] = 0
  <2>1. Covers(view[C], e)' /\ buffer'[SlotOf(e)] = 0
    BY <1>1, <1>3, <1>5, WriterCovers
  <2> QED
    BY <1>5, <2>1 DEF Covers
<1>10. e \notin Vacant
  <2>1. Enqueued \in Int /\ Dequeued \in Int /\ Dequeued < Enqueued
    BY <1>1, <1>2, Counts, NextIsPresent
  <2> QED
    BY <1>0, <2>1 DEF Vacant
<1>11. Shared'
  <2>1. \A u \in Threads : Past(view[u])'
    BY <1>1, <1>2, <1>3, <1>5, WriterOfThePast DEF IInv
  <2>2. SlotsHoldPresent'
    BY <1>4, <1>8, <1>9, <1>10 DEF IInv, SlotsHoldPresent
  <2>3. StoresCarry'
    BY <1>0, <1>1, <1>2, <1>3, <1>4, <1>10, WriteKeepsStores
  <2> QED
    BY <1>4, <2>1, <2>2, <2>3 DEF IInv, Shared
<1>12. /\ view'[C].head = view[C].head /\ view'[C].tail = view[C].tail
       /\ \A u \in Threads \ {C} : view'[u] = view[u]
  BY <1>1, <1>3, <1>5, WriteSlotEffect
<1>13. ConsumerInv'
  <2>1. \A m \in Vacant' : Covers(view[C], m)'
    BY <1>1, <1>4, <1>8, <1>9, <1>10 DEF IInv, ConsumerInv
  <2> QED
    BY <1>0, <1>1, <1>2, <1>4, <1>6, <1>12, <2>1 DEF IInv, ConsumerInv
<1>14. ProducerInv'
  <2>1. \A m \in Present' : Covers(view[Producer], m)'
    BY <1>1, <1>4, <1>8 DEF IInv, ProducerInv
  <2>2. pc[Producer] = "enq_write" => Covers(view[Producer], Enqueued + 1)'
    <3> SUFFICES ASSUME pc[Producer] = "enq_write"
                 PROVE  Covers(view[Producer], Enqueued + 1)'
      OBVIOUS
    <3>1. Enqueued + 1 \in Vacant
      BY <1>1, Counts, RoomWhenFilling, CapacityAssumption DEF Vacant
    <3>2. Covers(view[Producer], Enqueued + 1)
      BY DEF IInv, ProducerInv
    <3>3. PICK d : d = Enqueued + 1
      OBVIOUS
    <3>4. d \in (Present \cup Vacant) \ {e} /\ Covers(view[Producer], d)
      BY <1>10, <3>1, <3>2, <3>3
    <3>5. Covers(view[Producer], d)'
      BY <1>1, <1>8, <3>4
    <3>6. d = Enqueued' + 1
      BY <1>4, <3>3
    <3> QED
      BY <3>5, <3>6
  <2> QED
    BY <1>1, <1>2, <1>4, <1>6, <1>12, <2>1, <2>2 DEF IInv, ProducerInv
<1>15. \A u \in Threads : ReadInv(u)'
  BY <1>1, <1>2, <1>4, <1>6, <1>12 DEF IInv, ReadInv
<1>16. OwnerQueries'
  BY <1>1, <1>2, <1>4, <1>6 DEF IInv, OwnerQueries
<1> QED
  BY <1>7, <1>11, <1>13, <1>14, <1>15, <1>16 DEF IInv, Shared

-----------------------------------------------------------------------------
(* dequeue and pop, except for the release of the slot.                    *)

LEMMA DeqLoadHeadInv ==
    ASSUME IInv, DeqLoadHead
    PROVE  IInv'
<1>1. TypeOK /\ Consumer \in Threads /\ "head" \in Atomics
  BY DEF IInv, Threads, Atomics
<1>2. PICK k \in 1 .. Len(mem["head"]) :
          RelaxedLoad(Consumer, "head", k) /\ Keep(Consumer, "head", k)
  BY DEF DeqLoadHead
<1>3. Look(Consumer) /\ view[Consumer]["head"] <= k
  BY <1>1, <1>2, RelaxedLoadLooks DEF DeqLoadHead
<1>4. /\ pc[Consumer] = "idle" /\ pc' = [pc EXCEPT ![Consumer] = "deq_load_tail"]
      /\ val' = val /\ ans' = ans
  BY DEF DeqLoadHead, Goto
<1>5. k = Dequeued + 1
  BY <1>1, <1>3, Counts DEF IInv, ConsumerInv
<1>6. /\ idx' = [idx EXCEPT ![Consumer] = SlotOf(Dequeued + 1)]
      /\ seen' = [seen EXCEPT ![Consumer] = k]
  BY <1>1, <1>2, <1>5, StoresOfThePast DEF Keep
<1>7. SlotOf(Dequeued + 1) \in Slots
  BY <1>1, Counts, SlotOfInSlots
<1>8. TypeOK'
  <2>1. /\ pc' \in [Threads -> Labels] /\ idx' \in [Threads -> Slots]
        /\ seen' \in [Threads -> Nat] /\ val' \in 0 .. MaxItems
        /\ ans' \in [Threads -> Slots \cup {1}]
    BY <1>1, <1>4, <1>6, <1>7 DEF TypeOK, Labels
  <2> QED
    BY <1>1, <1>3, <2>1, LookType
<1>9. /\ pc'[Consumer] = "deq_load_tail" /\ idx'[Consumer] = SlotOf(Dequeued + 1)
      /\ OthersStay(Consumer)
  BY <1>1, <1>4, <1>6 DEF TypeOK, OthersStay
<1>10. SameEnds
  BY <1>1, <1>4, <1>8, <1>9, LookSameEnds DEF TypeOK, OthersStay
<1>11. ConsumerInv'
  BY <1>1, <1>3, <1>9, <1>10, LookKeepsKnown, LookKeepsRing
  DEF ConsumerInv, ConsumerKnows
<1> QED
  BY <1>3, <1>4, <1>8, <1>9, <1>11, ConsumerLooks

\* A publication that the consumer has read of and that leaves the ring not empty
\* gives it the next element, with every access to its slot in its past.
LEMMA NextIsPublished ==
    ASSUME IInv, NEW k \in 1 .. Len(mem["tail"]),
           pc[Consumer] # "deq_store_head",
           view[Consumer].tail <= k, SlotOf(Dequeued + 1) # SlotOf(k)
    PROVE  /\ Dequeued + 1 < k
           /\ Covers(mem["tail"][k].view, Dequeued + 1)
<1>1. TypeOK /\ Consumer \in Threads
  BY DEF IInv, Threads
<1>2. Enqueued \in Int /\ Dequeued \in Int /\ k <= Enqueued + 1 /\ k \in Int
  BY <1>1, Counts
<1>3. view[Consumer].tail > Dequeued /\ view[Consumer].tail \in Int
  BY <1>1 DEF IInv, ConsumerInv, TypeOK, Views
<1>4. Dequeued + 1 # k
  OBVIOUS
<1>5. Dequeued + 1 < k
  BY <1>2, <1>3, <1>4
<1>6. Dequeued + 1 \in Present
  BY <1>2, <1>5 DEF Present
<1>7. DOMAIN mem["tail"] = 1 .. Len(mem["tail"])
  BY <1>1 DEF TypeOK, Atomics
<1> QED
  BY <1>5, <1>6, <1>7 DEF IInv, StoresCarry

LEMMA DeqLoadTailInv ==
    ASSUME IInv, DeqLoadTail
    PROVE  IInv'
<1>1. TypeOK /\ Consumer \in Threads /\ "tail" \in Atomics
  BY DEF IInv, Threads, Atomics
<1>2. PICK k \in 1 .. Len(mem["tail"]) :
          /\ AcquireLoad(Consumer, "tail", k)
          /\ IF idx[Consumer] = mem["tail"][k].index
             THEN Goto(Consumer, "deq_load_tail", "idle")
             ELSE Goto(Consumer, "deq_load_tail", "deq_check")
          /\ UNCHANGED <<memory, idx, seen, val, ans>>
  BY DEF DeqLoadTail
<1> DEFINE c == mem["tail"][k].view
           w == view'[Consumer]
<1>3. Look(Consumer) /\ Grew(c, w) /\ view[Consumer].tail <= k
  BY <1>1, <1>2, AcquireLoadLooks DEF Views
<1>4. c \in Views /\ Past(c) /\ mem["tail"][k].index = SlotOf(k) /\ c.tail = k
  <2>1. DOMAIN mem["tail"] = 1 .. Len(mem["tail"])
    BY <1>1 DEF TypeOK
  <2> QED
    BY <1>1, <2>1, StoreType, StoresOfThePast DEF IInv, StoresCarry
<1> HIDE DEF c
<1>5. /\ pc[Consumer] = "deq_load_tail"
      /\ \/ idx[Consumer] = SlotOf(k) /\ pc' = [pc EXCEPT ![Consumer] = "idle"]
         \/ idx[Consumer] # SlotOf(k) /\ pc' = [pc EXCEPT ![Consumer] = "deq_check"]
  BY <1>2, <1>4 DEF Goto
<1>6. idx[Consumer] = SlotOf(Dequeued + 1)
  BY <1>5 DEF IInv, ConsumerInv
<1>7. /\ pc' \in [Threads -> Labels] /\ OthersStay(Consumer)
      /\ pc'[Consumer] \in {"idle", "deq_check"}
  BY <1>1, <1>2, <1>5 DEF TypeOK, Labels, OthersStay
<1>8. TypeOK'
  <2>1. /\ idx' \in [Threads -> Slots]
        /\ seen' \in [Threads -> Nat] /\ val' \in 0 .. MaxItems
        /\ ans' \in [Threads -> Slots \cup {1}]
    BY <1>1, <1>2 DEF TypeOK
  <2> QED
    BY <1>1, <1>3, <1>7, <2>1, LookType
<1>9. SameEnds
  BY <1>1, <1>5, <1>7, LookSameEnds DEF OthersStay
<1>10. CASE pc'[Consumer] = "idle"
  <2>1. ConsumerInv'
    BY <1>1, <1>3, <1>9, <1>10, LookKeepsConsumer
  <2> QED
    BY <1>3, <1>5, <1>7, <1>8, <2>1, ConsumerLooks
<1>11. CASE pc'[Consumer] = "deq_check"
  <2>1. SlotOf(Dequeued + 1) # SlotOf(k)
    BY <1>1, <1>5, <1>6, <1>11 DEF TypeOK
  <2>2. Dequeued + 1 < k /\ Covers(c, Dequeued + 1)
    BY <1>3, <1>5, <2>1, NextIsPublished DEF c
  <2>3. w \in Views /\ Past(w) /\ writes \in [Slots -> Nat] /\ Dequeued \in Int
    BY <1>1, <1>3, Counts DEF Look, TypeOK
  <2> HIDE DEF w
  <2>4. w.tail > Dequeued + 1
    BY <1>3, <1>4, <2>2, <2>3 DEF Grew, Views
  <2>5. Covers(w, Dequeued + 1)
    BY <1>3, <1>4, <2>2, <2>3, GrewCovers
  <2>6. ConsumerKnows' /\ Dequeued' = Dequeued
    BY <1>1, <1>3, <1>9, LookKeepsKnown, LookKeepsRing
  <2>7. Covers(view[Consumer], Dequeued + 1)'
    BY <1>1, <1>3, <1>9, <2>5, <2>6, LookKeepsRing DEF w
  <2>8. ConsumerInv'
    BY <1>2, <1>6, <1>11, <2>4, <2>6, <2>7 DEF ConsumerInv, ConsumerKnows, w
  <2> QED
    BY <1>3, <1>5, <1>7, <1>8, <2>8, ConsumerLooks
<1> QED
  BY <1>7, <1>10, <1>11

\* The null check, the copy and the exception that the copy throws.
LEMMA DeqSlotInv ==
    ASSUME IInv, DeqCheck \/ DeqCopy \/ DeqThrow
    PROVE  IInv'
<1>1. TypeOK /\ Consumer \in Threads
  BY DEF IInv, Threads
<1>2. /\ pc[Consumer] \in {"deq_check", "deq_copy"}
      /\ \/ pc' = [pc EXCEPT ![Consumer] = "idle"] /\ val' = val
         \/ pc' = [pc EXCEPT ![Consumer] = "deq_copy"] /\ val' = val
         \/ pc' = [pc EXCEPT ![Consumer] = "deq_reset"] /\ val' = buffer[idx[Consumer]]
      /\ UNCHANGED <<memory, view, idx, seen, ans>>
  BY DEF DeqCheck, DeqCopy, DeqThrow, Goto
<1>3. Look(Consumer)
  BY <1>1, <1>2, IdleLooks
<1>4. buffer[idx[Consumer]] = Dequeued + 1
  <2>1. Dequeued + 1 \in Present
    BY <1>2, NextIsPresent
  <2> QED
    BY <1>2, <2>1 DEF IInv, ConsumerInv, SlotsHoldPresent
<1>5. /\ pc' \in [Threads -> Labels] /\ OthersStay(Consumer)
      /\ pc'[Consumer] \in {"idle", "deq_copy", "deq_reset"}
      /\ pc'[Consumer] = "deq_reset" => val' = Dequeued + 1
  BY <1>1, <1>2, <1>4 DEF TypeOK, Labels, OthersStay
<1>6. TypeOK'
  <2>1. /\ idx' \in [Threads -> Slots]
        /\ seen' \in [Threads -> Nat] /\ val' \in 0 .. MaxItems
        /\ ans' \in [Threads -> Slots \cup {1}]
    BY <1>1, <1>2 DEF TypeOK
  <2> QED
    BY <1>1, <1>3, <1>5, <2>1, LookType
<1>7. SameEnds
  BY <1>1, <1>2, <1>5, LookSameEnds DEF OthersStay
<1>8. ConsumerInv'
  <2>1. ConsumerKnows' /\ Dequeued' = Dequeued
    BY <1>1, <1>3, <1>7, LookKeepsKnown, LookKeepsRing
  <2>2. Covers(view[Consumer], Dequeued + 1)'
    <3>1. view'[Consumer] = view[Consumer] /\ Covers(view[Consumer], Dequeued + 1)
      BY <1>2 DEF IInv, ConsumerInv
    <3> QED
      BY <1>1, <1>3, <1>7, <2>1, <3>1, LookKeepsRing
  <2> QED
    BY <1>2, <1>5, <2>1, <2>2 DEF IInv, ConsumerInv, ConsumerKnows
<1> QED
  BY <1>2, <1>3, <1>5, <1>6, <1>8, ConsumerLooks

-----------------------------------------------------------------------------
(* The release stores.                                                     *)

LEMMA SeqGrows ==
    ASSUME NEW S, NEW f \in Seq(S), NEW e \in S, NEW g, g = Append(f, e)
    PROVE  /\ g \in Seq(S) /\ Len(g) = Len(f) + 1 /\ Len(f) \in Nat
           /\ DOMAIN f = 1 .. Len(f) /\ DOMAIN g = 1 .. Len(f) + 1
           /\ \A k \in 1 .. Len(f) : g[k] = f[k]
           /\ g[Len(f) + 1] = e
  OBVIOUS

\* A release store is the newest of its atomic and carries its thread's view.
LEMMA ReleaseStoreTail ==
    ASSUME TypeOK, NEW t \in Threads, NEW i \in Slots, ReleaseStore(t, "tail", i)
    PROVE  LET n == Len(mem["tail"])
           IN  /\ mem' \in [Atomics -> Seq(Stores)]
               /\ view' = [view EXCEPT ![t] = view'[t]] /\ view'[t] \in Views
               /\ view'[t].tail = n + 1 /\ view'[t].head = view[t].head
               /\ view'[t].slot = view[t].slot
               /\ mem'["head"] = mem["head"]
               /\ Len(mem'["tail"]) = n + 1
               /\ \A k \in 1 .. n : mem'["tail"][k] = mem["tail"][k]
               /\ mem'["tail"][n + 1].index = i
               /\ mem'["tail"][n + 1].view = view'[t]
<1> DEFINE n == Len(mem["tail"])
           p == [view[t] EXCEPT !["tail"] = n + 1]
           r == [index |-> i, view |-> p]
<1>1. mem["tail"] \in Seq(Stores) /\ view[t] \in Views /\ n \in Nat
      /\ mem \in [Atomics -> Seq(Stores)] /\ view \in [Threads -> Views]
      /\ "tail" \in Atomics /\ "head" \in Atomics
  BY DEF TypeOK, Atomics
<1>2. view' = [view EXCEPT ![t] = p] /\ mem' = [mem EXCEPT !["tail"] = Append(@, r)]
  BY DEF ReleaseStore
<1> HIDE DEF n
<1>3. p \in Views /\ p.tail = n + 1 /\ p.head = view[t].head /\ p.slot = view[t].slot
  <2>1. n + 1 \in Nat /\ p = [view[t] EXCEPT !["tail"] = n + 1]
    BY <1>1
  <2>2. view[t] \in Views
    BY <1>1
  <2> HIDE DEF p
  <2> QED
    BY <2>1, <2>2 DEF Views
<1> HIDE DEF p
<1>4. r \in Stores /\ r.index = i /\ r.view = p
  BY <1>3 DEF Stores
<1> HIDE DEF r
<1>5. mem'["tail"] = Append(mem["tail"], r) /\ mem'["head"] = mem["head"]
  BY <1>1, <1>2
<1>6. /\ mem'["tail"] \in Seq(Stores) /\ Len(mem'["tail"]) = n + 1
      /\ \A k \in 1 .. n : mem'["tail"][k] = mem["tail"][k]
      /\ mem'["tail"][n + 1] = r
  BY <1>1, <1>4, <1>5, SeqGrows DEF n
<1>7. mem' \in [Atomics -> Seq(Stores)]
  <2>1. DOMAIN mem' = Atomics /\ mem' = [x \in Atomics |-> mem'[x]]
    BY <1>1, <1>2
  <2>2. \A x \in Atomics : mem'[x] \in Seq(Stores)
    BY <1>1, <1>5, <1>6 DEF Atomics
  <2> QED
    BY <2>1, <2>2
<1>8. view'[t] = p /\ view' = [view EXCEPT ![t] = view'[t]]
  BY <1>1, <1>2
<1> QED
  BY <1>3, <1>4, <1>5, <1>6, <1>7, <1>8 DEF n

LEMMA ReleaseStoreHead ==
    ASSUME TypeOK, NEW t \in Threads, NEW i \in Slots, ReleaseStore(t, "head", i)
    PROVE  LET n == Len(mem["head"])
           IN  /\ mem' \in [Atomics -> Seq(Stores)]
               /\ view' = [view EXCEPT ![t] = view'[t]] /\ view'[t] \in Views
               /\ view'[t].head = n + 1 /\ view'[t].tail = view[t].tail
               /\ view'[t].slot = view[t].slot
               /\ mem'["tail"] = mem["tail"]
               /\ Len(mem'["head"]) = n + 1
               /\ \A k \in 1 .. n : mem'["head"][k] = mem["head"][k]
               /\ mem'["head"][n + 1].index = i
               /\ mem'["head"][n + 1].view = view'[t]
<1> DEFINE n == Len(mem["head"])
           p == [view[t] EXCEPT !["head"] = n + 1]
           r == [index |-> i, view |-> p]
<1>1. mem["head"] \in Seq(Stores) /\ view[t] \in Views /\ n \in Nat
      /\ mem \in [Atomics -> Seq(Stores)] /\ view \in [Threads -> Views]
      /\ "tail" \in Atomics /\ "head" \in Atomics
  BY DEF TypeOK, Atomics
<1>2. view' = [view EXCEPT ![t] = p] /\ mem' = [mem EXCEPT !["head"] = Append(@, r)]
  BY DEF ReleaseStore
<1> HIDE DEF n
<1>3. p \in Views /\ p.head = n + 1 /\ p.tail = view[t].tail /\ p.slot = view[t].slot
  <2>1. n + 1 \in Nat /\ p = [view[t] EXCEPT !["head"] = n + 1]
    BY <1>1
  <2>2. view[t] \in Views
    BY <1>1
  <2> HIDE DEF p
  <2> QED
    BY <2>1, <2>2 DEF Views
<1> HIDE DEF p
<1>4. r \in Stores /\ r.index = i /\ r.view = p
  BY <1>3 DEF Stores
<1> HIDE DEF r
<1>5. mem'["head"] = Append(mem["head"], r) /\ mem'["tail"] = mem["tail"]
  BY <1>1, <1>2
<1>6. /\ mem'["head"] \in Seq(Stores) /\ Len(mem'["head"]) = n + 1
      /\ \A k \in 1 .. n : mem'["head"][k] = mem["head"][k]
      /\ mem'["head"][n + 1] = r
  BY <1>1, <1>4, <1>5, SeqGrows DEF n
<1>7. mem' \in [Atomics -> Seq(Stores)]
  <2>1. DOMAIN mem' = Atomics /\ mem' = [x \in Atomics |-> mem'[x]]
    BY <1>1, <1>2
  <2>2. \A x \in Atomics : mem'[x] \in Seq(Stores)
    BY <1>1, <1>5, <1>6 DEF Atomics
  <2> QED
    BY <2>1, <2>2
<1>8. view'[t] = p /\ view' = [view EXCEPT ![t] = view'[t]]
  BY <1>1, <1>2
<1> QED
  BY <1>3, <1>4, <1>5, <1>6, <1>7, <1>8 DEF n

\* The producer publishes the element that it has put into its slot.
LEMMA EnqStoreTailRing ==
    ASSUME IInv, EnqStoreTail
    PROVE  /\ Enqueued' = Enqueued + 1 /\ Dequeued' = Dequeued
           /\ Present' = Present /\ Vacant' = Vacant
           /\ ReleaseStore(Producer, "tail", SlotOf(Enqueued + 2))
           /\ SlotOf(Enqueued + 2) \in Slots
<1>1. TypeOK /\ Producer \in Threads /\ Consumer \in Threads /\ Producer # Consumer
  BY ThreadAssumption DEF IInv, Threads
<1>2. Enqueued \in Int /\ Dequeued \in Int /\ Len(mem["tail"]) = Enqueued + 1
  BY <1>1, Counts
<1>3. idx[Producer] = SlotOf(Enqueued + 1) /\ pc[Producer] = "enq_store_tail"
      /\ pc' = [pc EXCEPT ![Producer] = "idle"]
  BY DEF IInv, ProducerInv, EnqStoreTail, Goto
<1>4. Succ(idx[Producer]) = SlotOf(Enqueued + 2) /\ SlotOf(Enqueued + 2) \in Slots
  <2>1. Succ(SlotOf(Enqueued + 1)) = SlotOf((Enqueued + 1) + 1)
    BY <1>2, SuccIsNext
  <2>2. (Enqueued + 1) + 1 = Enqueued + 2
    BY <1>2
  <2> QED
    BY <1>2, <1>3, <2>1, <2>2, SlotOfInSlots
<1>5. ReleaseStore(Producer, "tail", SlotOf(Enqueued + 2))
  BY <1>4 DEF EnqStoreTail
<1>6. Enqueued' = Enqueued + 1 /\ Dequeued' = Dequeued
  <2>1. Len(mem'["tail"]) = Len(mem["tail"]) + 1 /\ mem'["head"] = mem["head"]
    BY <1>1, <1>4, <1>5, ReleaseStoreTail
  <2> QED
    BY <1>2, <2>1 DEF Enqueued, Dequeued
<1>7. pc'[Producer] = "idle" /\ pc'[Consumer] = pc[Consumer]
  BY <1>1, <1>3 DEF TypeOK
<1>8. Present' = Present /\ Vacant' = Vacant
  BY <1>2, <1>3, <1>6, <1>7 DEF Present, Vacant
<1> QED
  BY <1>4, <1>5, <1>6, <1>8

LEMMA EnqStoreTailStores ==
    ASSUME IInv, EnqStoreTail
    PROVE  /\ \A u \in Threads : Past(view[u])'
           /\ StoresCarry'
           /\ \A u \in Threads : \A m : Covers(view[u], m)' <=> Covers(view[u], m)
<1>1. TypeOK /\ Producer \in Threads /\ "head" \in Atomics /\ "tail" \in Atomics
  BY DEF IInv, Threads, Atomics
<1>2. PICK n \in Nat : n = Len(mem["tail"])
  BY <1>1, Counts
<1>3. PICK i \in Slots : i = SlotOf(n + 1) /\ ReleaseStore(Producer, "tail", i)
  BY <1>1, <1>2, Counts, EnqStoreTailRing
<1>4. /\ view' = [view EXCEPT ![Producer] = view'[Producer]]
      /\ view'[Producer] \in Views
      /\ view'[Producer].tail = n + 1 /\ view'[Producer].head = view[Producer].head
      /\ view'[Producer].slot = view[Producer].slot
      /\ mem'["head"] = mem["head"] /\ Len(mem'["tail"]) = n + 1
      /\ mem' \in [Atomics -> Seq(Stores)]
      /\ \A k \in 1 .. n : mem'["tail"][k] = mem["tail"][k]
      /\ mem'["tail"][n + 1].index = i
      /\ mem'["tail"][n + 1].view = view'[Producer]
  BY <1>1, <1>2, <1>3, ReleaseStoreTail
<1>5. writes' = writes /\ \A u \in Threads \ {Producer} : view'[u] = view[u]
  BY <1>1, <1>4 DEF EnqStoreTail, TypeOK
<1>6. \A w : Past(w) => Past(w)'
  BY <1>2, <1>4, <1>5 DEF Past
<1>7. \A u \in Threads : \A m : Covers(view[u], m)' <=> Covers(view[u], m)
  BY <1>4, <1>5 DEF Covers
<1>8. Past(view[Producer])'
  BY <1>1, <1>2, <1>4, <1>5 DEF IInv, Past
<1>9. \A u \in Threads : Past(view[u])'
  BY <1>5, <1>6, <1>8 DEF IInv
<1>10. DOMAIN mem["tail"] = 1 .. n /\ DOMAIN mem'["tail"] = 1 .. n + 1
  <2>1. mem["tail"] \in Seq(Stores) /\ mem'["tail"] \in Seq(Stores)
    BY <1>1, <1>4 DEF TypeOK
  <2> QED
    BY <1>2, <1>4, <2>1
<1>11. ASSUME NEW x \in Atomics, NEW k \in DOMAIN mem'[x]
       PROVE  mem'[x][k].index = SlotOf(k) /\ Past(mem[x][k].view)'
  <2>1. CASE x = "head" \/ k \in 1 .. n
    <3>1. k \in DOMAIN mem[x] /\ mem'[x][k] = mem[x][k]
      BY <1>4, <1>10, <2>1 DEF Atomics
    <3>2. mem[x][k].index = SlotOf(k) /\ Past(mem[x][k].view)
      BY <3>1 DEF IInv, StoresCarry
    <3> QED
      BY <1>6, <3>1, <3>2
  <2>2. CASE x = "tail" /\ k = n + 1
    BY <1>3, <1>4, <1>8, <2>2
  <2> QED
    BY <1>10, <2>1, <2>2 DEF Atomics
<1>12. ASSUME NEW k \in DOMAIN mem'["tail"]
       PROVE  /\ \A m \in Present' : m < k => Covers(mem["tail"][k].view, m)'
              /\ mem'["tail"][k].view.tail = k
  <2>1. CASE k \in 1 .. n
    <3>1. k \in DOMAIN mem["tail"] /\ mem'["tail"][k] = mem["tail"][k]
      BY <1>4, <1>10, <2>1
    <3>2. /\ \A m \in Present : m < k => Covers(mem["tail"][k].view, m)
          /\ mem["tail"][k].view.tail = k
      BY <3>1 DEF IInv, StoresCarry
    <3> QED
      BY <1>5, <3>1, <3>2, EnqStoreTailRing DEF Covers
  <2>2. CASE k = n + 1
    <3>1. \A m \in Present : Covers(view[Producer], m)
      BY DEF IInv, ProducerInv
    <3>2. \A m \in Present' : Covers(view[Producer], m)'
      BY <1>1, <1>7, <3>1, EnqStoreTailRing
    <3> QED
      BY <1>4, <2>2, <3>2 DEF Covers
  <2> QED
    BY <1>10, <2>1, <2>2
<1>13. ASSUME NEW k \in DOMAIN mem'["head"]
       PROVE  /\ \A m \in Vacant' : m < k + Capacity => Covers(mem["head"][k].view, m)'
              /\ mem'["head"][k].view.head = k
              /\ mem'["head"][k].view.tail >= k
  BY <1>4, <1>5, EnqStoreTailRing DEF IInv, StoresCarry, Covers
<1>14. StoresCarry'
  BY <1>11, <1>12, <1>13 DEF StoresCarry
<1> QED
  BY <1>7, <1>9, <1>14

LEMMA EnqStoreTailInv ==
    ASSUME IInv, EnqStoreTail
    PROVE  IInv'
<1>1. TypeOK /\ Producer \in Threads /\ Consumer \in Threads /\ Producer # Consumer
  BY ThreadAssumption DEF IInv, Threads
<1>2. /\ pc[Producer] = "enq_store_tail" /\ pc' = [pc EXCEPT ![Producer] = "idle"]
      /\ UNCHANGED <<buffer, writes, idx, seen, val, ans>>
      /\ Enqueued + 3 <= view[Producer].head + Capacity
  BY DEF EnqStoreTail, Goto, IInv, ProducerInv
<1>3. Enqueued \in Int /\ Dequeued \in Int /\ Len(mem["tail"]) = Enqueued + 1
      /\ view[Producer].head \in Int
  <2>1. view[Producer] \in Views
    BY <1>1 DEF TypeOK
  <2> QED
    BY <1>1, <2>1, Counts, ViewType
<1>4. /\ view' = [view EXCEPT ![Producer] = view'[Producer]]
      /\ view'[Producer] \in Views
      /\ view'[Producer].tail = Enqueued + 2
      /\ view'[Producer].head = view[Producer].head
      /\ mem'["head"] = mem["head"] /\ Len(mem'["tail"]) = Enqueued + 2
      /\ mem' \in [Atomics -> Seq(Stores)]
  BY <1>1, <1>3, EnqStoreTailRing, ReleaseStoreTail
<1>5. /\ pc'[Producer] = "idle" /\ \A u \in Threads \ {Producer} : pc'[u] = pc[u]
      /\ \A u \in Threads \ {Producer} : view'[u] = view[u]
  BY <1>1, <1>2, <1>4 DEF TypeOK
<1>6. TypeOK'
  BY <1>1, <1>2, <1>4 DEF TypeOK, Labels
<1>7. SlotsHoldPresent'
  BY <1>2, EnqStoreTailRing DEF IInv, SlotsHoldPresent
<1>8. Dequeued' \in 0 .. Enqueued' /\ Enqueued' < Dequeued' + Capacity
  BY <1>2, <1>3, EnqStoreTailRing, RoomWhenFilling, CapacityAssumption DEF IInv
<1>9. ProducerInv'
  <2>1. \A m \in Present' : Covers(view[Producer], m)'
    BY <1>1, EnqStoreTailRing, EnqStoreTailStores DEF IInv, ProducerInv
  <2>2. Enqueued' + 2 <= view'[Producer].head + Capacity
    BY <1>2, <1>3, <1>4, EnqStoreTailRing, CapacityAssumption
  <2> QED
    BY <1>4, <1>5, <2>1, <2>2 DEF ProducerInv
<1>10. ConsumerInv'
  <2>1. \A m \in Vacant' : Covers(view[Consumer], m)'
    BY <1>1, EnqStoreTailRing, EnqStoreTailStores DEF IInv, ConsumerInv
  <2>2. pc[Consumer] \in {"deq_check", "deq_copy", "deq_reset"} =>
            Covers(view[Consumer], Dequeued + 1)'
    <3>1. PICK d : d = Dequeued + 1
      OBVIOUS
    <3>2. pc[Consumer] \in {"deq_check", "deq_copy", "deq_reset"} =>
              Covers(view[Consumer], d)'
      BY <1>1, <3>1, EnqStoreTailStores DEF IInv, ConsumerInv
    <3>3. d = Dequeued' + 1
      BY <3>1, EnqStoreTailRing
    <3> QED
      BY <3>2, <3>3
  <2> QED
    BY <1>1, <1>2, <1>4, <1>5, <2>1, <2>2, EnqStoreTailRing DEF IInv, ConsumerInv
<1>11. \A u \in Threads : ReadInv(u)'
  BY <1>1, <1>2, <1>4, <1>5, EnqStoreTailRing DEF IInv, ReadInv
<1>12. OwnerQueries'
  <2>1. ans[Consumer] \in Int
    BY <1>1 DEF TypeOK, Slots
  <2> QED
    BY <1>1, <1>2, <1>3, <1>5, <2>1, EnqStoreTailRing DEF IInv, OwnerQueries
<1> QED
  BY <1>6, <1>7, <1>8, <1>9, <1>10, <1>11, <1>12, EnqStoreTailStores DEF IInv

\* The consumer releases the slot that it has emptied.
LEMMA DeqStoreHeadRing ==
    ASSUME IInv, DeqStoreHead
    PROVE  /\ Enqueued' = Enqueued /\ Dequeued' = Dequeued + 1
           /\ Present' = Present /\ Vacant' = Vacant
           /\ ReleaseStore(Consumer, "head", SlotOf(Dequeued + 2))
           /\ SlotOf(Dequeued + 2) \in Slots
           /\ Dequeued < Enqueued
<1>1. TypeOK /\ Producer \in Threads /\ Consumer \in Threads /\ Producer # Consumer
  BY ThreadAssumption DEF IInv, Threads
<1>2. Enqueued \in Int /\ Dequeued \in Int /\ Len(mem["head"]) = Dequeued + 1
  BY <1>1, Counts
<1>3. idx[Consumer] = SlotOf(Dequeued + 1) /\ pc[Consumer] = "deq_store_head"
      /\ pc' = [pc EXCEPT ![Consumer] = "idle"]
      /\ view[Consumer].tail > Dequeued + 1
  BY DEF IInv, ConsumerInv, DeqStoreHead, Goto
<1>4. Succ(idx[Consumer]) = SlotOf(Dequeued + 2) /\ SlotOf(Dequeued + 2) \in Slots
  <2>1. Succ(SlotOf(Dequeued + 1)) = SlotOf((Dequeued + 1) + 1)
    BY <1>2, SuccIsNext
  <2>2. (Dequeued + 1) + 1 = Dequeued + 2
    BY <1>2
  <2> QED
    BY <1>2, <1>3, <2>1, <2>2, SlotOfInSlots
<1>5. ReleaseStore(Consumer, "head", SlotOf(Dequeued + 2))
  BY <1>4 DEF DeqStoreHead
<1>6. Enqueued' = Enqueued /\ Dequeued' = Dequeued + 1
  <2>1. Len(mem'["head"]) = Len(mem["head"]) + 1 /\ mem'["tail"] = mem["tail"]
    BY <1>1, <1>4, <1>5, ReleaseStoreHead
  <2> QED
    BY <1>2, <2>1 DEF Enqueued, Dequeued
<1>7. pc'[Consumer] = "idle" /\ pc'[Producer] = pc[Producer]
  BY <1>1, <1>3 DEF TypeOK
<1>8. Present' = Present /\ Vacant' = Vacant
  BY <1>2, <1>3, <1>6, <1>7 DEF Present, Vacant
<1>9. Dequeued < Enqueued
  <2>1. view[Consumer].tail <= Enqueued + 1 /\ view[Consumer].tail \in Int
    BY <1>1, Counts DEF IInv, Past
  <2> QED
    BY <1>2, <1>3, <2>1
<1> QED
  BY <1>4, <1>5, <1>6, <1>8, <1>9

LEMMA DeqStoreHeadStores ==
    ASSUME IInv, DeqStoreHead
    PROVE  /\ \A u \in Threads : Past(view[u])'
           /\ StoresCarry'
           /\ \A u \in Threads : \A m : Covers(view[u], m)' <=> Covers(view[u], m)
<1>1. TypeOK /\ Consumer \in Threads /\ "head" \in Atomics /\ "tail" \in Atomics
  BY DEF IInv, Threads, Atomics
<1>2. PICK n \in Nat : n = Len(mem["head"]) /\ n = Dequeued + 1
  BY <1>1, Counts
<1>3. PICK i \in Slots : i = SlotOf(n + 1) /\ ReleaseStore(Consumer, "head", i)
  BY <1>1, <1>2, Counts, DeqStoreHeadRing
<1>4. /\ view' = [view EXCEPT ![Consumer] = view'[Consumer]]
      /\ view'[Consumer] \in Views
      /\ view'[Consumer].head = n + 1 /\ view'[Consumer].tail = view[Consumer].tail
      /\ view'[Consumer].slot = view[Consumer].slot
      /\ mem'["tail"] = mem["tail"] /\ Len(mem'["head"]) = n + 1
      /\ mem' \in [Atomics -> Seq(Stores)]
      /\ \A k \in 1 .. n : mem'["head"][k] = mem["head"][k]
      /\ mem'["head"][n + 1].index = i
      /\ mem'["head"][n + 1].view = view'[Consumer]
  BY <1>1, <1>2, <1>3, ReleaseStoreHead
<1>5. writes' = writes /\ \A u \in Threads \ {Consumer} : view'[u] = view[u]
  BY <1>1, <1>4 DEF DeqStoreHead, TypeOK
<1>6. \A w : Past(w) => Past(w)'
  BY <1>2, <1>4, <1>5 DEF Past
<1>7. \A u \in Threads : \A m : Covers(view[u], m)' <=> Covers(view[u], m)
  BY <1>4, <1>5 DEF Covers
<1>8. Past(view[Consumer])'
  BY <1>1, <1>2, <1>4, <1>5 DEF IInv, Past
<1>9. \A u \in Threads : Past(view[u])'
  BY <1>5, <1>6, <1>8 DEF IInv
<1>10. DOMAIN mem["head"] = 1 .. n /\ DOMAIN mem'["head"] = 1 .. n + 1
  <2>1. mem["head"] \in Seq(Stores) /\ mem'["head"] \in Seq(Stores)
    BY <1>1, <1>4 DEF TypeOK
  <2>2. Len(mem["head"]) = n /\ Len(mem'["head"]) = n + 1
    BY <1>2, <1>4
  <2> QED
    BY <2>1, <2>2
<1>11. ASSUME NEW x \in Atomics, NEW k \in DOMAIN mem'[x]
       PROVE  mem'[x][k].index = SlotOf(k) /\ Past(mem[x][k].view)'
  <2>1. CASE x = "tail" \/ k \in 1 .. n
    <3>1. k \in DOMAIN mem[x] /\ mem'[x][k] = mem[x][k]
      BY <1>4, <1>10, <2>1 DEF Atomics
    <3>2. mem[x][k].index = SlotOf(k) /\ Past(mem[x][k].view)
      BY <3>1 DEF IInv, StoresCarry
    <3> QED
      BY <1>6, <3>1, <3>2
  <2>2. CASE x = "head" /\ k = n + 1
    BY <1>3, <1>4, <1>8, <2>2
  <2> QED
    BY <1>10, <2>1, <2>2 DEF Atomics
<1>12. ASSUME NEW k \in DOMAIN mem'["head"]
       PROVE  /\ \A m \in Vacant' : m < k + Capacity => Covers(mem["head"][k].view, m)'
              /\ mem'["head"][k].view.head = k
              /\ mem'["head"][k].view.tail >= k
  <2>1. CASE k \in 1 .. n
    <3>1. k \in DOMAIN mem["head"] /\ mem'["head"][k] = mem["head"][k]
      BY <1>4, <1>10, <2>1
    <3>2. /\ \A m \in Vacant : m < k + Capacity => Covers(mem["head"][k].view, m)
          /\ mem["head"][k].view.head = k /\ mem["head"][k].view.tail >= k
      BY <3>1 DEF IInv, StoresCarry
    <3> QED
      BY <1>5, <3>1, <3>2, DeqStoreHeadRing DEF Covers
  <2>2. CASE k = n + 1
    <3>1. /\ \A m \in Vacant : Covers(view[Consumer], m)
          /\ view[Consumer].tail > Dequeued + 1
      BY DEF IInv, ConsumerInv, DeqStoreHead, Goto
    <3>2. \A m \in Vacant' : Covers(view[Consumer], m)'
      BY <1>1, <1>7, <3>1, DeqStoreHeadRing
    <3>3. view[Consumer].tail >= k
      <4>1. view[Consumer].tail \in Int
        BY <1>1 DEF TypeOK, Views
      <4> QED
        BY <1>2, <2>2, <3>1, <4>1
    <3> QED
      BY <1>4, <2>2, <3>2, <3>3 DEF Covers
  <2> QED
    BY <1>10, <2>1, <2>2
<1>13. ASSUME NEW k \in DOMAIN mem'["tail"]
       PROVE  /\ \A m \in Present' : m < k => Covers(mem["tail"][k].view, m)'
              /\ mem'["tail"][k].view.tail = k
  BY <1>4, <1>5, DeqStoreHeadRing DEF IInv, StoresCarry, Covers
<1>14. StoresCarry'
  BY <1>11, <1>12, <1>13 DEF StoresCarry
<1> QED
  BY <1>7, <1>9, <1>14

LEMMA DeqStoreHeadInv ==
    ASSUME IInv, DeqStoreHead
    PROVE  IInv'
<1>1. TypeOK /\ Producer \in Threads /\ Consumer \in Threads /\ Producer # Consumer
  BY ThreadAssumption DEF IInv, Threads
<1>2. /\ pc[Consumer] = "deq_store_head" /\ pc' = [pc EXCEPT ![Consumer] = "idle"]
      /\ UNCHANGED <<buffer, writes, idx, seen, val, ans>>
      /\ view[Consumer].tail > Dequeued + 1
  BY DEF DeqStoreHead, Goto, IInv, ConsumerInv
<1>3. Enqueued \in Int /\ Dequeued \in Int /\ Len(mem["head"]) = Dequeued + 1
      /\ view[Consumer].tail \in Int
  <2>1. view[Consumer] \in Views
    BY <1>1 DEF TypeOK
  <2> QED
    BY <1>1, <2>1, Counts, ViewType
<1>4. /\ view' = [view EXCEPT ![Consumer] = view'[Consumer]]
      /\ view'[Consumer] \in Views
      /\ view'[Consumer].head = Dequeued + 2
      /\ view'[Consumer].tail = view[Consumer].tail
      /\ mem'["tail"] = mem["tail"] /\ Len(mem'["head"]) = Dequeued + 2
      /\ mem' \in [Atomics -> Seq(Stores)]
  BY <1>1, <1>3, DeqStoreHeadRing, ReleaseStoreHead
<1>5. /\ pc'[Consumer] = "idle" /\ \A u \in Threads \ {Consumer} : pc'[u] = pc[u]
      /\ \A u \in Threads \ {Consumer} : view'[u] = view[u]
  BY <1>1, <1>2, <1>4 DEF TypeOK
<1>6. TypeOK'
  BY <1>1, <1>2, <1>4 DEF TypeOK, Labels
<1>7. SlotsHoldPresent'
  BY <1>2, DeqStoreHeadRing DEF IInv, SlotsHoldPresent
<1>8. Dequeued' \in 0 .. Enqueued' /\ Enqueued' < Dequeued' + Capacity
  BY <1>3, DeqStoreHeadRing, CapacityAssumption DEF IInv
<1>9. ConsumerInv'
  <2>1. \A m \in Vacant' : Covers(view[Consumer], m)'
    BY <1>1, DeqStoreHeadRing, DeqStoreHeadStores DEF IInv, ConsumerInv
  <2> QED
    BY <1>2, <1>4, <1>5, <2>1, DeqStoreHeadRing DEF ConsumerInv
<1>10. ProducerInv'
  <2>1. \A m \in Present' : Covers(view[Producer], m)'
    BY <1>1, DeqStoreHeadRing, DeqStoreHeadStores DEF IInv, ProducerInv
  <2>2. pc[Producer] = "enq_write" => Covers(view[Producer], Enqueued + 1)'
    <3>1. PICK d : d = Enqueued + 1
      OBVIOUS
    <3>2. pc[Producer] = "enq_write" => Covers(view[Producer], d)'
      BY <1>1, <3>1, DeqStoreHeadStores DEF IInv, ProducerInv
    <3>3. d = Enqueued' + 1
      BY <3>1, DeqStoreHeadRing
    <3> QED
      BY <3>2, <3>3
  <2> QED
    BY <1>1, <1>2, <1>4, <1>5, <2>1, <2>2, DeqStoreHeadRing DEF IInv, ProducerInv
<1>11. \A u \in Threads : ReadInv(u)'
  BY <1>1, <1>2, <1>4, <1>5, DeqStoreHeadRing DEF IInv, ReadInv
<1>12. OwnerQueries'
  <2>1. ans[Producer] \in Int
    BY <1>1 DEF TypeOK, Slots
  <2> QED
    BY <1>1, <1>2, <1>3, <1>5, <2>1, DeqStoreHeadRing DEF IInv, OwnerQueries
<1> QED
  BY <1>6, <1>7, <1>8, <1>9, <1>10, <1>11, <1>12, DeqStoreHeadStores DEF IInv

-----------------------------------------------------------------------------
(* count() and is_empty().                                                 *)

QueryLabels == {"idle", "cnt_load_tail", "cnt_done", "emp_load_head",
                "emp_load_tail", "emp_done"}

LEMMA QuerySameEnds ==
    ASSUME IInv, NEW t \in Threads, OthersStay(t), pc' \in [Threads -> Labels],
           pc[t] \in QueryLabels, pc'[t] \in QueryLabels
    PROVE  SameEnds
  BY LookSameEnds DEF OthersStay, QueryLabels

\* A step of count() or is_empty(): what is left to show of it.
LEMMA QueryLooks ==
    ASSUME IInv, TypeOK', NEW t \in Threads, Look(t), OthersStay(t), val' = val,
           pc[t] \in QueryLabels, pc'[t] \in QueryLabels,
           ReadInv(t)',
           OwnerQueries' \/ pc'[t] \notin {"cnt_done", "emp_done"}
    PROVE  IInv'
<1>1. Producer \in Threads /\ Consumer \in Threads
  BY DEF Threads
<1>2. SameEnds
  BY QuerySameEnds DEF TypeOK
<1>3. ProducerInv'
  <2>1. CASE t = Producer
    BY <1>2, <2>1, LookKeepsProducer DEF QueryLabels
  <2>2. CASE t # Producer
    BY <1>1, <1>2, <2>2, LookKeepsProducer DEF OthersStay
  <2> QED
    BY <2>1, <2>2
<1>4. ConsumerInv'
  <2>1. CASE t = Consumer
    BY <1>2, <2>1, LookKeepsConsumer DEF QueryLabels
  <2>2. CASE t # Consumer
    BY <1>1, <1>2, <2>2, LookKeepsConsumer DEF OthersStay
  <2> QED
    BY <2>1, <2>2
<1>5. OwnerQueries'
  <2>1. CASE pc'[t] \notin {"cnt_done", "emp_done"}
    BY <1>1, <1>2, <2>1, LookKeepsAnswers DEF OthersStay
  <2> QED
    BY <2>1
<1> QED
  BY <1>2, <1>3, <1>4, <1>5, LookInv

\* What the owners of the ends know of an index that they may read: the producer,
\* that the ring has not wrapped past it; the consumer, that it is its own.
LEMMA ReadableHead ==
    ASSUME IInv, NEW t \in Threads, NEW k \in 1 .. Len(mem["head"]),
           view[t].head <= k
    PROVE  /\ t = Producer => Enqueued + 2 <= k + Capacity
           /\ t = Consumer => k = Len(mem["head"])
<1>1. Enqueued \in Int /\ Len(mem["head"]) \in Int /\ view[t].head \in Int
  <2>1. view[t] \in Views /\ TypeOK
    BY DEF IInv, TypeOK
  <2> QED
    BY <2>1, Counts, ViewType
<1>2. t = Producer => Enqueued + 2 <= view[t].head + Capacity
  BY DEF IInv, ProducerInv
<1>3. t = Consumer => view[t].head = Len(mem["head"])
  BY DEF IInv, ConsumerInv
<1> QED
  BY <1>1, <1>2, <1>3, CapacityAssumption

LEMMA ReadableTail ==
    ASSUME IInv, NEW t \in Threads, NEW k \in 1 .. Len(mem["tail"]),
           view[t].tail <= k
    PROVE  /\ t = Producer => k = Len(mem["tail"])
           /\ t = Consumer => k > Dequeued
<1>1. Dequeued \in Int /\ Len(mem["tail"]) \in Int /\ view[t].tail \in Int
  <2>1. view[t] \in Views /\ TypeOK
    BY DEF IInv, TypeOK
  <2> QED
    BY <2>1, Counts, ViewType
<1>2. t = Producer => view[t].tail = Len(mem["tail"])
  BY DEF IInv, ProducerInv
<1>3. t = Consumer => view[t].tail > Dequeued
  BY DEF IInv, ConsumerInv
<1> QED
  BY <1>1, <1>2, <1>3

\* The first load of count() or is_empty() is of head_.
LEMMA HeadFirst ==
    ASSUME IInv, NEW t \in Threads, NEW k \in 1 .. Len(mem["head"]), Look(t), SameEnds,
           view[t].head <= k, k <= view'[t].head,
           pc'[t] \in {"cnt_load_tail", "emp_load_tail"},
           pc'[t] = "cnt_load_tail" => k <= view'[t].tail,
           idx'[t] = SlotOf(k), seen'[t] = k
    PROVE  ReadInv(t)'
<1>1. view'[t].tail \in Int /\ view'[t].head \in Int
  BY ViewType DEF Look
<1>2. mem' = mem /\ Enqueued' = Enqueued
  BY LookKeepsRing DEF Look, memory
<1> QED
  BY <1>1, <1>2, ReadableHead DEF ReadInv

\* The first load of is_empty() is of tail_.
LEMMA TailFirst ==
    ASSUME IInv, NEW t \in Threads, NEW k \in 1 .. Len(mem["tail"]), Look(t), SameEnds,
           view[t].tail <= k, k <= view'[t].tail,
           pc'[t] = "emp_load_head", idx'[t] = SlotOf(k), seen'[t] = k
    PROVE  ReadInv(t)'
<1>1. view'[t].tail \in Int
  BY ViewType DEF Look
<1>2. mem' = mem /\ Dequeued' = Dequeued
  BY LookKeepsRing DEF Look, memory
<1> QED
  BY <1>1, <1>2, ReadableTail DEF ReadInv

LEMMA CntLoadHeadInv ==
    ASSUME IInv, NEW t \in Threads, CntLoadHead(t)
    PROVE  IInv'
<1>1. TypeOK /\ "head" \in Atomics
  BY DEF IInv, Atomics
<1>2. PICK k \in 1 .. Len(mem["head"]) :
          AcquireLoad(t, "head", k) /\ Keep(t, "head", k)
  BY DEF CntLoadHead
<1> DEFINE c == mem["head"][k].view
           w == view'[t]
<1>3. Look(t) /\ Grew(c, w) /\ view[t].head <= k
  BY <1>1, <1>2, AcquireLoadLooks DEF CntLoadHead, Views
<1>4. c \in Views /\ mem["head"][k].index = SlotOf(k) /\ c.head = k /\ c.tail >= k
  <2>1. DOMAIN mem["head"] = 1 .. Len(mem["head"])
    BY <1>1 DEF TypeOK
  <2> QED
    BY <1>1, <2>1, StoreType, StoresOfThePast DEF IInv, StoresCarry
<1>5. k <= w.head /\ k <= w.tail
  <2>1. w \in Views
    BY <1>3 DEF Look
  <2> HIDE DEF c, w
  <2> QED
    BY <1>3, <1>4, <2>1, ViewType DEF Grew
<1>6. /\ pc[t] = "idle" /\ pc' = [pc EXCEPT ![t] = "cnt_load_tail"]
      /\ val' = val /\ ans' = ans
  BY DEF CntLoadHead, Goto
<1>7. /\ idx' = [idx EXCEPT ![t] = SlotOf(k)] /\ seen' = [seen EXCEPT ![t] = k]
      /\ SlotOf(k) \in Slots
  BY <1>2, <1>4, SlotOfInSlots DEF Keep
<1>8. /\ pc'[t] = "cnt_load_tail" /\ idx'[t] = SlotOf(k) /\ seen'[t] = k
      /\ OthersStay(t) /\ pc' \in [Threads -> Labels]
  BY <1>1, <1>6, <1>7 DEF TypeOK, Labels, OthersStay
<1>9. pc[t] \in QueryLabels /\ pc'[t] \in QueryLabels
  BY <1>6, <1>8 DEF QueryLabels
<1>10. TypeOK'
  <2>1. /\ idx' \in [Threads -> Slots] /\ seen' \in [Threads -> Nat]
        /\ val' \in 0 .. MaxItems /\ ans' \in [Threads -> Slots \cup {1}]
    BY <1>1, <1>6, <1>7 DEF TypeOK
  <2> QED
    BY <1>1, <1>3, <1>8, <2>1, LookType
<1>11. ReadInv(t)'
  <2>1. SameEnds
    BY <1>8, <1>9, QuerySameEnds
  <2> QED
    BY <1>3, <1>5, <1>8, <2>1, HeadFirst
<1> QED
  BY <1>3, <1>6, <1>8, <1>9, <1>10, <1>11, QueryLooks

LEMMA EmpLoadHeadFirstInv ==
    ASSUME IInv, NEW t \in Threads, Goto(t, "idle", "emp_load_tail"),
           NEW k \in 1 .. Len(mem["head"]),
           RelaxedLoad(t, "head", k), Keep(t, "head", k),
           UNCHANGED <<memory, val, ans>>
    PROVE  IInv'
<1>1. TypeOK /\ "head" \in Atomics
  BY DEF IInv, Atomics
<1>2. Look(t) /\ view'[t].head = k /\ view[t].head <= k
  BY <1>1, RelaxedLoadLooks
<1>3. /\ pc[t] = "idle" /\ pc' = [pc EXCEPT ![t] = "emp_load_tail"]
      /\ val' = val /\ ans' = ans
  BY DEF Goto
<1>4. /\ idx' = [idx EXCEPT ![t] = SlotOf(k)] /\ seen' = [seen EXCEPT ![t] = k]
      /\ SlotOf(k) \in Slots
  <2>1. mem["head"][k].index = SlotOf(k)
    BY <1>1, StoresOfThePast
  <2> QED
    BY <2>1, SlotOfInSlots DEF Keep
<1>5. /\ pc'[t] = "emp_load_tail" /\ idx'[t] = SlotOf(k) /\ seen'[t] = k
      /\ OthersStay(t) /\ pc' \in [Threads -> Labels]
  BY <1>1, <1>3, <1>4 DEF TypeOK, Labels, OthersStay
<1>6. pc[t] \in QueryLabels /\ pc'[t] \in QueryLabels
  BY <1>3, <1>5 DEF QueryLabels
<1>7. TypeOK'
  <2>1. /\ idx' \in [Threads -> Slots] /\ seen' \in [Threads -> Nat]
        /\ val' \in 0 .. MaxItems /\ ans' \in [Threads -> Slots \cup {1}]
    BY <1>1, <1>3, <1>4 DEF TypeOK
  <2> QED
    BY <1>1, <1>2, <1>5, <2>1, LookType
<1>8. ReadInv(t)'
  <2>1. SameEnds
    BY <1>5, <1>6, QuerySameEnds
  <2>2. k <= view'[t].head
    BY <1>2
  <2> QED
    BY <1>2, <1>5, <2>1, <2>2, HeadFirst
<1> QED
  BY <1>2, <1>3, <1>5, <1>6, <1>7, <1>8, QueryLooks

LEMMA EmpLoadTailFirstInv ==
    ASSUME IInv, NEW t \in Threads, Goto(t, "idle", "emp_load_head"),
           NEW k \in 1 .. Len(mem["tail"]),
           AcquireLoad(t, "tail", k), Keep(t, "tail", k),
           UNCHANGED <<memory, val, ans>>
    PROVE  IInv'
<1>1. TypeOK /\ "tail" \in Atomics
  BY DEF IInv, Atomics
<1> DEFINE c == mem["tail"][k].view
           w == view'[t]
<1>2. Look(t) /\ Grew(c, w) /\ view[t].tail <= k
  BY <1>1, AcquireLoadLooks DEF Views
<1>3. c \in Views /\ mem["tail"][k].index = SlotOf(k) /\ c.tail = k
  <2>1. DOMAIN mem["tail"] = 1 .. Len(mem["tail"])
    BY <1>1 DEF TypeOK
  <2> QED
    BY <1>1, <2>1, StoreType, StoresOfThePast DEF IInv, StoresCarry
<1>4. k <= w.tail
  <2>1. w \in Views
    BY <1>2 DEF Look
  <2> HIDE DEF c, w
  <2> QED
    BY <1>2, <1>3, <2>1, ViewType DEF Grew
<1>5. /\ pc[t] = "idle" /\ pc' = [pc EXCEPT ![t] = "emp_load_head"]
      /\ val' = val /\ ans' = ans
  BY DEF Goto
<1>6. /\ idx' = [idx EXCEPT ![t] = SlotOf(k)] /\ seen' = [seen EXCEPT ![t] = k]
      /\ SlotOf(k) \in Slots
  BY <1>3, SlotOfInSlots DEF Keep
<1>7. /\ pc'[t] = "emp_load_head" /\ idx'[t] = SlotOf(k) /\ seen'[t] = k
      /\ OthersStay(t) /\ pc' \in [Threads -> Labels]
  BY <1>1, <1>5, <1>6 DEF TypeOK, Labels, OthersStay
<1>8. pc[t] \in QueryLabels /\ pc'[t] \in QueryLabels
  BY <1>5, <1>7 DEF QueryLabels
<1>9. TypeOK'
  <2>1. /\ idx' \in [Threads -> Slots] /\ seen' \in [Threads -> Nat]
        /\ val' \in 0 .. MaxItems /\ ans' \in [Threads -> Slots \cup {1}]
    BY <1>1, <1>5, <1>6 DEF TypeOK
  <2> QED
    BY <1>1, <1>2, <1>7, <2>1, LookType
<1>10. ReadInv(t)'
  <2>1. SameEnds
    BY <1>7, <1>8, QuerySameEnds
  <2> QED
    BY <1>2, <1>4, <1>7, <2>1, TailFirst
<1> QED
  BY <1>2, <1>5, <1>7, <1>8, <1>9, <1>10, QueryLooks

LEMMA EmpLoadFirstInv ==
    ASSUME IInv, NEW t \in Threads, EmpLoadFirst(t)
    PROVE  IInv'
  BY EmpLoadHeadFirstInv, EmpLoadTailFirstInv DEF EmpLoadFirst

\* The second load decides the answer: when that of an owner is right.
LEMMA AnswerLooks ==
    ASSUME IInv, TypeOK', NEW t \in Threads, Look(t), OthersStay(t), val' = val,
           pc[t] \in QueryLabels, pc'[t] \in {"cnt_done", "emp_done"},
           t = Producer /\ pc'[t] = "cnt_done" => ans'[t] >= Enqueued - Dequeued,
           t = Consumer /\ pc'[t] = "cnt_done" => ans'[t] <= Enqueued - Dequeued,
           t = Producer /\ pc'[t] = "emp_done" /\ ans'[t] = 1 => Enqueued = Dequeued,
           t = Consumer /\ pc'[t] = "emp_done" /\ ans'[t] = 0 => Enqueued > Dequeued
    PROVE  IInv'
<1>1. Producer \in Threads /\ Consumer \in Threads /\ Producer # Consumer
      /\ pc'[t] \in QueryLabels /\ TypeOK
  BY ThreadAssumption DEF Threads, QueryLabels, IInv
<1>2. SameEnds
  BY <1>1, QuerySameEnds DEF TypeOK
<1>3. Enqueued' = Enqueued /\ Dequeued' = Dequeued
  BY <1>2, LookKeepsRing
<1>4. Enqueued \in Int /\ Dequeued \in Int
  BY <1>1, Counts
<1>5. /\ pc'[Producer] = "cnt_done" => ans'[Producer] >= Enqueued - Dequeued
      /\ pc'[Producer] = "emp_done" /\ ans'[Producer] = 1 => Enqueued - Dequeued = 0
  BY <1>1, <1>4 DEF IInv, OwnerQueries, OthersStay
<1>6. /\ pc'[Consumer] = "cnt_done" => ans'[Consumer] <= Enqueued - Dequeued
      /\ pc'[Consumer] = "emp_done" /\ ans'[Consumer] = 0 => Enqueued - Dequeued > 0
  BY <1>1, <1>4 DEF IInv, OwnerQueries, OthersStay
<1>7. OwnerQueries'
  BY <1>3, <1>5, <1>6 DEF OwnerQueries
<1>8. ReadInv(t)'
  BY DEF ReadInv
<1> QED
  BY <1>1, <1>7, <1>8, QueryLooks

\* The two indices that an owner compares, as stores of the two atomics.
LEMMA OwnerCompares ==
    ASSUME IInv, NEW t \in Threads, NEW k \in 1 .. Len(mem["tail"]),
           view[t].tail <= k, pc[t] \in {"cnt_load_tail", "emp_load_tail"}
    PROVE  /\ seen[t] \in Int /\ idx[t] = SlotOf(seen[t])
           /\ t = Producer => /\ k = Enqueued + 1 /\ seen[t] <= Dequeued + 1
                              /\ Enqueued + 1 < seen[t] + Capacity
           /\ t = Consumer => /\ seen[t] = Dequeued + 1
                              /\ Dequeued < k /\ k <= Enqueued + 1
<1>1. TypeOK /\ view[t] \in Views /\ Past(view[t])
  BY DEF IInv, TypeOK
<1>2. /\ seen[t] \in 1 .. view[t].head /\ idx[t] = SlotOf(seen[t])
      /\ t = Producer => Enqueued + 2 <= seen[t] + Capacity
      /\ t = Consumer => seen[t] = Len(mem["head"])
  BY DEF IInv, ReadInv
<1>3. Enqueued \in Int /\ Dequeued \in Int /\ Len(mem["head"]) = Dequeued + 1
      /\ Len(mem["tail"]) = Enqueued + 1
  BY <1>1, Counts
<1>4. view[t].head \in Int /\ view[t].head <= Dequeued + 1
  BY <1>1, <1>3, ViewType DEF Past
<1>5. seen[t] \in Int /\ seen[t] <= Dequeued + 1
  BY <1>2, <1>3, <1>4
<1>6. t = Producer => k = Enqueued + 1 /\ Enqueued + 1 < seen[t] + Capacity
  BY <1>2, <1>3, <1>5, ReadableTail, CapacityAssumption
<1>7. t = Consumer => seen[t] = Dequeued + 1 /\ Dequeued < k /\ k <= Enqueued + 1
  BY <1>2, <1>3, ReadableTail
<1> QED
  BY <1>2, <1>5, <1>6, <1>7

LEMMA CntLoadTailInv ==
    ASSUME IInv, NEW t \in Threads, CntLoadTail(t)
    PROVE  IInv'
<1>1. TypeOK /\ "tail" \in Atomics
  BY DEF IInv, Atomics
<1>2. PICK k \in 1 .. Len(mem["tail"]) :
          /\ Goto(t, "cnt_load_tail", "cnt_done")
          /\ AcquireLoad(t, "tail", k)
          /\ ans' = [ans EXCEPT ![t] = CountOf(idx[t], mem["tail"][k].index)]
          /\ UNCHANGED <<memory, idx, seen, val>>
  BY DEF CntLoadTail
<1>3. Look(t) /\ view[t].tail <= k
  BY <1>1, <1>2, AcquireLoadLooks DEF Views
<1>4. mem["tail"][k].index = SlotOf(k) /\ SlotOf(k) \in Slots
  BY <1>1, StoresOfThePast, SlotOfInSlots
<1> DEFINE a == CountOf(idx[t], SlotOf(k))
<1>5. a \in Slots
  BY <1>1, <1>4, CountInSlots DEF TypeOK
<1>6. pc[t] = "cnt_load_tail" /\ pc' = [pc EXCEPT ![t] = "cnt_done"]
      /\ ans' = [ans EXCEPT ![t] = a]
  BY <1>2, <1>4 DEF Goto
<1> HIDE DEF a
<1>7. /\ pc'[t] = "cnt_done" /\ ans'[t] = a /\ pc' \in [Threads -> Labels]
      /\ ans' \in [Threads -> Slots \cup {1}]
      /\ OthersStay(t)
  BY <1>1, <1>2, <1>5, <1>6 DEF TypeOK, Labels, OthersStay
<1>8. TypeOK'
  <2>1. /\ idx' \in [Threads -> Slots] /\ seen' \in [Threads -> Nat]
        /\ val' \in 0 .. MaxItems
    BY <1>1, <1>2 DEF TypeOK
  <2> QED
    BY <1>1, <1>3, <1>7, <2>1, LookType
<1>9. Enqueued \in Int /\ Dequeued \in Int /\ Dequeued <= Enqueued
      /\ Enqueued < Dequeued + Capacity
  BY <1>1, Counts DEF IInv
<1>10. t = Producer => a >= Enqueued - Dequeued
  <2> SUFFICES ASSUME t = Producer PROVE a >= Enqueued - Dequeued
    OBVIOUS
  <2>1. /\ seen[t] \in Int /\ idx[t] = SlotOf(seen[t]) /\ k = Enqueued + 1
        /\ seen[t] <= Dequeued + 1 /\ Enqueued + 1 < seen[t] + Capacity
    BY <1>3, <1>6, OwnerCompares
  <2>2. a = k - seen[t]
    BY <1>9, <2>1, CountIsDifference DEF a
  <2> QED
    BY <1>9, <2>1, <2>2
<1>11. t = Consumer => a <= Enqueued - Dequeued
  <2> SUFFICES ASSUME t = Consumer PROVE a <= Enqueued - Dequeued
    OBVIOUS
  <2>1. /\ seen[t] \in Int /\ idx[t] = SlotOf(seen[t]) /\ seen[t] = Dequeued + 1
        /\ Dequeued < k /\ k <= Enqueued + 1
    BY <1>3, <1>6, OwnerCompares
  <2>2. a = k - seen[t]
    BY <1>9, <2>1, CountIsDifference, CapacityAssumption DEF a
  <2> QED
    BY <1>9, <2>1, <2>2
<1>12. pc[t] \in QueryLabels /\ val' = val
  BY <1>2, <1>6 DEF QueryLabels
<1> QED
  BY <1>3, <1>7, <1>8, <1>10, <1>11, <1>12, AnswerLooks

\* is_empty() has read head_ first.
LEMMA EmpLoadTailSecondInv ==
    ASSUME IInv, NEW t \in Threads, Goto(t, "emp_load_tail", "emp_done"),
           NEW k \in 1 .. Len(mem["tail"]), AcquireLoad(t, "tail", k),
           ans' = [ans EXCEPT ![t] = SameIndex(t, "tail", k)],
           UNCHANGED <<memory, idx, seen, val>>
    PROVE  IInv'
<1>1. TypeOK /\ "tail" \in Atomics
  BY DEF IInv, Atomics
<1>2. Look(t) /\ view[t].tail <= k
  BY <1>1, AcquireLoadLooks DEF Views
<1>3. mem["tail"][k].index = SlotOf(k)
  BY <1>1, StoresOfThePast
<1> DEFINE a == IF idx[t] = SlotOf(k) THEN 1 ELSE 0
<1>4. a \in Slots \cup {1}
  BY CapacityAssumption DEF Slots
<1>5. pc[t] = "emp_load_tail" /\ pc' = [pc EXCEPT ![t] = "emp_done"]
      /\ ans' = [ans EXCEPT ![t] = a]
  BY <1>3 DEF Goto, SameIndex
<1> HIDE DEF a
<1>6. /\ pc'[t] = "emp_done" /\ ans'[t] = a /\ pc' \in [Threads -> Labels]
      /\ ans' \in [Threads -> Slots \cup {1}]
      /\ OthersStay(t)
  BY <1>1, <1>4, <1>5 DEF TypeOK, Labels, OthersStay
<1>7. TypeOK'
  <2>1. /\ idx' \in [Threads -> Slots] /\ seen' \in [Threads -> Nat]
        /\ val' \in 0 .. MaxItems
    BY <1>1 DEF TypeOK
  <2> QED
    BY <1>1, <1>2, <1>6, <2>1, LookType
<1>8. Enqueued \in Int /\ Dequeued \in Int /\ Dequeued <= Enqueued
  BY <1>1, Counts DEF IInv
<1>9. t = Producer /\ a = 1 => Enqueued = Dequeued
  <2> SUFFICES ASSUME t = Producer, a = 1 PROVE Enqueued = Dequeued
    OBVIOUS
  <2>1. /\ seen[t] \in Int /\ idx[t] = SlotOf(seen[t]) /\ k = Enqueued + 1
        /\ seen[t] <= Dequeued + 1 /\ Enqueued + 1 < seen[t] + Capacity
    BY <1>2, <1>5, OwnerCompares
  <2>2. ~ seen[t] < k
    BY <2>1, SlotsDiffer DEF a
  <2> QED
    BY <1>8, <2>1, <2>2
<1>10. t = Consumer /\ a = 0 => Enqueued > Dequeued
  <2> SUFFICES ASSUME t = Consumer, a = 0 PROVE Enqueued > Dequeued
    OBVIOUS
  <2>1. /\ seen[t] \in Int /\ idx[t] = SlotOf(seen[t]) /\ seen[t] = Dequeued + 1
        /\ Dequeued < k /\ k <= Enqueued + 1
    BY <1>2, <1>5, OwnerCompares
  <2>2. seen[t] # k
    BY <2>1 DEF a
  <2> QED
    BY <1>8, <2>1, <2>2
<1>11. pc[t] \in QueryLabels
  BY <1>5 DEF QueryLabels
<1> QED
  BY <1>2, <1>6, <1>7, <1>9, <1>10, <1>11, AnswerLooks

\* is_empty() has read tail_ first.
LEMMA EmpLoadHeadSecondInv ==
    ASSUME IInv, NEW t \in Threads, Goto(t, "emp_load_head", "emp_done"),
           NEW k \in 1 .. Len(mem["head"]), RelaxedLoad(t, "head", k),
           ans' = [ans EXCEPT ![t] = SameIndex(t, "head", k)],
           UNCHANGED <<memory, idx, seen, val>>
    PROVE  IInv'
<1>1. TypeOK /\ "head" \in Atomics
  BY DEF IInv, Atomics
<1>2. Look(t) /\ view[t].head <= k
  BY <1>1, RelaxedLoadLooks
<1>3. mem["head"][k].index = SlotOf(k)
  BY <1>1, StoresOfThePast
<1> DEFINE a == IF idx[t] = SlotOf(k) THEN 1 ELSE 0
<1>4. a \in Slots \cup {1}
  BY CapacityAssumption DEF Slots
<1>5. pc[t] = "emp_load_head" /\ pc' = [pc EXCEPT ![t] = "emp_done"]
      /\ ans' = [ans EXCEPT ![t] = a]
  BY <1>3 DEF Goto, SameIndex
<1> HIDE DEF a
<1>6. /\ pc'[t] = "emp_done" /\ ans'[t] = a /\ pc' \in [Threads -> Labels]
      /\ ans' \in [Threads -> Slots \cup {1}]
      /\ OthersStay(t)
  BY <1>1, <1>4, <1>5 DEF TypeOK, Labels, OthersStay
<1>7. TypeOK'
  <2>1. /\ idx' \in [Threads -> Slots] /\ seen' \in [Threads -> Nat]
        /\ val' \in 0 .. MaxItems
    BY <1>1 DEF TypeOK
  <2> QED
    BY <1>1, <1>2, <1>6, <2>1, LookType
<1>8. Enqueued \in Int /\ Dequeued \in Int /\ Dequeued <= Enqueued
      /\ Len(mem["head"]) = Dequeued + 1 /\ Len(mem["tail"]) = Enqueued + 1
  BY <1>1, Counts DEF IInv
<1>9. /\ seen[t] \in 1 .. view[t].tail /\ idx[t] = SlotOf(seen[t])
      /\ t = Producer => seen[t] = Len(mem["tail"])
      /\ t = Consumer => seen[t] > Dequeued
  BY <1>5 DEF IInv, ReadInv
<1>10. view[t].tail \in Int /\ view[t].tail <= Enqueued + 1
  <2>1. view[t] \in Views /\ Past(view[t])
    BY <1>1 DEF IInv, TypeOK
  <2> QED
    BY <1>8, <2>1, ViewType DEF Past
<1>11. t = Producer /\ a = 1 => Enqueued = Dequeued
  <2> SUFFICES ASSUME t = Producer, a = 1 PROVE Enqueued = Dequeued
    OBVIOUS
  <2>1. SlotOf(k) = SlotOf(Enqueued + 1)
    BY <1>8, <1>9 DEF a
  <2>2. Enqueued + 2 <= k + Capacity
    BY <1>2, ReadableHead
  <2>3. ~ k < Enqueued + 1
    BY <1>8, <2>1, <2>2, SlotsDiffer, CapacityAssumption
  <2> QED
    BY <1>8, <2>3
<1>12. t = Consumer /\ a = 0 => Enqueued > Dequeued
  <2> SUFFICES ASSUME t = Consumer, a = 0 PROVE Enqueued > Dequeued
    OBVIOUS
  <2>1. k = Dequeued + 1
    BY <1>2, <1>8, ReadableHead
  <2>2. seen[t] # k
    BY <1>9 DEF a
  <2> QED
    BY <1>8, <1>9, <1>10, <2>1, <2>2
<1>13. pc[t] \in QueryLabels
  BY <1>5 DEF QueryLabels
<1> QED
  BY <1>2, <1>6, <1>7, <1>11, <1>12, <1>13, AnswerLooks

LEMMA EmpLoadSecondInv ==
    ASSUME IInv, NEW t \in Threads, EmpLoadSecond(t)
    PROVE  IInv'
  BY EmpLoadTailSecondInv, EmpLoadHeadSecondInv DEF EmpLoadSecond

LEMMA ReturnInv ==
    ASSUME IInv, NEW t \in Threads, Return(t)
    PROVE  IInv'
<1>1. TypeOK
  BY DEF IInv
<1>2. /\ pc[t] \in {"cnt_done", "emp_done"} /\ pc' = [pc EXCEPT ![t] = "idle"]
      /\ idx' = [idx EXCEPT ![t] = 0] /\ seen' = [seen EXCEPT ![t] = 0]
      /\ ans' = [ans EXCEPT ![t] = 0] /\ UNCHANGED <<memory, view, val>>
  BY DEF Return
<1>3. Look(t)
  BY <1>2, IdleLooks
<1>4. pc'[t] = "idle" /\ OthersStay(t) /\ pc' \in [Threads -> Labels]
  BY <1>1, <1>2 DEF TypeOK, Labels, OthersStay
<1>5. TypeOK'
  <2>1. 0 \in Slots
    BY CapacityAssumption DEF Slots
  <2>2. /\ idx' \in [Threads -> Slots] /\ seen' \in [Threads -> Nat]
        /\ val' \in 0 .. MaxItems /\ ans' \in [Threads -> Slots \cup {1}]
    BY <1>1, <1>2, <2>1 DEF TypeOK
  <2> QED
    BY <1>1, <1>3, <1>4, <2>2, LookType
<1>6. pc[t] \in QueryLabels /\ pc'[t] \in QueryLabels
  BY <1>2, <1>4 DEF QueryLabels
<1>7. ReadInv(t)'
  BY <1>4 DEF ReadInv
<1> QED
  BY <1>2, <1>3, <1>4, <1>5, <1>6, <1>7, QueryLooks

-----------------------------------------------------------------------------
(* The invariant.                                                          *)

LEMMA InitInv == Init => IInv
<1> SUFFICES ASSUME Init PROVE IInv
  OBVIOUS
<1>1. /\ mem["head"] = <<[index |-> 0, view |-> NoView]>>
      /\ mem["tail"] = <<[index |-> 0, view |-> NoView]>>
      /\ \A t \in Threads : view[t] = NoView /\ pc[t] = "idle"
      /\ Producer \in Threads /\ Consumer \in Threads
  BY DEF Init, Atomics, Threads
<1>2. Enqueued = 0 /\ Dequeued = 0
  BY <1>1 DEF Enqueued, Dequeued
<1>3. Present = 1 .. 0 /\ Vacant = 1 .. Capacity
  BY <1>1, <1>2, CapacityAssumption DEF Present, Vacant
<1>4. SlotOf(1) = 0
  BY CapacityAssumption DEF SlotOf
<1>5. \A m \in Int : SlotOf(m) \in Slots
  BY SlotOfInSlots
<1>6. NoView.head = 1 /\ NoView.tail = 1 /\ \A i \in Slots : NoView.slot[i] = 0
  BY DEF NoView
<1>7. Past(NoView)
  <2>1. Len(mem["head"]) = 1 /\ Len(mem["tail"]) = 1
    BY <1>1
  <2>2. \A i \in Slots : writes[i] = 0
    BY DEF Init
  <2> QED
    BY <1>6, <2>1, <2>2 DEF Past
<1>8. \A m \in Vacant : Covers(NoView, m) /\ buffer[SlotOf(m)] = 0
  BY <1>3, <1>5, <1>6, CapacityAssumption DEF Covers, Init
<1>9. SlotsHoldPresent
  BY <1>3, <1>8 DEF SlotsHoldPresent
<1>10. StoresCarry
  <2>1. \A x \in Atomics : mem[x] = <<[index |-> 0, view |-> NoView]>>
    BY DEF Init
  <2>2. \A x \in Atomics : \A k \in DOMAIN mem[x] :
            k = 1 /\ mem[x][k].index = 0 /\ mem[x][k].view = NoView
    BY <2>1
  <2>3. \A x \in Atomics : \A k \in DOMAIN mem[x] :
            mem[x][k].index = SlotOf(k) /\ Past(mem[x][k].view)
    BY <1>4, <1>7, <2>2
  <2>4. \A k \in DOMAIN mem["tail"] :
            k = 1 /\ mem["tail"][k].view = NoView
    BY <2>2 DEF Atomics
  <2>5. \A k \in DOMAIN mem["head"] :
            k = 1 /\ mem["head"][k].view = NoView
    BY <2>2 DEF Atomics
  <2> QED
    BY <1>3, <1>6, <1>8, <2>3, <2>4, <2>5 DEF StoresCarry
<1>11. ProducerInv
  BY <1>1, <1>2, <1>3, <1>6, CapacityAssumption DEF ProducerInv
<1>12. ConsumerInv
  BY <1>1, <1>2, <1>6, <1>8 DEF ConsumerInv
<1>13. \A t \in Threads : ReadInv(t)
  BY <1>1 DEF ReadInv
<1>14. OwnerQueries
  BY <1>1 DEF OwnerQueries
<1> QED
  BY <1>1, <1>2, <1>7, <1>9, <1>10, <1>11, <1>12, <1>13, <1>14, InitType,
     CapacityAssumption DEF IInv

LEMMA StutterInv ==
    ASSUME IInv, UNCHANGED vars
    PROVE  IInv'
<1>1. TypeOK' /\ Shared'
  <2>1. Producer \in Threads /\ Look(Producer) /\ SameEnds
    BY IdleLooks DEF vars, memory, Threads, SameEnds
  <2>2. TypeOK'
    BY DEF IInv, TypeOK, vars
  <2> QED
    BY <2>1, <2>2, LookKeepsShared
<1>2. Producer \in Threads /\ Look(Producer) /\ SameEnds /\ OthersStay(Producer)
  BY IdleLooks DEF vars, memory, Threads, SameEnds, OthersStay
<1>3. ProducerInv' /\ ConsumerInv'
  BY <1>2, LookKeepsProducer, LookKeepsConsumer DEF vars
<1>4. ReadInv(Producer)'
  BY <1>2, LookKeepsRing DEF vars, IInv, ReadInv
<1>5. OwnerQueries'
  BY <1>2, LookKeepsAnswers DEF vars
<1> QED
  BY <1>1, <1>2, <1>3, <1>4, <1>5, LookInv

LEMMA StepInv ==
    ASSUME IInv, [Next]_vars
    PROVE  IInv'
<1>1. CASE Enqueue
  BY <1>1, EnqLoadTailInv, EnqLoadHeadInv, EnqWriteInv, EnqThrowInv, EnqStoreTailInv
  DEF Enqueue
<1>2. CASE Dequeue
  BY <1>2, DeqLoadHeadInv, DeqLoadTailInv, DeqSlotInv, DeqResetInv, DeqStoreHeadInv
  DEF Dequeue
<1>3. ASSUME NEW t \in Threads, Query(t)
      PROVE  IInv'
  BY <1>3, CntLoadHeadInv, CntLoadTailInv, EmpLoadFirstInv, EmpLoadSecondInv, ReturnInv
  DEF Query
<1>4. CASE UNCHANGED vars
  BY <1>4, StutterInv
<1> QED
  BY <1>1, <1>2, <1>3, <1>4 DEF Next

\* With the memory orders of the code, what each store carries and each thread
\* knows stays what the argument below needs, for every capacity and however long
\* the queue is used.
THEOREM Invariance == Spec => []IInv
<1> QED
  BY InitInv, StepInv, PTL DEF Spec

-----------------------------------------------------------------------------
(* What follows from it.                                                   *)

\* Every index stays one of a slot, and so does what count() computes from a pair
\* of them.
THEOREM TypeCorrect == Spec => []TypeOK
<1>1. IInv => TypeOK
  BY DEF IInv
<1> QED
  BY <1>1, Invariance, PTL

\* No data race: enqueue and dequeue touch a slot only when every earlier access of
\* the other side happens before, through the release store and the acquire load
\* that they make of the index of that side.
THEOREM NoDataRace == Spec => []RaceFree
<1>1. IInv => RaceFree
  BY DEF IInv, ProducerInv, ConsumerInv, Covers, RaceFree
<1> QED
  BY <1>1, Invariance, PTL

\* Elements come out in the order in which they went in, each exactly once,
\* however stale the indices are that either side reads.
THEOREM Fifo == Spec => []FifoOrder
<1>1. IInv => FifoOrder
  BY DEF IInv, ConsumerInv, FifoOrder
<1> QED
  BY <1>1, Invariance, PTL

\* enqueue writes only to a slot that the consumer has emptied.
THEOREM NoneOverwritten == Spec => []NoOverwrite
<1>1. ASSUME IInv, pc[Producer] = "enq_write"
      PROVE  buffer[idx[Producer]] = 0
  <2>1. idx[Producer] = SlotOf(Enqueued + 1)
    BY <1>1 DEF IInv, ProducerInv
  <2>2. Enqueued + 1 \in Vacant
    BY <1>1, Counts, RoomWhenFilling, CapacityAssumption DEF IInv, Vacant
  <2> QED
    BY <1>1, <2>1, <2>2 DEF IInv, SlotsHoldPresent
<1>2. IInv => NoOverwrite
  BY <1>1 DEF NoOverwrite
<1> QED
  BY <1>2, Invariance, PTL

\* count() in any thread reads a tail that is not older than the head it has read.
THEOREM CountForward == Spec => []CountReadsForward
<1>1. IInv => CountReadsForward
  BY DEF IInv, ReadInv, CountReadsForward
<1> QED
  BY <1>1, Invariance, PTL

\* For the owner of an end, count() and is_empty() err on the safe side.
THEOREM OwnersAreSafe == Spec => []OwnerQueries
<1>1. IInv => OwnerQueries
  BY DEF IInv
<1> QED
  BY <1>1, Invariance, PTL
=============================================================================
