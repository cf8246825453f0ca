------------------------ MODULE SpscQueueRefinement ------------------------
(***************************************************************************)
(* Proof that lockfreequeue_sptr, used by one producer and one consumer,   *)
(* is a first-in-first-out queue of capacity_ - 1 elements: every step of  *)
(* SpscQueue is a step of BoundedFifo or leaves its variables as they are. *)
(***************************************************************************)
EXTENDS SpscQueueProof, SequenceTheorems

-----------------------------------------------------------------------------
(* The ring, read from head on.                                            *)

\* The slot of the k-th element.
At(h, k) == (h + k - 1) % Capacity

LEMMA AtWraps ==
    ASSUME NEW h \in Slots, NEW k \in 1 .. Capacity
    PROVE  /\ At(h, k) = IF h + k <= Capacity THEN h + k - 1 ELSE h + k - 1 - Capacity
           /\ At(h, k) \in Slots
<1>1. Capacity \in Nat \ {0} /\ h \in Nat /\ h < Capacity
  BY CapacityAssumption DEF Slots
<1>2. PICK j \in Nat : j = h + k - 1
  BY <1>1
<1>3. j % Capacity = IF j < Capacity THEN j ELSE j - Capacity
  BY <1>1, <1>2
<1> QED
  BY <1>1, <1>2, <1>3 DEF At, Slots

\* The elements are in the slots that are in use.
LEMMA AtIsBetween ==
    ASSUME NEW h \in Slots, NEW t \in Slots, NEW k \in 1 .. CountOf(h, t)
    PROVE  k \in 1 .. Capacity /\ At(h, k) \in Slots /\ Between(h, t, At(h, k))
<1>1. k \in 1 .. Capacity
  BY CapacityAssumption DEF CountOf, Slots
<1>2. At(h, k) = (IF h + k <= Capacity THEN h + k - 1 ELSE h + k - 1 - Capacity)
  BY <1>1, AtWraps
<1>3. At(h, k) \in Slots
  BY <1>1, AtWraps
<1> QED
  BY <1>1, <1>2, <1>3, CapacityAssumption DEF CountOf, Between, Slots

\* The ring is empty when the indices are equal, and holds no more than
\* capacity_ - 1 elements, which it does when tail is just behind head.
LEMMA CountEnds ==
    ASSUME NEW h \in Slots, NEW t \in Slots
    PROVE  /\ CountOf(h, t) \in 0 .. Capacity - 1
           /\ CountOf(h, t) = 0 <=> h = t
           /\ CountOf(h, t) = Capacity - 1 <=> Succ(t) = h
  BY CapacityAssumption, SuccWraps DEF CountOf, Slots

LEMMA CountGrows ==
    ASSUME NEW h \in Slots, NEW t \in Slots, Succ(t) # h
    PROVE  /\ CountOf(h, Succ(t)) = CountOf(h, t) + 1
           /\ At(h, CountOf(h, t) + 1) = t
<1>1. PICK n \in 1 .. Capacity : n = CountOf(h, t) + 1
  <2>1. CountOf(h, t) \in 0 .. Capacity - 1
    BY CountEnds
  <2> QED
    BY <2>1, CapacityAssumption
<1>2. At(h, n) = IF h + n <= Capacity THEN h + n - 1 ELSE h + n - 1 - Capacity
  BY AtWraps
<1>3. At(h, n) = t
  BY <1>1, <1>2, CapacityAssumption DEF CountOf, Slots
<1>4. CountOf(h, Succ(t)) = CountOf(h, t) + 1
  BY CapacityAssumption, SuccWraps DEF CountOf, Slots
<1> QED
  BY <1>1, <1>3, <1>4

LEMMA CountShrinks ==
    ASSUME NEW h \in Slots, NEW t \in Slots, h # t
    PROVE  /\ CountOf(h, t) > 0
           /\ CountOf(Succ(h), t) = CountOf(h, t) - 1
           /\ At(h, 1) = h
           /\ \A k \in 1 .. CountOf(h, t) - 1 : At(Succ(h), k) = At(h, k + 1)
<1>1. CountOf(h, t) > 0 /\ CountOf(Succ(h), t) = CountOf(h, t) - 1
  BY CapacityAssumption, SuccWraps DEF CountOf, Slots
<1>2. At(h, 1) = h
  <2>1. 1 \in 1 .. Capacity
    BY CapacityAssumption
  <2>2. At(h, 1) = IF h + 1 <= Capacity THEN h + 1 - 1 ELSE h + 1 - 1 - Capacity
    BY <2>1, AtWraps
  <2> QED
    BY <2>2, CapacityAssumption DEF Slots
<1>3. ASSUME NEW k \in 1 .. CountOf(h, t) - 1
      PROVE  At(Succ(h), k) = At(h, k + 1)
  <2>1. CountOf(h, t) \in 0 .. Capacity - 1
    BY CountEnds
  <2>2. PICK j \in 1 .. Capacity : j = k + 1
    BY <2>1, CapacityAssumption
  <2>3. PICK g \in Slots : g = Succ(h)
    BY SuccWraps
  <2>4. g = IF h + 1 = Capacity THEN 0 ELSE h + 1
    BY <2>3, SuccWraps
  <2>5. k \in 1 .. Capacity
    BY <2>1, CapacityAssumption
  <2>6. At(g, k) = IF g + k <= Capacity THEN g + k - 1 ELSE g + k - 1 - Capacity
    BY <2>5, AtWraps
  <2>7. At(h, j) = IF h + j <= Capacity THEN h + j - 1 ELSE h + j - 1 - Capacity
    BY AtWraps
  <2>8. At(g, k) = At(h, j)
    BY <2>2, <2>4, <2>5, <2>6, <2>7, CapacityAssumption DEF Slots
  <2> QED
    BY <2>2, <2>3, <2>8
<1> QED
  BY <1>1, <1>2, <1>3

-----------------------------------------------------------------------------
(* The abstract queue.                                                     *)

Elements == Values \cup {NoValue}

\* Inside the ring an element is in its slot; the one that the consumer has
\* just emptied its slot of is in its out-parameter.
LEMMA ItemAt ==
    ASSUME NEW i
    PROVE  /\ \A c \in Consumers :
                  i = head /\ pc[c] = "deq_store_head" => Item(i) = val[c]
           /\ ~(i = head /\ Taking) => Item(i) = buffer[i]
<1>1. ASSUME NEW c \in Consumers, i = head, pc[c] = "deq_store_head"
      PROVE  Item(i) = val[c]
  <2>1. Taking
    BY <1>1 DEF Taking
  <2>2. (CHOOSE d \in Consumers : pc[d] = "deq_store_head") \in Consumers
    BY <1>1
  <2>3. (CHOOSE d \in Consumers : pc[d] = "deq_store_head") = c
    BY <2>2, SingleConsumer
  <2> QED
    BY <1>1, <2>1, <2>3 DEF Item
<1> QED
  BY <1>1 DEF Item

\* An element stays where it is while the consumer and its slot do.
LEMMA ItemKept ==
    ASSUME NEW i, head' = head, buffer'[i] = buffer[i],
           \A c \in Consumers : pc[c] = "deq_store_head" => val'[c] = val[c],
           \A c \in Consumers :
               pc'[c] = "deq_store_head" <=> pc[c] = "deq_store_head"
    PROVE  Item(i)' = Item(i)
<1>1. Taking' <=> Taking
  BY DEF Taking
<1>2. CASE i = head /\ Taking
  <2>1. PICK c \in Consumers : pc[c] = "deq_store_head"
    BY <1>2 DEF Taking
  <2>2. (CHOOSE d \in Consumers : pc'[d] = "deq_store_head") \in Consumers
    BY <2>1
  <2>3. (CHOOSE d \in Consumers : pc'[d] = "deq_store_head") = c
    BY <2>2, SingleConsumer
  <2>4. Item(i)' = val'[c]
    BY <1>1, <1>2, <2>3 DEF Item
  <2> QED
    BY <1>2, <2>1, <2>4, ItemAt
<1>3. CASE ~(i = head /\ Taking)
  BY <1>1, <1>3 DEF Item
<1> QED
  BY <1>2, <1>3

LEMMA ContentsSeq ==
    ASSUME IInv
    PROVE  /\ Contents \in Seq(Elements)
           /\ Len(Contents) = CountOf(head, tail)
           /\ CountOf(head, tail) \in Nat
           /\ \A k \in 1 .. CountOf(head, tail) : Contents[k] = Item(At(head, k))
<1>1. head \in Slots /\ tail \in Slots /\ buffer \in [Slots -> Elements]
  BY DEF IInv, TypeOK, Elements
<1>2. PICK n \in Nat : n = CountOf(head, tail)
  BY <1>1, CountEnds, CapacityAssumption
<1>3. Contents = [k \in 1 .. n |-> Item(At(head, k))]
  BY <1>2 DEF Contents, At
<1>4. ASSUME NEW k \in 1 .. n
      PROVE  Item(At(head, k)) \in Elements
  <2>1. At(head, k) \in Slots
    BY <1>1, <1>2, AtIsBetween
  <2>2. CASE At(head, k) = head /\ Taking
    <3>1. PICK c \in Consumers : pc[c] = "deq_store_head"
      BY <2>2 DEF Taking
    <3> QED
      BY <2>2, <3>1, ItemAt DEF IInv, ConsumerInv, DeqLabels, Elements
  <2>3. CASE ~(At(head, k) = head /\ Taking)
    BY <1>1, <2>1, <2>3, ItemAt
  <2> QED
    BY <2>2, <2>3
<1> QED
  BY <1>2, <1>3, <1>4

\* Nothing happens to the queue while neither index moves and every element in
\* the ring can still be found.
LEMMA ContentsStay ==
    ASSUME IInv, UNCHANGED <<head, tail>>,
           \A i \in Slots : InUse(i) => Item(i)' = Item(i)
    PROVE  Contents' = Contents
<1>1. head \in Slots /\ tail \in Slots
  BY DEF IInv, TypeOK
<1>2. PICK h \in Slots : h = head /\ h = head'
  BY <1>1
<1>3. PICK n : n = CountOf(head, tail) /\ n = CountOf(head, tail)'
  BY DEF CountOf
<1>4. \A k \in 1 .. n : Item(At(h, k))' = Item(At(h, k))
  <2> SUFFICES ASSUME NEW k \in 1 .. n PROVE Item(At(h, k))' = Item(At(h, k))
    OBVIOUS
  <2>1. PICK i \in Slots : i = At(h, k) /\ Between(head, tail, i)
    BY <1>1, <1>2, <1>3, AtIsBetween
  <2> QED
    BY <2>1 DEF InUse, At
<1>5. Contents = [k \in 1 .. n |-> Item(At(h, k))]
  BY <1>2, <1>3 DEF Contents, At
<1>6. Contents' = [k \in 1 .. n |-> Item(At(h, k))']
  BY <1>2, <1>3 DEF Contents, At
<1> QED
  BY <1>4, <1>5, <1>6

\* Storing tail_ appends the producer's element, for which there was room.
LEMMA ContentsGrow ==
    ASSUME IInv, NEW p \in Producers, EnqStoreTail(p)
    PROVE  /\ Contents' = Append(Contents, val[p])
           /\ Len(Contents) < Capacity - 1
<1>1. /\ head \in Slots /\ tail \in Slots /\ p \in Threads
      /\ pc \in [Threads -> Labels]
  BY DEF IInv, TypeOK, Threads
<1>2. /\ tail' = Succ(tail) /\ Succ(tail) # head /\ buffer[tail] = val[p]
      /\ UNCHANGED <<buffer, head, val>> /\ pc[p] = "enq_store_tail"
      /\ \A u \in Threads \ {p} : pc'[u] = pc[u]
  BY <1>1 DEF EnqStoreTail, Decide, Goto, IInv, ProducerInv
<1>3. \A c \in Consumers : pc'[c] = pc[c] /\ val'[c] = val[c]
  BY <1>1, <1>2, ThreadAssumption DEF Threads
<1>4. \A i : Item(i)' = Item(i)
  BY <1>2, <1>3, ItemKept
<1>5. Item(tail) = val[p]
  <2>1. ~(tail = head /\ Taking)
    BY DEF Taking, IInv, ConsumerInv, DeqLabels
  <2> QED
    BY <1>2, <2>1, ItemAt
<1>6. PICK h \in Slots : h = head /\ h = head'
  BY <1>1, <1>2
<1>7. PICK n \in Nat : n = CountOf(head, tail)
  BY ContentsSeq
<1>8. CountOf(head, tail)' = n + 1 /\ At(h, n + 1) = tail
  BY <1>1, <1>2, <1>6, <1>7, CountGrows DEF CountOf
<1>9. n < Capacity - 1
  BY <1>1, <1>2, <1>7, CountEnds, CapacityAssumption
<1>10. Contents' = [k \in 1 .. n + 1 |-> Item(At(h, k))]
  BY <1>4, <1>6, <1>8 DEF Contents, At
<1>11. Contents = [k \in 1 .. n |-> Item(At(h, k))] /\ Len(Contents) = n
  BY <1>6, <1>7, ContentsSeq DEF Contents, At
<1>12. Contents' = [k \in 1 .. n + 1 |-> IF k = n + 1 THEN val[p] ELSE Contents[k]]
  BY <1>5, <1>8, <1>10, <1>11
<1>13. Append(Contents, val[p])
       = [k \in 1 .. n + 1 |-> IF k = n + 1 THEN val[p] ELSE Contents[k]]
  BY <1>11, ContentsSeq
<1> QED
  BY <1>9, <1>11, <1>12, <1>13

\* Storing head_ removes the oldest element, the one that was copied.
LEMMA ContentsShrink ==
    ASSUME IInv, NEW c \in Consumers, DeqStoreHead(c)
    PROVE  /\ Contents # <<>>
           /\ Contents' = Tail(Contents)
           /\ val[c] = Head(Contents)
<1>1. /\ head \in Slots /\ tail \in Slots /\ c \in Threads
      /\ pc \in [Threads -> Labels]
  BY DEF IInv, TypeOK, Threads
<1>2. /\ head' = Succ(head) /\ head # tail
      /\ UNCHANGED <<buffer, tail, val>> /\ pc[c] = "deq_store_head"
      /\ pc'[c] = "done"
  BY <1>1 DEF DeqStoreHead, Decide, Goto, IInv, ConsumerInv, DeqLabels
<1>3. ~Taking'
  BY <1>2, SingleConsumer DEF Taking
<1>4. \A i : i # head => Item(i)' = Item(i)
  BY <1>2, <1>3 DEF Item
<1>5. PICK h \in Slots : h = head
  BY <1>1
<1>6. PICK g \in Slots : g = Succ(h) /\ g = head'
  BY <1>2, <1>5, SuccWraps
<1>7. PICK n \in Nat : n = CountOf(head, tail)
  BY ContentsSeq
<1>8. /\ n > 0 /\ CountOf(head, tail)' = n - 1 /\ At(h, 1) = h
      /\ \A k \in 1 .. n - 1 : At(g, k) = At(h, k + 1)
  <2>1. CountOf(head, tail)' = CountOf(Succ(head), tail)
    BY <1>2 DEF CountOf
  <2> QED
    BY <1>1, <1>2, <1>5, <1>6, <1>7, <2>1, CountShrinks
<1>9. Contents' = [k \in 1 .. n - 1 |-> Item(At(g, k))']
  BY <1>6, <1>8 DEF Contents, At
<1>10. Contents = [k \in 1 .. n |-> Item(At(h, k))] /\ Len(Contents) = n
  BY <1>5, <1>7, ContentsSeq DEF Contents, At
<1>11. \A k \in 1 .. n - 1 : Item(At(g, k))' = Contents[k + 1]
  <2> SUFFICES ASSUME NEW k \in 1 .. n - 1
               PROVE  Item(At(g, k))' = Contents[k + 1]
    OBVIOUS
  <2>1. k + 1 \in 1 .. n
    BY <1>8
  <2>2. PICK i \in Slots : i = At(h, k + 1) /\ i = At(g, k)
    BY <1>1, <1>5, <1>7, <1>8, <2>1, AtIsBetween
  <2>3. i # head
    <3>1. CountOf(g, tail) = n - 1
      BY <1>1, <1>2, <1>5, <1>6, <1>7, CountShrinks
    <3>2. Between(g, tail, i)
      BY <1>1, <2>2, <3>1, AtIsBetween
    <3> QED
      BY <1>1, <1>2, <1>5, <1>6, <3>2, RingShrinks
  <2>4. Item(i)' = Item(i) /\ Contents[k + 1] = Item(i)
    BY <1>4, <1>10, <2>1, <2>2, <2>3
  <2> QED
    BY <2>2, <2>4 DEF At
<1>12. Contents' = [k \in 1 .. n - 1 |-> Contents[k + 1]]
  BY <1>9, <1>11
<1>13. Contents # <<>> /\ Head(Contents) = Contents[1]
       /\ Tail(Contents) = [k \in 1 .. n - 1 |-> Contents[k + 1]]
  BY <1>8, <1>10, ContentsSeq
<1>14. Contents[1] = val[c]
  BY <1>2, <1>5, <1>8, <1>10, ItemAt
<1> QED
  BY <1>12, <1>13, <1>14

\* Filling the slot at tail leaves the queue as it is: the slot is not in use.
LEMMA WriteKeepsContents ==
    ASSUME IInv, NEW p \in Producers, EnqWrite(p)
    PROVE  Contents' = Contents
<1>1. /\ head \in Slots /\ tail \in Slots /\ p \in Threads
      /\ pc \in [Threads -> Labels] /\ buffer \in [Slots -> Values \cup {NoValue}]
  BY DEF IInv, TypeOK, Threads
<1>2. /\ buffer' = [buffer EXCEPT ![tail] = val[p]] /\ UNCHANGED <<head, tail, val>>
      /\ \A u \in Threads \ {p} : pc'[u] = pc[u]
  BY <1>1 DEF EnqWrite, Goto, IInv, ProducerInv
<1>3. \A c \in Consumers : pc'[c] = pc[c] /\ val'[c] = val[c]
  BY <1>1, <1>2, ThreadAssumption DEF Threads
<1>4. ASSUME NEW i \in Slots, InUse(i)
      PROVE  Item(i)' = Item(i)
  <2>1. i # tail
    BY <1>1, <1>4, RingEnds DEF InUse
  <2>2. buffer'[i] = buffer[i]
    BY <1>1, <1>2, <2>1
  <2> QED
    BY <1>2, <1>3, <2>2, ItemKept
<1> QED
  BY <1>2, <1>4, ContentsStay

\* Emptying the slot at head leaves the queue as it is: its element has been
\* copied, and nobody can tell from where it will be taken.
LEMMA ResetKeepsContents ==
    ASSUME IInv, NEW c \in Consumers, DeqReset(c)
    PROVE  Contents' = Contents
<1>1. /\ head \in Slots /\ tail \in Slots /\ c \in Threads
      /\ pc \in [Threads -> Labels] /\ buffer \in [Slots -> Values \cup {NoValue}]
  BY DEF IInv, TypeOK, Threads
<1>2. /\ buffer' = [buffer EXCEPT ![head] = NoValue] /\ UNCHANGED <<head, tail, val>>
      /\ pc[c] = "deq_reset" /\ pc'[c] = "deq_store_head" /\ val[c] = buffer[head]
  BY <1>1 DEF DeqReset, Goto, IInv, ConsumerInv, DeqLabels
<1>3. ~Taking
  BY <1>2, SingleConsumer DEF Taking
<1>4. ASSUME NEW i \in Slots
      PROVE  Item(i)' = Item(i)
  <2>1. CASE i = head
    <3>1. (CHOOSE d \in Consumers : pc'[d] = "deq_store_head") \in Consumers
      BY <1>2
    <3>2. (CHOOSE d \in Consumers : pc'[d] = "deq_store_head") = c
      BY <3>1, SingleConsumer
    <3>3. Taking'
      BY <1>2 DEF Taking
    <3>4. Item(i)' = val'[c]
      BY <1>2, <2>1, <3>2, <3>3 DEF Item
    <3> QED
      BY <1>2, <1>3, <2>1, <3>4 DEF Item
  <2>2. CASE i # head
    BY <1>1, <1>2, <2>2 DEF Item
  <2> QED
    BY <2>1, <2>2
<1> QED
  BY <1>2, <1>4, ContentsStay

\* Nothing else that leaves the indices alone touches an element in the ring.
LEMMA QuietContents ==
    ASSUME IInv, NEW t \in Threads, Moves(t), UNCHANGED shared,
           pc[t] # "deq_store_head", pc'[t] # "deq_store_head"
    PROVE  Contents' = Contents
<1>1. /\ \A c \in Consumers : pc[c] = "deq_store_head" => val'[c] = val[c]
      /\ \A c \in Consumers :
             pc'[c] = "deq_store_head" <=> pc[c] = "deq_store_head"
  BY DEF Moves, Threads
<1>2. UNCHANGED <<buffer, head, tail>>
  BY DEF shared
<1>3. ASSUME NEW i
      PROVE  Item(i)' = Item(i)
  <2>1. head' = head /\ buffer'[i] = buffer[i]
    BY <1>2
  <2> QED
    BY <1>1, <2>1, ItemKept
<1> QED
  BY <1>2, <1>3, ContentsStay

-----------------------------------------------------------------------------
(* The abstract locals.                                                    *)

\* What the refinement mapping says of thread t.
ResOf(t) ==
    IF CountDecided(t) THEN "number"
    ELSE IF EmptyDecided(t)
    THEN IF idx[t] = (IF t \in Producers THEN tail ELSE head)
         THEN "true" ELSE "false"
    ELSE res[t]

NumOf(t) == IF CountDecided(t) THEN CountOf(idx[t], tail) ELSE num[t]

ValOf(t) == IF pc[t] \in {"deq_reset", "deq_store_head"} THEN NoValue ELSE val[t]

LEMMA AbstractLocals ==
    /\ AbstractRes = [t \in Threads |-> ResOf(t)]
    /\ AbstractNum = [t \in Threads |-> NumOf(t)]
    /\ AbstractVal = [t \in Threads |-> ValOf(t)]
  BY DEF AbstractRes, AbstractNum, AbstractVal, ResOf, NumOf, ValOf

LEMMA AbstractLocalsNext ==
    /\ AbstractRes' = [t \in Threads |-> ResOf(t)']
    /\ AbstractNum' = [t \in Threads |-> NumOf(t)']
    /\ AbstractVal' = [t \in Threads |-> ValOf(t)']
  BY DEF AbstractRes, AbstractNum, AbstractVal, ResOf, NumOf, ValOf, CountDecided,
         EmptyDecided

\* Thread t moves, and only the side that owns an index moves it.
OwnMove(t) ==
    /\ Moves(t)
    /\ tail' = tail \/ t \in Producers
    /\ head' = head \/ t \in Consumers

LEMMA StepIsOwn ==
    ASSUME TypeOK, NEW t \in Threads, Invoke(t) \/ Step(t)
    PROVE  OwnMove(t)
<1>1. Moves(t)
  BY CallsMove
<1> USE DEF OwnMove, shared
<1>2. CASE t \in Producers /\ Enqueue(t)
  BY <1>1, <1>2 DEF Enqueue, EnqLoadTail, EnqLoadHead, EnqWrite, EnqThrow, EnqStoreTail
<1>3. CASE t \in Consumers /\ Dequeue(t)
  BY <1>1, <1>3 DEF Dequeue, DeqLoadHead, DeqLoadTail, DeqCheck, DeqCopy, DeqThrow,
                    DeqReset, DeqStoreHead
<1>4. CASE Query(t)
  BY <1>1, <1>4 DEF Query, CntLoadHead, CntLoadTail, EmpLoadFirst, EmpLoadSecond
<1>5. CASE Return(t)
  BY <1>1, <1>5 DEF Return
<1>6. CASE Invoke(t)
  BY <1>1, <1>6 DEF Invoke, CallEnqueue, CallDequeue, CallCount, CallIsEmpty, Call
<1> QED
  BY <1>2, <1>3, <1>4, <1>5, <1>6 DEF Step

\* Nobody else's call is affected: a result that is decided before the call
\* ends depends on an index that only its own thread moves.
LEMMA OthersMapped ==
    ASSUME NEW t \in Threads, OwnMove(t), NEW u \in Threads \ {t}
    PROVE  ResOf(u)' = ResOf(u) /\ NumOf(u)' = NumOf(u) /\ ValOf(u)' = ValOf(u)
<1>1. /\ pc'[u] = pc[u] /\ idx'[u] = idx[u] /\ val'[u] = val[u]
      /\ res'[u] = res[u] /\ num'[u] = num[u]
  BY DEF OwnMove, Moves
<1>2. (CountDecided(u)' <=> CountDecided(u)) /\ (EmptyDecided(u)' <=> EmptyDecided(u))
  BY <1>1 DEF CountDecided, EmptyDecided
<1>3. u \in Producers => tail' = tail
  BY SingleProducer DEF OwnMove
<1>4. u \in Consumers => head' = head
  BY SingleConsumer DEF OwnMove
<1>5. ResOf(u)' = ResOf(u)
  BY <1>1, <1>2, <1>3, <1>4, ThreadAssumption DEF ResOf, EmptyDecided
<1>6. NumOf(u)' = NumOf(u)
  BY <1>1, <1>2, <1>3 DEF NumOf, CountDecided, CountOf
<1>7. ValOf(u)' = ValOf(u)
  BY <1>1 DEF ValOf
<1> QED
  BY <1>5, <1>6, <1>7

LEMMA Mapped ==
    ASSUME NEW t \in Threads, OwnMove(t)
    PROVE  /\ AbstractRes' = [AbstractRes EXCEPT ![t] = ResOf(t)']
           /\ AbstractNum' = [AbstractNum EXCEPT ![t] = NumOf(t)']
           /\ AbstractVal' = [AbstractVal EXCEPT ![t] = ValOf(t)']
           /\ AbstractRes[t] = ResOf(t)
           /\ AbstractNum[t] = NumOf(t)
           /\ AbstractVal[t] = ValOf(t)
<1>1. \A u \in Threads : u # t =>
          ResOf(u)' = ResOf(u) /\ NumOf(u)' = NumOf(u) /\ ValOf(u)' = ValOf(u)
  BY OthersMapped
<1>2. AbstractRes' = [AbstractRes EXCEPT ![t] = ResOf(t)']
  BY <1>1, AbstractLocals, AbstractLocalsNext
<1>3. AbstractNum' = [AbstractNum EXCEPT ![t] = NumOf(t)']
  BY <1>1, AbstractLocals, AbstractLocalsNext
<1>4. AbstractVal' = [AbstractVal EXCEPT ![t] = ValOf(t)']
  BY <1>1, AbstractLocals, AbstractLocalsNext
<1> QED
  BY <1>2, <1>3, <1>4, AbstractLocals

\* A step that changes nothing the abstract queue has.
LEMMA Stutters ==
    ASSUME NEW t \in Threads, OwnMove(t), op' = op, Contents' = Contents,
           ResOf(t)' = ResOf(t), NumOf(t)' = NumOf(t), ValOf(t)' = ValOf(t)
    PROVE  UNCHANGED Fifo!avars
<1>1. AbstractRes' = AbstractRes /\ AbstractNum' = AbstractNum /\ AbstractVal' = AbstractVal
  BY Mapped, AbstractLocals
<1> QED
  BY <1>1 DEF Fifo!avars

-----------------------------------------------------------------------------
(* Every step is a step of the abstract queue, or leaves it as it is.      *)

\* A call takes effect by deciding its result r.
LEMMA Decides ==
    ASSUME NEW t \in Threads, OwnMove(t), op' = op, NEW r, ResOf(t)' = r,
           NumOf(t)' = NumOf(t), ValOf(t)' = ValOf(t)
    PROVE  Fifo!Outcome(t, r) /\ UNCHANGED <<op, AbstractVal, AbstractNum>>
<1>1. AbstractRes' = [AbstractRes EXCEPT ![t] = r]
  BY Mapped
<1>2. AbstractNum' = AbstractNum /\ AbstractVal' = AbstractVal
  BY Mapped, AbstractLocals
<1> QED
  BY <1>1, <1>2 DEF Fifo!Outcome

\* A call whose thread is at its label for function f has had no effect yet.
LEMMA PendingAt ==
    ASSUME IInv, NEW t \in Threads, NEW f, op[t] = f, pc[t] # "done",
           ~CountDecided(t), ~EmptyDecided(t)
    PROVE  Fifo!Pending(t, f)
<1>1. res[t] = "none"
  BY DEF IInv, CallInv
<1> QED
  BY <1>1, AbstractLocals DEF Fifo!Pending, ResOf

LEMMA CallRefines ==
    ASSUME IInv, NEW t \in Threads, NEW f, NEW v, OwnMove(t),
           NEW l \in {"enq_load_tail", "deq_load_head", "cnt_load_head", "emp_load"},
           Call(t, f, l, v)
    PROVE  Fifo!Call(t, f, v)
<1>1. /\ pc \in [Threads -> Labels] /\ val \in [Threads -> Values \cup {NoValue}]
      /\ op \in [Threads -> Ops]
  BY DEF IInv, TypeOK
<1>2. /\ pc[t] = "idle" /\ pc'[t] = l /\ val'[t] = v /\ op' = [op EXCEPT ![t] = f]
      /\ UNCHANGED <<shared, idx, res, num>>
  BY <1>1 DEF Call
<1>3. op[t] = "none"
  BY <1>2 DEF IInv, CallInv
<1>4. Contents' = Contents
  BY <1>2, QuietContents DEF OwnMove
<1>5. ResOf(t)' = ResOf(t) /\ NumOf(t)' = NumOf(t) /\ ValOf(t)' = v
  BY <1>2 DEF ResOf, NumOf, ValOf, CountDecided, EmptyDecided
<1>6. AbstractRes' = AbstractRes /\ AbstractNum' = AbstractNum
  BY <1>5, Mapped, AbstractLocals
<1>7. AbstractVal' = [AbstractVal EXCEPT ![t] = v]
  BY <1>5, Mapped
<1> QED
  BY <1>2, <1>3, <1>4, <1>6, <1>7 DEF Fifo!Call

LEMMA InvokeRefines ==
    ASSUME IInv, NEW t \in Threads, Invoke(t)
    PROVE  Fifo!Invoke(t)
<1>1. OwnMove(t)
  BY StepIsOwn DEF IInv
<1>2. ASSUME t \in Producers, NEW v \in Values, CallEnqueue(t, v)
      PROVE  Fifo!Invoke(t)
  BY <1>1, <1>2, CallRefines DEF CallEnqueue, Fifo!Invoke
<1>3. CASE t \in Consumers /\ CallDequeue(t)
  BY <1>1, <1>3, CallRefines DEF CallDequeue, Fifo!Invoke
<1>4. CASE CallCount(t)
  <2>1. Fifo!Call(t, "count", NoValue)
    BY <1>1, <1>4, CallRefines DEF CallCount
  <2> QED
    BY <2>1 DEF Fifo!Invoke
<1>5. CASE CallIsEmpty(t)
  <2>1. Fifo!Call(t, "is_empty", NoValue)
    BY <1>1, <1>5, CallRefines DEF CallIsEmpty
  <2> QED
    BY <2>1 DEF Fifo!Invoke
<1> QED
  BY <1>2, <1>3, <1>4, <1>5 DEF Invoke

LEMMA ReturnRefines ==
    ASSUME IInv, NEW t \in Threads, Return(t)
    PROVE  Fifo!Return(t)
<1>1. OwnMove(t)
  BY StepIsOwn DEF IInv, Step
<1>2. /\ pc \in [Threads -> Labels] /\ val \in [Threads -> Values \cup {NoValue}]
      /\ res \in [Threads -> Results] /\ num \in [Threads -> Slots]
  BY DEF IInv, TypeOK
<1>3. /\ pc[t] = "done" /\ pc'[t] = "idle" /\ val'[t] = NoValue /\ res'[t] = "none"
      /\ num'[t] = 0 /\ op' = [op EXCEPT ![t] = "none"] /\ UNCHANGED shared
  BY <1>2 DEF Return
<1>4. Contents' = Contents
  BY <1>1, <1>3, QuietContents DEF OwnMove
<1>5. res[t] # "none"
  BY <1>3 DEF IInv, CallInv
<1>6. /\ ResOf(t) = res[t]
      /\ ResOf(t)' = "none" /\ NumOf(t)' = 0 /\ ValOf(t)' = NoValue
  BY <1>3 DEF ResOf, NumOf, ValOf, CountDecided, EmptyDecided
<1>7. /\ AbstractRes[t] # "none"
      /\ AbstractRes' = [AbstractRes EXCEPT ![t] = "none"]
      /\ AbstractNum' = [AbstractNum EXCEPT ![t] = 0]
      /\ AbstractVal' = [AbstractVal EXCEPT ![t] = NoValue]
  BY <1>1, <1>5, <1>6, Mapped
<1> QED
  BY <1>3, <1>4, <1>7 DEF Fifo!Return

\* enqueue takes effect when it finds the ring full, when it stores tail_, or
\* when it throws.
LEMMA EnqueueRefines ==
    ASSUME IInv, NEW p \in Producers, Enqueue(p)
    PROVE  \/ Fifo!EnqueueOk(p) \/ Fifo!EnqueueFull(p) \/ Fifo!Throw(p)
           \/ UNCHANGED Fifo!avars
<1>1. /\ p \in Threads /\ pc \in [Threads -> Labels] /\ res \in [Threads -> Results]
      /\ head \in Slots /\ tail \in Slots
  BY DEF IInv, TypeOK, Threads
<1>2. OwnMove(p) /\ Moves(p)
  BY <1>1, StepIsOwn DEF IInv, Step, OwnMove
<1>3. /\ pc[p] \in EnqLabels => op[p] = "enqueue"
      /\ pc[p] \in {"enq_load_head", "enq_write", "enq_store_tail"} => idx[p] = tail
  BY <1>1 DEF IInv, CallInv, ProducerInv
<1>4. pc[p] \in EnqLabels /\ op' = op /\ num' = num /\ val' = val
  BY DEF Enqueue, EnqLoadTail, EnqLoadHead, EnqWrite, EnqThrow, EnqStoreTail, Goto,
         Decide, EnqLabels
<1>5. Fifo!Pending(p, "enqueue")
  BY <1>1, <1>3, <1>4, PendingAt DEF EnqLabels, CountDecided, EmptyDecided
<1>6. pc'[p] \in EnqLabels \cup {"done"}
  BY <1>1 DEF Enqueue, EnqLoadTail, EnqLoadHead, EnqWrite, EnqThrow, EnqStoreTail, Goto,
         Decide, EnqLabels
<1>7. /\ ResOf(p) = res[p] /\ ResOf(p)' = res'[p]
      /\ NumOf(p)' = NumOf(p)
      /\ ValOf(p) = val[p] /\ ValOf(p)' = val[p]
  BY <1>4, <1>6 DEF ResOf, NumOf, ValOf, CountDecided, EmptyDecided, EnqLabels
<1>8. CASE EnqStoreTail(p)
  <2>1. res'[p] = "true"
    BY <1>1, <1>8 DEF EnqStoreTail, Decide
  <2>2. Fifo!Outcome(p, "true") /\ UNCHANGED <<op, AbstractVal, AbstractNum>>
    BY <1>1, <1>2, <1>4, <1>7, <2>1, Decides
  <2>3. Contents' = Append(Contents, AbstractVal[p]) /\ Len(Contents) < Capacity - 1
    BY <1>1, <1>7, <1>8, ContentsGrow, AbstractLocals
  <2> QED
    BY <1>5, <2>2, <2>3 DEF Fifo!EnqueueOk
<1>9. CASE EnqWrite(p)
  <2>1. res' = res /\ Contents' = Contents
    BY <1>9, WriteKeepsContents DEF EnqWrite
  <2> QED
    BY <1>1, <1>2, <1>4, <1>7, <2>1, Stutters
<1>10. CASE EnqLoadTail(p) \/ EnqLoadHead(p) \/ EnqThrow(p)
  <2>1. UNCHANGED shared
    BY <1>10 DEF EnqLoadTail, EnqLoadHead, EnqThrow
  <2>2. Contents' = Contents
    BY <1>1, <1>2, <1>4, <1>6, <2>1, QuietContents DEF EnqLabels
  <2>3. CASE res' = res
    BY <1>1, <1>2, <1>4, <1>7, <2>2, <2>3, Stutters
  <2>4. CASE EnqThrow(p)
    <3>1. res'[p] = "threw"
      BY <1>1, <2>4 DEF EnqThrow, Decide
    <3>2. Fifo!Outcome(p, "threw") /\ UNCHANGED <<op, AbstractVal, AbstractNum>>
      BY <1>1, <1>2, <1>4, <1>7, <3>1, Decides
    <3> QED
      BY <1>5, <2>2, <3>2 DEF Fifo!Throw
  <2>5. CASE EnqLoadHead(p) /\ res' # res
    <3>1. Succ(tail) = head /\ res'[p] = "false"
      BY <1>1, <1>3, <2>5 DEF EnqLoadHead, Decide, Goto
    <3>2. Fifo!Outcome(p, "false") /\ UNCHANGED <<op, AbstractVal, AbstractNum>>
      BY <1>1, <1>2, <1>4, <1>7, <3>1, Decides
    <3>3. Len(Contents) = Capacity - 1
      BY <1>1, <3>1, ContentsSeq, CountEnds
    <3> QED
      BY <1>5, <2>2, <3>2, <3>3 DEF Fifo!EnqueueFull
  <2> QED
    BY <1>10, <2>3, <2>4, <2>5 DEF EnqLoadTail
<1> QED
  BY <1>8, <1>9, <1>10 DEF Enqueue

LEMMA ContentsEmpty ==
    ASSUME IInv
    PROVE  Contents = <<>> <=> head = tail
<1>1. head \in Slots /\ tail \in Slots
  BY DEF IInv, TypeOK
<1>2. Contents = <<>> <=> Len(Contents) = 0
  BY ContentsSeq
<1> QED
  BY <1>1, <1>2, ContentsSeq, CountEnds

\* dequeue takes effect when it finds the ring empty, when it stores head_, or
\* when it throws.
LEMMA DequeueRefines ==
    ASSUME IInv, NEW c \in Consumers, Dequeue(c)
    PROVE  \/ Fifo!DequeueOk(c) \/ Fifo!DequeueEmpty(c) \/ Fifo!Throw(c)
           \/ UNCHANGED Fifo!avars
<1>1. /\ c \in Threads /\ pc \in [Threads -> Labels] /\ res \in [Threads -> Results]
      /\ val \in [Threads -> Values \cup {NoValue}]
  BY DEF IInv, TypeOK, Threads
<1>2. OwnMove(c) /\ Moves(c)
  BY <1>1, StepIsOwn DEF IInv, Step, OwnMove
<1>3. /\ pc[c] \in DeqLabels => op[c] = "dequeue"
      /\ pc[c] \in {"deq_load_head", "deq_load_tail", "deq_check", "deq_copy"} =>
             val[c] = NoValue
  BY <1>1 DEF IInv, CallInv, DeqLabels
<1>4. /\ pc[c] = "deq_load_tail" => idx[c] = head
      /\ pc[c] \in {"deq_check", "deq_copy"} => buffer[idx[c]] # NoValue
  BY Dequeuing, ValueAssumption
<1>5. pc[c] \in DeqLabels /\ op' = op /\ num' = num
  BY DEF Dequeue, DeqLoadHead, DeqLoadTail, DeqCheck, DeqCopy, DeqThrow, DeqReset,
         DeqStoreHead, Goto, Decide, DeqLabels
<1>6. pc'[c] \in DeqLabels \cup {"done"}
  BY <1>1, <1>4
  DEF Dequeue, DeqLoadHead, DeqLoadTail, DeqCheck, DeqCopy, DeqThrow, DeqReset,
      DeqStoreHead, Goto, Decide, DeqLabels
<1>7. Fifo!Pending(c, "dequeue")
  BY <1>1, <1>3, <1>5, PendingAt DEF DeqLabels, CountDecided, EmptyDecided
<1>8. ResOf(c) = res[c] /\ ResOf(c)' = res'[c] /\ NumOf(c)' = NumOf(c)
  BY <1>5, <1>6 DEF ResOf, NumOf, CountDecided, EmptyDecided, DeqLabels
<1>9. CASE DeqStoreHead(c)
  <2>1. pc'[c] = "done" /\ res'[c] = "true" /\ val' = val
    BY <1>1, <1>9 DEF DeqStoreHead, Decide, Goto
  <2>2. Contents # <<>> /\ Contents' = Tail(Contents) /\ val[c] = Head(Contents)
    BY <1>9, ContentsShrink
  <2>3. ValOf(c)' = Head(Contents)
    BY <2>1, <2>2 DEF ValOf
  <2>4. /\ AbstractRes' = [AbstractRes EXCEPT ![c] = "true"]
        /\ AbstractNum' = AbstractNum
        /\ AbstractVal' = [AbstractVal EXCEPT ![c] = Head(Contents)]
    BY <1>1, <1>2, <1>8, <2>1, <2>3, Mapped, AbstractLocals
  <2> QED
    BY <1>5, <1>7, <2>2, <2>4 DEF Fifo!DequeueOk, Fifo!Outcome
<1>10. CASE ~DeqStoreHead(c)
  <2>1. ValOf(c)' = ValOf(c)
    BY <1>1, <1>3, <1>10
    DEF ValOf, Dequeue, DeqLoadHead, DeqLoadTail, DeqCheck, DeqCopy, DeqThrow,
        DeqReset, Goto, Decide
  <2>2. Contents' = Contents
    <3>1. CASE DeqReset(c)
      BY <3>1, ResetKeepsContents
    <3>2. CASE ~DeqReset(c)
      <4>1. /\ UNCHANGED shared
            /\ pc[c] # "deq_store_head" /\ pc'[c] # "deq_store_head"
        BY <1>1, <1>10, <3>2
        DEF Dequeue, DeqLoadHead, DeqLoadTail, DeqCheck, DeqCopy, DeqThrow, Goto,
            Decide
      <4> QED
        BY <1>1, <1>2, <4>1, QuietContents
    <3> QED
      BY <3>1, <3>2
  <2>3. CASE res' = res
    BY <1>1, <1>2, <1>5, <1>8, <2>1, <2>2, <2>3, Stutters
  <2>4. CASE DeqThrow(c)
    <3>1. res'[c] = "threw"
      BY <1>1, <2>4 DEF DeqThrow, Decide
    <3>2. Fifo!Outcome(c, "threw") /\ UNCHANGED <<op, AbstractVal, AbstractNum>>
      BY <1>1, <1>2, <1>5, <1>8, <2>1, <3>1, Decides
    <3> QED
      BY <1>7, <2>2, <3>2 DEF Fifo!Throw
  <2>5. CASE DeqLoadTail(c) /\ res' # res
    <3>1. head = tail /\ res'[c] = "false"
      BY <1>1, <1>4, <2>5 DEF DeqLoadTail, Decide, Goto
    <3>2. Fifo!Outcome(c, "false") /\ UNCHANGED <<op, AbstractVal, AbstractNum>>
      BY <1>1, <1>2, <1>5, <1>8, <2>1, <3>1, Decides
    <3> QED
      BY <1>7, <2>2, <3>1, <3>2, ContentsEmpty DEF Fifo!DequeueEmpty
  <2>6. DeqCheck(c) => res' = res
    <3>1. pc[c] = "deq_check" => buffer[idx[c]] # NoValue
      BY <1>4
    <3> QED
      BY <3>1 DEF DeqCheck, Goto, Decide
  <2>7. DeqLoadHead(c) \/ DeqCopy(c) \/ DeqReset(c) => res' = res
    BY DEF DeqLoadHead, DeqCopy, DeqReset
  <2> QED
    BY <1>10, <2>3, <2>4, <2>5, <2>6, <2>7 DEF Dequeue
<1> QED
  BY <1>9, <1>10

\* A count() of an owner is the length of the queue, of anybody else some
\* length that a queue can have.
LEMMA CountRefines ==
    ASSUME IInv, NEW t \in Threads, OwnMove(t), Fifo!Pending(t, "count"), op' = op,
           Contents' = Contents, ValOf(t)' = ValOf(t), ResOf(t)' = "number",
           NEW n \in 0 .. Capacity - 1, NumOf(t)' = n,
           t \in Producers \cup Consumers => n = CountOf(head, tail)
    PROVE  Fifo!Count(t)
<1>1. AbstractVal' = AbstractVal
  BY Mapped, AbstractLocals
<1>2. /\ AbstractRes' = [AbstractRes EXCEPT ![t] = "number"]
      /\ AbstractNum' = [AbstractNum EXCEPT ![t] = n]
  BY Mapped
<1>3. n \in IF t \in Fifo!Owners THEN {Len(Contents)} ELSE 0 .. Capacity - 1
  BY ContentsSeq DEF Fifo!Owners
<1> QED
  BY <1>1, <1>2, <1>3 DEF Fifo!Count, Fifo!Outcome

LEMMA CntLoadHeadRefines ==
    ASSUME IInv, NEW t \in Threads, CntLoadHead(t)
    PROVE  Fifo!Count(t) \/ UNCHANGED Fifo!avars
<1>1. /\ pc \in [Threads -> Labels] /\ idx \in [Threads -> Slots]
      /\ head \in Slots /\ tail \in Slots
  BY DEF IInv, TypeOK
<1>2. OwnMove(t) /\ Moves(t)
  BY StepIsOwn DEF IInv, Step, Query, OwnMove
<1>3. /\ pc[t] = "cnt_load_head" /\ pc'[t] = "cnt_load_tail" /\ idx'[t] = head
      /\ UNCHANGED <<shared, op, val, res, num>>
  BY <1>1 DEF CntLoadHead, Goto
<1>4. Contents' = Contents
  BY <1>2, <1>3, QuietContents
<1>5. ValOf(t)' = ValOf(t)
  BY <1>3 DEF ValOf
<1>6. CASE t \in Producers
  <2>1. ResOf(t)' = "number" /\ NumOf(t)' = CountOf(head, tail)
    BY <1>3, <1>6 DEF ResOf, NumOf, CountDecided, CountOf, shared
  <2>2. CountOf(head, tail) \in 0 .. Capacity - 1
    BY <1>1, CountEnds
  <2>3. op[t] = "count"
    BY <1>3 DEF IInv, CallInv
  <2>4. Fifo!Pending(t, "count")
    BY <1>3, <2>3, PendingAt DEF CountDecided, EmptyDecided
  <2> QED
    BY <1>2, <1>3, <1>4, <1>5, <2>1, <2>2, <2>4, CountRefines
<1>7. CASE t \notin Producers
  <2>1. ResOf(t)' = ResOf(t) /\ NumOf(t)' = NumOf(t)
    BY <1>3, <1>7 DEF ResOf, NumOf, CountDecided, EmptyDecided
  <2> QED
    BY <1>2, <1>3, <1>4, <1>5, <2>1, Stutters
<1> QED
  BY <1>6, <1>7

LEMMA CntLoadTailRefines ==
    ASSUME IInv, NEW t \in Threads, CntLoadTail(t)
    PROVE  Fifo!Count(t) \/ UNCHANGED Fifo!avars
<1>1. /\ pc \in [Threads -> Labels] /\ idx[t] \in Slots
      /\ res \in [Threads -> Results] /\ num \in [Threads -> Slots]
      /\ head \in Slots /\ tail \in Slots
  BY DEF IInv, TypeOK
<1>2. OwnMove(t) /\ Moves(t)
  BY StepIsOwn DEF IInv, Step, Query, OwnMove
<1>3. /\ pc[t] = "cnt_load_tail" /\ pc'[t] = "done" /\ res'[t] = "number"
      /\ num'[t] = CountOf(idx[t], tail) /\ UNCHANGED <<shared, op, idx, val>>
  BY <1>1 DEF CntLoadTail, Decide, Goto
<1>4. Contents' = Contents
  BY <1>2, <1>3, QuietContents
<1>5. /\ ValOf(t)' = ValOf(t) /\ ResOf(t)' = "number"
      /\ NumOf(t)' = CountOf(idx[t], tail)
  BY <1>3 DEF ValOf, ResOf, NumOf, CountDecided, EmptyDecided
<1>6. CASE t \in Producers
  <2>1. ResOf(t) = "number" /\ NumOf(t) = CountOf(idx[t], tail)
    BY <1>3, <1>6 DEF ResOf, NumOf, CountDecided
  <2> QED
    BY <1>2, <1>3, <1>4, <1>5, <2>1, Stutters
<1>7. CASE t \notin Producers
  <2>1. CountOf(idx[t], tail) \in 0 .. Capacity - 1
    BY <1>1, CountEnds
  <2>2. op[t] = "count"
    BY <1>3 DEF IInv, CallInv
  <2>3. Fifo!Pending(t, "count")
    BY <1>3, <1>7, <2>2, PendingAt DEF CountDecided, EmptyDecided
  <2>4. t \in Consumers => idx[t] = head
    BY <1>3 DEF IInv, ReadInv
  <2>5. PICK n \in 0 .. Capacity - 1 : n = CountOf(idx[t], tail)
    BY <2>1
  <2>6. t \in Producers \cup Consumers => n = CountOf(head, tail)
    BY <1>7, <2>4, <2>5
  <2>7. NumOf(t)' = n
    BY <1>5, <2>5
  <2> QED
    BY <1>2, <1>3, <1>4, <1>5, <2>3, <2>6, <2>7, CountRefines
<1> QED
  BY <1>6, <1>7

\* An is_empty() of an owner is true when the queue is empty, of anybody else
\* it may be either.
LEMMA IsEmptyRefines ==
    ASSUME IInv, NEW t \in Threads, OwnMove(t), Fifo!Pending(t, "is_empty"), op' = op,
           Contents' = Contents, ValOf(t)' = ValOf(t), NumOf(t)' = NumOf(t),
           NEW b \in BOOLEAN, ResOf(t)' = IF b THEN "true" ELSE "false",
           t \in Producers \cup Consumers => (b <=> head = tail)
    PROVE  Fifo!IsEmpty(t)
<1>1. Fifo!Outcome(t, IF b THEN "true" ELSE "false")
      /\ UNCHANGED <<op, AbstractVal, AbstractNum>>
  BY Decides
<1>2. b \in IF t \in Fifo!Owners THEN {Contents = <<>>} ELSE BOOLEAN
  BY ContentsEmpty DEF Fifo!Owners
<1> QED
  BY <1>1, <1>2 DEF Fifo!IsEmpty

\* What the steps of is_empty() have in common.
LEMMA IsEmptySteps ==
    ASSUME IInv, NEW t \in Threads, EmpLoadFirst(t) \/ EmpLoadSecond(t)
    PROVE  /\ OwnMove(t) /\ op' = op /\ Contents' = Contents
           /\ ValOf(t)' = ValOf(t) /\ NumOf(t)' = NumOf(t)
           /\ ~EmptyDecided(t) => Fifo!Pending(t, "is_empty")
<1>1. pc \in [Threads -> Labels]
  BY DEF IInv, TypeOK
<1>2. OwnMove(t) /\ Moves(t)
  BY StepIsOwn DEF IInv, Step, Query, OwnMove
<1>3. /\ pc[t] \in {"emp_load", "emp_load_head", "emp_load_tail"}
      /\ pc'[t] \in {"emp_load_head", "emp_load_tail", "done"}
      /\ UNCHANGED <<shared, op, val, num>>
  BY <1>1 DEF EmpLoadFirst, EmpLoadSecond, Decide, Goto
<1>4. Contents' = Contents
  BY <1>2, <1>3, QuietContents
<1>5. ValOf(t)' = ValOf(t) /\ NumOf(t)' = NumOf(t)
  BY <1>3 DEF ValOf, NumOf, CountDecided
<1>6. op[t] = "is_empty"
  BY <1>3 DEF IInv, CallInv
<1>7. ~EmptyDecided(t) => Fifo!Pending(t, "is_empty")
  BY <1>3, <1>6, PendingAt DEF CountDecided
<1> QED
  BY <1>2, <1>3, <1>4, <1>5, <1>7

LEMMA EmpLoadFirstRefines ==
    ASSUME IInv, NEW t \in Threads, EmpLoadFirst(t)
    PROVE  Fifo!IsEmpty(t) \/ UNCHANGED Fifo!avars
<1>1. /\ pc \in [Threads -> Labels] /\ idx \in [Threads -> Slots]
  BY DEF IInv, TypeOK
<1>2. /\ OwnMove(t) /\ op' = op /\ Contents' = Contents
      /\ ValOf(t)' = ValOf(t) /\ NumOf(t)' = NumOf(t)
      /\ ~EmptyDecided(t) => Fifo!Pending(t, "is_empty")
  BY IsEmptySteps
<1>3. /\ pc[t] = "emp_load"
      /\ \/ pc'[t] = "emp_load_tail" /\ idx'[t] = head
         \/ pc'[t] = "emp_load_head" /\ idx'[t] = tail
      /\ UNCHANGED <<head, tail, res>>
  BY <1>1 DEF EmpLoadFirst, Goto, shared
<1>4. ~EmptyDecided(t) /\ ResOf(t) = res[t]
  BY <1>3 DEF EmptyDecided, CountDecided, ResOf
<1>5. CASE EmptyDecided(t)'
  <2>1. ResOf(t)' = IF head = tail THEN "true" ELSE "false"
    BY <1>3, <1>5, ThreadAssumption DEF ResOf, EmptyDecided, CountDecided
  <2>2. PICK b \in BOOLEAN : b <=> head = tail
    OBVIOUS
  <2>3. ResOf(t)' = IF b THEN "true" ELSE "false"
    BY <2>1, <2>2
  <2> QED
    BY <1>2, <1>4, <2>2, <2>3, IsEmptyRefines
<1>6. CASE ~EmptyDecided(t)'
  <2>1. ResOf(t)' = ResOf(t)
    BY <1>3, <1>4, <1>6 DEF ResOf, CountDecided
  <2> QED
    BY <1>2, <2>1, Stutters
<1> QED
  BY <1>5, <1>6

LEMMA EmpLoadSecondRefines ==
    ASSUME IInv, NEW t \in Threads, EmpLoadSecond(t)
    PROVE  Fifo!IsEmpty(t) \/ UNCHANGED Fifo!avars
<1>1. /\ pc \in [Threads -> Labels] /\ res \in [Threads -> Results]
  BY DEF IInv, TypeOK
<1>2. /\ OwnMove(t) /\ op' = op /\ Contents' = Contents
      /\ ValOf(t)' = ValOf(t) /\ NumOf(t)' = NumOf(t)
      /\ ~EmptyDecided(t) => Fifo!Pending(t, "is_empty")
  BY IsEmptySteps
<1>3. /\ \/ pc[t] = "emp_load_tail"
            /\ res'[t] = IF idx[t] = tail THEN "true" ELSE "false"
         \/ pc[t] = "emp_load_head"
            /\ res'[t] = IF idx[t] = head THEN "true" ELSE "false"
      /\ pc'[t] = "done"
  BY <1>1 DEF EmpLoadSecond, Decide, Goto
<1>4. ResOf(t)' = res'[t]
  BY <1>3 DEF ResOf, EmptyDecided, CountDecided
<1>5. CASE EmptyDecided(t)
  <2>1. ResOf(t) = res'[t]
    BY <1>3, <1>5, ThreadAssumption DEF ResOf, EmptyDecided, CountDecided
  <2> QED
    BY <1>2, <1>4, <2>1, Stutters
<1>6. CASE ~EmptyDecided(t)
  <2>1. PICK b \in BOOLEAN : /\ ResOf(t)' = IF b THEN "true" ELSE "false"
                             /\ b <=> \/ pc[t] = "emp_load_tail" /\ idx[t] = tail
                                      \/ pc[t] = "emp_load_head" /\ idx[t] = head
    BY <1>3, <1>4
  <2>2. ASSUME t \in Producers \cup Consumers
        PROVE  b <=> head = tail
    <3>1. /\ t \in Producers => pc[t] = "emp_load_head" /\ idx[t] = tail
          /\ t \in Consumers => pc[t] = "emp_load_tail" /\ idx[t] = head
      BY <1>3, <1>6 DEF EmptyDecided, IInv, ReadInv
    <3> QED
      BY <2>1, <2>2, <3>1
  <2> QED
    BY <1>2, <1>6, <2>1, <2>2, IsEmptyRefines
<1> QED
  BY <1>5, <1>6

-----------------------------------------------------------------------------
(* The theorem.                                                            *)

LEMMA InitRefines ==
    ASSUME Init
    PROVE  Fifo!Init
<1>1. IInv
  BY InitInv
<1>2. Contents = <<>>
  BY <1>1, ContentsEmpty DEF Init
<1>3. \A t \in Threads : ResOf(t) = "none" /\ NumOf(t) = 0 /\ ValOf(t) = NoValue
  BY DEF Init, ResOf, NumOf, ValOf, CountDecided, EmptyDecided
<1>4. /\ AbstractRes = [t \in Threads |-> "none"]
      /\ AbstractNum = [t \in Threads |-> 0]
      /\ AbstractVal = [t \in Threads |-> NoValue]
  BY <1>3, AbstractLocals
<1>5. Fifo!Threads = Threads
  BY DEF Fifo!Threads, Threads
<1> QED
  BY <1>2, <1>4, <1>5 DEF Fifo!Init, Init

LEMMA StepRefines ==
    ASSUME IInv, [Next]_vars
    PROVE  [Fifo!Next]_(Fifo!avars)
<1>1. ASSUME NEW t \in Threads, Invoke(t) \/ Step(t)
      PROVE  Fifo!Invoke(t) \/ Fifo!Effect(t) \/ Fifo!Return(t) \/ UNCHANGED Fifo!avars
  <2>1. CASE Invoke(t)
    BY <2>1, InvokeRefines
  <2>2. CASE t \in Producers /\ Enqueue(t)
    BY <2>2, EnqueueRefines DEF Fifo!Effect
  <2>3. CASE t \in Consumers /\ Dequeue(t)
    BY <2>3, DequeueRefines DEF Fifo!Effect
  <2>4. CASE Query(t)
    BY <2>4, CntLoadHeadRefines, CntLoadTailRefines, EmpLoadFirstRefines,
       EmpLoadSecondRefines DEF Query, Fifo!Effect
  <2>5. CASE Return(t)
    BY <2>5, ReturnRefines
  <2> QED
    BY <1>1, <2>1, <2>2, <2>3, <2>4, <2>5 DEF Step
<1>2. CASE UNCHANGED vars
  BY <1>2
  DEF vars, Fifo!avars, Contents, CountOf, Item, Taking, AbstractRes, AbstractNum,
      AbstractVal, CountDecided, EmptyDecided
<1>3. Fifo!Threads = Threads
  BY DEF Fifo!Threads, Threads
<1> QED
  BY <1>1, <1>2, <1>3 DEF Next, Fifo!Next

\* With one producer and one consumer every execution of lockfreequeue_sptr is
\* one of a first-in-first-out queue of capacity_ - 1 elements on which each
\* call takes effect at one instant between its invocation and its return.
THEOREM IsLinearizable == Spec => Linearizable
<1>1. Init => Fifo!Init
  BY InitRefines
<1>2. IInv /\ [Next]_vars => [Fifo!Next]_(Fifo!avars)
  BY StepRefines
<1> QED
  BY <1>1, <1>2, Invariance, PTL DEF Spec, Linearizable, Fifo!Spec
=============================================================================
