--------------------------- MODULE SpscQueueProof ---------------------------
(***************************************************************************)
(* Proofs about lockfreequeue_sptr for one producer and one consumer, any  *)
(* capacity, any set of values and any number of observing threads.        *)
(***************************************************************************)
EXTENDS SpscQueue, QueueProgress, TLAPS

-----------------------------------------------------------------------------
(* The ring.                                                               *)

\* (i + 1) % capacity_ is the next slot, and the first one after the last.
LEMMA SuccWraps ==
    ASSUME NEW i \in Slots
    PROVE  /\ Succ(i) = IF i + 1 = Capacity THEN 0 ELSE i + 1
           /\ Succ(i) \in Slots
  BY CapacityAssumption DEF Slots, Succ

\* What count() computes from any two indices is less than capacity_.
LEMMA CountInSlots ==
    ASSUME NEW h \in Slots, NEW t \in Slots
    PROVE  CountOf(h, t) \in Slots
  BY CapacityAssumption DEF Slots, CountOf

\* Moving an index on by one slot is a bijection of the ring.
LEMMA SuccInjective ==
    ASSUME NEW i \in Slots, NEW j \in Slots, Succ(i) = Succ(j)
    PROVE  i = j
  BY SuccWraps DEF Slots

\* Moving tail puts the old tail in use and nothing else, unless the ring is
\* full.
LEMMA RingGrows ==
    ASSUME NEW h \in Slots, NEW t \in Slots, NEW i \in Slots, Succ(t) # h
    PROVE  Between(h, Succ(t), i) <=> Between(h, t, i) \/ i = t
  BY CapacityAssumption, SuccWraps DEF Between, Slots

\* Moving head frees the old head and nothing else, unless the ring is empty.
LEMMA RingShrinks ==
    ASSUME NEW h \in Slots, NEW t \in Slots, NEW i \in Slots, h # t
    PROVE  Between(Succ(h), t, i) <=> Between(h, t, i) /\ i # h
  BY CapacityAssumption, SuccWraps DEF Between, Slots

\* The slot at head is in use unless the ring is empty; the slot at tail is not.
LEMMA RingEnds ==
    ASSUME NEW h \in Slots, NEW t \in Slots
    PROVE  /\ h # t => Between(h, t, h)
           /\ ~Between(h, t, t)
  BY CapacityAssumption DEF Between, Slots

-----------------------------------------------------------------------------
(* Types.                                                                  *)

LEMMA InitType == Init => TypeOK
  BY CapacityAssumption DEF Init, TypeOK, Slots, Ops, Labels, Results

\* A call of any of the four functions keeps every index within the ring.
LEMMA InvokeType ==
    ASSUME TypeOK, NEW t \in Threads, Invoke(t)
    PROVE  TypeOK'
<1>1. ASSUME NEW f \in Ops, NEW l \in Labels, NEW v \in Values \cup {NoValue},
             Call(t, f, l, v)
      PROVE  TypeOK'
  BY <1>1 DEF Call, TypeOK, shared
<1>2. ASSUME NEW v \in Values, CallEnqueue(t, v)
      PROVE  TypeOK'
  BY <1>1, <1>2 DEF CallEnqueue, Ops, Labels, EnqLabels
<1>3. CASE CallDequeue(t)
  BY <1>1, <1>3 DEF CallDequeue, Ops, Labels, DeqLabels
<1>4. CASE CallCount(t)
  BY <1>1, <1>4 DEF CallCount, Ops, Labels, QueryLabels
<1>5. CASE CallIsEmpty(t)
  BY <1>1, <1>5 DEF CallIsEmpty, Ops, Labels, QueryLabels
<1> QED
  BY <1>2, <1>3, <1>4, <1>5 DEF Invoke

LEMMA EnqueueType ==
    ASSUME TypeOK, NEW p \in Threads, Enqueue(p)
    PROVE  TypeOK'
<1> USE DEF TypeOK, shared, Goto, Decide, Labels, EnqLabels, Results
<1>1. CASE EnqLoadTail(p)
  BY <1>1 DEF EnqLoadTail
<1>2. CASE EnqLoadHead(p)
  BY <1>2 DEF EnqLoadHead
<1>3. CASE EnqWrite(p)
  BY <1>3 DEF EnqWrite
<1>4. CASE EnqThrow(p)
  BY <1>4 DEF EnqThrow
<1>5. CASE EnqStoreTail(p)
  BY <1>5, SuccWraps DEF EnqStoreTail
<1> QED
  BY <1>1, <1>2, <1>3, <1>4, <1>5 DEF Enqueue

LEMMA DequeueType ==
    ASSUME TypeOK, NEW c \in Threads, Dequeue(c)
    PROVE  TypeOK'
<1> USE DEF TypeOK, shared, Goto, Decide, Labels, DeqLabels, Results
<1>1. CASE DeqLoadHead(c)
  BY <1>1 DEF DeqLoadHead
<1>2. CASE DeqLoadTail(c)
  BY <1>2 DEF DeqLoadTail
<1>3. CASE DeqCheck(c)
  BY <1>3 DEF DeqCheck
<1>4. CASE DeqCopy(c)
  BY <1>4 DEF DeqCopy
<1>5. CASE DeqThrow(c)
  BY <1>5 DEF DeqThrow
<1>6. CASE DeqReset(c)
  BY <1>6 DEF DeqReset
<1>7. CASE DeqStoreHead(c)
  BY <1>7, SuccWraps DEF DeqStoreHead
<1> QED
  BY <1>1, <1>2, <1>3, <1>4, <1>5, <1>6, <1>7 DEF Dequeue

LEMMA QueryType ==
    ASSUME TypeOK, NEW t \in Threads, Query(t)
    PROVE  TypeOK'
<1> USE DEF TypeOK, shared, Goto, Decide, Labels, QueryLabels, Results
<1>1. CASE CntLoadHead(t)
  BY <1>1 DEF CntLoadHead
<1>2. CASE CntLoadTail(t)
  BY <1>2, CountInSlots DEF CntLoadTail
<1>3. CASE EmpLoadFirst(t)
  BY <1>3 DEF EmpLoadFirst
<1>4. CASE EmpLoadSecond(t)
  BY <1>4 DEF EmpLoadSecond
<1> QED
  BY <1>1, <1>2, <1>3, <1>4 DEF Query

LEMMA ReturnType ==
    ASSUME TypeOK, NEW t \in Threads, Return(t)
    PROVE  TypeOK'
  BY CapacityAssumption DEF Return, TypeOK, shared, Slots, Ops, Labels, Results

LEMMA TypeStep ==
    ASSUME TypeOK, [Next]_vars
    PROVE  TypeOK'
<1>1. ASSUME NEW t \in Threads, Invoke(t) \/ Step(t)
      PROVE  TypeOK'
  BY <1>1, InvokeType, EnqueueType, DequeueType, QueryType, ReturnType DEF Step
<1>2. CASE UNCHANGED vars
  BY <1>2 DEF vars, TypeOK
<1> QED
  BY <1>1, <1>2 DEF Next

\* Whatever calls the threads make and however they interleave, the arithmetic
\* modulo capacity_ stays within the ring.
THEOREM TypeCorrect == Spec => []TypeOK
<1> QED
  BY InitType, TypeStep, PTL DEF Spec

-----------------------------------------------------------------------------
(* The inductive invariant.                                                *)

LEMMA InitInv == Init => IInv
<1> SUFFICES ASSUME Init PROVE IInv
  OBVIOUS
<1>1. TypeOK
  BY InitType
<1>2. SlotsMatchIndices
  BY DEF Init, SlotsMatchIndices, InUse, Between, Taking, Filling, Threads, Slots
<1>3. ProducerInv
  BY DEF Init, ProducerInv, EnqLabels, DeqLabels, Threads
<1>4. ConsumerInv
  BY DEF Init, ConsumerInv, EnqLabels, DeqLabels, Threads
<1>5. CallInv
  BY DEF Init, CallInv, EnqLabels, DeqLabels
<1>6. ReadInv
  BY DEF Init, ReadInv, Threads
<1> QED
  BY <1>1, <1>2, <1>3, <1>4, <1>5, <1>6 DEF IInv

\* Thread t enters a function, returns from one, or looks at the indices in
\* count() or is_empty(): no slot and no index changes.
QueryStep(t) == CallCount(t) \/ CallIsEmpty(t) \/ Query(t) \/ Return(t)

LEMMA QueryInv ==
    ASSUME IInv, NEW t \in Threads, QueryStep(t)
    PROVE  SlotsMatchIndices' /\ ProducerInv' /\ ConsumerInv'
<1> USE DEF IInv, TypeOK, shared, EnqLabels, DeqLabels, Threads
<1>1. /\ UNCHANGED shared
      /\ \A u \in Threads \ {t} :
             pc'[u] = pc[u] /\ idx'[u] = idx[u] /\ val'[u] = val[u]
      /\ pc[t] \notin {"enq_store_tail", "deq_store_head"}
      /\ pc'[t] \notin EnqLabels \cup DeqLabels \cup {"trap"}
  BY DEF QueryStep, CallCount, CallIsEmpty, Call, Query, CntLoadHead, CntLoadTail,
         EmpLoadFirst, EmpLoadSecond, Return, Goto, Decide
<1>2. (Taking' <=> Taking) /\ (Filling' <=> Filling)
  BY <1>1 DEF Taking, Filling
<1>3. SlotsMatchIndices'
  BY <1>1, <1>2 DEF SlotsMatchIndices, InUse
<1>4. ProducerInv'
  BY <1>1 DEF ProducerInv, Succ
<1>5. ConsumerInv'
  BY <1>1 DEF ConsumerInv
<1> QED
  BY <1>3, <1>4, <1>5

LEMMA InvokeEnqueueInv ==
    ASSUME IInv, NEW p \in Producers, NEW v \in Values, CallEnqueue(p, v)
    PROVE  SlotsMatchIndices' /\ ProducerInv' /\ ConsumerInv'
<1> USE ThreadAssumption DEF IInv, TypeOK, shared, EnqLabels, DeqLabels, Threads,
        CallEnqueue, Call
<1>1. (Taking' <=> Taking) /\ (Filling' <=> Filling)
  BY DEF Taking, Filling
<1>2. SlotsMatchIndices'
  BY <1>1 DEF SlotsMatchIndices, InUse
<1>3. ProducerInv'
  BY DEF ProducerInv, Succ
<1>4. ConsumerInv'
  BY DEF ConsumerInv
<1> QED
  BY <1>2, <1>3, <1>4

LEMMA InvokeDequeueInv ==
    ASSUME IInv, NEW c \in Consumers, CallDequeue(c)
    PROVE  SlotsMatchIndices' /\ ProducerInv' /\ ConsumerInv'
<1> USE ThreadAssumption DEF IInv, TypeOK, shared, EnqLabels, DeqLabels, Threads,
        CallDequeue, Call
<1>1. (Taking' <=> Taking) /\ (Filling' <=> Filling)
  BY DEF Taking, Filling
<1>2. SlotsMatchIndices'
  BY <1>1 DEF SlotsMatchIndices, InUse
<1>3. ProducerInv'
  BY DEF ProducerInv, Succ
<1>4. ConsumerInv'
  BY DEF ConsumerInv
<1> QED
  BY <1>2, <1>3, <1>4

\* A side's own facts: what the invariant says of the thread about to step.
LEMMA Enqueuing ==
    ASSUME IInv, NEW p \in Producers
    PROVE  /\ p \in Threads
           /\ Filling <=> pc[p] = "enq_store_tail"
           /\ pc[p] \in {"enq_load_head", "enq_write", "enq_store_tail"} =>
                  idx[p] = tail
           /\ pc[p] \in {"enq_write", "enq_store_tail"} => Succ(tail) # head
           /\ pc[p] = "enq_write" => val[p] \in Values
  BY SingleProducer DEF IInv, ProducerInv, Filling, Threads, EnqLabels

LEMMA Dequeuing ==
    ASSUME IInv, NEW c \in Consumers
    PROVE  /\ c \in Threads
           /\ Taking <=> pc[c] = "deq_store_head"
           /\ pc[c] \in {"deq_load_tail", "deq_check", "deq_copy", "deq_reset",
                         "deq_store_head"} => idx[c] = head
           /\ pc[c] \in {"deq_check", "deq_copy", "deq_reset", "deq_store_head"} =>
                  head # tail
           /\ pc[c] = "deq_reset" => val[c] = buffer[head]
           /\ pc[c] \in {"deq_check", "deq_copy", "deq_reset"} =>
                  buffer[head] \in Values
<1>1. Taking <=> pc[c] = "deq_store_head"
  BY SingleConsumer DEF Taking
<1>2. /\ pc[c] \in {"deq_load_tail", "deq_check", "deq_copy", "deq_reset",
                    "deq_store_head"} => idx[c] = head
      /\ pc[c] \in {"deq_check", "deq_copy", "deq_reset", "deq_store_head"} =>
             head # tail
      /\ pc[c] = "deq_reset" => val[c] = buffer[head]
  BY DEF IInv, ConsumerInv, DeqLabels
<1>3. ASSUME pc[c] \in {"deq_check", "deq_copy", "deq_reset"}
      PROVE  buffer[head] \in Values
  <2>1. head \in Slots /\ tail \in Slots /\ buffer[head] \in Values \cup {NoValue}
    BY DEF IInv, TypeOK
  <2>2. InUse(head) /\ ~Taking
    BY <1>1, <1>2, <1>3, <2>1, RingEnds DEF InUse
  <2> QED
    BY <2>1, <2>2 DEF IInv, SlotsMatchIndices
<1> QED
  BY <1>1, <1>2, <1>3 DEF Threads

\* Thread t moves; nobody else's locals change.
Moves(t) ==
    \A u \in Threads \ {t} :
        /\ op'[u] = op[u] /\ pc'[u] = pc[u] /\ idx'[u] = idx[u]
        /\ val'[u] = val[u] /\ res'[u] = res[u] /\ num'[u] = num[u]

LEMMA CallsMove ==
    ASSUME TypeOK, NEW t \in Threads, Invoke(t) \/ Step(t)
    PROVE  Moves(t)
<1> USE DEF TypeOK, Moves, Goto, Decide, shared
<1>1. CASE Enqueue(t)
  BY <1>1 DEF Enqueue, EnqLoadTail, EnqLoadHead, EnqWrite, EnqThrow, EnqStoreTail
<1>2. CASE Dequeue(t)
  BY <1>2 DEF Dequeue, DeqLoadHead, DeqLoadTail, DeqCheck, DeqCopy, DeqThrow,
              DeqReset, DeqStoreHead
<1>3. CASE Query(t)
  BY <1>3 DEF Query, CntLoadHead, CntLoadTail, EmpLoadFirst, EmpLoadSecond
<1>4. CASE Return(t)
  BY <1>4 DEF Return
<1>5. CASE Invoke(t)
  BY <1>5 DEF Invoke, CallEnqueue, CallDequeue, CallCount, CallIsEmpty, Call
<1> QED
  BY <1>1, <1>2, <1>3, <1>4, <1>5 DEF Step

\* A step of the producer leaves the consumer's locals as they are, and
\* conversely.
LEMMA ProducerMoves ==
    ASSUME NEW p \in Producers, Moves(p)
    PROVE  /\ \A c \in Consumers :
                  pc'[c] = pc[c] /\ idx'[c] = idx[c] /\ val'[c] = val[c]
           /\ Taking' <=> Taking
           /\ Filling' <=> pc'[p] = "enq_store_tail"
<1>1. \A c \in Consumers :
          pc'[c] = pc[c] /\ idx'[c] = idx[c] /\ val'[c] = val[c]
  BY ThreadAssumption DEF Moves, Threads
<1> QED
  BY <1>1, SingleProducer DEF Taking, Filling

LEMMA ConsumerMoves ==
    ASSUME NEW c \in Consumers, Moves(c)
    PROVE  /\ \A p \in Producers :
                  pc'[p] = pc[p] /\ idx'[p] = idx[p] /\ val'[p] = val[p]
           /\ Filling' <=> Filling
           /\ Taking' <=> pc'[c] = "deq_store_head"
<1>1. \A p \in Producers :
          pc'[p] = pc[p] /\ idx'[p] = idx[p] /\ val'[p] = val[p]
  BY ThreadAssumption DEF Moves, Threads
<1> QED
  BY <1>1, SingleConsumer DEF Taking, Filling

\* enqueue: the slot at tail is free when it is written, and publishing it puts
\* exactly that slot in use.
LEMMA EnqueueInv ==
    ASSUME IInv, NEW p \in Producers, Enqueue(p)
    PROVE  SlotsMatchIndices' /\ ProducerInv' /\ ConsumerInv'
<1> USE DEF shared, EnqLabels, DeqLabels, Goto, Decide
<1>1. TypeOK /\ SlotsMatchIndices /\ ProducerInv /\ ConsumerInv
  BY DEF IInv
<1>2. /\ p \in Threads
      /\ Filling <=> pc[p] = "enq_store_tail"
      /\ pc[p] \in {"enq_load_head", "enq_write", "enq_store_tail"} => idx[p] = tail
      /\ pc[p] \in {"enq_write", "enq_store_tail"} => Succ(tail) # head
      /\ pc[p] = "enq_write" => val[p] \in Values
  BY Enqueuing
<1>3. /\ \A c \in Consumers :
            pc'[c] = pc[c] /\ idx'[c] = idx[c] /\ val'[c] = val[c]
      /\ Taking' <=> Taking
      /\ Filling' <=> pc'[p] = "enq_store_tail"
  BY <1>1, <1>2, CallsMove, ProducerMoves DEF Step
<1>4. CASE UNCHANGED shared /\ pc'[p] # "enq_store_tail" /\ pc[p] # "enq_store_tail"
  <2>1. SlotsMatchIndices'
    BY <1>1, <1>2, <1>3, <1>4 DEF SlotsMatchIndices, InUse
  <2>2. ProducerInv'
    BY <1>1, <1>2, <1>4, SingleProducer
    DEF ProducerInv, TypeOK, Enqueue, EnqLoadTail, EnqLoadHead, EnqWrite, EnqThrow,
        EnqStoreTail, Succ
  <2>3. ConsumerInv'
    BY <1>1, <1>3, <1>4 DEF ConsumerInv
  <2> QED
    BY <2>1, <2>2, <2>3
<1>5. CASE EnqWrite(p)
  <2>1. /\ buffer' = [buffer EXCEPT ![tail] = val[p]]
        /\ UNCHANGED <<head, tail, idx, val>>
        /\ pc[p] = "enq_write" /\ pc'[p] = "enq_store_tail"
        /\ val[p] \in Values
        /\ tail \in Slots /\ head \in Slots /\ buffer \in [Slots -> Values \cup {NoValue}]
    BY <1>1, <1>2, <1>5 DEF EnqWrite, TypeOK
  <2>2. SlotsMatchIndices'
    BY <1>1, <1>2, <1>3, <2>1, RingEnds, ValueAssumption DEF SlotsMatchIndices, InUse
  <2>3. ProducerInv'
    BY <1>1, <1>2, <2>1, SingleProducer DEF ProducerInv
  <2>4. ConsumerInv'
    BY <1>1, <1>3, <2>1 DEF ConsumerInv
  <2> QED
    BY <2>2, <2>3, <2>4
<1>6. CASE EnqStoreTail(p)
  <2>1. /\ tail' = Succ(tail) /\ Succ(tail) # head
        /\ UNCHANGED <<buffer, head, idx, val>>
        /\ pc[p] = "enq_store_tail" /\ pc'[p] = "done"
        /\ tail \in Slots /\ head \in Slots
    BY <1>1, <1>2, <1>6 DEF EnqStoreTail, TypeOK
  <2>2. Taking => head # tail
    BY <1>1 DEF Taking, ConsumerInv
  <2>3. SlotsMatchIndices'
    BY <1>1, <1>2, <1>3, <2>1, <2>2, RingGrows, RingEnds DEF SlotsMatchIndices, InUse
  <2>4. ProducerInv'
    BY <2>1, SingleProducer DEF ProducerInv
  <2>5. ConsumerInv'
    BY <1>1, <1>3, <2>1 DEF ConsumerInv
  <2> QED
    BY <2>3, <2>4, <2>5
<1>7. EnqLoadTail(p) \/ EnqLoadHead(p) \/ EnqThrow(p) =>
          UNCHANGED shared /\ pc'[p] # "enq_store_tail" /\ pc[p] # "enq_store_tail"
  BY <1>1, <1>2 DEF TypeOK, EnqLoadTail, EnqLoadHead, EnqThrow
<1> QED
  BY <1>4, <1>5, <1>6, <1>7 DEF Enqueue

\* dequeue: the slot at head holds an element until it is reset, and moving
\* head frees exactly that slot.
LEMMA DequeueInv ==
    ASSUME IInv, NEW c \in Consumers, Dequeue(c)
    PROVE  SlotsMatchIndices' /\ ProducerInv' /\ ConsumerInv'
<1> USE DEF shared, EnqLabels, DeqLabels, Goto, Decide
<1>1. TypeOK /\ SlotsMatchIndices /\ ProducerInv /\ ConsumerInv
  BY DEF IInv
<1>2. /\ c \in Threads
      /\ Taking <=> pc[c] = "deq_store_head"
      /\ pc[c] \in {"deq_load_tail", "deq_check", "deq_copy", "deq_reset",
                    "deq_store_head"} => idx[c] = head
      /\ pc[c] \in {"deq_check", "deq_copy", "deq_reset", "deq_store_head"} =>
             head # tail
      /\ pc[c] = "deq_reset" => val[c] = buffer[head]
      /\ pc[c] \in {"deq_check", "deq_copy", "deq_reset"} => buffer[head] \in Values
  BY Dequeuing
<1>3. /\ \A p \in Producers :
            pc'[p] = pc[p] /\ idx'[p] = idx[p] /\ val'[p] = val[p]
      /\ Filling' <=> Filling
      /\ Taking' <=> pc'[c] = "deq_store_head"
  BY <1>1, <1>2, CallsMove, ConsumerMoves DEF Step
<1>4. CASE /\ UNCHANGED shared
           /\ pc'[c] # "deq_store_head" /\ pc[c] # "deq_store_head"
  <2>1. SlotsMatchIndices'
    BY <1>1, <1>2, <1>3, <1>4 DEF SlotsMatchIndices, InUse
  <2>2. ProducerInv'
    BY <1>1, <1>3, <1>4 DEF ProducerInv, Succ
  <2>3. ConsumerInv'
    BY <1>1, <1>2, <1>4, SingleConsumer, ValueAssumption
    DEF ConsumerInv, TypeOK, Dequeue, DeqLoadHead, DeqLoadTail, DeqCheck, DeqCopy,
        DeqThrow, DeqReset, DeqStoreHead
  <2> QED
    BY <2>1, <2>2, <2>3
<1>5. CASE DeqReset(c)
  <2>1. /\ buffer' = [buffer EXCEPT ![head] = NoValue]
        /\ UNCHANGED <<head, tail, idx, val>>
        /\ pc[c] = "deq_reset" /\ pc'[c] = "deq_store_head"
        /\ head # tail /\ val[c] \in Values
        /\ tail \in Slots /\ head \in Slots /\ buffer \in [Slots -> Values \cup {NoValue}]
    BY <1>1, <1>2, <1>5 DEF DeqReset, TypeOK
  <2>2. SlotsMatchIndices'
    BY <1>1, <1>2, <1>3, <2>1, RingEnds DEF SlotsMatchIndices, InUse
  <2>3. ProducerInv'
    BY <1>1, <1>3, <2>1 DEF ProducerInv
  <2>4. ConsumerInv'
    BY <1>1, <1>2, <2>1, SingleConsumer DEF ConsumerInv
  <2> QED
    BY <2>2, <2>3, <2>4
<1>6. CASE DeqStoreHead(c)
  <2>1. /\ head' = Succ(head) /\ head # tail
        /\ UNCHANGED <<buffer, tail, idx, val>>
        /\ pc[c] = "deq_store_head" /\ pc'[c] = "done"
        /\ tail \in Slots /\ head \in Slots
    BY <1>1, <1>2, <1>6 DEF DeqStoreHead, TypeOK
  <2>2. SlotsMatchIndices'
    BY <1>1, <1>2, <1>3, <2>1, RingShrinks, RingEnds DEF SlotsMatchIndices, InUse
  <2>3. ProducerInv'
    BY <1>1, <1>3, <2>1, SuccInjective DEF ProducerInv
  <2>4. ConsumerInv'
    BY <2>1, SingleConsumer DEF ConsumerInv
  <2> QED
    BY <2>2, <2>3, <2>4
<1>7. DeqLoadHead(c) \/ DeqLoadTail(c) \/ DeqCheck(c) \/ DeqCopy(c) \/ DeqThrow(c) =>
          /\ UNCHANGED shared
          /\ pc'[c] # "deq_store_head" /\ pc[c] # "deq_store_head"
  BY <1>1, <1>2 DEF TypeOK, DeqLoadHead, DeqLoadTail, DeqCheck, DeqCopy, DeqThrow
<1> QED
  BY <1>4, <1>5, <1>6, <1>7 DEF Dequeue

\* A call proceeds as its function does, and its locals are its own.
LEMMA CallInvStep ==
    ASSUME IInv, NEW t \in Threads, Invoke(t) \/ Step(t)
    PROVE  CallInv'
<1> USE DEF TypeOK, Goto, Decide, EnqLabels, DeqLabels
<1>1. TypeOK /\ CallInv
  BY DEF IInv
<1>2. Moves(t)
  BY <1>1, CallsMove
<1>3. ASSUME /\ pc'[t] = "idle" <=> op'[t] = "none"
             /\ pc'[t] = "done" <=> res'[t] # "none"
             /\ pc'[t] \in EnqLabels => op'[t] = "enqueue"
             /\ pc'[t] \in DeqLabels => op'[t] = "dequeue"
             /\ pc'[t] \in {"cnt_load_head", "cnt_load_tail"} => op'[t] = "count"
             /\ pc'[t] \in {"emp_load", "emp_load_head", "emp_load_tail"} =>
                    op'[t] = "is_empty"
             /\ pc'[t] \in DeqLabels \ {"deq_reset", "deq_store_head"} =>
                    val'[t] = NoValue
      PROVE  CallInv'
  BY <1>1, <1>2, <1>3 DEF CallInv, Moves
<1>4. CASE Enqueue(t)
  BY <1>1, <1>3, <1>4
  DEF CallInv, Enqueue, EnqLoadTail, EnqLoadHead, EnqWrite, EnqThrow, EnqStoreTail
<1>5. CASE Dequeue(t)
  BY <1>1, <1>3, <1>5
  DEF CallInv, Dequeue, DeqLoadHead, DeqLoadTail, DeqCheck, DeqCopy, DeqThrow,
      DeqReset, DeqStoreHead
<1>6. CASE Query(t)
  BY <1>1, <1>3, <1>6
  DEF CallInv, Query, CntLoadHead, CntLoadTail, EmpLoadFirst, EmpLoadSecond
<1>7. CASE Return(t)
  BY <1>1, <1>3, <1>7 DEF CallInv, Return
<1>8. CASE Invoke(t)
  BY <1>1, <1>3, <1>8
  DEF CallInv, Invoke, CallEnqueue, CallDequeue, CallCount, CallIsEmpty, Call
<1> QED
  BY <1>4, <1>5, <1>6, <1>7, <1>8 DEF Step

\* An index has one writer, which is not reading it in count() or is_empty()
\* when it moves it.
LEMMA ReadInvStep ==
    ASSUME IInv, NEW t \in Threads, Invoke(t) \/ Step(t)
    PROVE  ReadInv'
<1> USE DEF TypeOK, Goto, Decide, shared, Threads
<1>1. TypeOK /\ ReadInv /\ Moves(t)
  BY CallsMove DEF IInv
<1>2. CASE t \in Producers /\ Enqueue(t)
  <2>1. head' = head /\ (\A p \in Producers : pc'[p] # "emp_load_head")
    BY <1>1, <1>2, SingleProducer
    DEF Enqueue, EnqLoadTail, EnqLoadHead, EnqWrite, EnqThrow, EnqStoreTail
  <2> QED
    BY <1>1, <1>2, <2>1, ThreadAssumption DEF ReadInv, Moves
<1>3. CASE t \in Consumers /\ Dequeue(t)
  <2>1. /\ tail' = tail
        /\ \A c \in Consumers : pc'[c] \notin {"cnt_load_tail", "emp_load_tail"}
    BY <1>1, <1>3, SingleConsumer
    DEF Dequeue, DeqLoadHead, DeqLoadTail, DeqCheck, DeqCopy, DeqThrow, DeqReset,
        DeqStoreHead
  <2> QED
    BY <1>1, <1>3, <2>1, ThreadAssumption DEF ReadInv, Moves
<1>4. CASE Query(t)
  BY <1>1, <1>4
  DEF ReadInv, Moves, Query, CntLoadHead, CntLoadTail, EmpLoadFirst, EmpLoadSecond
<1>5. CASE Return(t)
  BY <1>1, <1>5 DEF ReadInv, Moves, Return
<1>6. CASE Invoke(t)
  BY <1>1, <1>6
  DEF ReadInv, Moves, Invoke, CallEnqueue, CallDequeue, CallCount, CallIsEmpty, Call
<1> QED
  BY <1>2, <1>3, <1>4, <1>5, <1>6 DEF Step

LEMMA StepInv ==
    ASSUME IInv, [Next]_vars
    PROVE  IInv'
<1>1. TypeOK'
  BY TypeStep DEF IInv
<1>2. ASSUME NEW t \in Threads, Invoke(t)
      PROVE  SlotsMatchIndices' /\ ProducerInv' /\ ConsumerInv'
  <2>1. CASE t \in Producers /\ \E v \in Values : CallEnqueue(t, v)
    BY <2>1, InvokeEnqueueInv
  <2>2. CASE t \in Consumers /\ CallDequeue(t)
    BY <2>2, InvokeDequeueInv
  <2>3. CASE CallCount(t) \/ CallIsEmpty(t)
    BY <2>3, QueryInv DEF QueryStep
  <2> QED
    BY <1>2, <2>1, <2>2, <2>3 DEF Invoke
<1>3. ASSUME NEW t \in Threads, Step(t)
      PROVE  SlotsMatchIndices' /\ ProducerInv' /\ ConsumerInv'
  BY <1>3, EnqueueInv, DequeueInv, QueryInv DEF Step, QueryStep
<1>4. CASE UNCHANGED vars
  <2> USE <1>4 DEF vars, IInv
  <2>1. (Taking' <=> Taking) /\ (Filling' <=> Filling)
    BY DEF Taking, Filling
  <2>2. SlotsMatchIndices'
    BY <2>1 DEF SlotsMatchIndices, InUse
  <2>3. ProducerInv'
    BY DEF ProducerInv, Succ
  <2>4. ConsumerInv'
    BY DEF ConsumerInv
  <2>5. CallInv' /\ ReadInv'
    BY DEF CallInv, ReadInv
  <2> QED
    BY <1>1, <2>2, <2>3, <2>4, <2>5 DEF IInv
<1> QED
  BY <1>1, <1>2, <1>3, <1>4, CallInvStep, ReadInvStep DEF Next, IInv

-----------------------------------------------------------------------------
(* The theorems.                                                           *)

\* The inductive invariant holds in every reachable state.
THEOREM Invariance == Spec => []IInv
<1> QED
  BY InitInv, StepInv, PTL DEF Spec

\* The slots that own an element are the ones between head_ and tail_, up to
\* the slot each side is working on, for every capacity: enqueue never
\* overwrites an element that nobody took and dequeue leaves none behind.
THEOREM SlotsMatch == Spec => []SlotsMatchIndices
<1>1. IInv => SlotsMatchIndices
  BY DEF IInv
<1> QED
  BY <1>1, Invariance, PTL

\* dequeue never meets an empty slot once it has seen the queue non-empty: the
\* null test at its start is never taken and the dereference is defined.
THEOREM ElementFound == Spec => []DequeueFindsElement
<1>1. IInv => DequeueFindsElement
  <2> SUFFICES ASSUME IInv, NEW c \in Consumers
               PROVE  /\ pc[c] \in {"deq_check", "deq_copy", "deq_reset"} =>
                             buffer[idx[c]] # NoValue
                      /\ pc[c] # "trap"
    BY DEF DequeueFindsElement
  <2>1. pc[c] # "trap"
    BY DEF IInv, ConsumerInv
  <2>2. ASSUME pc[c] \in {"deq_check", "deq_copy", "deq_reset"}
        PROVE  buffer[idx[c]] # NoValue
    BY <2>2, Dequeuing, ValueAssumption
  <2> QED
    BY <2>1, <2>2
<1> QED
  BY <1>1, Invariance, PTL

-----------------------------------------------------------------------------
(* Every call returns.                                                     *)

\* How many steps of its own a thread at label l takes at most until its call
\* has returned.
StepsLeft(l) ==
    CASE l = "idle" -> 0
      [] l = "done" -> 1
      [] l \in {"enq_store_tail", "deq_store_head", "cnt_load_tail",
                "emp_load_head", "emp_load_tail"} -> 2
      [] l \in {"enq_write", "deq_reset", "cnt_load_head", "emp_load"} -> 3
      [] l \in {"enq_load_head", "deq_copy"} -> 4
      [] l \in {"enq_load_tail", "deq_check"} -> 5
      [] l = "deq_load_tail" -> 6
      [] l = "deq_load_head" -> 7

NoTrap == \A t \in Threads : pc[t] # "trap"

LEMMA StepsLeftType ==
    ASSUME NEW l \in Labels \ {"trap"}
    PROVE  StepsLeft(l) \in 0 .. 7 /\ (StepsLeft(l) = 0 <=> l = "idle")
  BY DEF StepsLeft, Labels, EnqLabels, DeqLabels, QueryLabels

\* A step of a call brings its thread nearer to the return, and not into a trap.
LEMMA OwnStep ==
    ASSUME IInv, NoTrap, NEW t \in Threads, Step(t)
    PROVE  pc'[t] # "trap" /\ StepsLeft(pc'[t]) < StepsLeft(pc[t])
<1>1. pc \in [Threads -> Labels]
  BY DEF IInv, TypeOK
<1>2. CASE t \in Producers /\ Enqueue(t)
  BY <1>1, <1>2
     DEF Enqueue, EnqLoadTail, EnqLoadHead, EnqWrite, EnqThrow, EnqStoreTail, Decide, Goto,
         StepsLeft
<1>3. CASE t \in Consumers /\ Dequeue(t)
  <2>1. pc[t] = "deq_copy" => buffer[idx[t]] # NoValue
    BY <1>3, Dequeuing, ValueAssumption
  <2> QED
    BY <1>1, <1>3, <2>1
       DEF Dequeue, DeqLoadHead, DeqLoadTail, DeqCheck, DeqCopy, DeqThrow, DeqReset,
           DeqStoreHead, Decide, Goto, StepsLeft
<1>4. CASE Query(t)
  BY <1>1, <1>4
     DEF Query, CntLoadHead, CntLoadTail, EmpLoadFirst, EmpLoadSecond, Decide, Goto, StepsLeft
<1>5. CASE Return(t)
  BY <1>1, <1>5 DEF Return, StepsLeft
<1> QED
  BY <1>2, <1>3, <1>4, <1>5 DEF Step

\* A step of another thread, or a new call, leaves a call under way where it is.
LEMMA OtherStep ==
    ASSUME IInv, NoTrap, NEW t \in Threads, NEW u \in Threads,
           Invoke(u) \/ (u # t /\ Step(u)), pc[t] # "idle"
    PROVE  pc'[t] = pc[t]
<1>1. pc \in [Threads -> Labels]
  BY DEF IInv, TypeOK
<1>2. \E l : pc' = [pc EXCEPT ![u] = l]
  BY DEF Invoke, CallEnqueue, CallDequeue, CallCount, CallIsEmpty, Call, Step,
         Enqueue, EnqLoadTail, EnqLoadHead, EnqWrite, EnqThrow, EnqStoreTail,
         Dequeue, DeqLoadHead, DeqLoadTail, DeqCheck, DeqCopy, DeqThrow, DeqReset, DeqStoreHead,
         Query, CntLoadHead, CntLoadTail, EmpLoadFirst, EmpLoadSecond, Return, Decide, Goto
<1>3. Invoke(u) => u # t
  BY DEF Invoke, CallEnqueue, CallDequeue, CallCount, CallIsEmpty, Call
<1> QED
  BY <1>1, <1>2, <1>3

LEMMA NeverTraps == Spec => []NoTrap
<1>1. Init => NoTrap
  BY DEF Init, NoTrap
<1>2. IInv /\ NoTrap /\ [Next]_vars => NoTrap'
  <2> SUFFICES ASSUME IInv, NoTrap, [Next]_vars, NEW t \in Threads
               PROVE  pc'[t] # "trap"
    BY DEF NoTrap
  <2>1. CASE UNCHANGED vars
    BY <2>1 DEF NoTrap, vars
  <2>2. ASSUME NEW u \in Threads, Invoke(u) \/ Step(u)
        PROVE  pc'[t] # "trap"
    <3>1. CASE u = t /\ Step(u)
      BY <3>1, OwnStep
    <3>2. CASE pc[t] = "idle" /\ Invoke(u)
      <4>1. pc \in [Threads -> Labels]
        BY DEF IInv, TypeOK
      <4> QED
        BY <4>1, <3>2
           DEF Invoke, CallEnqueue, CallDequeue, CallCount, CallIsEmpty, Call
    <3>3. CASE pc[t] = "idle" /\ u # t /\ Step(u)
      <4>1. pc \in [Threads -> Labels]
        BY DEF IInv, TypeOK
      <4>2. \E l : pc' = [pc EXCEPT ![u] = l]
        BY <3>3 DEF Step,
           Enqueue, EnqLoadTail, EnqLoadHead, EnqWrite, EnqThrow, EnqStoreTail,
           Dequeue, DeqLoadHead, DeqLoadTail, DeqCheck, DeqCopy, DeqThrow, DeqReset,
           DeqStoreHead, Query, CntLoadHead, CntLoadTail, EmpLoadFirst, EmpLoadSecond,
           Return, Decide, Goto
      <4> QED
        BY <4>1, <4>2, <3>3
    <3>4. CASE pc[t] # "idle" /\ ~(u = t /\ Step(u))
      BY <2>2, <3>4, OtherStep DEF NoTrap
    <3> QED
      BY <2>2, <3>1, <3>2, <3>3, <3>4
  <2> QED
    BY <2>1, <2>2 DEF Next
<1> QED
  BY <1>1, <1>2, Invariance, PTL DEF Spec

\* At most n steps of its own are left in the call of t.
Within(t, n) == StepsLeft(pc[t]) \in 1 .. n

\* Thread t is in a call of at most m steps more, so at some time one of at most n.
Nearer(t, m, n) == Within(t, m) ~> Within(t, n) \/ op[t] = "none"

\* What is said of the thread t.
Runs(t) == Spec /\ []Ready(t) /\ WF_vars(Step(t))

LEMMA OneStepNearer ==
    ASSUME NEW t \in Threads, NEW n \in Nat, NEW m \in Nat, m = n + 1
    PROVE  Runs(t) => Nearer(t, m, n)
<1>1. ASSUME IInv, NoTrap, Within(t, m)
      PROVE  op[t] # "none" /\ pc[t] # "idle" /\ pc[t] \in Labels \ {"trap"}
  <2>1. pc[t] \in Labels \ {"trap"}
    BY <1>1 DEF IInv, TypeOK, NoTrap
  <2>2. pc[t] # "idle"
    BY <1>1, <2>1, StepsLeftType DEF Within
  <2> QED
    BY <1>1, <2>1, <2>2 DEF IInv, CallInv
<1>2. ASSUME IInv, IInv', NoTrap, Within(t, m), Step(t)
      PROVE  Within(t, n)' \/ (op[t] = "none")'
  <2>1. pc'[t] # "trap" /\ StepsLeft(pc'[t]) < StepsLeft(pc[t])
    BY <1>2, OwnStep
  <2>2. pc'[t] \in Labels \ {"trap"}
    BY <1>2, <2>1 DEF IInv, TypeOK, Threads
  <2>3. StepsLeft(pc'[t]) \in 0 .. n
    BY <1>2, <2>1, <2>2, StepsLeftType DEF Within
  <2>4. pc'[t] = "idle" => op'[t] = "none"
    BY <1>2 DEF IInv, CallInv, Threads
  <2> QED
    BY <2>2, <2>3, <2>4, StepsLeftType DEF Within
<1>3. IInv /\ IInv' /\ NoTrap /\ Within(t, m) /\ <<Step(t)>>_vars
          => Within(t, n)' \/ (op[t] = "none")'
  BY <1>2
<1>4. IInv /\ IInv' /\ NoTrap /\ Within(t, m) /\ [Next]_vars
          => Within(t, m)' \/ (op[t] = "none")'
  <2> SUFFICES ASSUME IInv, IInv', NoTrap, Within(t, m), [Next]_vars
               PROVE  Within(t, m)' \/ (op[t] = "none")'
    OBVIOUS
  <2>1. CASE UNCHANGED vars
    BY <2>1 DEF vars, Within
  <2>2. CASE Step(t)
    <3>1. Within(t, n)' => Within(t, m)'
      BY DEF Within
    <3> QED
      BY <1>2, <2>2, <3>1
  <2>3. ASSUME NEW u \in Threads, Invoke(u) \/ (u # t /\ Step(u))
        PROVE  Within(t, m)'
    <3>1. pc'[t] = pc[t]
      BY <1>1, <2>3, OtherStep
    <3> QED
      BY <3>1 DEF Within
  <2> QED
    BY <2>1, <2>2, <2>3 DEF Next
<1>5. IInv /\ NoTrap /\ Within(t, m) => op[t] # "none"
  BY <1>1
<1> QED
  BY <1>3, <1>4, <1>5, Invariance, NeverTraps, PTL DEF Spec, Ready, Runs, Nearer

\* With one producer and one consumer no call of a thread that keeps running
\* goes on for ever, for every capacity and any number of threads that stall.
\* That a thread in a call can always take its next step is the premise: it is
\* about ENABLED, and TLC's.
THEOREM CallsReturn == Spec /\ []NobodyWaits => EveryCallReturns
<1> DEFINE Premise == Spec /\ []NobodyWaits
<1>1. ASSUME NEW t \in Threads
      PROVE  Premise => Returns(t)
  <2>1. NobodyWaits => Ready(t)
    BY DEF NobodyWaits
  <2>2. IInv /\ NoTrap => Within(t, 7) \/ op[t] = "none"
    <3> SUFFICES ASSUME IInv, NoTrap, op[t] # "none" PROVE Within(t, 7)
      OBVIOUS
    <3>1. pc[t] \in Labels \ {"trap"} /\ pc[t] # "idle"
      BY DEF IInv, TypeOK, CallInv, NoTrap
    <3> QED
      BY <3>1, StepsLeftType DEF Within
  <2>3. ~Within(t, 0)
    BY DEF Within
  <2>4. \A n \in 0 .. 6 : Runs(t) => Nearer(t, n + 1, n)
    BY OneStepNearer
  <2>5. /\ Runs(t) => Nearer(t, 7, 6)
        /\ Runs(t) => Nearer(t, 6, 5)
        /\ Runs(t) => Nearer(t, 5, 4)
        /\ Runs(t) => Nearer(t, 4, 3)
        /\ Runs(t) => Nearer(t, 3, 2)
        /\ Runs(t) => Nearer(t, 2, 1)
        /\ Runs(t) => Nearer(t, 1, 0)
    BY <2>4
  <2> QED
    BY <2>1, <2>2, <2>3, <2>5, Invariance, NeverTraps, PTL DEF Returns, Runs, Nearer
<1> HIDE DEF Premise
<1>2. Premise => \A t \in Threads : Returns(t)
  BY <1>1
<1> QED
  BY <1>2, PTL DEF EveryCallReturns, Premise
=============================================================================
