--------------------------- MODULE SpscTestProof ---------------------------
(***************************************************************************)
(* Proofs about SingleProducerSingleConsumer, for any capacity and number  *)
(* of items.  What the queue does for the test is taken from the proofs    *)
(* that it keeps its invariant and is a first-in-first-out queue.          *)
(***************************************************************************)
EXTENDS SpscTest, SpscQueueRefinement, FiniteSetTheorems, SequenceTheorems

LEMMA TheThreads ==
    /\ Producers = {Producer} /\ Consumers = {Consumer} /\ Producer # Consumer
    /\ Producer \in Threads /\ Consumer \in Threads
    /\ Total = PerProducer /\ PerProducer \in Nat
<1>1. PICK p \in Producers, c \in Consumers : Producers = {p} /\ Consumers = {c}
  BY TestThreads
<1>2. Producer = p /\ Consumer = c
  BY <1>1 DEF Producer, Consumer
<1>3. Cardinality({p}) = 1
  BY FS_Singleton
<1>4. Producers = {Producer} /\ Consumers = {Consumer}
  BY <1>1, <1>2
<1>5. Producer # Consumer /\ Producer \in Threads /\ Consumer \in Threads
  BY <1>4, ThreadAssumption DEF Threads
<1>6. Total = 1 * PerProducer
  BY <1>1, <1>3 DEF Total
<1> QED
  BY <1>4, <1>5, <1>6, PerProducerAssumption

-----------------------------------------------------------------------------
(* The items.                                                              *)

Pairs == {Producer} \X Nat

LEMMA ItemsAre ==
    ASSUME NEW m \in Nat, NEW n \in Nat, m <= n
    PROVE  /\ ItemsFrom(m, n) \in Seq(Pairs) /\ Len(ItemsFrom(m, n)) = n - m
           /\ \A k \in 1 .. n - m : ItemsFrom(m, n)[k] = <<Producer, m + k - 1>>
<1>1. n - m \in Nat
  OBVIOUS
<1>2. \A k \in 1 .. n - m : <<Producer, m + k - 1>> \in Pairs
  BY DEF Pairs
<1> QED
  BY <1>1, <1>2 DEF ItemsFrom

LEMMA ItemsGrow ==
    ASSUME NEW m \in Nat, NEW n \in Nat, m <= n
    PROVE  Append(ItemsFrom(m, n), <<Producer, n>>) = ItemsFrom(m, n + 1)
<1>1. PICK f : f = ItemsFrom(m, n)
  OBVIOUS
<1>2. PICK g : g = ItemsFrom(m, n + 1)
  OBVIOUS
<1>3. PICK x : x = <<Producer, n>>
  OBVIOUS
<1>4. PICK l \in Nat : l = n - m
  OBVIOUS
<1>5. /\ f \in Seq(Pairs) /\ Len(f) = l
      /\ \A k \in 1 .. l : f[k] = <<Producer, m + k - 1>>
  BY <1>1, <1>4, ItemsAre
<1>6. /\ g \in Seq(Pairs) /\ Len(g) = l + 1
      /\ \A k \in 1 .. l + 1 : g[k] = <<Producer, m + k - 1>>
  <2>1. PICK q \in Nat : q = n + 1 /\ m <= q /\ q - m = l + 1
    BY <1>4
  <2>2. /\ ItemsFrom(m, q) \in Seq(Pairs) /\ Len(ItemsFrom(m, q)) = q - m
        /\ \A k \in 1 .. q - m : ItemsFrom(m, q)[k] = <<Producer, m + k - 1>>
    BY <2>1, ItemsAre
  <2> QED
    BY <1>2, <2>1, <2>2
<1>7. x \in Pairs
  BY <1>3 DEF Pairs
<1>8. PICK h : h = Append(f, x)
  OBVIOUS
<1>9. /\ h \in Seq(Pairs) /\ Len(h) = l + 1 /\ h[l + 1] = x
      /\ \A k \in 1 .. l : h[k] = f[k]
  <2>1. /\ Append(f, x) \in Seq(Pairs) /\ Len(Append(f, x)) = Len(f) + 1
        /\ Append(f, x)[Len(f) + 1] = x /\ \A k \in 1 .. Len(f) : Append(f, x)[k] = f[k]
    BY <1>5, <1>7, AppendProperties
  <2> QED
    BY <1>5, <1>8, <2>1
<1>10. \A k \in 1 .. l + 1 : h[k] = g[k]
  <2> SUFFICES ASSUME NEW k \in 1 .. l + 1
               PROVE  h[k] = g[k]
    OBVIOUS
  <2>1. CASE k = l + 1
    <3>1. m + k - 1 = n
      BY <1>4, <2>1
    <3> QED
      BY <1>3, <1>6, <1>9, <2>1, <3>1
  <2>2. CASE k \in 1 .. l
    BY <1>5, <1>6, <1>9, <2>2
  <2> QED
    BY <1>4, <2>1, <2>2
<1>11. h = g
  BY <1>6, <1>9, <1>10, SeqEqual
<1> QED
  BY <1>1, <1>2, <1>3, <1>8, <1>11

LEMMA ItemsShrink ==
    ASSUME NEW m \in Nat, NEW n \in Nat, m < n
    PROVE  /\ Head(ItemsFrom(m, n)) = <<Producer, m>>
           /\ Tail(ItemsFrom(m, n)) = ItemsFrom(m + 1, n)
<1>1. PICK f : f = ItemsFrom(m, n)
  OBVIOUS
<1>2. PICK g : g = ItemsFrom(m + 1, n)
  OBVIOUS
<1>3. PICK l \in Nat : l + 1 = n - m
  <2>1. n - m - 1 \in Nat
    OBVIOUS
  <2> QED
    BY <2>1
<1>4. /\ f \in Seq(Pairs) /\ Len(f) = l + 1
      /\ \A k \in 1 .. l + 1 : f[k] = <<Producer, m + k - 1>>
  <2>1. /\ ItemsFrom(m, n) \in Seq(Pairs) /\ Len(ItemsFrom(m, n)) = n - m
        /\ \A k \in 1 .. n - m : ItemsFrom(m, n)[k] = <<Producer, m + k - 1>>
    <3>1. m <= n
      OBVIOUS
    <3> QED
      BY <3>1, ItemsAre
  <2> QED
    BY <1>1, <1>3, <2>1
<1>5. /\ g \in Seq(Pairs) /\ Len(g) = l
      /\ \A k \in 1 .. l : g[k] = <<Producer, m + 1 + k - 1>>
  <2>1. PICK q \in Nat : q = m + 1 /\ q <= n /\ n - q = l
    BY <1>3
  <2>2. /\ ItemsFrom(q, n) \in Seq(Pairs) /\ Len(ItemsFrom(q, n)) = n - q
        /\ \A k \in 1 .. n - q : ItemsFrom(q, n)[k] = <<Producer, q + k - 1>>
    BY <2>1, ItemsAre
  <2> QED
    BY <1>2, <2>1, <2>2
<1>6. f # <<>> /\ Head(f) = f[1] /\ f[1] = <<Producer, m>>
  BY <1>4
<1>7. PICK h : h = Tail(f)
  OBVIOUS
<1>8. h \in Seq(Pairs) /\ Len(h) = l /\ \A k \in 1 .. l : h[k] = f[k + 1]
  <2>1. /\ Tail(f) \in Seq(Pairs) /\ Len(Tail(f)) = Len(f) - 1
        /\ \A k \in 1 .. Len(Tail(f)) : Tail(f)[k] = f[k + 1]
    BY <1>4, <1>6, HeadTailProperties
  <2>2. Len(f) - 1 = l
    BY <1>4
  <2> QED
    BY <1>7, <2>1, <2>2
<1>9. \A k \in 1 .. l : h[k] = g[k]
  <2> SUFFICES ASSUME NEW k \in 1 .. l
               PROVE  h[k] = g[k]
    OBVIOUS
  <2>1. /\ k + 1 \in 1 .. l + 1 /\ m + (k + 1) - 1 = m + k /\ m + 1 + k - 1 = m + k
    OBVIOUS
  <2>2. f[k + 1] = <<Producer, m + k>> /\ g[k] = <<Producer, m + k>>
    BY <1>4, <1>5, <2>1
  <2> QED
    BY <1>8, <2>2
<1>10. h = g
  BY <1>5, <1>8, <1>9, SeqEqual
<1> QED
  BY <1>1, <1>2, <1>6, <1>7, <1>10

-----------------------------------------------------------------------------
(* The steps of the test.                                                  *)

\* Every item is a value of the queue.
LEMMA ItemsAreValues ==
    ASSUME NEW n \in 0 .. PerProducer - 1
    PROVE  <<Producer, n>> \in Values
  BY TheThreads, ItemsAssumption

\* What the threads of the test do to the queue, any threads may do.
LEMMA TestIsClient ==
    ASSUME TestNext, made \in [Producers -> 0 .. PerProducer]
    PROVE  /\ [Next]_vars
           /\ \A p \in Producers : ProducerStep(p) => Invoke(p) \/ Step(p)
           /\ \A c \in Consumers :
                  ConsumerStep(c) => Invoke(c) \/ Step(c) \/ UNCHANGED vars
<1>1. ASSUME NEW p \in Producers, ProducerStep(p)
      PROVE  Invoke(p) \/ Step(p)
  <2>1. CASE PutNext(p)
    <3>1. made[p] \in 0 .. PerProducer - 1
      BY <2>1, PerProducerAssumption DEF PutNext
    <3>2. <<p, made[p]>> \in Values
      BY <3>1, ItemsAssumption
    <3> QED
      BY <2>1, <3>2 DEF PutNext, Invoke
  <2>2. CASE Put(p)
    BY <2>2 DEF Put, Step, Enqueue
  <2>3. CASE PutReturns(p)
    BY <2>3 DEF PutReturns, Step
  <2> QED
    BY <1>1, <2>1, <2>2, <2>3 DEF ProducerStep
<1>2. ASSUME NEW c \in Consumers, ConsumerStep(c)
      PROVE  Invoke(c) \/ Step(c) \/ UNCHANGED vars
  <2>1. CASE TakeNext(c)
    BY <2>1 DEF TakeNext, Invoke
  <2>2. CASE Take(c)
    BY <2>2 DEF Take, Step, Dequeue
  <2>3. CASE TakeReturns(c)
    BY <2>3 DEF TakeReturns, Step
  <2>4. CASE CountTaken(c)
    BY <2>4 DEF CountTaken
  <2> QED
    BY <1>2, <2>1, <2>2, <2>3, <2>4 DEF ConsumerStep
<1>3. CASE Finished
  BY <1>3, <1>1, <1>2 DEF Finished, testVars
<1> QED
  BY <1>1, <1>2, <1>3 DEF TestNext, Next, Threads

\* A call of the producer puts the next item at the end, or nothing.
LEMMA ProducerPuts ==
    ASSUME TestInv, ProducerStep(Producer), Moves(Producer)
    PROVE  /\ ProducerLoop'
           /\ made' \in [Producers -> 0 .. PerProducer]
           /\ \/ Accepted' = Accepted /\ Contents' = Contents
              \/ /\ Accepted' = Accepted + 1 /\ Accepted < PerProducer
                 /\ Contents' = Append(Contents, <<Producer, Accepted>>)
<1>1. PICK p \in Producers : p = Producer /\ p \in Threads /\ Producers = {p}
  BY TheThreads
<1>2. /\ TypeOK /\ CallInv /\ IInv /\ PerProducer \in Nat
      /\ made \in [Producers -> 0 .. PerProducer]
      /\ pc[p] \in EnqLabels \cup {"idle", "done"}
      /\ pc[p] # "idle" => made[p] < PerProducer
      /\ pc[p] \in EnqLabels => val[p] = <<p, made[p]>>
  BY <1>1, PerProducerAssumption DEF TestInv, IInv, TestTypeOK, ProducerLoop
<1>3. /\ pc \in [Threads -> Labels] /\ val \in [Threads -> Values \cup {NoValue}]
      /\ res \in [Threads -> Results]
  BY <1>2 DEF TypeOK
<1>4. /\ Accepted = made[p] + (IF pc[p] = "done" /\ res[p] = "true" THEN 1 ELSE 0)
      /\ Accepted' = made'[p] + (IF pc'[p] = "done" /\ res'[p] = "true" THEN 1 ELSE 0)
      /\ Moves(p)
  BY <1>1 DEF Accepted
<1>5. CASE PutNext(p)
  <2>1. /\ pc[p] = "idle" /\ pc'[p] = "enq_load_tail" /\ val'[p] = <<p, made[p]>>
        /\ made' = made /\ made[p] < PerProducer /\ UNCHANGED shared
    BY <1>1, <1>3, <1>5 DEF PutNext, CallEnqueue, Call
  <2>2. Contents' = Contents
    BY <1>1, <1>2, <1>4, <2>1, QuietContents
  <2>3. ProducerLoop'
    BY <1>1, <2>1 DEF ProducerLoop, EnqLabels
  <2> QED
    BY <1>2, <1>4, <2>1, <2>2, <2>3
<1>6. CASE Put(p)
  <2>1. made' = made
    BY <1>6 DEF Put
  <2>2. CASE EnqStoreTail(p)
    <3>1. /\ pc[p] = "enq_store_tail" /\ pc'[p] = "done" /\ res'[p] = "true"
      BY <1>1, <1>3, <2>2 DEF EnqStoreTail, Decide, Goto
    <3>2. made[p] < PerProducer /\ val[p] = <<p, made[p]>> /\ made[p] \in Nat
      BY <1>1, <1>2, <3>1 DEF EnqLabels
    <3>3. Contents' = Append(Contents, val[p])
      BY <1>2, <2>2, ContentsGrow
    <3>4. ProducerLoop'
      BY <1>1, <2>1, <3>1, <3>2 DEF ProducerLoop, EnqLabels
    <3>5. Accepted = made[p] /\ Accepted' = made[p] + 1
      BY <1>4, <2>1, <3>1, <3>2
    <3> QED
      BY <1>1, <1>2, <2>1, <3>2, <3>3, <3>4, <3>5
  <2>3. CASE EnqLoadTail(p) \/ EnqLoadHead(p) \/ EnqWrite(p)
    <3>1. /\ pc[p] \in EnqLabels /\ val'[p] = val[p]
          /\ pc'[p] \in EnqLabels \cup {"done"} /\ (pc'[p] = "done" => res'[p] = "false")
      <4>1. CASE EnqLoadTail(p)
        BY <1>1, <1>3, <4>1 DEF EnqLoadTail, Goto, EnqLabels
      <4>2. CASE EnqLoadHead(p)
        BY <1>1, <1>3, <4>2 DEF EnqLoadHead, Goto, Decide, EnqLabels
      <4>3. CASE EnqWrite(p)
        BY <1>1, <1>3, <4>3 DEF EnqWrite, Goto, EnqLabels
      <4> QED
        BY <2>3, <4>1, <4>2, <4>3
    <3>2. Contents' = Contents
      <4>1. CASE EnqWrite(p)
        BY <1>2, <4>1, WriteKeepsContents
      <4>2. CASE EnqLoadTail(p) \/ EnqLoadHead(p)
        <5>1. UNCHANGED shared
          BY <4>2 DEF EnqLoadTail, EnqLoadHead
        <5>2. pc[p] # "deq_store_head" /\ pc'[p] # "deq_store_head"
          BY <3>1 DEF EnqLabels
        <5> QED
          BY <1>1, <1>2, <1>4, <5>1, <5>2, QuietContents
      <4> QED
        BY <2>3, <4>1, <4>2
    <3>3. pc[p] # "done" /\ pc[p] # "idle"
      BY <3>1 DEF EnqLabels
    <3>4. ProducerLoop'
      BY <1>1, <1>2, <2>1, <3>1, <3>3 DEF ProducerLoop
    <3>5. Accepted' = Accepted
      BY <1>4, <2>1, <3>1, <3>3
    <3> QED
      BY <1>2, <2>1, <3>2, <3>4, <3>5
  <2> QED
    BY <1>6, <2>2, <2>3 DEF Put
<1>7. CASE PutReturns(p)
  <2>1. /\ pc[p] = "done" /\ pc'[p] = "idle" /\ UNCHANGED shared
        /\ made' = [made EXCEPT ![p] = IF res[p] = "true" THEN @ + 1 ELSE @]
    BY <1>1, <1>3, <1>7 DEF PutReturns, Return
  <2>2. Contents' = Contents
    BY <1>1, <1>2, <1>4, <2>1, QuietContents
  <2>3. made[p] \in 0 .. PerProducer - 1
    BY <1>1, <1>2, <2>1
  <2>4. made'[p] = made[p] + (IF res[p] = "true" THEN 1 ELSE 0)
    BY <1>1, <1>2, <2>1, <2>3
  <2>5. made' \in [Producers -> 0 .. PerProducer]
    BY <1>1, <1>2, <2>1, <2>3
  <2>6. Accepted' = Accepted
    BY <1>4, <2>1, <2>3, <2>4
  <2>7. ProducerLoop'
    BY <1>1, <2>1 DEF ProducerLoop, EnqLabels
  <2> QED
    BY <2>2, <2>5, <2>6, <2>7
<1> QED
  BY <1>1, <1>5, <1>6, <1>7 DEF ProducerStep

\* A call of the consumer takes the next item from the front, or nothing.
LEMMA ConsumerTakes ==
    ASSUME TestInv, ConsumerStep(Consumer), Moves(Consumer)
    PROVE  /\ ConsumerLoop'
           /\ consumed' \in Seq(Values) /\ counter' \in Nat /\ due' \subseteq Consumers
           /\ consumed' = ItemsFrom(0, Len(consumed'))
           /\ \/ Taken' = Taken /\ Contents' = Contents
              \/ /\ Taken' = Taken + 1 /\ Taken < Accepted
                 /\ Contents' = Tail(Contents)
<1>1. PICK c \in Consumers : c = Consumer /\ c \in Threads /\ Consumers = {c}
  BY TheThreads
<1>2. /\ TypeOK /\ IInv /\ consumed \in Seq(Values) /\ counter \in Nat /\ due \subseteq {c}
      /\ pc[c] \in DeqLabels \cup {"idle", "done"}
      /\ c \in due => pc[c] = "idle"
      /\ counter + (IF c \in due THEN 1 ELSE 0) = Len(consumed)
      /\ pc[c] = "done" /\ res[c] = "true" => val[c] = <<Producer, Len(consumed)>>
      /\ Taken <= Accepted /\ consumed = ItemsFrom(0, Len(consumed))
      /\ Contents = ItemsFrom(Taken, Accepted)
  BY <1>1 DEF TestInv, IInv, TestTypeOK, ConsumerLoop, Accounted
<1>3. /\ pc \in [Threads -> Labels] /\ val \in [Threads -> Values \cup {NoValue}]
      /\ res \in [Threads -> Results]
  BY <1>2 DEF TypeOK
<1>4. /\ Taken = Len(consumed) + (IF pc[c] = "done" /\ res[c] = "true" THEN 1 ELSE 0)
      /\ Taken' = Len(consumed') + (IF pc'[c] = "done" /\ res'[c] = "true" THEN 1 ELSE 0)
      /\ Moves(c) /\ Len(consumed) \in Nat
  BY <1>1, <1>2 DEF Taken
<1>5. CASE TakeNext(c)
  <2>1. /\ pc[c] = "idle" /\ pc'[c] = "deq_load_head" /\ c \notin due
        /\ UNCHANGED <<shared, consumed, counter, due>>
    BY <1>1, <1>3, <1>5 DEF TakeNext, CallDequeue, Call
  <2>2. Contents' = Contents
    BY <1>1, <1>2, <1>4, <2>1, QuietContents
  <2>3. ConsumerLoop'
    BY <1>1, <1>2, <2>1 DEF ConsumerLoop, DeqLabels
  <2>4. Taken' = Taken
    BY <1>4, <2>1
  <2> QED
    BY <1>1, <1>2, <2>1, <2>2, <2>3, <2>4
<1>6. CASE Take(c)
  <2>1. UNCHANGED <<consumed, counter, due>>
    BY <1>6 DEF Take
  <2>2. CASE DeqStoreHead(c)
    <3>1. /\ pc[c] = "deq_store_head" /\ pc'[c] = "done" /\ res'[c] = "true"
          /\ val'[c] = val[c]
      BY <1>1, <1>3, <2>2 DEF DeqStoreHead, Decide, Goto
    <3>2. Contents # <<>> /\ Contents' = Tail(Contents) /\ val[c] = Head(Contents)
      BY <1>2, <2>2, ContentsShrink
    <3>3. Taken = Len(consumed) /\ Taken' = Taken + 1
      BY <1>4, <2>1, <3>1
    <3>4. Accepted \in Nat
      BY TheThreads DEF TestInv, TestTypeOK, Accepted
    <3>5. Taken < Accepted
      <4>1. ASSUME Taken = Accepted
            PROVE  Len(Contents) = 0
        <5>1. PICK n \in Nat : n = Accepted /\ n <= n /\ n - n = 0
          BY <3>4
        <5>2. Len(ItemsFrom(n, n)) = n - n
          BY <5>1, ItemsAre
        <5> QED
          BY <1>2, <4>1, <5>1, <5>2
      <4>2. Contents \in Seq(Elements)
        BY <1>2, ContentsSeq
      <4> QED
        BY <1>2, <1>4, <3>2, <3>3, <3>4, <4>1, <4>2
    <3>6. val[c] = <<Producer, Len(consumed)>>
      BY <1>2, <1>4, <3>2, <3>3, <3>4, <3>5, ItemsShrink
    <3>7. c \notin due
      BY <1>2, <3>1
    <3>8. ConsumerLoop'
      BY <1>1, <1>2, <2>1, <3>1, <3>6, <3>7 DEF ConsumerLoop
    <3> QED
      BY <1>1, <1>2, <2>1, <3>2, <3>3, <3>5, <3>8
  <2>3. CASE \/ DeqLoadHead(c) \/ DeqLoadTail(c) \/ DeqCheck(c) \/ DeqCopy(c)
             \/ DeqReset(c)
    <3>1. /\ pc[c] \in DeqLabels /\ pc'[c] \in DeqLabels \cup {"done"}
          /\ (pc'[c] = "done" => res'[c] = "false")
      <4>1. CASE DeqLoadHead(c)
        BY <1>1, <1>3, <4>1 DEF DeqLoadHead, Goto, DeqLabels
      <4>2. CASE DeqLoadTail(c)
        BY <1>1, <1>3, <4>2 DEF DeqLoadTail, Goto, Decide, DeqLabels
      <4>3. CASE DeqCheck(c)
        BY <1>1, <1>3, <4>3 DEF DeqCheck, Goto, Decide, DeqLabels
      <4>4. CASE DeqCopy(c)
        <5>1. pc[c] = "deq_copy"
          BY <4>4 DEF DeqCopy, Goto
        <5>2. buffer[idx[c]] # NoValue
          BY <1>1, <1>2, <5>1, Dequeuing, ValueAssumption
        <5> QED
          BY <1>1, <1>3, <4>4, <5>2 DEF DeqCopy, Goto, DeqLabels
      <4>5. CASE DeqReset(c)
        BY <1>1, <1>3, <4>5 DEF DeqReset, Goto, DeqLabels
      <4> QED
        BY <2>3, <4>1, <4>2, <4>3, <4>4, <4>5
    <3>2. Contents' = Contents
      <4>1. CASE DeqReset(c)
        BY <1>2, <4>1, ResetKeepsContents
      <4>2. CASE DeqLoadHead(c) \/ DeqLoadTail(c) \/ DeqCheck(c) \/ DeqCopy(c)
        <5>1. UNCHANGED shared
          BY <4>2 DEF DeqLoadHead, DeqLoadTail, DeqCheck, DeqCopy
        <5>2. /\ pc[c] \in {"deq_load_head", "deq_load_tail", "deq_check", "deq_copy"}
              /\ pc'[c] \in {"deq_load_tail", "deq_check", "deq_copy", "deq_reset",
                             "done", "trap"}
          BY <1>1, <1>3, <4>2 DEF DeqLoadHead, DeqLoadTail, DeqCheck, DeqCopy, Goto, Decide
        <5> QED
          BY <1>1, <1>2, <1>4, <5>1, <5>2, QuietContents
      <4> QED
        BY <2>3, <4>1, <4>2
    <3>3. pc[c] # "done" /\ pc[c] # "idle"
      BY <3>1 DEF DeqLabels
    <3>4. c \notin due
      BY <1>2, <3>3
    <3>5. ConsumerLoop'
      BY <1>1, <1>2, <2>1, <3>1, <3>4 DEF ConsumerLoop
    <3>6. Taken' = Taken
      BY <1>4, <2>1, <3>1, <3>3
    <3> QED
      BY <1>1, <1>2, <2>1, <3>2, <3>5, <3>6
  <2> QED
    BY <1>6, <2>2, <2>3 DEF Take
<1>7. CASE TakeReturns(c)
  <2>1. /\ pc[c] = "done" /\ pc'[c] = "idle" /\ UNCHANGED <<shared, counter>>
        /\ c \notin due /\ due = {}
    BY <1>1, <1>2, <1>3, <1>7 DEF TakeReturns, Return
  <2>2. Contents' = Contents
    BY <1>1, <1>2, <1>4, <2>1, QuietContents
  <2>3. CASE res[c] = "true"
    <3>1. PICK x : x = <<Producer, Len(consumed)>> /\ x = val[c]
      BY <1>2, <2>1, <2>3
    <3>2. consumed' = Append(consumed, x) /\ due' = {c}
      BY <1>7, <2>1, <2>3, <3>1 DEF TakeReturns
    <3>3. x \in Values
      <4>1. val[c] \in Values \cup {NoValue}
        BY <1>1, <1>3
      <4>2. Taken = Len(consumed) + 1
        BY <1>4, <2>1, <2>3
      <4>3. Accepted \in Nat /\ Accepted <= PerProducer
        <5>1. /\ made[Producer] \in 0 .. PerProducer
              /\ pc[Producer] # "idle" => made[Producer] < PerProducer
          BY TheThreads DEF TestInv, TestTypeOK, ProducerLoop
        <5> QED
          BY <5>1, TheThreads DEF Accepted
      <4>4. Len(consumed) \in 0 .. PerProducer - 1
        BY <1>2, <1>4, <4>2, <4>3, TheThreads
      <4> QED
        BY <3>1, <4>4, ItemsAreValues
    <3>4. consumed' \in Seq(Values) /\ Len(consumed') = Len(consumed) + 1
      BY <1>2, <3>2, <3>3, AppendProperties
    <3>5. consumed' = ItemsFrom(0, Len(consumed'))
      <4>1. PICK n \in Nat : n = Len(consumed)
        BY <1>4
      <4>2. Append(ItemsFrom(0, n), <<Producer, n>>) = ItemsFrom(0, n + 1)
        <5>1. PICK z \in Nat : z = 0 /\ z <= n
          OBVIOUS
        <5> QED
          BY <5>1, ItemsGrow
      <4> QED
        BY <1>2, <3>1, <3>2, <3>4, <4>1, <4>2
    <3>6. ConsumerLoop'
      BY <1>1, <1>2, <2>1, <3>2, <3>4 DEF ConsumerLoop, DeqLabels
    <3>7. Taken' = Taken
      BY <1>4, <2>1, <2>3, <3>4
    <3> QED
      BY <1>1, <1>2, <2>1, <2>2, <3>2, <3>4, <3>5, <3>6, <3>7
  <2>4. CASE res[c] # "true"
    <3>1. UNCHANGED <<consumed, due>>
      BY <1>7, <2>4 DEF TakeReturns
    <3>2. ConsumerLoop'
      BY <1>1, <1>2, <2>1, <3>1 DEF ConsumerLoop, DeqLabels
    <3>3. Taken' = Taken
      BY <1>4, <2>1, <2>4, <3>1
    <3> QED
      BY <1>1, <1>2, <2>1, <2>2, <3>1, <3>2, <3>3
  <2> QED
    BY <2>3, <2>4
<1>8. CASE CountTaken(c)
  <2>1. /\ c \in due /\ due' = {} /\ counter' = counter + 1
        /\ UNCHANGED <<vars, consumed>> /\ pc[c] = "idle"
    BY <1>2, <1>8 DEF CountTaken
  <2>2. UNCHANGED <<shared, pc, res, val>>
    BY <2>1 DEF vars, shared
  <2>3. Contents' = Contents
    BY <1>1, <1>2, <1>4, <2>1, <2>2, QuietContents
  <2>4. ConsumerLoop'
    BY <1>1, <1>2, <2>1, <2>2 DEF ConsumerLoop
  <2>5. Taken' = Taken
    BY <1>4, <2>1, <2>2
  <2> QED
    BY <1>2, <2>1, <2>3, <2>4, <2>5
<1> QED
  BY <1>1, <1>5, <1>6, <1>7, <1>8 DEF ConsumerStep

LEMMA InitTest == TestInit => TestInv
<1> SUFFICES ASSUME TestInit PROVE TestInv
  OBVIOUS
<1>1. /\ Init /\ made = [p \in Producers |-> 0] /\ consumed = <<>> /\ counter = 0
      /\ due = {}
  BY DEF TestInit
<1>2. IInv
  BY <1>1, InitInv
<1>3. /\ pc[Producer] = "idle" /\ pc[Consumer] = "idle" /\ head = 0 /\ tail = 0
  BY <1>1, TheThreads DEF Init
<1>4. made \in [Producers -> 0 .. PerProducer] /\ made[Producer] = 0
  BY <1>1, TheThreads
<1>5. <<>> \in Seq(Values) /\ Len(<<>>) = 0
  OBVIOUS
<1>6. TestTypeOK
  BY <1>1, <1>4, <1>5 DEF TestTypeOK
<1>7. ProducerLoop
  BY <1>3, <1>4 DEF ProducerLoop, EnqLabels
<1>8. ConsumerLoop
  BY <1>1, <1>3, <1>5 DEF ConsumerLoop
<1>9. Accepted = 0 /\ Taken = 0
  BY <1>1, <1>3, <1>4, <1>5 DEF Accepted, Taken
<1>10. ItemsFrom(0, 0) = <<>>
  <2>1. PICK z \in Nat : z = 0 /\ z <= z /\ z - z = 0
    OBVIOUS
  <2>2. ItemsFrom(z, z) \in Seq(Pairs) /\ Len(ItemsFrom(z, z)) = z - z
    BY <2>1, ItemsAre
  <2>3. PICK f \in Seq(Pairs) : f = ItemsFrom(0, 0) /\ Len(f) = 0
    BY <2>1, <2>2
  <2> QED
    BY <2>3
<1>11. Contents = <<>>
  BY <1>2, <1>3, ContentsEmpty
<1>12. Accounted
  <2>1. 0 <= 0
    OBVIOUS
  <2> QED
    BY <1>1, <1>5, <1>9, <1>10, <1>11, <2>1 DEF Accounted
<1> QED
  BY <1>2, <1>6, <1>7, <1>8, <1>12 DEF TestInv

\* A step of one side leaves the loop of the other as it is.
LEMMA StepTest == TestInv /\ [TestNext]_testVars => TestInv'
<1> SUFFICES ASSUME TestInv, [TestNext]_testVars PROVE TestInv'
  OBVIOUS
<1>1. /\ IInv /\ TestTypeOK /\ ProducerLoop /\ ConsumerLoop /\ Accounted /\ TypeOK
      /\ made \in [Producers -> 0 .. PerProducer]
  BY DEF TestInv, IInv, TestTypeOK
<1>2. Accepted \in Nat /\ Taken \in Nat
  <2>1. made[Producer] \in Nat /\ Len(consumed) \in Nat
    BY <1>1, TheThreads DEF TestTypeOK
  <2> QED
    BY <2>1 DEF Accepted, Taken
<1>3. CASE \E p \in Producers : ProducerStep(p)
  <2>1. ProducerStep(Producer) /\ TestNext
    BY <1>3, TheThreads DEF TestNext
  <2>2. IInv' /\ Moves(Producer)
    BY <1>1, <2>1, TestIsClient, StepInv, CallsMove, TheThreads
  <2>3. /\ ProducerLoop' /\ made' \in [Producers -> 0 .. PerProducer]
        /\ \/ Accepted' = Accepted /\ Contents' = Contents
           \/ /\ Accepted' = Accepted + 1
              /\ Contents' = Append(Contents, <<Producer, Accepted>>)
    BY <2>1, <2>2, ProducerPuts
  <2>4. /\ UNCHANGED <<consumed, counter, due>>
        /\ pc'[Consumer] = pc[Consumer] /\ res'[Consumer] = res[Consumer]
        /\ val'[Consumer] = val[Consumer]
    <3>1. UNCHANGED <<consumed, counter, due>>
      BY <2>1 DEF ProducerStep, PutNext, Put, PutReturns
    <3> QED
      BY <2>2, <3>1, TheThreads DEF Moves
  <2>5. TestTypeOK' /\ ConsumerLoop' /\ Taken' = Taken
    <3>1. TestTypeOK'
      BY <1>1, <2>3, <2>4 DEF TestTypeOK
    <3>2. ConsumerLoop'
      BY <1>1, <2>4 DEF ConsumerLoop
    <3>3. Taken' = Taken
      BY <2>4 DEF Taken
    <3> QED
      BY <3>1, <3>2, <3>3
  <2>6. Taken' <= Accepted' /\ Contents' = ItemsFrom(Taken', Accepted')
    <3>1. CASE Accepted' = Accepted /\ Contents' = Contents
      BY <1>1, <2>5, <3>1 DEF Accounted
    <3>2. CASE /\ Accepted' = Accepted + 1
               /\ Contents' = Append(Contents, <<Producer, Accepted>>)
      <4>1. Taken <= Accepted /\ Contents = ItemsFrom(Taken, Accepted)
        BY <1>1 DEF Accounted
      <4>2. Append(ItemsFrom(Taken, Accepted), <<Producer, Accepted>>)
                = ItemsFrom(Taken, Accepted + 1)
        BY <1>2, <4>1, ItemsGrow
      <4>3. Taken' <= Accepted'
        BY <1>2, <2>5, <3>2, <4>1
      <4> QED
        BY <2>5, <3>2, <4>1, <4>2, <4>3
    <3> QED
      BY <2>3, <3>1, <3>2
  <2>7. Accounted'
    BY <1>1, <2>4, <2>6 DEF Accounted, ItemsFrom
  <2> QED
    BY <2>2, <2>3, <2>5, <2>7 DEF TestInv
<1>4. CASE \E c \in Consumers : ConsumerStep(c)
  <2>1. ConsumerStep(Consumer) /\ TestNext
    BY <1>4, TheThreads DEF TestNext
  <2>2. IInv'
    BY <1>1, <2>1, TestIsClient, StepInv
  <2>3. Moves(Consumer)
    <3>1. CASE Invoke(Consumer) \/ Step(Consumer)
      BY <1>1, <3>1, CallsMove, TheThreads
    <3>2. CASE UNCHANGED vars
      BY <3>2 DEF vars, Moves
    <3> QED
      BY <1>1, <2>1, <3>1, <3>2, TestIsClient, TheThreads
  <2>4. /\ ConsumerLoop'
        /\ consumed' \in Seq(Values) /\ counter' \in Nat /\ due' \subseteq Consumers
        /\ consumed' = ItemsFrom(0, Len(consumed'))
        /\ \/ Taken' = Taken /\ Contents' = Contents
           \/ Taken' = Taken + 1 /\ Taken < Accepted /\ Contents' = Tail(Contents)
    BY <2>1, <2>3, ConsumerTakes
  <2>5. /\ made' = made
        /\ pc'[Producer] = pc[Producer] /\ res'[Producer] = res[Producer]
        /\ val'[Producer] = val[Producer]
    <3>1. made' = made
      BY <2>1 DEF ConsumerStep, TakeNext, Take, TakeReturns, CountTaken
    <3> QED
      BY <2>3, <3>1, TheThreads DEF Moves
  <2>6. TestTypeOK' /\ ProducerLoop' /\ Accepted' = Accepted
    BY <1>1, <2>4, <2>5 DEF TestTypeOK, ProducerLoop, Accepted
  <2>7. Taken' <= Accepted' /\ Contents' = ItemsFrom(Taken', Accepted')
    <3>1. CASE Taken' = Taken /\ Contents' = Contents
      BY <1>1, <2>6, <3>1 DEF Accounted
    <3>2. CASE Taken' = Taken + 1 /\ Taken < Accepted /\ Contents' = Tail(Contents)
      BY <1>1, <1>2, <2>6, <3>2, ItemsShrink DEF Accounted
    <3> QED
      BY <2>4, <3>1, <3>2
  <2>8. Accounted'
    BY <2>4, <2>7 DEF Accounted, ItemsFrom
  <2> QED
    BY <2>2, <2>4, <2>6, <2>8 DEF TestInv
<1>5. CASE UNCHANGED testVars
  <2>1. UNCHANGED <<vars, made, consumed, counter, due>>
    BY <1>5 DEF testVars
  <2>2. IInv'
    BY <1>1, <2>1, StepInv
  <2>3. UNCHANGED <<buffer, head, tail, pc, res, val>>
    BY <2>1 DEF vars
  <2>4. TestTypeOK' /\ ProducerLoop' /\ ConsumerLoop'
    BY <1>1, <2>1, <2>3 DEF TestTypeOK, ProducerLoop, ConsumerLoop
  <2>5. Contents' = Contents /\ Accepted' = Accepted /\ Taken' = Taken
    <3>1. Moves(Producer)
      BY <2>1 DEF vars, Moves
    <3>2. pc[Producer] # "deq_store_head"
      BY <1>1 DEF ProducerLoop, EnqLabels
    <3> QED
      <4>1. UNCHANGED shared /\ pc'[Producer] # "deq_store_head"
        BY <2>3, <3>2 DEF shared
      <4>2. Contents' = Contents
        BY <1>1, <3>1, <3>2, <4>1, QuietContents, TheThreads
      <4>3. Accepted' = Accepted /\ Taken' = Taken
        BY <2>1, <2>3 DEF Accepted, Taken
      <4> QED
        BY <4>2, <4>3
  <2> QED
    BY <1>1, <2>1, <2>2, <2>4, <2>5 DEF TestInv, Accounted, ItemsFrom
<1> QED
  BY <1>3, <1>4, <1>5 DEF TestNext, Finished

-----------------------------------------------------------------------------
(* The theorems.                                                           *)

\* The inductive invariant of SingleProducerSingleConsumer: an item that enqueue
\* has accepted is in the queue, with the consumer or consumed, in order.
THEOREM TestInvariance == TestSpec => []TestInv
  BY InitTest, StepTest, PTL DEF TestSpec

\* The test never does to the queue what the queue's specification does not
\* foresee, so it sees a first-in-first-out queue.
THEOREM TestSeesFifo == TestSpec => Linearizable
<1>1. TestInit => Init
  BY DEF TestInit
<1>2. TestInv /\ [TestNext]_testVars => [Next]_vars
  BY TestIsClient DEF TestInv, TestTypeOK, testVars
<1> QED
  BY <1>1, <1>2, TestInvariance, IsLinearizable, PTL DEF TestSpec, Spec

\* What has been consumed is, at any moment, what was put first, in order, each
\* item once.
THEOREM InOrder == TestSpec => []ConsumedInOrder
<1>1. TestInv => ConsumedInOrder
  <2> SUFFICES ASSUME TestInv, NEW k \in 1 .. Len(consumed)
               PROVE  consumed[k][2] = k - 1
    BY DEF ConsumedInOrder
  <2>1. PICK n \in Nat : n = Len(consumed)
    BY DEF TestInv, TestTypeOK
  <2>2. consumed = ItemsFrom(0, n)
    BY <2>1 DEF TestInv, Accounted
  <2>3. n - 0 = n /\ 0 + k - 1 = k - 1
    BY <2>1
  <2>4. consumed[k] = <<Producer, k - 1>>
    BY <2>1, <2>2, <2>3 DEF ItemsFrom
  <2> QED
    BY <2>4
<1> QED
  BY <1>1, TestInvariance, PTL

\* The assertions of the test hold when all threads are joined: every item was
\* consumed, and the queue is empty.
THEOREM TestPasses == TestSpec => []TestVerdict
<1>1. TestInv => TestVerdict
  <2> SUFFICES ASSUME TestInv, AllJoined
               PROVE  /\ Len(consumed) = Total
                      /\ {consumed[k] : k \in 1 .. Len(consumed)} = Values
                      /\ CountOf(head, tail) = 0
    BY DEF TestVerdict
  <2>1. /\ made[Producer] = PerProducer /\ pc[Producer] = "idle" /\ pc[Consumer] = "idle"
        /\ Consumer \notin due /\ counter >= PerProducer
    BY TheThreads DEF AllJoined
  <2>2. PICK n \in Nat : n = Len(consumed)
    BY DEF TestInv, TestTypeOK
  <2>3. counter = n
    <3>1. counter \in Nat /\ counter + 0 = n
      BY <2>1, <2>2 DEF TestInv, TestTypeOK, ConsumerLoop
    <3> QED
      BY <3>1
  <2>4. Accepted = PerProducer /\ Taken = n /\ n <= PerProducer
    <3>1. Accepted = PerProducer + 0 /\ Taken = n + 0 /\ Taken <= Accepted
      BY <2>1, <2>2 DEF Accepted, Taken, TestInv, Accounted
    <3> QED
      BY <2>2, <3>1, TheThreads
  <2>5. n = PerProducer
    BY <2>1, <2>2, <2>3, <2>4, TheThreads
  <2>6. \A k \in 1 .. n : consumed[k] = <<Producer, k - 1>>
    <3>1. consumed = ItemsFrom(0, n)
      BY <2>2 DEF TestInv, Accounted
    <3>2. n - 0 = n /\ \A k \in 1 .. n : 0 + k - 1 = k - 1
      BY <2>2
    <3> QED
      BY <2>2, <3>1, <3>2 DEF ItemsFrom
  <2>7. {consumed[k] : k \in 1 .. n} = Values
    <3>1. \A k \in 1 .. n : consumed[k] \in Values
      <4> SUFFICES ASSUME NEW k \in 1 .. n
                   PROVE  <<Producer, k - 1>> \in Values
        BY <2>6
      <4>1. k - 1 \in 0 .. PerProducer - 1
        BY <2>2, <2>5
      <4> QED
        BY <4>1, ItemsAreValues
    <3>2. ASSUME NEW v \in Values
          PROVE  \E k \in 1 .. n : consumed[k] = v
      <4>1. PICK i \in 0 .. PerProducer - 1 : v = <<Producer, i>>
        BY TheThreads, ItemsAssumption
      <4>2. i + 1 \in 1 .. n /\ i + 1 - 1 = i
        BY <2>2, <2>5, <4>1
      <4>3. consumed[i + 1] = v
        BY <2>6, <4>1, <4>2
      <4> QED
        BY <4>2, <4>3
    <3> QED
      BY <3>1, <3>2
  <2>8. CountOf(head, tail) = 0
    <3>1. Len(Contents) = CountOf(head, tail) /\ Contents = ItemsFrom(n, n)
      BY <2>4, <2>5, ContentsSeq DEF TestInv, Accounted
    <3>2. Len(ItemsFrom(n, n)) = n - n /\ n - n = 0
      <4>1. n <= n /\ n - n = 0
        BY <2>2
      <4> QED
        BY <2>2, <4>1, ItemsAre
    <3> QED
      BY <3>1, <3>2
  <2> QED
    BY <2>2, <2>5, <2>7, <2>8, TheThreads
<1> QED
  BY <1>1, TestInvariance, PTL

=============================================================================
