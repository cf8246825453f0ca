------------------------------ MODULE SpscTest -----------------------------
(***************************************************************************)
(* SingleProducerSingleConsumer of lockfree-queue/02_lockfree-queue/tests/ *)
(* unit_lockfree_queue.cpp: QueueTests with one thread on each side, where *)
(* the queue keeps the promise of SpscQueue.                               *)
(***************************************************************************)
EXTENDS QueueTests, SpscQueue

ASSUME TestThreads ==
    \E p \in Producers, c \in Consumers : Producers = {p} /\ Consumers = {c}

Producer == CHOOSE p \in Producers : TRUE
Consumer == CHOOSE c \in Consumers : TRUE

-----------------------------------------------------------------------------
(* Why the assertions of the test hold.                                    *)

\* How many items the queue has accepted, and how many it has handed out, those
\* included of which the calling thread has yet to learn.
Accepted ==
    made[Producer] + IF pc[Producer] = "done" /\ res[Producer] = "true" THEN 1 ELSE 0
Taken ==
    Len(consumed) + IF pc[Consumer] = "done" /\ res[Consumer] = "true" THEN 1 ELSE 0

\* The i-th item is number i - 1.
ItemsFrom(first, last) == [k \in 1 .. last - first |-> <<Producer, first + k - 1>>]

TestTypeOK ==
    /\ made \in [Producers -> 0 .. PerProducer]
    /\ consumed \in Seq(Values)
    /\ counter \in Nat
    /\ due \subseteq Consumers

\* The producer is in its loop while an item is left, and always with the next
\* one.
ProducerLoop ==
    /\ pc[Producer] \in EnqLabels \cup {"idle", "done"}
    /\ pc[Producer] # "idle" => made[Producer] < PerProducer
    /\ pc[Producer] \in EnqLabels => val[Producer] = <<Producer, made[Producer]>>

\* The consumer takes nothing before it has counted what it has taken last, and
\* what it gets is the item after those it has got.
ConsumerLoop ==
    /\ pc[Consumer] \in DeqLabels \cup {"idle", "done"}
    /\ Consumer \in due => pc[Consumer] = "idle"
    /\ counter + (IF Consumer \in due THEN 1 ELSE 0) = Len(consumed)
    /\ pc[Consumer] = "done" /\ res[Consumer] = "true" =>
           val[Consumer] = <<Producer, Len(consumed)>>

\* The items that were accepted are consumed, in the hands of the consumer or in
\* the queue, in this order.
Accounted ==
    /\ Taken <= Accepted
    /\ consumed = ItemsFrom(0, Len(consumed))
    /\ Contents = ItemsFrom(Taken, Accepted)

\* The inductive invariant, together with that of the queue.
TestInv ==
    /\ IInv
    /\ TestTypeOK
    /\ ProducerLoop
    /\ ConsumerLoop
    /\ Accounted
=============================================================================
