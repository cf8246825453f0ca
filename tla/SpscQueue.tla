----------------------------- MODULE SpscQueue -----------------------------
(***************************************************************************)
(* The environment lockfreequeue_sptr is designed for (lockfree-queue/     *)
(* README.md): a single producer and a single consumer.  This module       *)
(* states what the queue guarantees there.                                 *)
(***************************************************************************)
EXTENDS LockFreeQueue

ASSUME SingleProducer == \A p, q \in Producers : p = q

ASSUME SingleConsumer == \A c, d \in Consumers : c = d

-----------------------------------------------------------------------------
(* The indices delimit the elements.                                       *)

\* Going round the ring from slot h, slot i is passed before slot t.
Between(h, t, i) == IF h <= t THEN h <= i /\ i < t ELSE h <= i \/ i < t

InUse(i) == Between(head, tail, i)

\* The consumer has emptied the first slot but not moved head past it yet.
Taking == \E c \in Consumers : pc[c] = "deq_store_head"

\* The producer has filled the slot at tail but not published it yet.
Filling == \E p \in Producers : pc[p] = "enq_store_tail"

\* A slot owns an element exactly when it is in use, up to the one slot each
\* side is working on.  Hence enqueue never overwrites a live element, dequeue
\* always finds one, and nothing stays behind in a slot that is free.
SlotsMatchIndices ==
    \A i \in Slots :
        buffer[i] # NoValue <=>
            \/ InUse(i) /\ ~(i = head /\ Taking)
            \/ i = tail /\ Filling

\* The null test of dequeue is never what makes it return, and its
\* dereference never meets an empty slot: whoever got past the emptiness test
\* finds an element.
DequeueFindsElement ==
    \A c \in Consumers :
        /\ pc[c] \in {"deq_check", "deq_copy", "deq_reset"} =>
               buffer[idx[c]] # NoValue
        /\ pc[c] # "trap"

-----------------------------------------------------------------------------
(* Each side's local copy of its own index stays current during a call, and *)
(* what it has established about the other index stays true.               *)

ProducerInv ==
    \A p \in Producers :
        /\ pc[p] \notin DeqLabels
        /\ pc[p] \in {"enq_load_head", "enq_write", "enq_store_tail"} =>
               idx[p] = tail
        /\ pc[p] \in {"enq_write", "enq_store_tail"} => Succ(tail) # head
        /\ pc[p] \in EnqLabels => val[p] \in Values
        /\ pc[p] = "enq_store_tail" => buffer[tail] = val[p]

ConsumerInv ==
    \A c \in Consumers :
        /\ pc[c] \notin EnqLabels \cup {"trap"}
        /\ pc[c] \in DeqLabels \ {"deq_load_head"} => idx[c] = head
        /\ pc[c] \in DeqLabels \ {"deq_load_head", "deq_load_tail"} =>
               head # tail
        /\ pc[c] = "deq_reset" => val[c] = buffer[head]
        /\ pc[c] = "deq_store_head" => val[c] \in Values

\* Where a call stands: a thread is in the function it has called, its result
\* is decided when it is done and not before, and dequeue's out-parameter is
\* assigned by the copy and by nothing earlier.
CallInv ==
    \A t \in Threads :
        /\ pc[t] = "idle" <=> op[t] = "none"
        /\ pc[t] = "done" <=> res[t] # "none"
        /\ pc[t] \in EnqLabels => op[t] = "enqueue"
        /\ pc[t] \in DeqLabels => op[t] = "dequeue"
        /\ pc[t] \in {"cnt_load_head", "cnt_load_tail"} => op[t] = "count"
        /\ pc[t] \in {"emp_load", "emp_load_head", "emp_load_tail"} =>
               op[t] = "is_empty"
        /\ pc[t] \in DeqLabels \ {"deq_reset", "deq_store_head"} => val[t] = NoValue

\* An owner that has read its own index in count() or is_empty() still holds
\* the current one.
ReadInv ==
    /\ \A p \in Producers : pc[p] = "emp_load_head" => idx[p] = tail
    /\ \A c \in Consumers :
           pc[c] \in {"cnt_load_tail", "emp_load_tail"} => idx[c] = head

\* The inductive invariant.
IInv ==
    /\ TypeOK
    /\ SlotsMatchIndices
    /\ ProducerInv
    /\ ConsumerInv
    /\ CallInv
    /\ ReadInv

-----------------------------------------------------------------------------
(* Refinement.  The abstract queue is the part of the ring between the two *)
(* indices; the element whose slot was just emptied is still its head.     *)

Item(i) ==
    IF i = head /\ Taking
    THEN val[CHOOSE c \in Consumers : pc[c] = "deq_store_head"]
    ELSE buffer[i]

Contents ==
    [k \in 1 .. CountOf(head, tail) |-> Item((head + k - 1) % Capacity)]

\* An owner's count() and is_empty() take effect when they read the index the
\* other side moves, which may be the first of the two loads.
CountDecided(t) == t \in Producers /\ pc[t] = "cnt_load_tail"
EmptyDecided(t) ==
    \/ t \in Producers /\ pc[t] = "emp_load_tail"
    \/ t \in Consumers /\ pc[t] = "emp_load_head"

AbstractRes ==
    [t \in Threads |->
        IF CountDecided(t) THEN "number"
        ELSE IF EmptyDecided(t)
        THEN IF idx[t] = (IF t \in Producers THEN tail ELSE head)
             THEN "true" ELSE "false"
        ELSE res[t]]

AbstractNum ==
    [t \in Threads |->
        IF CountDecided(t) THEN CountOf(idx[t], tail) ELSE num[t]]

\* A dequeue has copied its element before it takes effect.
AbstractVal ==
    [t \in Threads |->
        IF pc[t] \in {"deq_reset", "deq_store_head"} THEN NoValue ELSE val[t]]

Fifo == INSTANCE BoundedFifo WITH
    MaxLen <- Capacity - 1,
    queue <- Contents,
    val <- AbstractVal,
    res <- AbstractRes,
    num <- AbstractNum

\* With one producer and one consumer the queue is linearizable: it behaves
\* as a first-in-first-out queue of capacity_ - 1 elements.
Linearizable == Fifo!Spec
=============================================================================
