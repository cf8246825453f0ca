----------------------------- MODULE QueueTests ----------------------------
(***************************************************************************)
(* The two concurrent tests of lockfree-queue/02_lockfree-queue/tests/     *)
(* unit_lockfree_queue.cpp as clients of the queue: every producer puts    *)
(* PerProducer items, retrying while the queue is full, and the consumers  *)
(* take until they have counted them all.  One thread on each side is      *)
(* SingleProducerSingleConsumer; more is MultiProducerMultiConsumer.       *)
(*                                                                         *)
(* An item is <<producer, seq>>, the two fields of ItemMpmc.  The tests    *)
(* use plain integers, so no copy throws, and an allocation that failed    *)
(* would end the process: the throwing steps of the queue are left out.    *)
(***************************************************************************)
EXTENDS LockFreeQueue, FiniteSets

CONSTANT PerProducer   \* n, per_producer

ASSUME PerProducerAssumption == PerProducer \in Nat

ASSUME ItemsAssumption == Values = Producers \X (0 .. PerProducer - 1)

VARIABLES
    made,      \* producer -> i, the item it puts next
    consumed,  \* consumed_values / consumed, in push_back order
    counter,   \* consumed_count
    due        \* consumers between push_back and fetch_add

testVars == <<vars, made, consumed, counter, due>>

Total == Cardinality(Producers) * PerProducer

TestInit ==
    /\ Init
    /\ made = [p \in Producers |-> 0]
    /\ consumed = <<>>
    /\ counter = 0
    /\ due = {}

-----------------------------------------------------------------------------
(* Producers.                                                              *)

PutNext(p) ==
    /\ made[p] < PerProducer
    /\ CallEnqueue(p, <<p, made[p]>>)
    /\ UNCHANGED <<made, consumed, counter, due>>

\* mutant: the loop goes on to the next item even if the queue was full
PutReturnsNoRetry(p) ==
    /\ Return(p)
    /\ made' = [made EXCEPT ![p] = @ + 1]
    /\ UNCHANGED <<consumed, counter, due>>

\* while (!q.enqueue(i)) yield(): the same item again unless it was accepted.
PutReturns(p) ==
    /\ Return(p)
    /\ made' = [made EXCEPT ![p] = IF res[p] = "true" THEN @ + 1 ELSE @]
    /\ UNCHANGED <<consumed, counter, due>>

Put(p) ==
    /\ EnqLoadTail(p) \/ EnqLoadHead(p) \/ EnqWrite(p) \/ EnqStoreTail(p)
    /\ UNCHANGED <<made, consumed, counter, due>>

-----------------------------------------------------------------------------
(* Consumers.                                                              *)

TakeNext(c) ==
    /\ counter < Total
    /\ c \notin due
    /\ CallDequeue(c)
    /\ UNCHANGED <<made, consumed, counter, due>>

Take(c) ==
    /\ \/ DeqLoadHead(c)
       \/ DeqLoadTail(c)
       \/ DeqCheck(c)
       \/ DeqCopy(c)
       \/ DeqReset(c)
       \/ DeqStoreHead(c)
    /\ UNCHANGED <<made, consumed, counter, due>>

\* A value that was taken is appended under the mutex; otherwise yield().
TakeReturns(c) ==
    /\ Return(c)
    /\ IF res[c] = "true"
       THEN consumed' = Append(consumed, val[c]) /\ due' = due \cup {c}
       ELSE UNCHANGED <<consumed, due>>
    /\ UNCHANGED <<made, counter>>

\* consumed_count.fetch_add(1), outside the mutex.
CountTaken(c) ==
    /\ c \in due
    /\ due' = due \ {c}
    /\ counter' = counter + 1
    /\ UNCHANGED <<vars, made, consumed>>

-----------------------------------------------------------------------------
ProducerStep(p) == PutNext(p) \/ Put(p) \/ PutReturns(p)
ConsumerStep(c) == TakeNext(c) \/ Take(c) \/ TakeReturns(c) \/ CountTaken(c)

\* Every thread has left its loop and main has joined it.
AllJoined ==
    /\ \A p \in Producers : made[p] = PerProducer /\ pc[p] = "idle"
    /\ \A c \in Consumers : pc[c] = "idle" /\ c \notin due
    /\ counter >= Total

Finished == AllJoined /\ UNCHANGED testVars

TestNext ==
    \/ \E p \in Producers : ProducerStep(p)
    \/ \E c \in Consumers : ConsumerStep(c)
    \/ Finished

TestSpec ==
    /\ TestInit
    /\ [][TestNext]_testVars
    /\ \A p \in Producers : WF_testVars(ProducerStep(p))
    /\ \A c \in Consumers : WF_testVars(ConsumerStep(c))

-----------------------------------------------------------------------------
\* With one producer, what has been consumed so far is what was put, in order:
\* nothing lost, doubled or reordered at any moment of the run.
ConsumedInOrder ==
    \A k \in 1 .. Len(consumed) : consumed[k][2] = k - 1

\* What the tests assert after the joins: every item was consumed exactly once
\* and the queue is empty, by its indices.
TestVerdict ==
    AllJoined =>
        /\ Len(consumed) = Total
        /\ {consumed[k] : k \in 1 .. Len(consumed)} = Values
        /\ CountOf(head, tail) = 0

\* The joins return: a full queue does not keep the producer, nor an empty one
\* the consumer, from finishing.
Termination == <>AllJoined
=============================================================================
