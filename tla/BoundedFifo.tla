---------------------------- MODULE BoundedFifo ----------------------------
(***************************************************************************)
(* What lockfreequeue_sptr promises to one producer and one consumer: a    *)
(* first-in-first-out queue of at most MaxLen elements on which every call *)
(* takes effect at one instant between its invocation and its return.      *)
(*                                                                         *)
(* count() and is_empty() are exact for the threads that own an end of the *)
(* queue.  For any other thread the two loads are unrelated, and all that  *)
(* is promised is a number that a queue of this size could hold.           *)
(***************************************************************************)
EXTENDS Naturals, Sequences

CONSTANTS MaxLen, Producers, Consumers, Observers, Values, NoValue

VARIABLES
    queue,  \* the elements, oldest first
    op,     \* thread -> the operation it has invoked, or "none"
    val,    \* thread -> argument of its enqueue, result of its dequeue
    res,    \* thread -> outcome, "none" while the call has had no effect
    num     \* thread -> outcome of its count

avars == <<queue, op, val, res, num>>

Threads == Producers \cup Consumers \cup Observers
Owners == Producers \cup Consumers

Init ==
    /\ queue = <<>>
    /\ op = [t \in Threads |-> "none"]
    /\ val = [t \in Threads |-> NoValue]
    /\ res = [t \in Threads |-> "none"]
    /\ num = [t \in Threads |-> 0]

\* Thread t invokes operation f.
Call(t, f, v) ==
    /\ op[t] = "none"
    /\ op' = [op EXCEPT ![t] = f]
    /\ val' = [val EXCEPT ![t] = v]
    /\ UNCHANGED <<queue, res, num>>

Invoke(t) ==
    \/ t \in Producers /\ \E v \in Values : Call(t, "enqueue", v)
    \/ t \in Consumers /\ Call(t, "dequeue", NoValue)
    \/ \E f \in {"count", "is_empty"} : Call(t, f, NoValue)

Pending(t, f) == op[t] = f /\ res[t] = "none"

\* The outcome of t's call is r.
Outcome(t, r) == res' = [res EXCEPT ![t] = r]

EnqueueOk(p) ==
    /\ Pending(p, "enqueue")
    /\ Len(queue) < MaxLen
    /\ queue' = Append(queue, val[p])
    /\ Outcome(p, "true")
    /\ UNCHANGED <<op, val, num>>

EnqueueFull(p) ==
    /\ Pending(p, "enqueue")
    /\ Len(queue) = MaxLen
    /\ Outcome(p, "false")
    /\ UNCHANGED <<queue, op, val, num>>

DequeueOk(c) ==
    /\ Pending(c, "dequeue")
    /\ queue # <<>>
    /\ val' = [val EXCEPT ![c] = Head(queue)]
    /\ queue' = Tail(queue)
    /\ Outcome(c, "true")
    /\ UNCHANGED <<op, num>>

DequeueEmpty(c) ==
    /\ Pending(c, "dequeue")
    /\ queue = <<>>
    /\ Outcome(c, "false")
    /\ UNCHANGED <<queue, op, val, num>>

\* Allocating or copying an element may throw; the queue is as before.
Throw(t) ==
    /\ Pending(t, "enqueue") \/ Pending(t, "dequeue")
    /\ Outcome(t, "threw")
    /\ UNCHANGED <<queue, op, val, num>>

Count(t) ==
    /\ Pending(t, "count")
    /\ \E n \in IF t \in Owners THEN {Len(queue)} ELSE 0 .. MaxLen :
          num' = [num EXCEPT ![t] = n]
    /\ Outcome(t, "number")
    /\ UNCHANGED <<queue, op, val>>

IsEmpty(t) ==
    /\ Pending(t, "is_empty")
    /\ \E b \in IF t \in Owners THEN {queue = <<>>} ELSE BOOLEAN :
          Outcome(t, IF b THEN "true" ELSE "false")
    /\ UNCHANGED <<queue, op, val, num>>

Return(t) ==
    /\ res[t] # "none"
    /\ op' = [op EXCEPT ![t] = "none"]
    /\ val' = [val EXCEPT ![t] = NoValue]
    /\ res' = [res EXCEPT ![t] = "none"]
    /\ num' = [num EXCEPT ![t] = 0]
    /\ UNCHANGED queue

Effect(t) ==
    \/ t \in Producers /\ (EnqueueOk(t) \/ EnqueueFull(t))
    \/ t \in Consumers /\ (DequeueOk(t) \/ DequeueEmpty(t))
    \/ Throw(t)
    \/ Count(t)
    \/ IsEmpty(t)

Next == \E t \in Threads : Invoke(t) \/ Effect(t) \/ Return(t)

Spec == Init /\ [][Next]_avars
=============================================================================
