--------------------------- MODULE QueueProgress ---------------------------
(***************************************************************************)
(* Progress of the calls of lockfreequeue_sptr.  A thread may stall for    *)
(* ever between any two accesses of a call; what still returns then needs  *)
(* nobody's help.                                                          *)
(***************************************************************************)
EXTENDS LockFreeQueue

\* A thread in a call can take its next step.
Ready(t) == op[t] # "none" => ENABLED <<Step(t)>>_vars

NobodyWaits == \A t \in Threads : Ready(t)

\* Calls of a thread that keeps running return.
Returns(t) == WF_vars(Step(t)) => (op[t] # "none" ~> op[t] = "none")

\* The queue is wait-free: no step of enqueue, dequeue, count or is_empty ever
\* waits for another thread, and each call of a thread that keeps running
\* returns, whatever the others are in the middle of.
EveryCallReturns == []NobodyWaits /\ \A t \in Threads : Returns(t)
=============================================================================
