---------------------------- MODULE MCPlaceFlow ----------------------------
EXTENDS PlaceFlow, TLC

CONSTANTS r1, r2, k1, k2

Creating(r) == [kind |-> "create", rid |-> r, order |-> Null, key |-> Null]
Approving(r, o, k) == [kind |-> "approve", rid |-> r, order |-> o, key |-> k]
Getting(o) == [kind |-> "get", rid |-> Null, order |-> o, key |-> Null]

\* Payments of one order, two of them under the same payment key, and two of
\* them under the same request id; two that leave a field out.  The request id
\* of the order is used for a payment too, as in the README's example.
RacingRequests ==
    {Creating(r1), Approving(r1, 1, k1), Approving(r2, 1, k1), Approving(r2, 1, k2),
     Approving(r1, 1, Null), Approving(r2, Null, k2), Getting(1)}

\* The key of one payment expires, while its request runs or later.
NoExpiry == [k \in Keys |-> 0]
OneExpiry == [NoExpiry EXCEPT ![<<"approve", r1>>] = 1]

Symmetry == Permutations(Handlers)
=============================================================================
