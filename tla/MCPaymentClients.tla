-------------------------- MODULE MCPaymentClients --------------------------
EXTENDS PaymentClients, TLC

CONSTANTS r1, r2, r3, k1, k2, creator, payer, rival, partner

Creating(r) == [kind |-> "create", rid |-> r, order |-> Null, key |-> Null]
Approving(r, o, k) == [kind |-> "approve", rid |-> r, order |-> o, key |-> k]

\* One client creates an order and one wants to pay it, with the request id of
\* the order.  Another wants to pay it too: the rival under the same payment
\* key, so that one INSERT waits for the other; the partner under a key of its
\* own, so that one UPDATE of the order waits for the other.
MCWants ==
    [c \in Clients |->
        CASE c = creator -> Creating(r1)
          [] c = payer -> Approving(r1, 1, k1)
          [] c = rival -> Approving(r2, 1, k1)
          [] c = partner -> Approving(r3, 1, k2)]

MCRequests == {MCWants[c] : c \in Clients}

\* How often a key must be able to expire for its client to settle: once for a
\* fault, and for a payment once more, as its INSERT may violate the constraint.
MCExpiries == [k \in Keys |-> IF k[1] = "create" THEN 1 ELSE 2]

\* The rival is there if nothing fails, the partner if something may.
MCInit ==
    /\ ClientsInit
    /\ outcome[creator] = "none" /\ outcome[payer] = "none"
    /\ outcome[rival] = "none" <=> faults = 0
    /\ outcome[partner] = "none" <=> faults > 0

MCSpec == MCInit /\ [][ClientsNext]_allVars /\ Fairness
=============================================================================
