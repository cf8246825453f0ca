--------------------------- MODULE PaymentLedger ---------------------------
(***************************************************************************)
(* What PlaceFlow promises about its database: orders are created, and a   *)
(* payment is approved in one indivisible step that records it under a     *)
(* payment key nobody has used and marks its order paid.                   *)
(*                                                                         *)
(* A table only grows; the id of a row is its place in the sequence.       *)
(***************************************************************************)
EXTENDS Naturals, Sequences

CONSTANTS RequestIds, PaymentKeys

VARIABLES
    orders,    \* rows [rid, status]
    payments   \* rows [rid, order, key]

ledger == <<orders, payments>>

Init ==
    /\ orders = <<>>
    /\ payments = <<>>

CreateOrder(r) ==
    /\ orders' = Append(orders, [rid |-> r, status |-> "CREATED"])
    /\ UNCHANGED payments

\* Nothing is asked of the order's status: an order can be paid repeatedly.
Approve(r, o, k) ==
    /\ o \in 1 .. Len(orders)
    /\ \A i \in 1 .. Len(payments) : payments[i].key # k
    /\ payments' = Append(payments, [rid |-> r, order |-> o, key |-> k])
    /\ orders' = [orders EXCEPT ![o].status = "PAID"]

Next ==
    \/ \E r \in RequestIds : CreateOrder(r)
    \/ \E r \in RequestIds, k \in PaymentKeys, o \in 1 .. Len(orders) :
           Approve(r, o, k)

Spec == Init /\ [][Next]_ledger
=============================================================================
