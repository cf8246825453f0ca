---------------------- MODULE PlaceFlowAdmissionProof ----------------------
(***************************************************************************)
(* Proofs about PlaceFlow's idempotency keys, for any number of handlers,  *)
(* any requests and any expiries: a request id has an effect once in the   *)
(* lifetime of its key, and what a client may conclude from a refusal.     *)
(***************************************************************************)
EXTENDS PlaceFlowProof, FiniteSetTheorems

-----------------------------------------------------------------------------
(* Counting.                                                               *)

\* How many requests key k has admitted so far, at most.
Allowance(k) == expired[k] + (IF k \in redis THEN 1 ELSE 0)

Budget(k) ==
    /\ IsFiniteSet(Using(k))
    /\ Cardinality(Using(k)) + Cardinality(RowsOf(k)) <= Allowance(k)

\* Which access a handler is at tells what kind of request it serves.
KindInv(h) ==
    /\ pc[h] = "save" => req[h].kind = "create"
    /\ pc[h] = "get" => req[h].kind = "get"
    /\ pc[h] \in {"find", "exists", "insert", "flush", "commit"} =>
           req[h].kind = "approve"

LEMMA AdmissionParts ==
    /\ AdmissionInv <=> /\ \A h \in Handlers : KindInv(h)
                        /\ \A k \in Keys : Budget(k)
    /\ AdmissionInv' <=> /\ \A h \in Handlers : KindInv(h)'
                         /\ \A k \in Keys : Budget(k)'
  BY DEF AdmissionInv, KindInv, Budget, Allowance

LEMMA RowsFinite ==
    ASSUME TypeOK, NEW k
    PROVE  IsFiniteSet(RowsOf(k)) /\ Cardinality(RowsOf(k)) \in Nat
<1>1. PICK n \in Nat : RowsOf(k) \subseteq 1 .. n
  <2>1. /\ Len(orders) \in Nat /\ DOMAIN orders = 1 .. Len(orders)
        /\ Len(payments) \in Nat /\ DOMAIN payments = 1 .. Len(payments)
    BY DEF TypeOK
  <2>2. RowsOf(k) \subseteq DOMAIN orders \/ RowsOf(k) \subseteq DOMAIN payments
    BY DEF RowsOf, Rows
  <2> QED
    BY <2>1, <2>2
<1>2. IsFiniteSet(1 .. n)
  BY FS_Interval
<1>3. IsFiniteSet(RowsOf(k))
  BY <1>1, <1>2, FS_Subset
<1> QED
  BY <1>3, FS_CardinalityType

\* Whether a key is set and how often it has expired are numbers.
LEMMA AllowanceType ==
    ASSUME TypeOK, NEW k \in Keys
    PROVE  Allowance(k) \in Nat
<1>1. expired[k] \in Nat
  BY DEF TypeOK
<1> QED
  BY <1>1 DEF Allowance

\* A step after which no more handlers use a key, with the same rows, keeps
\* within the budget.
LEMMA BudgetKept ==
    ASSUME TypeOK, NEW k \in Keys, Budget(k), Using(k)' \subseteq Using(k),
           RowsOf(k)' = RowsOf(k), Allowance(k)' \in Nat, Allowance(k)' >= Allowance(k)
    PROVE  Budget(k)'
<1>1. PICK U : U = Using(k)
  OBVIOUS
<1>2. PICK V \in SUBSET U : V = Using(k)'
  BY <1>1
<1>3. IsFiniteSet(U) /\ Cardinality(U) \in Nat
  BY <1>1, FS_CardinalityType DEF Budget
<1>4. IsFiniteSet(V) /\ Cardinality(V) \in Nat /\ Cardinality(V) <= Cardinality(U)
  BY <1>3, FS_Subset, FS_CardinalityType
<1>5. PICK r \in Nat : r = Cardinality(RowsOf(k)) /\ r = Cardinality(RowsOf(k)')
  BY RowsFinite
<1>6. Cardinality(U) + r <= Allowance(k)
  BY <1>1, <1>5 DEF Budget
<1>7. Cardinality(V) + r <= Allowance(k)'
  BY <1>3, <1>4, <1>6, AllowanceType
<1> QED
  BY <1>2, <1>4, <1>5, <1>7 DEF Budget

\* Handler h spends what it was admitted for: one user less, one row more.
LEMMA BudgetSpent ==
    ASSUME TypeOK, NEW k \in Keys, Budget(k), NEW h \in Using(k), NEW i,
           Using(k)' \subseteq Using(k) \ {h}, RowsOf(k)' \subseteq RowsOf(k) \cup {i},
           Allowance(k)' = Allowance(k)
    PROVE  Budget(k)'
<1>1. PICK U : U = Using(k)
  OBVIOUS
<1>2. PICK V : V = Using(k)'
  OBVIOUS
<1>3. IsFiniteSet(U) /\ Cardinality(U) \in Nat
  BY <1>1, FS_CardinalityType DEF Budget
<1>4. IsFiniteSet(U \ {h}) /\ Cardinality(U \ {h}) = Cardinality(U) - 1
  BY <1>1, <1>3, FS_RemoveElement
<1>5. IsFiniteSet(V) /\ Cardinality(V) \in Nat /\ Cardinality(V) <= Cardinality(U) - 1
  BY <1>1, <1>2, <1>4, FS_Subset, FS_CardinalityType
<1>6. PICK R : R = RowsOf(k)
  OBVIOUS
<1>7. PICK S : S = RowsOf(k)'
  OBVIOUS
<1>8. IsFiniteSet(R) /\ Cardinality(R) \in Nat
  BY <1>6, RowsFinite
<1>9. IsFiniteSet(R \cup {i}) /\ Cardinality(R \cup {i}) \in Nat
      /\ Cardinality(R \cup {i}) <= Cardinality(R) + 1
  <2>1. /\ IsFiniteSet(R \cup {i})
        /\ Cardinality(R \cup {i}) =
               IF i \in R THEN Cardinality(R) ELSE Cardinality(R) + 1
    BY <1>8, FS_AddElement
  <2> QED
    BY <1>8, <2>1
<1>10. Cardinality(S) \in Nat /\ Cardinality(S) <= Cardinality(R) + 1
  <2>1. S \in SUBSET (R \cup {i})
    BY <1>6, <1>7
  <2>2. IsFiniteSet(S) /\ Cardinality(S) <= Cardinality(R \cup {i})
    BY <1>9, <2>1, FS_Subset
  <2>3. Cardinality(S) \in Nat
    BY <2>2, FS_CardinalityType
  <2> QED
    BY <1>8, <1>9, <2>2, <2>3
<1>11. Cardinality(U) + Cardinality(R) <= Allowance(k)
  BY <1>1, <1>6 DEF Budget
<1>12. Cardinality(V) + Cardinality(S) <= Allowance(k)'
  BY <1>3, <1>5, <1>8, <1>10, <1>11, AllowanceType
<1> QED
  BY <1>2, <1>5, <1>7, <1>12 DEF Budget

-----------------------------------------------------------------------------
(* What the steps do to the users of a key.                                *)

\* The other handlers stay as they are.
Still(h) ==
    \A g \in Handlers \ {h} :
        pc'[g] = pc[g] /\ req'[g] = req[g] /\ answer'[g] = answer[g]

LEMMA HandlerStep ==
    ASSUME TypeOK, NEW h \in Handlers, Receive(h) \/ Step(h) \/ Failure(h)
    PROVE  Still(h)
<1>1. /\ pc \in [Handlers -> Labels]
      /\ req \in [Handlers -> Requests \cup {NoRequest}]
      /\ answer \in [Handlers -> [code : {0, 200, 404, 409, 500}, why : Reasons]]
  BY DEF TypeOK
<1>2. ASSUME \/ UNCHANGED req /\ UNCHANGED answer /\ \E l, m : Goto(h, l, m)
             \/ UNCHANGED req /\ \E l, c, w : Answer(h, l, c, w)
      PROVE  Still(h)
  BY <1>1, <1>2 DEF Still, Goto, Answer
<1>3. CASE Receive(h)
  BY <1>1, <1>3 DEF Still, Receive, Goto
<1>4. CASE Acquire(h)
  BY <1>2, <1>4 DEF Acquire
<1>5. CASE FindOrder(h)
  BY <1>2, <1>5 DEF FindOrder
<1>6. CASE ExistsByPaymentKey(h)
  BY <1>2, <1>6 DEF ExistsByPaymentKey
<1>7. CASE InsertPayment(h)
  BY <1>2, <1>7 DEF InsertPayment
<1>8. CASE GetOrder(h) \/ SaveOrder(h) \/ Commit(h)
  BY <1>2, <1>8 DEF GetOrder, SaveOrder, Commit
<1>9. CASE FlushOrder(h)
  BY <1>2, <1>9 DEF FlushOrder, locals
<1>10. CASE Respond(h)
  BY <1>1, <1>10 DEF Still, Respond, Goto
<1>11. CASE Failure(h)
  BY <1>2, <1>11 DEF Failure, AcquireFails, DatabaseFails, CommitUnheard
<1> QED
  BY <1>3, <1>4, <1>5, <1>6, <1>7, <1>8, <1>9, <1>10, <1>11 DEF Step

\* What is left to show of a step of h: that it knows what it serves.
LEMMA KindsKept ==
    ASSUME AdmissionInv, NEW h \in Handlers, Still(h), KindInv(h)'
    PROVE  \A g \in Handlers : KindInv(g)'
  BY AdmissionParts DEF Still, KindInv

LEMMA UsersKept ==
    ASSUME NEW h \in Handlers, Still(h), NEW k
    PROVE  /\ Using(k)' \subseteq Using(k) \cup {h}
           /\ Using(k) \subseteq Using(k)' \cup {h}
           /\ h \in Using(k) <=> Admitted(h) /\ Key(req[h]) = k
           /\ h \in Using(k)' <=> Admitted(h)' /\ Key(req'[h]) = k
  BY DEF Still, Using, Admitted

LEMMA SameRows ==
    ASSUME UNCHANGED database, NEW k
    PROVE  RowsOf(k)' = RowsOf(k)
  BY DEF database, RowsOf, Rows

\* What every step of a handler does: the budgets are kept, and a key that is
\* spent remains so.
AdmissionKept ==
    /\ AdmissionInv'
    /\ \A k \in Keys : Spent(k) => Spent(k)'

\* A step of h that admits no request and leaves the tables alone.
LEMMA NoAdmission ==
    ASSUME IInv, AdmissionInv, NEW h \in Handlers, Still(h), KindInv(h)',
           UNCHANGED <<database, expired>>, redis \subseteq redis',
           Admitted(h)' /\ Key(req'[h]) \in Keys => Admitted(h) /\ req'[h] = req[h]
    PROVE  AdmissionKept
<1>1. \A g \in Handlers : KindInv(g)'
  BY KindsKept
<1>2. ASSUME NEW k \in Keys
      PROVE  Budget(k)'
  <2>1. TypeOK /\ Budget(k)
    BY AdmissionParts DEF IInv
  <2>2. Using(k)' \subseteq Using(k)
    BY UsersKept
  <2>3. RowsOf(k)' = RowsOf(k)
    BY SameRows
  <2>4. expired[k] \in Nat /\ expired' = expired
    BY <2>1 DEF TypeOK
  <2>5. Allowance(k)' \in Nat /\ Allowance(k)' >= Allowance(k)
    BY <2>4 DEF Allowance
  <2> QED
    BY <2>1, <2>2, <2>3, <2>5, BudgetKept
<1>3. ASSUME NEW k \in Keys, Spent(k)
      PROVE  Spent(k)'
  BY <1>3, UsersKept, SameRows DEF Spent
<1> QED
  BY <1>1, <1>2, <1>3, AdmissionParts DEF AdmissionKept

\* Redis admits a request: the key was not set, and now is.
LEMMA Admission ==
    ASSUME IInv, AdmissionInv, NEW h \in Handlers, Still(h), KindInv(h)',
           UNCHANGED <<database, req, expired>>, Key(req[h]) \notin redis,
           redis' = redis \cup {Key(req[h])}, ~Admitted(h)
    PROVE  AdmissionKept
<1>1. \A g \in Handlers : KindInv(g)'
  BY KindsKept
<1>2. ASSUME NEW k \in Keys
      PROVE  Budget(k)'
  <2>1. TypeOK /\ Budget(k)
    BY AdmissionParts DEF IInv
  <2>2. RowsOf(k)' = RowsOf(k)
    BY SameRows
  <2>3. expired[k] \in Nat /\ expired' = expired
    BY <2>1 DEF TypeOK
  <2>4. CASE k # Key(req[h])
    <3>1. Using(k)' \subseteq Using(k)
      BY <2>4, UsersKept
    <3>2. Allowance(k)' \in Nat /\ Allowance(k)' >= Allowance(k)
      BY <2>3, <2>4 DEF Allowance
    <3> QED
      BY <2>1, <2>2, <3>1, <3>2, BudgetKept
  <2>5. CASE k = Key(req[h])
    <3>1. Allowance(k) = expired[k] /\ Allowance(k)' = expired[k] + 1
      BY <2>3, <2>5 DEF Allowance
    <3>2. PICK U : U = Using(k)
      OBVIOUS
    <3>3. PICK V \in SUBSET (U \cup {h}) : V = Using(k)'
      BY <3>2, UsersKept
    <3>4. IsFiniteSet(U) /\ Cardinality(U) \in Nat
      BY <2>1, <3>2, FS_CardinalityType DEF Budget
    <3>5. IsFiniteSet(U \cup {h}) /\ Cardinality(U \cup {h}) = Cardinality(U) + 1
      <4>1. h \notin U
        BY <3>2, UsersKept
      <4> QED
        BY <3>4, <4>1, FS_AddElement
    <3>6. IsFiniteSet(V) /\ Cardinality(V) \in Nat
          /\ Cardinality(V) <= Cardinality(U) + 1
      BY <3>5, FS_Subset, FS_CardinalityType
    <3>7. PICK r \in Nat : r = Cardinality(RowsOf(k)) /\ r = Cardinality(RowsOf(k)')
      BY <2>1, <2>2, RowsFinite
    <3>8. Cardinality(U) + r <= expired[k]
      BY <2>1, <3>1, <3>2, <3>7 DEF Budget
    <3>9. Cardinality(V) + r <= Allowance(k)'
      BY <2>3, <3>1, <3>4, <3>6, <3>8
    <3> QED
      BY <3>3, <3>6, <3>7, <3>9 DEF Budget
  <2> QED
    BY <2>4, <2>5
<1>3. ASSUME NEW k \in Keys, Spent(k)
      PROVE  Spent(k)'
  <2>1. k # Key(req[h])
    BY <1>3 DEF Spent
  <2> QED
    BY <1>3, <2>1, UsersKept, SameRows DEF Spent
<1> QED
  BY <1>1, <1>2, <1>3, AdmissionParts DEF AdmissionKept

\* h makes its row and is not admitted any more.
LEMMA Effect ==
    ASSUME IInv, AdmissionInv, NEW h \in Handlers, Still(h), KindInv(h)',
           UNCHANGED <<redis, req, expired>>, Admitted(h), ~Admitted(h)', NEW i,
           \A k \in Keys : RowsOf(k)' \subseteq
               IF k = Key(req[h]) THEN RowsOf(k) \cup {i} ELSE RowsOf(k),
           \A k \in Keys : RowsOf(k) \subseteq RowsOf(k)'
    PROVE  AdmissionKept
<1>1. \A g \in Handlers : KindInv(g)'
  BY KindsKept
<1>2. ASSUME NEW k \in Keys
      PROVE  Budget(k)'
  <2>1. TypeOK /\ Budget(k)
    BY AdmissionParts DEF IInv
  <2>2. Allowance(k) \in Nat /\ Allowance(k)' = Allowance(k)
    BY <2>1, AllowanceType DEF Allowance
  <2>3. Using(k)' \subseteq Using(k) \ {h}
    BY UsersKept
  <2>4. CASE k = Key(req[h])
    <3>1. h \in Using(k)
      BY <2>4, UsersKept
    <3>2. RowsOf(k)' \subseteq RowsOf(k) \cup {i}
      BY <2>4
    <3> QED
      BY <2>1, <2>2, <2>3, <3>1, <3>2, BudgetSpent
  <2>5. CASE k # Key(req[h])
    <3>1. RowsOf(k)' = RowsOf(k)
      BY <2>5
    <3>2. Allowance(k)' >= Allowance(k)
      BY <2>2
    <3> QED
      BY <2>1, <2>2, <2>3, <3>1, <3>2, BudgetKept
  <2> QED
    BY <2>4, <2>5
<1>3. ASSUME NEW k \in Keys, Spent(k)
      PROVE  Spent(k)'
  <2>1. h \notin Using(k)
    BY <1>3 DEF Spent
  <2>2. k # Key(req[h])
    BY <2>1, UsersKept
  <2> QED
    BY <1>3, <2>1, <2>2, UsersKept DEF Spent
<1> QED
  BY <1>1, <1>2, <1>3, AdmissionParts DEF AdmissionKept

-----------------------------------------------------------------------------
(* Accesses that make no row.                                              *)

LEMMA Answers ==
    ASSUME TypeOK, NEW h \in Handlers, NEW l, NEW c, NEW w, Answer(h, l, c, w)
    PROVE  /\ pc[h] = l /\ pc'[h] = "respond"
           /\ Admitted(h)' <=> w \in Refusals
<1>1. pc[h] = l /\ pc'[h] = "respond"
  BY DEF TypeOK, Answer, Goto
<1>2. answer'[h].why = w
  BY DEF TypeOK, Answer
<1> QED
  BY <1>1, <1>2 DEF Admitted

LEMMA GoesOn ==
    ASSUME TypeOK, NEW h \in Handlers, NEW l, NEW m, Goto(h, l, m)
    PROVE  pc[h] = l /\ pc'[h] = m
  BY DEF TypeOK, Goto

LEMMA AdmittedAt ==
    ASSUME NEW h \in Handlers
    PROVE  /\ pc[h] \in {"save", "find", "exists", "insert", "flush", "commit"} =>
                  Admitted(h)
           /\ pc[h] \in {"idle", "acquire", "get"} => ~Admitted(h)
           /\ pc'[h] \in {"idle", "acquire", "get"} => ~Admitted(h)'
  BY DEF Admitted

\* The keys are those of requests that are checked, and tell what and whose
\* the request is.
LEMMA KeysOf ==
    ASSUME NEW q \in Requests \cup {NoRequest}, NEW k \in Keys
    PROVE  /\ Key(q) = k <=> q.kind = k[1] /\ q.rid = k[2]
           /\ k[1] \in {"create", "approve"}
<1>1. PICK r \in Requests : k = <<r.kind, r.rid>> /\ r.kind # "get"
  BY DEF Keys, Key
<1>2. r.kind \in {"create", "approve"}
  BY <1>1, RequestsAssumption DEF Kinds
<1> QED
  BY <1>1, <1>2 DEF Key

LEMMA ReceiveAdmission ==
    ASSUME IInv, AdmissionInv, NEW h \in Handlers, Receive(h) \/ Respond(h)
    PROVE  AdmissionKept
<1>1. TypeOK
  BY DEF IInv
<1>2. Still(h)
  BY <1>1, HandlerStep DEF Step
<1>3. UNCHANGED <<redis, database, expired>>
  BY DEF Receive, Respond
<1>4. pc'[h] \in {"idle", "acquire", "get"} /\ (pc'[h] = "get" => req'[h].kind = "get")
  BY <1>1 DEF TypeOK, Receive, Respond, Goto
<1>5. KindInv(h)' /\ ~Admitted(h)'
  BY <1>4, AdmittedAt DEF KindInv
<1> QED
  BY <1>2, <1>3, <1>5, NoAdmission

LEMMA AcquireAdmission ==
    ASSUME IInv, AdmissionInv, NEW h \in Handlers, Acquire(h) \/ AcquireFails(h)
    PROVE  AdmissionKept
<1>1. TypeOK /\ TransactionInv(h)
  BY DEF IInv
<1>2. Still(h)
  BY <1>1, HandlerStep DEF Step, Failure
<1>3. pc[h] = "acquire" /\ UNCHANGED <<database, req, expired>>
  BY DEF Acquire, AcquireFails, Answer, Goto
<1>4. ~Admitted(h)
  BY <1>3, AdmittedAt
<1>5. CASE Key(req[h]) \notin redis /\ Acquire(h)
  <2>1. redis' = redis \cup {Key(req[h])}
    BY <1>5 DEF Acquire
  <2>2. pc'[h] = IF req[h].kind = "create" THEN "save" ELSE "find"
    BY <1>1, <1>5, GoesOn DEF Acquire
  <2>3. req[h].kind \in {"create", "approve"}
    BY <1>1, <1>3, RequestsAssumption DEF TransactionInv, Kinds
  <2>4. KindInv(h)'
    BY <1>3, <2>2, <2>3 DEF KindInv
  <2> QED
    BY <1>2, <1>3, <1>4, <1>5, <2>1, <2>4, Admission
<1>6. CASE AcquireFails(h) \/ (Key(req[h]) \in redis /\ Acquire(h))
  <2>1. redis \subseteq redis'
    BY <1>6 DEF Acquire, AcquireFails
  <2>2. \E c : \E w \in {"duplicate request", "redis"} : Answer(h, "acquire", c, w)
    BY <1>6 DEF Acquire, AcquireFails
  <2>3. pc'[h] = "respond" /\ ~Admitted(h)'
    BY <1>1, <2>2, Answers DEF Refusals
  <2>4. KindInv(h)'
    BY <2>3 DEF KindInv
  <2> QED
    BY <1>2, <1>3, <2>1, <2>3, <2>4, NoAdmission
<1> QED
  BY <1>5, <1>6

LEMMA GetAdmission ==
    ASSUME IInv, AdmissionInv, NEW h \in Handlers, GetOrder(h)
    PROVE  AdmissionKept
<1>1. TypeOK
  BY DEF IInv
<1>2. Still(h)
  BY <1>1, HandlerStep DEF Step
<1>3. UNCHANGED <<redis, database, req, expired>>
  BY DEF GetOrder
<1>4. pc[h] = "get" /\ pc'[h] = "respond"
  <2>1. \E c, w : Answer(h, "get", c, w)
    BY DEF GetOrder
  <2> QED
    BY <1>1, <2>1, Answers
<1>5. Key(req'[h]) \notin Keys
  <2>1. req[h].kind = "get"
    BY <1>4, AdmissionParts DEF KindInv
  <2>2. req[h] \in Requests \cup {NoRequest}
    BY <1>1 DEF TypeOK
  <2> QED
    BY <1>3, <2>1, <2>2, KeysOf
<1>6. KindInv(h)'
  BY <1>4 DEF KindInv
<1> QED
  BY <1>2, <1>3, <1>5, <1>6, NoAdmission

\* A payment that goes on or is refused stays admitted; one that fails does not.
LEMMA PaymentAdmission ==
    ASSUME IInv, AdmissionInv, NEW h \in Handlers,
           \/ FindOrder(h) \/ ExistsByPaymentKey(h) \/ InsertPayment(h)
           \/ FlushOrder(h) \/ DatabaseFails(h)
    PROVE  AdmissionKept
<1>1. TypeOK
  BY DEF IInv
<1>2. Still(h)
  BY <1>1, HandlerStep DEF Step, Failure
<1>3. UNCHANGED <<redis, database, req, expired>>
  BY DEF FindOrder, ExistsByPaymentKey, InsertPayment, FlushOrder, DatabaseFails, locals
<1>4. \/ /\ pc[h] \in {"find", "exists", "insert", "flush"}
         /\ pc'[h] \in {"exists", "insert", "flush", "commit", "respond"}
      \/ pc'[h] = "respond" /\ ~Admitted(h)'
  <2>1. ASSUME NEW l \in {"find", "exists", "insert", "flush"},
               NEW m \in {"exists", "insert", "flush", "commit"},
               Goto(h, l, m) \/ \E c, w : Answer(h, l, c, w)
        PROVE  /\ pc[h] \in {"find", "exists", "insert", "flush"}
               /\ pc'[h] \in {"exists", "insert", "flush", "commit", "respond"}
    BY <1>1, <2>1, Answers, GoesOn
  <2>2. CASE FindOrder(h)
    <3>1. Goto(h, "find", "exists") \/ \E c, w : Answer(h, "find", c, w)
      BY <2>2 DEF FindOrder
    <3> QED
      BY <2>1, <3>1
  <2>3. CASE ExistsByPaymentKey(h)
    <3>1. Goto(h, "exists", "insert") \/ \E c, w : Answer(h, "exists", c, w)
      BY <2>3 DEF ExistsByPaymentKey
    <3> QED
      BY <2>1, <3>1
  <2>4. CASE InsertPayment(h)
    <3>1. Goto(h, "insert", "flush") \/ \E c, w : Answer(h, "insert", c, w)
      BY <2>4 DEF InsertPayment
    <3> QED
      BY <2>1, <3>1
  <2>5. CASE FlushOrder(h)
    BY <1>1, <2>5, GoesOn DEF FlushOrder
  <2>6. CASE DatabaseFails(h)
    <3>1. Answer(h, pc[h], Status("DataAccessException"), "database")
      BY <2>6 DEF DatabaseFails
    <3>2. "database" \notin Refusals
      BY DEF Refusals
    <3> QED
      BY <1>1, <3>1, <3>2, Answers
  <2> QED
    BY <2>2, <2>3, <2>4, <2>5, <2>6
<1>5. Admitted(h)' => Admitted(h)
  BY <1>4, AdmittedAt
<1>6. KindInv(h)'
  <2>1. KindInv(h)
    BY AdmissionParts
  <2> QED
    BY <1>3, <1>4, <2>1 DEF KindInv
<1> QED
  BY <1>2, <1>3, <1>5, <1>6, NoAdmission

-----------------------------------------------------------------------------
(* Accesses that make a row.                                               *)

LEMMA SaveAdmission ==
    ASSUME IInv, AdmissionInv, NEW h \in Handlers, Still(h), NEW c,
           NEW w \in {"created", "database"}, Answer(h, "save", c, w),
           orders' = Append(orders, [rid |-> req[h].rid, status |-> "CREATED"]),
           UNCHANGED <<redis, payments, req, expired>>
    PROVE  AdmissionKept
<1>1. TypeOK
  BY DEF IInv
<1>2. pc[h] = "save" /\ pc'[h] = "respond" /\ ~Admitted(h)'
  BY <1>1, Answers DEF Refusals
<1>3. Admitted(h) /\ req[h].kind = "create" /\ KindInv(h)'
  BY <1>2, AdmittedAt, AdmissionParts DEF KindInv
<1>4. PICK i : i = Len(orders) + 1
  OBVIOUS
<1>5. /\ DOMAIN orders' = DOMAIN orders \cup {i} /\ i \notin DOMAIN orders
      /\ \A j \in DOMAIN orders : orders'[j].rid = orders[j].rid
      /\ orders'[i].rid = req[h].rid
  <2>1. orders \in Seq(OrderRows)
    BY <1>1 DEF TypeOK
  <2> QED
    BY <1>4, <2>1
<1>6. ASSUME NEW k \in Keys
      PROVE  /\ RowsOf(k)' \subseteq
                    IF k = Key(req[h]) THEN RowsOf(k) \cup {i} ELSE RowsOf(k)
             /\ RowsOf(k) \subseteq RowsOf(k)'
  <2>1. req[h] \in Requests \cup {NoRequest}
    BY <1>1 DEF TypeOK
  <2>2. k = Key(req[h]) <=> k[1] = "create" /\ k[2] = req[h].rid
    BY <1>3, <2>1, KeysOf
  <2> QED
    BY <1>5, <2>2 DEF RowsOf, Rows
<1> QED
  BY <1>2, <1>3, <1>6, Effect

LEMMA CommitAdmission ==
    ASSUME IInv, AdmissionInv, NEW h \in Handlers, Still(h), NEW c,
           NEW w \in {"approved", "database"}, Answer(h, "commit", c, w), Committed(h),
           UNCHANGED <<redis, req, expired>>
    PROVE  AdmissionKept
<1>1. TypeOK /\ TransactionInv(h)
  BY DEF IInv
<1>2. pc[h] = "commit" /\ pc'[h] = "respond" /\ ~Admitted(h)'
  BY <1>1, Answers DEF Refusals
<1>3. Admitted(h) /\ req[h].kind = "approve" /\ KindInv(h)'
  BY <1>2, AdmittedAt, AdmissionParts DEF KindInv
<1>4. PICK i : i = Len(payments) + 1
  OBVIOUS
<1>5. /\ DOMAIN payments' = DOMAIN payments \cup {i} /\ i \notin DOMAIN payments
      /\ \A j \in DOMAIN payments : payments'[j].rid = payments[j].rid
      /\ payments'[i].rid = req[h].rid
  <2>1. payments \in Seq(PaymentRows)
    BY <1>1 DEF TypeOK
  <2>2. payments' = Append(payments, [rid |-> req[h].rid, order |-> req[h].order,
                                      key |-> req[h].key])
    BY DEF Committed
  <2> QED
    BY <1>4, <2>1, <2>2
<1>6. /\ DOMAIN orders' = DOMAIN orders
      /\ \A j \in DOMAIN orders : orders'[j].rid = orders[j].rid
  <2>1. orders \in Seq(OrderRows) /\ req[h].order \in DOMAIN orders
    BY <1>1, <1>2 DEF TypeOK, TransactionInv
  <2>2. CASE loaded[h] = "PAID"
    BY <2>2 DEF Committed
  <2>3. CASE loaded[h] # "PAID"
    <3>1. orders' = [orders EXCEPT ![req[h].order].status = "PAID"]
      BY <2>3 DEF Committed
    <3>2. orders[req[h].order] \in OrderRows
      BY <2>1
    <3>3. [orders[req[h].order] EXCEPT !.status = "PAID"].rid = orders[req[h].order].rid
      BY <3>2 DEF OrderRows
    <3> QED
      BY <2>1, <3>1, <3>3
  <2> QED
    BY <2>2, <2>3
<1>7. ASSUME NEW k \in Keys
      PROVE  /\ RowsOf(k)' \subseteq
                    IF k = Key(req[h]) THEN RowsOf(k) \cup {i} ELSE RowsOf(k)
             /\ RowsOf(k) \subseteq RowsOf(k)'
  <2>1. req[h] \in Requests \cup {NoRequest}
    BY <1>1 DEF TypeOK
  <2>2. /\ k = Key(req[h]) <=> k[1] = "approve" /\ k[2] = req[h].rid
        /\ k[1] = "create" \/ k[1] = "approve"
    BY <1>3, <2>1, KeysOf
  <2> QED
    BY <1>5, <1>6, <2>2 DEF RowsOf, Rows
<1> QED
  BY <1>2, <1>3, <1>7, Effect

-----------------------------------------------------------------------------
(* The other steps.                                                        *)

\* A key that expires frees a lifetime that has begun for one that may begin.
LEMMA ExpireAdmission ==
    ASSUME IInv, AdmissionInv, NEW e \in Keys, Expire(e)
    PROVE  AdmissionInv'
<1>1. TypeOK
  BY DEF IInv
<1>2. /\ e \in redis /\ redis' = redis \ {e} /\ expired' = [expired EXCEPT ![e] = @ + 1]
      /\ UNCHANGED <<database, pc, req, answer>>
  BY DEF Expire, locals
<1>3. \A h \in Handlers : KindInv(h)'
  BY <1>2, AdmissionParts DEF KindInv
<1>4. ASSUME NEW k \in Keys
      PROVE  Budget(k)'
  <2>1. Budget(k)
    BY AdmissionParts
  <2>2. Using(k)' \subseteq Using(k)
    BY <1>2 DEF Using, Admitted
  <2>3. RowsOf(k)' = RowsOf(k)
    BY <1>2, SameRows
  <2>4. expired[k] \in Nat /\ expired'[k] = IF k = e THEN expired[k] + 1 ELSE expired[k]
    BY <1>1, <1>2 DEF TypeOK
  <2>5. Allowance(k)' \in Nat /\ Allowance(k)' >= Allowance(k)
    BY <1>2, <2>4 DEF Allowance
  <2> QED
    BY <1>1, <2>1, <2>2, <2>3, <2>5, BudgetKept
<1> QED
  BY <1>3, <1>4, AdmissionParts

\* A crash ends what was admitted; what it has made stays.
LEMMA CrashAdmission ==
    ASSUME IInv, AdmissionInv, Crash \/ UNCHANGED vars
    PROVE  AdmissionInv'
<1>1. TypeOK
  BY DEF IInv
<1>2. UNCHANGED <<redis, database, expired>>
  BY DEF Crash, vars, database
<1>3. ASSUME NEW h \in Handlers
      PROVE  \/ pc'[h] = "idle"
             \/ pc'[h] = pc[h] /\ req'[h] = req[h] /\ answer'[h] = answer[h]
  <2>1. CASE Crash
    BY <2>1 DEF Crash
  <2>2. CASE UNCHANGED vars
    BY <2>2 DEF vars
  <2> QED
    BY <2>1, <2>2
<1>4. \A h \in Handlers : KindInv(h)'
  BY <1>3, AdmissionParts DEF KindInv
<1>5. ASSUME NEW k \in Keys
      PROVE  Budget(k)'
  <2>1. Budget(k)
    BY AdmissionParts
  <2>2. Using(k)' \subseteq Using(k)
    BY <1>3 DEF Using, Admitted
  <2>3. RowsOf(k)' = RowsOf(k)
    BY <1>2, SameRows
  <2>4. Allowance(k) \in Nat /\ Allowance(k)' = Allowance(k)
    BY <1>1, <1>2, AllowanceType DEF Allowance
  <2> QED
    BY <1>1, <2>1, <2>2, <2>3, <2>4, BudgetKept
<1> QED
  BY <1>4, <1>5, AdmissionParts

LEMMA InitAdmission == Init => AdmissionInv
<1> SUFFICES ASSUME Init PROVE AdmissionInv
  OBVIOUS
<1>1. \A h \in Handlers : KindInv(h)
  BY DEF Init, KindInv
<1>2. ASSUME NEW k \in Keys
      PROVE  Budget(k)
  <2>1. Using(k) = {} /\ RowsOf(k) = {}
    BY DEF Init, Using, Admitted, RowsOf, Rows
  <2>2. Allowance(k) = 0
    BY DEF Init, Allowance
  <2> QED
    BY <2>1, <2>2, FS_EmptySet DEF Budget
<1> QED
  BY <1>1, <1>2, AdmissionParts

\* All steps of handlers.
LEMMA HandlerAdmission ==
    ASSUME IInv, AdmissionInv, NEW h \in Handlers, Receive(h) \/ Step(h) \/ Failure(h)
    PROVE  AdmissionKept
<1>1. CASE SaveOrder(h) \/ Commit(h) \/ CommitUnheard(h)
  <2>1. Still(h)
    BY HandlerStep DEF IInv
  <2>2. CASE SaveOrder(h)
    BY <2>1, <2>2, SaveAdmission DEF SaveOrder
  <2>3. CASE Commit(h)
    BY <2>1, <2>3, CommitAdmission DEF Commit
  <2>4. CASE CommitUnheard(h)
    BY <2>1, <2>4, SaveAdmission, CommitAdmission DEF CommitUnheard
  <2> QED
    BY <1>1, <2>2, <2>3, <2>4
<1> QED
  BY <1>1, ReceiveAdmission, AcquireAdmission, GetAdmission, PaymentAdmission
     DEF Step, Failure

LEMMA StepAdmission == IInv /\ AdmissionInv /\ [Next]_vars => AdmissionInv'
  BY HandlerAdmission, ExpireAdmission, CrashAdmission DEF AdmissionKept, Next

\* A key that is spent remains so until it expires.
LEMMA SpentUntilExpiry ==
    ASSUME IInv, AdmissionInv, [Next]_vars, NEW k \in Keys, Spent(k)
    PROVE  Spent(k)' \/ expired'[k] > 0
<1>1. CASE \E h \in Handlers : Receive(h) \/ Step(h) \/ Failure(h)
  BY <1>1, HandlerAdmission DEF AdmissionKept
<1>2. CASE \E e \in Keys : Expire(e)
  <2>1. PICK e \in Keys : Expire(e)
    BY <1>2
  <2>2. /\ redis' = redis \ {e} /\ expired' = [expired EXCEPT ![e] = @ + 1]
        /\ UNCHANGED <<database, pc, req, answer>>
    BY <2>1 DEF Expire, locals
  <2>3. CASE e = k
    BY <2>2, <2>3 DEF IInv, TypeOK
  <2>4. CASE e # k
    BY <2>2, <2>4, SameRows DEF Spent, Using, Admitted
  <2> QED
    BY <2>3, <2>4
<1>3. CASE Crash \/ UNCHANGED vars
  <2>1. UNCHANGED <<redis, database>>
    BY <1>3 DEF Crash, vars, database
  <2>2. Using(k)' \subseteq Using(k)
    <3>1. CASE Crash
      BY <3>1 DEF Crash, Using, Admitted
    <3>2. CASE UNCHANGED vars
      BY <3>2 DEF vars, Using, Admitted
    <3> QED
      BY <1>3, <3>1, <3>2
  <2> QED
    BY <2>1, <2>2, SameRows DEF Spent
<1> QED
  BY <1>1, <1>2, <1>3 DEF Next

\* At every moment the requests that a key has admitted and that may still have
\* an effect, together with the rows it has made, are at most its lifetimes.
THEOREM AdmissionInvariance == Spec => []AdmissionInv
<1> QED
  BY InitAdmission, StepAdmission, Invariance, PTL DEF Spec

\* A request id makes a row once in the lifetime of its key, whatever is sent
\* again, fails, or is cut off by a crash.
THEOREM OnceInALifetime == Spec => []OncePerKeyLifetime
<1>1. IInv /\ AdmissionInv => OncePerKeyLifetime
  <2> SUFFICES ASSUME IInv, AdmissionInv, NEW k \in Keys
               PROVE  Cardinality(RowsOf(k)) <= 1 + expired[k]
    BY DEF OncePerKeyLifetime
  <2>1. TypeOK /\ Budget(k)
    BY AdmissionParts DEF IInv
  <2>2. Cardinality(Using(k)) \in Nat
    BY <2>1, FS_CardinalityType DEF Budget
  <2>3. Cardinality(RowsOf(k)) \in Nat
    BY <2>1, RowsFinite
  <2>4. expired[k] \in Nat
    BY <2>1 DEF TypeOK
  <2>5. Allowance(k) <= expired[k] + 1 /\ Allowance(k) \in Nat
    BY <2>4 DEF Allowance
  <2>6. Cardinality(Using(k)) + Cardinality(RowsOf(k)) <= Allowance(k)
    BY <2>1 DEF Budget
  <2> QED
    BY <2>2, <2>3, <2>4, <2>5, <2>6
<1> QED
  BY <1>1, Invariance, AdmissionInvariance, PTL

\* While a key has not expired its lifetime admits one request.
LEMMA SoleUser ==
    ASSUME TypeOK, NEW k \in Keys, Budget(k), NEW h \in Using(k), expired[k] = 0
    PROVE  Using(k) = {h} /\ RowsOf(k) = {} /\ k \in redis
<1>1. PICK U : U = Using(k)
  OBVIOUS
<1>2. PICK V : V = U \ {h}
  OBVIOUS
<1>3. IsFiniteSet(U) /\ Cardinality(U) \in Nat /\ IsFiniteSet(V) /\ Cardinality(V) \in Nat
  <2>1. IsFiniteSet(U)
    BY <1>1 DEF Budget
  <2> QED
    BY <1>2, <2>1, FS_CardinalityType, FS_RemoveElement
<1>4. Cardinality(V) = Cardinality(U) - 1
  BY <1>1, <1>2, <1>3, FS_RemoveElement
<1>5. PICK r \in Nat : r = Cardinality(RowsOf(k)) /\ (r = 0 => RowsOf(k) = {})
  BY RowsFinite, FS_EmptySet
<1>6. Cardinality(U) + r <= IF k \in redis THEN 1 ELSE 0
  BY <1>1, <1>3, <1>5 DEF Budget, Allowance
<1>7. k \in redis /\ r = 0 /\ Cardinality(V) = 0
  BY <1>3, <1>4, <1>6
<1>8. V = {}
  BY <1>3, <1>7, FS_EmptySet
<1> QED
  BY <1>1, <1>2, <1>5, <1>7, <1>8

\* Who is refused because of the order or of the payment key has no payment
\* under the request id, unless its key has expired.
THEOREM RefusalsAreFinal == Spec => []RefusalIsFinal
<1>1. IInv /\ AdmissionInv => RefusalIsFinal
  <2> SUFFICES ASSUME IInv, AdmissionInv, NEW h \in Handlers,
                      answer[h].why \in Refusals, req[h].kind = "approve",
                      expired[Key(req[h])] = 0
               PROVE  Rows(payments, req[h].rid) = {}
    BY DEF RefusalIsFinal
  <2>1. TypeOK /\ TransactionInv(h)
    BY DEF IInv
  <2>2. pc[h] = "respond"
    <3>1. NoAnswer.why \notin Refusals
      BY DEF NoAnswer, Refusals
    <3> QED
      BY <2>1, <3>1 DEF TransactionInv
  <2>3. PICK k \in Keys : k = Key(req[h])
    BY <2>1, <2>2, Fields DEF TransactionInv
  <2>4. h \in Using(k)
    BY <2>2, <2>3 DEF Using, Admitted
  <2>5. RowsOf(k) = {}
    BY <2>1, <2>3, <2>4, AdmissionParts, SoleUser
  <2>6. RowsOf(k) = Rows(payments, req[h].rid)
    BY <2>3 DEF RowsOf, Key
  <2> QED
    BY <2>5, <2>6
<1> QED
  BY <1>1, Invariance, AdmissionInvariance, PTL
=============================================================================
