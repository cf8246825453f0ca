--------------------------- MODULE PlaceFlowProof ---------------------------
(***************************************************************************)
(* Proofs about PlaceFlow's database, for any number of handlers and any   *)
(* requests: what it holds is right and what clients are told of it is     *)
(* true, and the transactions have the effect of approvals made one at a   *)
(* time.                                                                   *)
(***************************************************************************)
EXTENDS PlaceFlow, TLAPS

-----------------------------------------------------------------------------
\* Idle handlers and empty tables satisfy the invariant.
LEMMA InitInv == Init => IInv
<1> SUFFICES ASSUME Init
             PROVE  IInv
  OBVIOUS
<1>1. TypeOK
  <2>1. redis \subseteq Keys /\ expired \in [Keys -> Nat]
    BY DEF Init
  <2>2. orders \in Seq(OrderRows) /\ payments \in Seq(PaymentRows) /\ Len(payments) = 0
    BY DEF Init
  <2>3. \A i \in DOMAIN payments : payments[i].order \in DOMAIN orders
    BY DEF Init
  <2>4. pc \in [Handlers -> Labels] /\ seen \in [Handlers -> 0 .. Len(payments)]
    BY <2>2 DEF Init, Labels
  <2>5. /\ req \in [Handlers -> Requests \cup {NoRequest}]
        /\ loaded \in [Handlers -> {"none", "CREATED", "PAID"}]
    BY DEF Init
  <2>6. answer \in [Handlers -> [code : {0, 200, 404, 409, 500}, why : Reasons]]
    BY DEF Init, NoAnswer, Reasons
  <2> QED
    BY <2>1, <2>2, <2>3, <2>4, <2>5, <2>6 DEF TypeOK
<1>2. \A h \in Handlers : TransactionInv(h)
  BY DEF Init, TransactionInv
<1>3. PaidIffPayment /\ PaymentKeyUsedOnce
  BY DEF Init, PaidIffPayment, PaymentKeyUsedOnce
<1>4. DuplicatePaymentIsReal /\ SuccessIsDurable
  BY DEF Init, DuplicatePaymentIsReal, SuccessIsDurable, NoAnswer
<1> QED
  BY <1>1, <1>2, <1>3, <1>4 DEF IInv

\* A handler's request is one of Requests, and its fields are fields of theirs.
LEMMA Fields ==
    ASSUME NEW q \in Requests
    PROVE  /\ q.rid \in RequestIds
           /\ q.key # Null => q.key \in PaymentKeys
           /\ q.kind # "get" => Key(q) \in Keys
  BY DEF RequestIds, PaymentKeys, Keys

-----------------------------------------------------------------------------
(* Steps of one handler that leave the database alone.                     *)

\* Only h moves; if it inserts a payment, no other transaction holds its key.
OnlyMoves(h) ==
    /\ UNCHANGED database
    /\ \A g \in Handlers \ {h} :
           /\ pc'[g] = pc[g]
           /\ req'[g] = req[g]
           /\ loaded'[g] = loaded[g]
           /\ answer'[g] = answer[g]
    /\ pc'[h] \in {"flush", "commit"} =>
           /\ req'[h] = req[h]
           /\ pc[h] \in {"flush", "commit"} \/ Inserting(h, req[h].key) = {}

\* A payment with key k is committed.
Recorded(k) == \E i \in DOMAIN payments : payments[i].key = k

\* If w says that a payment with h's key was made, then one was.
Justified(h, w) == w = "duplicate payment" => Recorded(req[h].key)

\* What h is about to tell its client is no news of a payment, or it has seen one.
AnswersTruly(h) ==
    \/ answer'[h] = answer[h] /\ req'[h] = req[h]
    \/ answer'[h].why \notin {"approved", "duplicate payment"}
    \/ answer'[h].why = "duplicate payment" /\ Recorded(req'[h].key)

\* The others keep what they rely on.
LEMMA OthersKeep ==
    ASSUME IInv, NEW h \in Handlers, OnlyMoves(h), NEW g \in Handlers \ {h}
    PROVE  TransactionInv(g)'
<1>1. TransactionInv(g) /\ TransactionInv(h)
  BY DEF IInv
<1>2. ASSUME pc[g] \in {"flush", "commit"}
      PROVE  Inserting(g, req[g].key)' = {}
  <2>1. Inserting(g, req[g].key) = {}
    BY <1>1, <1>2 DEF TransactionInv
  <2>2. ASSUME pc'[h] \in {"flush", "commit"}, req'[h].key = req[g].key
        PROVE  FALSE
    <3>1. CASE pc[h] \in {"flush", "commit"}
      BY <2>1, <2>2, <3>1 DEF OnlyMoves, Inserting
    <3>2. CASE Inserting(h, req[h].key) = {}
      BY <1>2, <2>2, <3>2 DEF OnlyMoves, Inserting
    <3> QED
      BY <2>2, <3>1, <3>2 DEF OnlyMoves
  <2> QED
    BY <2>1, <2>2 DEF OnlyMoves, Inserting
<1> QED
  BY <1>1, <1>2 DEF OnlyMoves, TransactionInv, database

\* A step of one handler that leaves the database alone keeps the invariant.
LEMMA QuietInv ==
    ASSUME IInv, NEW h \in Handlers, OnlyMoves(h), AnswersTruly(h),
           TypeOK', TransactionInv(h)'
    PROVE  IInv'
<1>1. (\A g \in Handlers : TransactionInv(g))'
  BY OthersKeep
<1>2. PaidIffPayment' /\ PaymentKeyUsedOnce'
  BY DEF IInv, OnlyMoves, database, PaidIffPayment, PaymentKeyUsedOnce
<1>3. UNCHANGED <<orders, payments>>
  BY DEF OnlyMoves, database
<1>4. ASSUME NEW g \in Handlers
      PROVE  \/ answer'[g] = answer[g] /\ req'[g] = req[g]
             \/ answer'[g].why \notin {"approved", "duplicate payment"}
             \/ answer'[g].why = "duplicate payment" /\ Recorded(req'[g].key)
  <2>1. CASE g = h
    BY <2>1 DEF AnswersTruly
  <2>2. CASE g # h
    BY <2>2 DEF OnlyMoves
  <2> QED
    BY <2>1, <2>2
<1>5. DuplicatePaymentIsReal'
  <2>1. DuplicatePaymentIsReal
    BY DEF IInv
  <2> QED
    BY <1>3, <1>4, <2>1 DEF DuplicatePaymentIsReal, Recorded
<1>6. SuccessIsDurable'
  <2>1. SuccessIsDurable
    BY DEF IInv
  <2>2. ASSUME NEW g \in Handlers, answer'[g].why = "approved"
        PROVE  answer'[g] = answer[g] /\ req'[g] = req[g]
    BY <1>4, <2>2
  <2> QED
    BY <1>3, <2>1, <2>2 DEF SuccessIsDurable
<1> QED
  BY <1>1, <1>2, <1>5, <1>6 DEF IInv

Codes == {200, 404, 409, 500}

LEMMA StatusIsCode == \A e : Status(e) \in Codes
  BY DEF Status, Codes

\* A handler answers its client, with anything but news of a payment it cannot
\* know of.
LEMMA AnswerInv ==
    ASSUME IInv, NEW h \in Handlers,
           NEW l \in Labels \ {"idle"},
           NEW c \in Codes, NEW w \in Reasons \ {"approved"},
           Answer(h, l, c, w),
           Justified(h, w),
           redis' \subseteq Keys,
           UNCHANGED <<database, req, loaded, seen, expired>>
    PROVE  IInv'
<1>1. TypeOK /\ TransactionInv(h)
  BY DEF IInv
<1>2. /\ pc \in [Handlers -> Labels]
      /\ answer \in [Handlers -> [code : {0, 200, 404, 409, 500}, why : Reasons]]
  BY <1>1 DEF TypeOK
<1>3. /\ pc[h] = l
      /\ pc' = [pc EXCEPT ![h] = "respond"]
      /\ answer' = [answer EXCEPT ![h] = [code |-> c, why |-> w]]
  BY DEF Answer, Goto
<1>4. pc'[h] = "respond" /\ answer'[h] = [code |-> c, why |-> w]
  BY <1>2, <1>3
<1>5. \A g \in Handlers \ {h} : pc'[g] = pc[g] /\ answer'[g] = answer[g]
  BY <1>2, <1>3
<1>6. OnlyMoves(h)
  BY <1>4, <1>5 DEF OnlyMoves
<1>7. AnswersTruly(h)
  <2>1. answer'[h].why = w /\ req'[h] = req[h]
    BY <1>4
  <2> QED
    BY <2>1 DEF AnswersTruly, Justified
<1>8. TypeOK'
  <2>1. pc' \in [Handlers -> Labels]
    BY <1>2, <1>3 DEF Labels
  <2>2. answer' \in [Handlers -> [code : {0, 200, 404, 409, 500}, why : Reasons]]
    <3>1. [code |-> c, why |-> w] \in [code : {0, 200, 404, 409, 500}, why : Reasons]
      BY DEF Codes
    <3> QED
      BY <1>2, <1>3, <3>1
  <2> QED
    BY <1>1, <2>1, <2>2 DEF TypeOK, database
<1>9. TransactionInv(h)'
  BY <1>1, <1>3, <1>4 DEF TransactionInv
<1> QED
  BY <1>6, <1>7, <1>8, <1>9, QuietInv

\* A handler goes on to its next access.  What it relies on from there:
OrderLoaded(h) ==
    /\ req[h].order \in DOMAIN orders
    /\ loaded'[h] = "PAID" => orders[req[h].order].status = "PAID"

KeyHeld(h) ==
    /\ req[h].key # Null
    /\ Inserting(h, req[h].key) = {}
    /\ ~ Recorded(req[h].key)

\* With these, a handler that goes on to its next access keeps the invariant.
LEMMA GoOnInv ==
    ASSUME IInv, NEW h \in Handlers,
           NEW l \in Labels \ {"idle", "respond"},
           NEW m \in Labels \ {"idle", "respond", "acquire"},
           Goto(h, l, m), TypeOK',
           UNCHANGED <<database, req, answer>>,
           \A g \in Handlers \ {h} : loaded'[g] = loaded[g],
           m \in {"exists", "insert", "flush", "commit"} => OrderLoaded(h),
           m \in {"flush", "commit"} => KeyHeld(h)
    PROVE  IInv'
<1>1. TypeOK /\ TransactionInv(h)
  BY DEF IInv
<1>2. pc'[h] = m /\ pc[h] = l
  BY <1>1 DEF TypeOK, Goto
<1>3. \A g \in Handlers \ {h} : pc'[g] = pc[g]
  BY <1>1 DEF TypeOK, Goto
<1>4. OnlyMoves(h)
  BY <1>2, <1>3 DEF OnlyMoves, KeyHeld
<1>5. AnswersTruly(h)
  BY DEF AnswersTruly
<1>6. Inserting(h, req[h].key)' = Inserting(h, req[h].key)
  BY <1>3 DEF Inserting
<1>7. TransactionInv(h)'
  BY <1>1, <1>2, <1>6 DEF TransactionInv, database, OrderLoaded, KeyHeld, Recorded
<1> QED
  BY <1>4, <1>5, <1>7, QuietInv

-----------------------------------------------------------------------------
(* The accesses that leave the database alone.                             *)

\* A request comes in.
LEMMA ReceiveInv ==
    ASSUME IInv, NEW h \in Handlers, Receive(h)
    PROVE  IInv'
<1>1. TypeOK /\ TransactionInv(h)
  BY DEF IInv
<1>2. PICK q \in Requests :
          /\ pc[h] = "idle"
          /\ pc' = [pc EXCEPT ![h] = IF q.kind = "get" THEN "get" ELSE "acquire"]
          /\ req' = [req EXCEPT ![h] = q]
  BY DEF Receive, Goto
<1>3. UNCHANGED <<redis, orders, payments, loaded, seen, answer, expired>>
  BY DEF Receive, database
<1>4. /\ pc \in [Handlers -> Labels]
      /\ req \in [Handlers -> Requests \cup {NoRequest}]
  BY <1>1 DEF TypeOK
<1>5. /\ req'[h] = q
      /\ pc'[h] = IF q.kind = "get" THEN "get" ELSE "acquire"
      /\ \A g \in Handlers \ {h} : pc'[g] = pc[g] /\ req'[g] = req[g]
  BY <1>2, <1>4
<1>6. OnlyMoves(h)
  BY <1>3, <1>5 DEF OnlyMoves, database
<1>7. AnswersTruly(h)
  <2>1. answer[h] = NoAnswer
    BY <1>1, <1>2 DEF TransactionInv
  <2>2. answer'[h].why = "none"
    BY <1>3, <2>1 DEF NoAnswer
  <2> QED
    BY <2>2 DEF AnswersTruly
<1>8. TypeOK'
  BY <1>1, <1>2, <1>3, <1>4 DEF TypeOK, Labels
<1>9. TransactionInv(h)'
  BY <1>1, <1>2, <1>3, <1>5 DEF TransactionInv
<1> QED
  BY <1>6, <1>7, <1>8, <1>9, QuietInv

\* The response leaves.
LEMMA RespondInv ==
    ASSUME IInv, NEW h \in Handlers, Respond(h)
    PROVE  IInv'
<1>1. TypeOK /\ TransactionInv(h)
  BY DEF IInv
<1>2. /\ pc' = [pc EXCEPT ![h] = "idle"]
      /\ req' = [req EXCEPT ![h] = NoRequest]
      /\ loaded' = [loaded EXCEPT ![h] = "none"]
      /\ seen' = [seen EXCEPT ![h] = 0]
      /\ answer' = [answer EXCEPT ![h] = NoAnswer]
      /\ UNCHANGED <<redis, orders, payments, expired>>
  BY DEF Respond, Goto, database
<1>3. /\ pc'[h] = "idle" /\ answer'[h] = NoAnswer
      /\ \A g \in Handlers \ {h} :
             /\ pc'[g] = pc[g] /\ req'[g] = req[g]
             /\ loaded'[g] = loaded[g] /\ answer'[g] = answer[g]
  BY <1>1, <1>2 DEF TypeOK
<1>4. OnlyMoves(h)
  BY <1>2, <1>3 DEF OnlyMoves, database
<1>5. AnswersTruly(h)
  BY <1>3 DEF AnswersTruly, NoAnswer
<1>6. TypeOK'
  <2>1. NoAnswer \in [code : {0, 200, 404, 409, 500}, why : Reasons]
    BY DEF NoAnswer, Reasons
  <2>2. Len(payments) \in Nat
    BY <1>1 DEF TypeOK
  <2> QED
    BY <1>1, <1>2, <2>1, <2>2 DEF TypeOK, Labels
<1>7. TransactionInv(h)'
  BY <1>3 DEF TransactionInv
<1> QED
  BY <1>4, <1>5, <1>6, <1>7, QuietInv

\* The server goes down: every handler is idle.
LEMMA CrashInv ==
    ASSUME IInv, Crash
    PROVE  IInv'
<1>1. /\ pc' = [h \in Handlers |-> "idle"]
      /\ req' = [h \in Handlers |-> NoRequest]
      /\ loaded' = [h \in Handlers |-> "none"]
      /\ seen' = [h \in Handlers |-> 0]
      /\ answer' = [h \in Handlers |-> NoAnswer]
      /\ UNCHANGED <<redis, orders, payments, expired>>
  BY DEF Crash, database
<1>2. TypeOK'
  <2>1. TypeOK
    BY DEF IInv
  <2>2. NoAnswer \in [code : {0, 200, 404, 409, 500}, why : Reasons]
    BY DEF NoAnswer, Reasons
  <2>3. Len(payments) \in Nat
    BY <2>1 DEF TypeOK
  <2> QED
    BY <1>1, <2>1, <2>2, <2>3 DEF TypeOK, Labels
<1>3. (\A h \in Handlers : TransactionInv(h))'
  BY <1>1 DEF TransactionInv
<1>4. PaidIffPayment' /\ PaymentKeyUsedOnce'
  BY <1>1 DEF IInv, PaidIffPayment, PaymentKeyUsedOnce
<1>5. DuplicatePaymentIsReal' /\ SuccessIsDurable'
  BY <1>1 DEF DuplicatePaymentIsReal, SuccessIsDurable, NoAnswer
<1> QED
  BY <1>2, <1>3, <1>4, <1>5 DEF IInv

\* A key expires, which nothing but later requests depends on.
LEMMA ExpireInv ==
    ASSUME IInv, NEW k \in Keys, Expire(k)
    PROVE  IInv'
<1>1. TypeOK
  BY DEF IInv
<1>2. /\ redis' = redis \ {k}
      /\ expired' = [expired EXCEPT ![k] = @ + 1]
      /\ UNCHANGED <<orders, payments, pc, req, loaded, seen, answer>>
  BY DEF Expire, database, locals
<1>3. TypeOK'
  BY <1>1, <1>2 DEF TypeOK
<1>4. (\A h \in Handlers : TransactionInv(h))'
  BY <1>2 DEF IInv, TransactionInv, Inserting
<1>5. PaidIffPayment' /\ PaymentKeyUsedOnce'
  BY <1>2 DEF IInv, PaidIffPayment, PaymentKeyUsedOnce
<1>6. DuplicatePaymentIsReal' /\ SuccessIsDurable'
  BY <1>2 DEF IInv, DuplicatePaymentIsReal, SuccessIsDurable
<1> QED
  BY <1>3, <1>4, <1>5, <1>6 DEF IInv

\* The key is set, or was.
LEMMA AcquireInv ==
    ASSUME IInv, NEW h \in Handlers, Acquire(h) \/ AcquireFails(h)
    PROVE  IInv'
<1>1. TypeOK /\ TransactionInv(h)
  BY DEF IInv
<1>2. /\ pc[h] = "acquire"
      /\ UNCHANGED <<database, req, loaded, seen, expired>>
  BY DEF Acquire, AcquireFails, Answer, Goto
<1>3. Key(req[h]) \in Keys
  BY <1>1, <1>2, Fields DEF TransactionInv
<1>4. redis' \subseteq Keys
  <2>1. redis' \in {redis, redis \cup {Key(req[h])}}
    BY DEF Acquire, AcquireFails
  <2> QED
    BY <1>1, <1>3, <2>1 DEF TypeOK
<1>5. CASE Answer(h, "acquire", Status("DuplicateRequestException"),
                  "duplicate request")
  <2>1. Justified(h, "duplicate request")
    BY DEF Justified
  <2>2. /\ "acquire" \in Labels \ {"idle"}
        /\ Status("DuplicateRequestException") \in Codes
        /\ "duplicate request" \in Reasons \ {"approved"}
    BY StatusIsCode DEF Labels, Reasons
  <2> QED
    BY <1>2, <1>4, <1>5, <2>1, <2>2, AnswerInv
<1>6. CASE Answer(h, "acquire", Status("RedisConnectionFailureException"),
                  "redis")
  <2>1. Justified(h, "redis")
    BY DEF Justified
  <2>2. /\ "acquire" \in Labels \ {"idle"}
        /\ Status("RedisConnectionFailureException") \in Codes
        /\ "redis" \in Reasons \ {"approved"}
    BY StatusIsCode DEF Labels, Reasons
  <2> QED
    BY <1>2, <1>4, <1>6, <2>1, <2>2, AnswerInv
<1>7. ASSUME NEW m \in {"save", "find"}, Goto(h, "acquire", m), UNCHANGED answer
      PROVE  IInv'
  <2>1. TypeOK'
    BY <1>1, <1>2, <1>4, <1>7 DEF TypeOK, Goto, Labels, database
  <2>2. "acquire" \in Labels \ {"idle", "respond"}
    BY DEF Labels
  <2>3. /\ m \in Labels \ {"idle", "respond", "acquire"}
        /\ m \notin {"exists", "insert", "flush", "commit"}
    BY <1>7 DEF Labels
  <2>4. UNCHANGED <<database, req, answer>> /\ UNCHANGED loaded
    BY <1>2, <1>7
  <2> QED
    BY <1>7, <2>1, <2>2, <2>3, <2>4, GoOnInv
<1> QED
  BY <1>5, <1>6, <1>7 DEF Acquire, AcquireFails

\* Refusals and failures that are told the client as they are.
LEMMA RefuseInv ==
    ASSUME IInv, NEW h \in Handlers, NEW l \in Labels \ {"idle"},
           NEW c \in Codes,
           NEW w \in Reasons \ {"approved", "duplicate payment"},
           Answer(h, l, c, w),
           UNCHANGED <<redis, database, req, loaded, seen, expired>>
    PROVE  IInv'
<1>1. Justified(h, w)
  BY DEF Justified
<1>2. redis' \subseteq Keys
  BY DEF IInv, TypeOK
<1>3. w \in Reasons \ {"approved"}
  OBVIOUS
<1>4. UNCHANGED <<database, req, loaded, seen, expired>>
  OBVIOUS
<1> QED
  BY <1>1, <1>2, <1>3, <1>4, AnswerInv

\* An order is shown, or is not there.
LEMMA GetOrderInv ==
    ASSUME IInv, NEW h \in Handlers, GetOrder(h)
    PROVE  IInv'
<1>1. /\ "get" \in Labels \ {"idle"}
      /\ 200 \in Codes /\ Status("NoSuchElementException") \in Codes
      /\ {"found", "no such order"} \subseteq Reasons \ {"approved", "duplicate payment"}
  BY StatusIsCode DEF Labels, Reasons, Codes
<1>2. UNCHANGED <<redis, database, req, loaded, seen, expired>>
  BY DEF GetOrder
<1>3. CASE Answer(h, "get", 200, "found")
  BY <1>1, <1>2, <1>3, RefuseInv
<1>4. CASE Answer(h, "get", Status("NoSuchElementException"), "no such order")
  BY <1>1, <1>2, <1>4, RefuseInv
<1> QED
  BY <1>3, <1>4 DEF GetOrder

\* An access fails and the transaction is rolled back.
LEMMA DatabaseFailsInv ==
    ASSUME IInv, NEW h \in Handlers, DatabaseFails(h)
    PROVE  IInv'
<1>1. PICK l \in Labels \ {"idle"} : Answer(h, l, Status("DataAccessException"),
                                            "database")
  BY DEF DatabaseFails, Labels
<1>2. UNCHANGED <<redis, database, req, loaded, seen, expired>>
  BY DEF DatabaseFails
<1>3. /\ Status("DataAccessException") \in Codes
      /\ "database" \in Reasons \ {"approved", "duplicate payment"}
  BY StatusIsCode DEF Reasons
<1> QED
  BY <1>1, <1>2, <1>3, RefuseInv

\* The transaction loads its order, with the status it has now.
LEMMA FindOrderInv ==
    ASSUME IInv, NEW h \in Handlers, FindOrder(h)
    PROVE  IInv'
<1>1. TypeOK
  BY DEF IInv
<1>2. CASE req[h].order \in DOMAIN orders
  <2>1. /\ Goto(h, "find", "exists")
        /\ loaded' = [loaded EXCEPT ![h] = orders[req[h].order].status]
        /\ seen' = [seen EXCEPT ![h] = Len(payments)]
        /\ UNCHANGED <<redis, database, req, answer, expired>>
    BY <1>2 DEF FindOrder
  <2>2. orders[req[h].order].status \in {"CREATED", "PAID"}
    <3>1. orders \in Seq(OrderRows)
      BY <1>1 DEF TypeOK
    <3>2. orders[req[h].order] \in OrderRows
      BY <1>2, <3>1
    <3> QED
      BY <3>2 DEF OrderRows
  <2>3. Len(payments) \in Nat
    BY <1>1 DEF TypeOK
  <2>4. TypeOK'
    BY <1>1, <2>1, <2>2, <2>3 DEF TypeOK, Goto, Labels, database
  <2>5. /\ loaded'[h] = orders[req[h].order].status
        /\ \A g \in Handlers \ {h} : loaded'[g] = loaded[g]
    BY <1>1, <2>1 DEF TypeOK
  <2>6. OrderLoaded(h)
    BY <1>2, <2>5 DEF OrderLoaded
  <2>7. /\ "find" \in Labels \ {"idle", "respond"}
        /\ "exists" \in Labels \ {"idle", "respond", "acquire"}
    BY DEF Labels
  <2> QED
    BY <2>1, <2>4, <2>5, <2>6, <2>7, GoOnInv
<1>3. CASE req[h].order \notin DOMAIN orders
  <2>1. /\ "find" \in Labels \ {"idle"}
        /\ Status("InvalidDataAccessApiUsageException") \in Codes
        /\ Status("OrderNotFoundException") \in Codes
        /\ {"no order id", "no such order"} \subseteq
               Reasons \ {"approved", "duplicate payment"}
    BY StatusIsCode DEF Labels, Reasons
  <2>2. UNCHANGED <<redis, database, req, loaded, seen, expired>>
    BY <1>3 DEF FindOrder
  <2>3. CASE Answer(h, "find", Status("InvalidDataAccessApiUsageException"),
                    "no order id")
    BY <2>1, <2>2, <2>3, RefuseInv
  <2>4. CASE Answer(h, "find", Status("OrderNotFoundException"),
                    "no such order")
    BY <2>1, <2>2, <2>4, RefuseInv
  <2> QED
    BY <1>3, <2>3, <2>4 DEF FindOrder
<1> QED
  BY <1>2, <1>3

\* A payment with the key is seen, or the transaction goes on to its INSERT.
LEMMA ExistsInv ==
    ASSUME IInv, NEW h \in Handlers, ExistsByPaymentKey(h)
    PROVE  IInv'
<1>1. TypeOK /\ TransactionInv(h)
  BY DEF IInv
<1>2. UNCHANGED <<redis, database, req, loaded, seen, expired>>
  BY DEF ExistsByPaymentKey
<1>3. CASE \E i \in 1 .. seen[h] : payments[i].key = req[h].key
  <2>1. Answer(h, "exists", Status("DuplicatePaymentException"),
               "duplicate payment")
    BY <1>3 DEF ExistsByPaymentKey
  <2>2. 1 .. seen[h] \subseteq DOMAIN payments
    BY <1>1 DEF TypeOK
  <2>3. Justified(h, "duplicate payment")
    BY <1>3, <2>2 DEF Justified, Recorded
  <2>4. redis' \subseteq Keys
    BY <1>1, <1>2 DEF TypeOK
  <2>5. /\ "exists" \in Labels \ {"idle"}
        /\ Status("DuplicatePaymentException") \in Codes
        /\ "duplicate payment" \in Reasons \ {"approved"}
    BY StatusIsCode DEF Labels, Reasons
  <2>6. UNCHANGED <<database, req, loaded, seen, expired>>
    BY <1>2
  <2> QED
    BY <2>1, <2>3, <2>4, <2>5, <2>6, AnswerInv
<1>4. CASE ~ \E i \in 1 .. seen[h] : payments[i].key = req[h].key
  <2>1. Goto(h, "exists", "insert") /\ UNCHANGED answer
    BY <1>4 DEF ExistsByPaymentKey
  <2>2. TypeOK'
    BY <1>1, <1>2, <2>1 DEF TypeOK, Goto, Labels, database
  <2>3. OrderLoaded(h)
    BY <1>1, <1>2, <2>1 DEF TransactionInv, Goto, OrderLoaded
  <2>4. /\ "exists" \in Labels \ {"idle", "respond"}
        /\ "insert" \in Labels \ {"idle", "respond", "acquire"}
    BY DEF Labels
  <2>5. UNCHANGED <<database, req, answer>> /\ UNCHANGED loaded
    BY <1>2, <2>1
  <2> QED
    BY <2>1, <2>2, <2>3, <2>4, <2>5, GoOnInv
<1> QED
  BY <1>3, <1>4

\* The INSERT gets its key if no row has it and no other transaction holds it.
LEMMA InsertInv ==
    ASSUME IInv, NEW h \in Handlers, InsertPayment(h)
    PROVE  IInv'
<1>1. TypeOK /\ TransactionInv(h)
  BY DEF IInv
<1>2. UNCHANGED <<redis, database, req, loaded, seen, expired>>
  BY DEF InsertPayment
<1>3. CASE \/ Answer(h, "insert", Status("DataIntegrityViolationException"),
                     "no payment key")
           \/ Answer(h, "insert", Status("DataIntegrityViolationException"),
                     "unique constraint")
  <2>1. /\ "insert" \in Labels \ {"idle"}
        /\ Status("DataIntegrityViolationException") \in Codes
        /\ {"no payment key", "unique constraint"} \subseteq
               Reasons \ {"approved", "duplicate payment"}
    BY StatusIsCode DEF Labels, Reasons
  <2> QED
    BY <1>2, <1>3, <2>1, RefuseInv
<1>4. CASE /\ Goto(h, "insert", "flush") /\ UNCHANGED answer
           /\ req[h].key # Null
           /\ Inserting(h, req[h].key) = {}
           /\ ~ \E i \in DOMAIN payments : payments[i].key = req[h].key
  <2>1. TypeOK'
    BY <1>1, <1>2, <1>4 DEF TypeOK, Goto, Labels, database
  <2>2. OrderLoaded(h) /\ KeyHeld(h)
    BY <1>1, <1>2, <1>4 DEF TransactionInv, Goto, OrderLoaded, KeyHeld, Recorded
  <2>3. /\ "insert" \in Labels \ {"idle", "respond"}
        /\ "flush" \in Labels \ {"idle", "respond", "acquire"}
    BY DEF Labels
  <2>4. UNCHANGED <<database, req, answer>> /\ UNCHANGED loaded
    BY <1>2, <1>4
  <2> QED
    BY <1>4, <2>1, <2>2, <2>3, <2>4, GoOnInv
<1> QED
  BY <1>3, <1>4 DEF InsertPayment

\* The UPDATE is sent: the transaction keeps what it relies on.
LEMMA FlushInv ==
    ASSUME IInv, NEW h \in Handlers, FlushOrder(h)
    PROVE  IInv'
<1>1. TypeOK /\ TransactionInv(h)
  BY DEF IInv
<1>2. Goto(h, "flush", "commit") /\ UNCHANGED <<redis, database, locals, expired>>
  BY DEF FlushOrder
<1>3. TypeOK'
  BY <1>1, <1>2 DEF TypeOK, Goto, Labels, database, locals
<1>4. UNCHANGED <<database, req, answer>> /\ UNCHANGED loaded
  BY <1>2 DEF locals
<1>5. OrderLoaded(h) /\ KeyHeld(h)
  BY <1>1, <1>2, <1>4 DEF TransactionInv, Goto, OrderLoaded, KeyHeld, Recorded
<1>6. /\ "flush" \in Labels \ {"idle", "respond"}
      /\ "commit" \in Labels \ {"idle", "respond", "acquire"}
  BY DEF Labels
<1> QED
  BY <1>2, <1>3, <1>4, <1>5, <1>6, GoOnInv
-----------------------------------------------------------------------------
(* The accesses that change the database.                                  *)

\* A row is added to a table.
LEMMA Appended ==
    ASSUME NEW S, NEW s \in Seq(S), NEW x \in S, NEW t, t = Append(s, x)
    PROVE  /\ t \in Seq(S) /\ Len(t) = Len(s) + 1 /\ Len(s) \in Nat
           /\ DOMAIN s = 1 .. Len(s) /\ DOMAIN t = 1 .. Len(s) + 1
           /\ t[Len(s) + 1] = x
           /\ \A i \in DOMAIN s : t[i] = s[i]
  OBVIOUS

\* A row of a table is replaced.
LEMMA Updated ==
    ASSUME NEW S, NEW s \in Seq(S), NEW i \in DOMAIN s, NEW x \in S, NEW t,
           t = [s EXCEPT ![i] = x]
    PROVE  /\ t \in Seq(S) /\ DOMAIN t = DOMAIN s /\ t[i] = x
           /\ \A j \in DOMAIN s \ {i} : t[j] = s[j]
  OBVIOUS

\* The order is there, whether or not the client hears of it: it is not paid,
\* and nothing refers to it.
LEMMA SaveInv ==
    ASSUME IInv, NEW h \in Handlers, NEW c \in Codes, NEW w \in {"created", "database"},
           Answer(h, "save", c, w),
           orders' = Append(orders, [rid |-> req[h].rid, status |-> "CREATED"]),
           UNCHANGED <<redis, payments, req, loaded, seen, expired>>
    PROVE  IInv'
<1>1. TypeOK /\ \A g \in Handlers : TransactionInv(g)
  BY DEF IInv
<1>2. /\ pc[h] = "save" /\ pc' = [pc EXCEPT ![h] = "respond"]
      /\ answer' = [answer EXCEPT ![h] = [code |-> c, why |-> w]]
  BY DEF Answer, Goto
<1>3. /\ pc'[h] = "respond" /\ answer'[h].why = w
      /\ \A g \in Handlers \ {h} : pc'[g] = pc[g] /\ answer'[g] = answer[g]
  BY <1>1, <1>2 DEF TypeOK
<1>4. /\ orders' \in Seq(OrderRows)
      /\ DOMAIN orders = 1 .. Len(orders) /\ Len(orders) \in Nat
      /\ DOMAIN orders' = 1 .. Len(orders) + 1
      /\ \A o \in DOMAIN orders : orders'[o] = orders[o]
      /\ orders'[Len(orders) + 1].status = "CREATED"
  <2>1. [rid |-> req[h].rid, status |-> "CREATED"] \in OrderRows
    BY <1>1, <1>2, Fields DEF TransactionInv, OrderRows
  <2>2. orders \in Seq(OrderRows)
    BY <1>1 DEF TypeOK
  <2> QED
    BY <2>1, <2>2, Appended
<1>5. \A i \in DOMAIN payments : payments[i].order \in DOMAIN orders
  BY <1>1 DEF TypeOK
<1>6. TypeOK'
  <2>1. [code |-> c, why |-> w] \in [code : {0, 200, 404, 409, 500}, why : Reasons]
    BY DEF Codes, Reasons
  <2> QED
    BY <1>1, <1>2, <1>4, <2>1 DEF TypeOK, Labels
<1>7. ASSUME NEW g \in Handlers
      PROVE  TransactionInv(g)'
  <2>1. TransactionInv(g)
    BY <1>1
  <2>2. Inserting(g, req[g].key)' \subseteq Inserting(g, req[g].key)
    BY <1>3 DEF Inserting
  <2>3. CASE g = h
    BY <1>1, <1>2, <1>3, <2>1, <2>3 DEF TransactionInv
  <2>4. CASE g # h
    BY <1>3, <1>4, <2>1, <2>2, <2>4 DEF TransactionInv
  <2> QED
    BY <2>3, <2>4
<1>8. PaidIffPayment'
  <2>1. PaidIffPayment
    BY DEF IInv
  <2> QED
    BY <1>4, <1>5, <2>1 DEF PaidIffPayment
<1>9. PaymentKeyUsedOnce'
  BY DEF IInv, PaymentKeyUsedOnce
<1>10. DuplicatePaymentIsReal'
  BY <1>3 DEF IInv, DuplicatePaymentIsReal
<1>11. SuccessIsDurable'
  <2>1. SuccessIsDurable
    BY DEF IInv
  <2> QED
    BY <1>3, <1>4, <1>5, <2>1 DEF SuccessIsDurable
<1> QED
  BY <1>6, <1>7, <1>8, <1>9, <1>10, <1>11 DEF IInv

\* What a commit does to the tables: the payment is the last, its order is paid.
LEMMA CommittedFacts ==
    ASSUME TypeOK, NEW h \in Handlers, TransactionInv(h), pc[h] = "commit", Committed(h)
    PROVE  /\ payments' \in Seq(PaymentRows)
           /\ Len(payments) \in Nat /\ Len(payments') = Len(payments) + 1
           /\ DOMAIN payments = 1 .. Len(payments)
           /\ DOMAIN payments' = 1 .. Len(payments) + 1
           /\ \A i \in DOMAIN payments : payments'[i] = payments[i]
           /\ payments'[Len(payments) + 1] =
                  [rid |-> req[h].rid, order |-> req[h].order, key |-> req[h].key]
           /\ orders' \in Seq(OrderRows)
           /\ DOMAIN orders' = DOMAIN orders
           /\ req[h].order \in DOMAIN orders
           /\ orders'[req[h].order].status = "PAID"
           /\ \A o \in DOMAIN orders \ {req[h].order} : orders'[o] = orders[o]
<1>1. /\ req[h] \in Requests /\ req[h].key # Null
      /\ req[h].order \in DOMAIN orders
      /\ loaded[h] = "PAID" => orders[req[h].order].status = "PAID"
  BY DEF TransactionInv
<1>2. orders \in Seq(OrderRows) /\ payments \in Seq(PaymentRows)
  BY DEF TypeOK
<1>3. [rid |-> req[h].rid, order |-> req[h].order, key |-> req[h].key] \in PaymentRows
  <2>1. req[h].order \in Nat
    BY <1>1, <1>2
  <2> QED
    BY <1>1, <2>1, Fields DEF PaymentRows
<1>4. /\ payments' \in Seq(PaymentRows)
      /\ Len(payments) \in Nat /\ Len(payments') = Len(payments) + 1
      /\ DOMAIN payments = 1 .. Len(payments)
      /\ DOMAIN payments' = 1 .. Len(payments) + 1
      /\ \A i \in DOMAIN payments : payments'[i] = payments[i]
      /\ payments'[Len(payments) + 1] =
             [rid |-> req[h].rid, order |-> req[h].order, key |-> req[h].key]
  BY <1>2, <1>3, Appended DEF Committed
<1>5. /\ orders' \in Seq(OrderRows)
      /\ DOMAIN orders' = DOMAIN orders
      /\ orders'[req[h].order].status = "PAID"
      /\ \A o \in DOMAIN orders \ {req[h].order} : orders'[o] = orders[o]
  <2>1. CASE loaded[h] = "PAID"
    BY <1>1, <1>2, <2>1 DEF Committed
  <2>2. CASE loaded[h] # "PAID"
    <3> DEFINE row == [orders[req[h].order] EXCEPT !.status = "PAID"]
    <3>1. orders[req[h].order] \in OrderRows
      BY <1>1, <1>2
    <3>2. row \in OrderRows /\ row.status = "PAID"
      BY <3>1 DEF OrderRows
    <3>3. orders' = [orders EXCEPT ![req[h].order] = row]
      BY <2>2 DEF Committed
    <3> HIDE DEF row
    <3>4. /\ orders' \in Seq(OrderRows) /\ DOMAIN orders' = DOMAIN orders
          /\ orders'[req[h].order] = row
          /\ \A o \in DOMAIN orders \ {req[h].order} : orders'[o] = orders[o]
      BY <1>1, <1>2, <3>2, <3>3, Updated
    <3> QED
      BY <3>2, <3>4
  <2> QED
    BY <2>1, <2>2
<1> QED
  BY <1>1, <1>4, <1>5

\* The commit takes effect, whether or not the client hears of it.
LEMMA CommitInv ==
    ASSUME IInv, NEW h \in Handlers, NEW c \in Codes, NEW w \in {"approved", "database"},
           Answer(h, "commit", c, w), Committed(h),
           UNCHANGED <<redis, req, loaded, seen, expired>>
    PROVE  IInv'
<1>1. TypeOK /\ \A g \in Handlers : TransactionInv(g)
  BY DEF IInv
<1>2. /\ pc[h] = "commit" /\ pc' = [pc EXCEPT ![h] = "respond"]
      /\ answer' = [answer EXCEPT ![h] = [code |-> c, why |-> w]]
  BY DEF Answer, Goto
<1>3. /\ pc'[h] = "respond" /\ answer'[h].why = w
      /\ \A g \in Handlers \ {h} : pc'[g] = pc[g] /\ answer'[g] = answer[g]
  BY <1>1, <1>2 DEF TypeOK
<1>4. /\ payments' \in Seq(PaymentRows)
      /\ Len(payments) \in Nat /\ Len(payments') = Len(payments) + 1
      /\ DOMAIN payments = 1 .. Len(payments)
      /\ DOMAIN payments' = 1 .. Len(payments) + 1
      /\ \A i \in DOMAIN payments : payments'[i] = payments[i]
      /\ payments'[Len(payments) + 1] =
             [rid |-> req[h].rid, order |-> req[h].order, key |-> req[h].key]
  BY <1>1, <1>2, CommittedFacts
<1>5. /\ orders' \in Seq(OrderRows)
      /\ DOMAIN orders' = DOMAIN orders
      /\ req[h].order \in DOMAIN orders
      /\ orders'[req[h].order].status = "PAID"
      /\ \A o \in DOMAIN orders \ {req[h].order} : orders'[o] = orders[o]
  BY <1>1, <1>2, CommittedFacts
<1>6. UNCHANGED <<redis, req, loaded, seen, expired>>
  OBVIOUS
<1>7. \A i \in DOMAIN payments : payments[i].order \in DOMAIN orders
  BY <1>1 DEF TypeOK
<1>8. TypeOK'
  <2>1. [code |-> c, why |-> w] \in [code : {0, 200, 404, 409, 500}, why : Reasons]
    BY DEF Codes, Reasons
  <2>2. \A i \in DOMAIN payments' : payments'[i].order \in DOMAIN orders'
    BY <1>4, <1>5, <1>7
  <2>3. 0 .. Len(payments) \subseteq 0 .. Len(payments')
    BY <1>4
  <2>4. seen' \in [Handlers -> 0 .. Len(payments')]
    BY <1>1, <1>6, <2>3 DEF TypeOK
  <2>5. /\ pc' \in [Handlers -> Labels]
        /\ answer' \in [Handlers -> [code : {0, 200, 404, 409, 500}, why : Reasons]]
    BY <1>1, <1>2, <2>1 DEF TypeOK, Labels
  <2> QED
    BY <1>1, <1>4, <1>5, <1>6, <2>2, <2>4, <2>5 DEF TypeOK
<1>9. ASSUME NEW g \in Handlers
      PROVE  TransactionInv(g)'
  <2>1. TransactionInv(g)
    BY <1>1
  <2>2. CASE g = h
    BY <1>1, <1>2, <1>3, <1>6, <2>1, <2>2 DEF TransactionInv
  <2>3. CASE g # h
    <3>1. pc'[g] = pc[g] /\ answer'[g] = answer[g]
          /\ req'[g] = req[g] /\ loaded'[g] = loaded[g]
      BY <1>3, <1>6, <2>3
    <3>2. Inserting(g, req[g].key)' \subseteq Inserting(g, req[g].key)
      BY <1>3, <1>6 DEF Inserting
    <3>3. ASSUME pc[g] \in {"flush", "commit"}
          PROVE  \A i \in DOMAIN payments' : payments'[i].key # req[g].key
      <4>1. \A i \in DOMAIN payments : payments[i].key # req[g].key
        BY <2>1, <3>3 DEF TransactionInv
      <4>2. req[h].key # req[g].key
        BY <1>2, <2>1, <2>3, <3>3 DEF TransactionInv, Inserting
      <4>3. payments'[Len(payments) + 1].key # req[g].key
        BY <1>4, <4>2
      <4> QED
        BY <1>4, <4>1, <4>3
    <3>4. ASSUME req[g].order \in DOMAIN orders,
                 loaded[g] = "PAID" => orders[req[g].order].status = "PAID"
          PROVE  /\ req[g].order \in DOMAIN orders'
                 /\ loaded[g] = "PAID" => orders'[req[g].order].status = "PAID"
      BY <1>5, <3>4
    <3> QED
      BY <2>1, <3>1, <3>2, <3>3, <3>4 DEF TransactionInv
  <2> QED
    BY <2>2, <2>3
<1>10. PaidIffPayment'
  <2>1. ASSUME NEW o \in DOMAIN orders
        PROVE  orders'[o].status = "PAID" <=>
                   \E i \in DOMAIN payments' : payments'[i].order = o
    <3>1. CASE o = req[h].order
      <4>1. payments'[Len(payments) + 1].order = o
        BY <1>4, <3>1
      <4> QED
        BY <1>4, <1>5, <3>1, <4>1
    <3>2. CASE o # req[h].order
      <4>1. orders[o].status = "PAID" <=>
                \E i \in DOMAIN payments : payments[i].order = o
        BY DEF IInv, PaidIffPayment
      <4>2. payments'[Len(payments) + 1].order # o
        BY <1>4, <3>2
      <4> QED
        BY <1>4, <1>5, <3>2, <4>1, <4>2
    <3> QED
      BY <3>1, <3>2
  <2> QED
    BY <1>5, <2>1 DEF PaidIffPayment
<1>11. PaymentKeyUsedOnce'
  <2>1. \A i \in DOMAIN payments : payments[i].key # req[h].key
    BY <1>1, <1>2 DEF TransactionInv
  <2>2. payments'[Len(payments) + 1].key = req[h].key
    BY <1>4
  <2>3. PaymentKeyUsedOnce
    BY DEF IInv
  <2> QED
    BY <1>4, <2>1, <2>2, <2>3 DEF PaymentKeyUsedOnce
<1>12. DuplicatePaymentIsReal'
  <2>1. DuplicatePaymentIsReal
    BY DEF IInv
  <2>2. ASSUME NEW g \in Handlers, answer'[g].why = "duplicate payment"
        PROVE  \E i \in DOMAIN payments' : payments'[i].key = req[g].key
    <3>1. answer[g].why = "duplicate payment"
      BY <1>3, <2>2
    <3>2. PICK i \in DOMAIN payments : payments[i].key = req[g].key
      BY <2>1, <3>1 DEF DuplicatePaymentIsReal
    <3>3. i \in DOMAIN payments' /\ payments'[i] = payments[i]
      BY <1>4, <3>2
    <3> QED
      BY <3>2, <3>3
  <2> QED
    BY <1>6, <2>2 DEF DuplicatePaymentIsReal
<1>13. SuccessIsDurable'
  <2>1. SuccessIsDurable
    BY DEF IInv
  <2>2. ASSUME NEW g \in Handlers, answer'[g].why = "approved"
        PROVE  /\ orders'[req[g].order].status = "PAID"
               /\ \E i \in DOMAIN payments' :
                      /\ payments'[i].rid = req[g].rid
                      /\ payments'[i].order = req[g].order
                      /\ payments'[i].key = req[g].key
    <3>1. CASE g = h
      <4>1. Len(payments) + 1 \in DOMAIN payments'
        BY <1>4
      <4> QED
        BY <1>4, <1>5, <3>1, <4>1
    <3>2. CASE g # h
      <4>1. answer[g].why = "approved"
        BY <1>3, <2>2, <3>2
      <4>2. orders[req[g].order].status = "PAID"
        BY <2>1, <4>1 DEF SuccessIsDurable
      <4>3. PICK i \in DOMAIN payments :
                /\ payments[i].rid = req[g].rid
                /\ payments[i].order = req[g].order
                /\ payments[i].key = req[g].key
        BY <2>1, <4>1 DEF SuccessIsDurable
      <4>4. i \in DOMAIN payments' /\ payments'[i] = payments[i]
        BY <1>4, <4>3
      <4>5. req[g].order \in DOMAIN orders
        BY <1>7, <4>3
      <4>6. orders'[req[g].order].status = "PAID"
        BY <1>5, <4>2, <4>5
      <4> QED
        BY <4>3, <4>4, <4>6
    <3> QED
      BY <3>1, <3>2
  <2> QED
    BY <1>6, <2>2 DEF SuccessIsDurable
<1> QED
  BY <1>8, <1>9, <1>10, <1>11, <1>12, <1>13 DEF IInv

-----------------------------------------------------------------------------
\* Every step of the server, of Redis and of the database keeps the invariant.
LEMMA StepInv == IInv /\ [Next]_vars => IInv'
<1> SUFFICES ASSUME IInv, [Next]_vars
             PROVE  IInv'
  OBVIOUS
<1>1. ASSUME NEW h \in Handlers, Receive(h) PROVE IInv'
  BY <1>1, ReceiveInv
<1>2. ASSUME NEW h \in Handlers, Acquire(h) \/ AcquireFails(h) PROVE IInv'
  BY <1>2, AcquireInv
<1>3. ASSUME NEW h \in Handlers, SaveOrder(h) PROVE IInv'
  <2>1. /\ Answer(h, "save", 200, "created")
        /\ orders' = Append(orders, [rid |-> req[h].rid, status |-> "CREATED"])
        /\ UNCHANGED <<redis, payments, req, loaded, seen, expired>>
    BY <1>3 DEF SaveOrder
  <2>2. 200 \in Codes
    BY DEF Codes
  <2> QED
    BY <2>1, <2>2, SaveInv
<1>4. ASSUME NEW h \in Handlers, GetOrder(h) PROVE IInv'
  BY <1>4, GetOrderInv
<1>5. ASSUME NEW h \in Handlers, FindOrder(h) PROVE IInv'
  BY <1>5, FindOrderInv
<1>6. ASSUME NEW h \in Handlers, ExistsByPaymentKey(h) PROVE IInv'
  BY <1>6, ExistsInv
<1>7. ASSUME NEW h \in Handlers, InsertPayment(h) PROVE IInv'
  BY <1>7, InsertInv
<1>8. ASSUME NEW h \in Handlers, FlushOrder(h) PROVE IInv'
  BY <1>8, FlushInv
<1>9. ASSUME NEW h \in Handlers, Commit(h) PROVE IInv'
  <2>1. /\ Answer(h, "commit", 200, "approved") /\ Committed(h)
        /\ UNCHANGED <<redis, req, loaded, seen, expired>>
    BY <1>9 DEF Commit
  <2>2. 200 \in Codes
    BY DEF Codes
  <2> QED
    BY <2>1, <2>2, CommitInv
<1>10. ASSUME NEW h \in Handlers, Respond(h) PROVE IInv'
  BY <1>10, RespondInv
<1>11. ASSUME NEW h \in Handlers, DatabaseFails(h) PROVE IInv'
  BY <1>11, DatabaseFailsInv
<1>12. ASSUME NEW h \in Handlers, CommitUnheard(h) PROVE IInv'
  <2>1. Status("DataAccessException") \in Codes
    BY StatusIsCode
  <2>2. UNCHANGED <<redis, req, loaded, seen, expired>>
    BY <1>12 DEF CommitUnheard
  <2>3. CASE Answer(h, "commit", Status("DataAccessException"),
                    "database") /\ Committed(h)
    BY <2>1, <2>2, <2>3, CommitInv
  <2>4. CASE /\ Answer(h, "save", Status("DataAccessException"), "database")
             /\ orders' = Append(orders, [rid |-> req[h].rid, status |-> "CREATED"])
             /\ UNCHANGED payments
    <3>1. UNCHANGED <<redis, payments, req, loaded, seen, expired>>
      BY <2>2, <2>4
    <3> QED
      BY <2>1, <2>4, <3>1, SaveInv
  <2> QED
    BY <1>12, <2>3, <2>4 DEF CommitUnheard
<1>13. ASSUME NEW k \in Keys, Expire(k) PROVE IInv'
  BY <1>13, ExpireInv
<1>14. ASSUME Crash PROVE IInv'
  BY <1>14, CrashInv
<1>15. CASE UNCHANGED vars
  <2>1. UNCHANGED <<redis, orders, payments, pc, req, loaded, seen, answer, expired>>
    BY <1>15 DEF vars
  <2>2. TypeOK'
    BY <2>1 DEF IInv, TypeOK
  <2>3. (\A h \in Handlers : TransactionInv(h))'
    BY <2>1 DEF IInv, TransactionInv, Inserting
  <2>4. PaidIffPayment' /\ PaymentKeyUsedOnce'
    BY <2>1 DEF IInv, PaidIffPayment, PaymentKeyUsedOnce
  <2>5. DuplicatePaymentIsReal' /\ SuccessIsDurable'
    BY <2>1 DEF IInv, DuplicatePaymentIsReal, SuccessIsDurable
  <2> QED
    BY <2>2, <2>3, <2>4, <2>5 DEF IInv
<1> QED
  BY <1>1, <1>2, <1>3, <1>4, <1>5, <1>6, <1>7, <1>8, <1>9, <1>10, <1>11, <1>12,
     <1>13, <1>14, <1>15 DEF Next, Step, Failure

\* In every reachable state the tables are consistent, open transactions have
\* what they rely on, and answers are true.
THEOREM Invariance == Spec => []IInv
  BY InitInv, StepInv, PTL DEF Spec

\* A payment belongs to an order that exists and has a key; no snapshot is
\* ahead of the tables.
THEOREM TypeCorrect == Spec => []TypeOK
<1>1. IInv => TypeOK
  BY DEF IInv
<1> QED
  BY <1>1, Invariance, PTL

\* An order is PAID exactly if a payment for it is committed, whatever fails.
THEOREM PaidMeansPaid == Spec => []PaidIffPayment
<1>1. IInv => PaidIffPayment
  BY DEF IInv
<1> QED
  BY <1>1, Invariance, PTL

\* Concurrent approvals never commit two payments with one payment key.
THEOREM KeysAreUnique == Spec => []PaymentKeyUsedOnce
<1>1. IInv => PaymentKeyUsedOnce
  BY DEF IInv
<1> QED
  BY <1>1, Invariance, PTL

\* "duplicate payment" is only answered once a payment with the key is there.
THEOREM RefusalsAreTrue == Spec => []DuplicatePaymentIsReal
<1>1. IInv => DuplicatePaymentIsReal
  BY DEF IInv
<1> QED
  BY <1>1, Invariance, PTL

\* "approved" is only answered once the payment and the order are committed.
THEOREM ApprovalsAreTrue == Spec => []SuccessIsDurable
<1>1. IInv => SuccessIsDurable
  BY DEF IInv
<1> QED
  BY <1>1, Invariance, PTL

-----------------------------------------------------------------------------
(* PlaceFlow implements PaymentLedger.                                     *)

\* Saving an order is a step of the ledger.
LEMMA SaveRefines ==
    ASSUME IInv, NEW h \in Handlers, pc[h] = "save",
           orders' = Append(orders, [rid |-> req[h].rid, status |-> "CREATED"]),
           UNCHANGED payments
    PROVE  Ledger!Next
<1>1. req[h].rid \in RequestIds
  BY Fields DEF IInv, TransactionInv
<1>2. Ledger!CreateOrder(req[h].rid)
  BY DEF Ledger!CreateOrder
<1> QED
  BY <1>1, <1>2 DEF Ledger!Next

\* A commit is the indivisible step: what the transaction checked is true now,
\* and an order that needs no update is paid already.
LEMMA CommitRefines ==
    ASSUME IInv, NEW h \in Handlers, pc[h] = "commit", Committed(h)
    PROVE  Ledger!Next
<1>1. /\ req[h] \in Requests /\ req[h].key # Null
      /\ req[h].order \in DOMAIN orders
      /\ loaded[h] = "PAID" => orders[req[h].order].status = "PAID"
      /\ \A i \in DOMAIN payments : payments[i].key # req[h].key
  BY DEF IInv, TransactionInv
<1>2. orders \in Seq(OrderRows) /\ payments \in Seq(PaymentRows)
  BY DEF IInv, TypeOK
<1>3. req[h].rid \in RequestIds /\ req[h].key \in PaymentKeys
  BY <1>1, Fields
<1>4. orders' = [orders EXCEPT ![req[h].order].status = "PAID"]
  <2>1. CASE loaded[h] = "PAID"
    <3>1. orders' = orders
      BY <2>1 DEF Committed
    <3>2. orders[req[h].order] \in OrderRows /\ orders[req[h].order].status = "PAID"
      BY <1>1, <1>2, <2>1
    <3>3. [orders[req[h].order] EXCEPT !.status = "PAID"] = orders[req[h].order]
      BY <3>2 DEF OrderRows
    <3> QED
      BY <1>1, <1>2, <3>1, <3>3
  <2>2. CASE loaded[h] # "PAID"
    BY <2>2 DEF Committed
  <2> QED
    BY <2>1, <2>2
<1>5. payments' = Append(payments, [rid |-> req[h].rid, order |-> req[h].order,
                                    key |-> req[h].key])
  BY DEF Committed
<1>6. req[h].order \in 1 .. Len(orders) /\ DOMAIN payments = 1 .. Len(payments)
  BY <1>1, <1>2
<1>7. Ledger!Approve(req[h].rid, req[h].order, req[h].key)
  BY <1>1, <1>4, <1>5, <1>6 DEF Ledger!Approve
<1> QED
  BY <1>3, <1>6, <1>7 DEF Ledger!Next

\* Every step is a step of the ledger or leaves the tables alone.
LEMMA StepRefines == IInv /\ [Next]_vars => [Ledger!Next]_(Ledger!ledger)
<1> SUFFICES ASSUME IInv, [Next]_vars
             PROVE  UNCHANGED database \/ Ledger!Next
  BY DEF Ledger!ledger, database
<1>1. ASSUME NEW h \in Handlers, SaveOrder(h)
      PROVE  Ledger!Next
  BY <1>1, SaveRefines DEF SaveOrder, Answer, Goto
<1>2. ASSUME NEW h \in Handlers, Commit(h)
      PROVE  Ledger!Next
  BY <1>2, CommitRefines DEF Commit, Answer, Goto
<1>3. ASSUME NEW h \in Handlers, CommitUnheard(h)
      PROVE  Ledger!Next
  BY <1>3, CommitRefines, SaveRefines DEF CommitUnheard, Answer, Goto
<1>4. ASSUME NEW h \in Handlers, Receive(h) \/ AcquireFails(h) \/ DatabaseFails(h)
      PROVE  UNCHANGED database
  BY <1>4 DEF Receive, AcquireFails, DatabaseFails
<1>5. ASSUME NEW h \in Handlers,
             \/ Acquire(h) \/ GetOrder(h) \/ FindOrder(h) \/ ExistsByPaymentKey(h)
             \/ InsertPayment(h) \/ FlushOrder(h) \/ Respond(h)
      PROVE  UNCHANGED database
  BY <1>5 DEF Acquire, GetOrder, FindOrder, ExistsByPaymentKey, InsertPayment, FlushOrder,
              Respond
<1>6. ASSUME (\E k \in Keys : Expire(k)) \/ Crash \/ UNCHANGED vars
      PROVE  UNCHANGED database
  BY <1>6 DEF Expire, Crash, vars, database
<1> QED
  BY <1>1, <1>2, <1>3, <1>4, <1>5, <1>6 DEF Next, Step, Failure

\* Interleaved, failing and crashing transactions leave the tables as if every
\* order and every approval had been made at once, one at a time.
THEOREM Refinement == Spec => Serializable
<1>1. Init => Ledger!Init
  BY DEF Init, Ledger!Init
<1> QED
  BY <1>1, Invariance, StepRefines, PTL DEF Spec, Serializable, Ledger!Spec
=============================================================================
