----------------------------- MODULE PlaceFlow -----------------------------
(***************************************************************************)
(* PlaceFlow (place-flow/demo): the order and payment backend.  Requests   *)
(* run concurrently in handler threads that share Redis, which remembers   *)
(* the request ids of the last five minutes, and a MySQL database.         *)
(*                                                                         *)
(* Between any two accesses of a request to Redis or to the database the   *)
(* others take steps, an access may fail, an idempotency key may expire    *)
(* and the server may crash and restart.                                   *)
(*                                                                         *)
(* The database is InnoDB at its default isolation level, REPEATABLE READ: *)
(* the consistent reads of a transaction see what was committed when its   *)
(* first one ran, while an INSERT is checked against the rows as they are  *)
(* now and waits for an uncommitted row with the same unique key.          *)
(***************************************************************************)
EXTENDS Naturals, Sequences, FiniteSets

CONSTANTS
    Handlers,    \* threads that serve requests
    Requests,    \* what clients may send, as often as they like
    Null,        \* a field the client left out
    MaxExpiries  \* bound: idempotency key -> how often it expires

Kinds == {"create", "approve", "get"}

ASSUME RequestsAssumption ==
    \A q \in Requests :
        /\ DOMAIN q = {"kind", "rid", "order", "key"}
        /\ q.kind \in Kinds
        /\ q.order \in (Nat \ {0}) \cup {Null}

VARIABLES
    redis,    \* the idempotency keys that are set
    orders,   \* committed rows of table orders, by id
    payments, \* committed rows of table payments, by id
    pc,       \* handler -> the next access of the request it serves
    req,      \* handler -> that request
    loaded,   \* handler -> status of the order its transaction has loaded
    seen,     \* handler -> how many payments its transaction's reads see
    answer,   \* handler -> the response it is about to send, and its reason
    expired   \* key -> how often it has expired (history)

vars == <<redis, orders, payments, pc, req, loaded, seen, answer, expired>>
database == <<orders, payments>>
locals == <<req, loaded, seen, answer>>

Labels == {"idle", "acquire", "save", "get", "find", "exists", "insert",
           "flush", "commit", "respond"}

Reasons == {"none", "created", "found", "approved", "duplicate request",
            "duplicate payment", "no order id", "no such order", "no payment key",
            "unique constraint", "redis", "database"}

NoRequest == [kind |-> "none", rid |-> Null, order |-> Null, key |-> Null]
NoAnswer == [code |-> 0, why |-> "none"]

\* "placeflow:idempotency:" + requestId, and for a payment
\* "placeflow:idempotency:payment:" + requestId.
Key(q) == <<q.kind, q.rid>>

Keys == {Key(q) : q \in {r \in Requests : r.kind # "get"}}

ASSUME MaxExpiriesAssumption == MaxExpiries \in [Keys -> Nat]

Init ==
    /\ redis = {}
    /\ orders = <<>>
    /\ payments = <<>>
    /\ pc = [h \in Handlers |-> "idle"]
    /\ req = [h \in Handlers |-> NoRequest]
    /\ loaded = [h \in Handlers |-> "none"]
    /\ seen = [h \in Handlers |-> 0]
    /\ answer = [h \in Handlers |-> NoAnswer]
    /\ expired = [k \in Keys |-> 0]

-----------------------------------------------------------------------------
Goto(h, from, to) ==
    /\ pc[h] = from
    /\ pc' = [pc EXCEPT ![h] = to]

\* The request is over but for its response; its transaction, if any, has ended.
Answer(h, from, c, w) ==
    /\ Goto(h, from, "respond")
    /\ answer' = [answer EXCEPT ![h] = [code |-> c, why |-> w]]

\* What GlobalExceptionHandler makes of an exception: it takes three kinds, any
\* other is an error of the server.
Status(e) ==
    CASE e = "DuplicateRequestException" -> 409
      [] e = "OrderNotFoundException" -> 404
      [] e = "DuplicatePaymentException" -> 409
      [] OTHER -> 500

Receive(h) ==
    \E q \in Requests :
        /\ Goto(h, "idle", IF q.kind = "get" THEN "get" ELSE "acquire")
        /\ req' = [req EXCEPT ![h] = q]
        /\ UNCHANGED <<redis, database, loaded, seen, answer, expired>>

\* The response leaves, to reach the client or not.
Respond(h) ==
    /\ Goto(h, "respond", "idle")
    /\ req' = [req EXCEPT ![h] = NoRequest]
    /\ loaded' = [loaded EXCEPT ![h] = "none"]
    /\ seen' = [seen EXCEPT ![h] = 0]
    /\ answer' = [answer EXCEPT ![h] = NoAnswer]
    /\ UNCHANGED <<redis, database, expired>>

-----------------------------------------------------------------------------
(* IdempotencyService.                                                     *)

\* mutant: the key is set whether or not it was set before
AcquireAlways(h) ==
    /\ Goto(h, "acquire", IF req[h].kind = "create" THEN "save" ELSE "find")
    /\ redis' = redis \cup {Key(req[h])}
    /\ UNCHANGED <<database, locals, expired>>

\* tryAcquire: SET key NX EX 300.  Whoever finds the key set is a duplicate.
Acquire(h) ==
    /\ IF Key(req[h]) \in redis
       THEN /\ Answer(h, "acquire", Status("DuplicateRequestException"),
                      "duplicate request")
            /\ UNCHANGED redis
       ELSE /\ Goto(h, "acquire", IF req[h].kind = "create" THEN "save" ELSE "find")
            /\ redis' = redis \cup {Key(req[h])}
            /\ UNCHANGED answer
    /\ UNCHANGED <<database, req, loaded, seen, expired>>

\* Redis cannot be reached or does not answer in time; the key may be set.
AcquireFails(h) ==
    /\ Answer(h, "acquire", Status("RedisConnectionFailureException"), "redis")
    /\ redis' \in {redis, redis \cup {Key(req[h])}}
    /\ UNCHANGED <<database, req, loaded, seen, expired>>

\* mutant: the key is set without a time to live
ExpireNever(k) == FALSE /\ k \in redis /\ UNCHANGED vars

\* Five minutes after it was set, whatever became of the request.
Expire(k) ==
    /\ k \in redis
    /\ expired[k] < MaxExpiries[k]
    /\ redis' = redis \ {k}
    /\ expired' = [expired EXCEPT ![k] = @ + 1]
    /\ UNCHANGED <<database, pc, locals>>

-----------------------------------------------------------------------------
(* OrderService.                                                           *)

\* repository.save, a transaction of its own.
SaveOrder(h) ==
    /\ Answer(h, "save", 200, "created")
    /\ orders' = Append(orders, [rid |-> req[h].rid, status |-> "CREATED"])
    /\ UNCHANGED <<redis, payments, req, loaded, seen, expired>>

\* orElseThrow names no exception of its own.
GetOrder(h) ==
    /\ IF req[h].order \in DOMAIN orders
       THEN Answer(h, "get", 200, "found")
       ELSE Answer(h, "get", Status("NoSuchElementException"), "no such order")
    /\ UNCHANGED <<redis, database, req, loaded, seen, expired>>

-----------------------------------------------------------------------------
(* PaymentService.approve, one transaction.                                *)

\* mutant: an order that is not there goes unnoticed
FindOrderUnchecked(h) ==
    /\ Goto(h, "find", "exists")
    /\ loaded' = [loaded EXCEPT ![h] = "CREATED"]
    /\ seen' = [seen EXCEPT ![h] = Len(payments)]
    /\ UNCHANGED <<redis, database, req, answer, expired>>

\* customerOrderRepository.findById: the transaction's first read.
FindOrder(h) ==
    /\ IF req[h].order \in DOMAIN orders
       THEN /\ Goto(h, "find", "exists")
            /\ loaded' = [loaded EXCEPT ![h] = orders[req[h].order].status]
            /\ seen' = [seen EXCEPT ![h] = Len(payments)]
            /\ UNCHANGED answer
       ELSE /\ IF req[h].order = Null
               THEN Answer(h, "find", Status("InvalidDataAccessApiUsageException"),
                           "no order id")
               ELSE Answer(h, "find", Status("OrderNotFoundException"),
                           "no such order")
            /\ UNCHANGED <<loaded, seen>>
    /\ UNCHANGED <<redis, database, req, expired>>

\* Transactions other than h's that have inserted a payment with key k.
Inserting(h, k) ==
    {g \in Handlers \ {h} : pc[g] \in {"flush", "commit"} /\ req[g].key = k}

\* mutant: the read sees the rows of transactions that may still roll back
ExistsUncommitted(h) ==
    /\ IF \/ \E i \in 1 .. Len(payments) : payments[i].key = req[h].key
          \/ Inserting(h, req[h].key) # {}
       THEN Answer(h, "exists", Status("DuplicatePaymentException"),
                   "duplicate payment")
       ELSE Goto(h, "exists", "insert") /\ UNCHANGED answer
    /\ UNCHANGED <<redis, database, req, loaded, seen, expired>>

\* existsByPaymentKey, on the same snapshot.
ExistsByPaymentKey(h) ==
    /\ IF \E i \in 1 .. seen[h] : payments[i].key = req[h].key
       THEN Answer(h, "exists", Status("DuplicatePaymentException"),
                   "duplicate payment")
       ELSE Goto(h, "exists", "insert") /\ UNCHANGED answer
    /\ UNCHANGED <<redis, database, req, loaded, seen, expired>>

\* mutant: payment_key has no unique constraint
InsertUnconstrained(h) ==
    /\ IF req[h].key = Null
       THEN Answer(h, "insert", Status("DataIntegrityViolationException"),
                   "no payment key")
       ELSE Goto(h, "insert", "flush") /\ UNCHANGED answer
    /\ UNCHANGED <<redis, database, req, loaded, seen, expired>>

\* mutant: on a violation of the constraint the check is made again, in the
\* same transaction
InsertRetries(h) ==
    /\ req[h].key = Null \/ Inserting(h, req[h].key) = {}
    /\ IF req[h].key = Null
       THEN Answer(h, "insert", Status("DataIntegrityViolationException"),
                   "no payment key")
       ELSE /\ Goto(h, "insert",
                    IF \E i \in DOMAIN payments : payments[i].key = req[h].key
                    THEN "exists" ELSE "flush")
            /\ UNCHANGED answer
    /\ UNCHANGED <<redis, database, req, loaded, seen, expired>>

\* mutant: no transaction, so the row is there at once
InsertAutocommit(h) ==
    /\ \A i \in DOMAIN payments : payments[i].key # req[h].key
    /\ Goto(h, "insert", "flush")
    /\ payments' = Append(payments, [rid |-> req[h].rid, order |-> req[h].order,
                                     key |-> req[h].key])
    /\ UNCHANGED <<redis, orders, locals, expired>>

\* paymentRepository.save runs the INSERT at once, for the generated id.  It
\* waits while another transaction holds an uncommitted row with that key.
InsertPayment(h) ==
    /\ IF req[h].key = Null
       THEN Answer(h, "insert", Status("DataIntegrityViolationException"),
                   "no payment key")
       ELSE /\ Inserting(h, req[h].key) = {}
            /\ IF \E i \in DOMAIN payments : payments[i].key = req[h].key
               THEN Answer(h, "insert", Status("DataIntegrityViolationException"),
                           "unique constraint")
               ELSE Goto(h, "insert", "flush") /\ UNCHANGED answer
    /\ UNCHANGED <<redis, database, req, loaded, seen, expired>>

\* Transactions other than h's that have updated order o.
Updating(h, o) ==
    {g \in Handlers \ {h} :
        pc[g] = "commit" /\ req[g].order = o /\ loaded[g] # "PAID"}

\* mutant: the response is made before the commit
FlushAnswers(h) ==
    /\ loaded[h] = "PAID" \/ Updating(h, req[h].order) = {}
    /\ Answer(h, "flush", 200, "approved")
    /\ UNCHANGED <<redis, database, req, loaded, seen, expired>>

\* order.setStatus("PAID"), written when the commit flushes the session: the
\* UPDATE waits for the row's lock, and there is none if nothing changed.
FlushOrder(h) ==
    /\ loaded[h] = "PAID" \/ Updating(h, req[h].order) = {}
    /\ Goto(h, "flush", "commit")
    /\ UNCHANGED <<redis, database, locals, expired>>

\* What the commit of h's transaction does to the database.
Committed(h) ==
    /\ payments' = Append(payments, [rid |-> req[h].rid, order |-> req[h].order,
                                     key |-> req[h].key])
    /\ orders' = IF loaded[h] = "PAID" THEN orders
                 ELSE [orders EXCEPT ![req[h].order].status = "PAID"]

Commit(h) ==
    /\ Answer(h, "commit", 200, "approved")
    /\ Committed(h)
    /\ UNCHANGED <<redis, req, loaded, seen, expired>>

-----------------------------------------------------------------------------
(* Failures.                                                               *)

\* An access to the database fails, or gives up waiting for a lock: the
\* transaction is rolled back.
DatabaseFails(h) ==
    /\ pc[h] \in {"save", "get", "find", "exists", "insert", "flush", "commit"}
    /\ Answer(h, pc[h], Status("DataAccessException"), "database")
    /\ UNCHANGED <<redis, database, req, loaded, seen, expired>>

\* The database commits but the server does not hear of it.
CommitUnheard(h) ==
    /\ \/ /\ Answer(h, "commit", Status("DataAccessException"), "database")
          /\ Committed(h)
       \/ /\ Answer(h, "save", Status("DataAccessException"), "database")
          /\ orders' = Append(orders, [rid |-> req[h].rid, status |-> "CREATED"])
          /\ UNCHANGED payments
    /\ UNCHANGED <<redis, req, loaded, seen, expired>>

\* The server goes down: no response, and open transactions are rolled back.
\* Redis and what was committed survive.
Crash ==
    /\ \E h \in Handlers : pc[h] # "idle"
    /\ pc' = [h \in Handlers |-> "idle"]
    /\ req' = [h \in Handlers |-> NoRequest]
    /\ loaded' = [h \in Handlers |-> "none"]
    /\ seen' = [h \in Handlers |-> 0]
    /\ answer' = [h \in Handlers |-> NoAnswer]
    /\ UNCHANGED <<redis, database, expired>>

-----------------------------------------------------------------------------
\* What the program does when nothing fails.
Step(h) ==
    \/ Acquire(h)
    \/ SaveOrder(h)
    \/ GetOrder(h)
    \/ FindOrder(h)
    \/ ExistsByPaymentKey(h)
    \/ InsertPayment(h)
    \/ FlushOrder(h)
    \/ Commit(h)
    \/ Respond(h)

Failure(h) == AcquireFails(h) \/ DatabaseFails(h) \/ CommitUnheard(h)

Next ==
    \/ \E h \in Handlers : Receive(h) \/ Step(h) \/ Failure(h)
    \/ \E k \in Keys : Expire(k)
    \/ Crash

Spec == Init /\ [][Next]_vars

-----------------------------------------------------------------------------
RequestIds == {q.rid : q \in Requests}
PaymentKeys == {q.key : q \in Requests} \ {Null}

OrderRows == [rid : RequestIds, status : {"CREATED", "PAID"}]
PaymentRows == [rid : RequestIds, order : Nat, key : PaymentKeys]

\* The tables stay consistent: a payment belongs to an order that exists and
\* has a key, and no transaction's snapshot is ahead of the tables.
TypeOK ==
    /\ redis \subseteq Keys
    /\ orders \in Seq(OrderRows)
    /\ payments \in Seq(PaymentRows)
    /\ \A i \in DOMAIN payments : payments[i].order \in DOMAIN orders
    /\ pc \in [Handlers -> Labels]
    /\ req \in [Handlers -> Requests \cup {NoRequest}]
    /\ loaded \in [Handlers -> {"none", "CREATED", "PAID"}]
    /\ seen \in [Handlers -> 0 .. Len(payments)]
    /\ answer \in [Handlers -> [code : {0, 200, 404, 409, 500}, why : Reasons]]
    /\ expired \in [Keys -> Nat]

\* An order is PAID exactly if a payment for it is there, at every moment and
\* after any failure: approve's transaction writes both or neither, although
\* the status it writes comes from a read that may be stale.
PaidIffPayment ==
    \A o \in DOMAIN orders :
        orders[o].status = "PAID" <=>
            \E i \in DOMAIN payments : payments[i].order = o

\* No payment key is used twice, even by requests that all saw it unused.
PaymentKeyUsedOnce ==
    \A i, j \in DOMAIN payments :
        payments[i].key = payments[j].key => i = j

Rows(table, r) == {i \in DOMAIN table : table[i].rid = r}

\* The rows that requests with idempotency key k have made.
RowsOf(k) == Rows(IF k[1] = "create" THEN orders ELSE payments, k[2])

\* A request id is processed again only after its key has expired: retries,
\* concurrent duplicates, failures and crashes within its five minutes have no
\* second effect.
OncePerKeyLifetime ==
    \A k \in Keys : Cardinality(RowsOf(k)) <= 1 + expired[k]

\* A client that is told "duplicate payment" can rely on it: a payment with
\* that key has been approved for good.
DuplicatePaymentIsReal ==
    \A h \in Handlers :
        answer[h].why = "duplicate payment" =>
            \E i \in DOMAIN payments : payments[i].key = req[h].key

\* A client that is told of success can rely on it: by the time the response
\* leaves, the payment is committed and its order is paid.
SuccessIsDurable ==
    \A h \in Handlers :
        answer[h].why = "approved" =>
            /\ orders[req[h].order].status = "PAID"
            /\ \E i \in DOMAIN payments :
                   /\ payments[i].rid = req[h].rid
                   /\ payments[i].order = req[h].order
                   /\ payments[i].key = req[h].key

\* What a handler can rely on between two accesses: a transaction that has
\* loaded its order finds it there, and paid if it was; one that has inserted
\* its payment is alone with its payment key.
TransactionInv(h) ==
    /\ pc[h] # "idle" => req[h] \in Requests
    /\ pc[h] = "acquire" => req[h].kind # "get"
    /\ pc[h] # "respond" => answer[h] = NoAnswer
    /\ pc[h] \in {"exists", "insert", "flush", "commit"} =>
           /\ req[h].order \in DOMAIN orders
           /\ loaded[h] = "PAID" => orders[req[h].order].status = "PAID"
    /\ pc[h] \in {"flush", "commit"} =>
           /\ req[h].key # Null
           /\ Inserting(h, req[h].key) = {}
           /\ \A i \in DOMAIN payments : payments[i].key # req[h].key

\* Why the tables and the answers are right: the inductive invariant.
IInv ==
    /\ TypeOK
    /\ \A h \in Handlers : TransactionInv(h)
    /\ PaidIffPayment
    /\ PaymentKeyUsedOnce
    /\ DuplicatePaymentIsReal
    /\ SuccessIsDurable

Refusals == {"no order id", "no such order", "duplicate payment", "no payment key",
             "unique constraint"}

\* A client whose request is refused because of the order or of the payment key
\* can conclude that no attempt of it was approved, as long as the request id
\* has not expired.
RefusalIsFinal ==
    \A h \in Handlers :
        /\ answer[h].why \in Refusals
        /\ req[h].kind = "approve"
        /\ expired[Key(req[h])] = 0
        => Rows(payments, req[h].rid) = {}

\* Handler h got past the idempotency check, and its request has had no effect
\* but may have one, or has been refused.
Admitted(h) ==
    \/ pc[h] \in {"save", "find", "exists", "insert", "flush", "commit"}
    \/ pc[h] = "respond" /\ answer[h].why \in Refusals

Using(k) == {h \in Handlers : Admitted(h) /\ Key(req[h]) = k}

\* The request that key k admitted is over and has made no row: none will,
\* before k expires.
Spent(k) == k \in redis /\ Using(k) = {} /\ RowsOf(k) = {}

\* Why: a lifetime of a key admits one request, which is under way, was refused,
\* failed, or has made a row.  A lifetime is over or the key is set.
AdmissionInv ==
    /\ \A h \in Handlers :
           /\ pc[h] = "save" => req[h].kind = "create"
           /\ pc[h] = "get" => req[h].kind = "get"
           /\ pc[h] \in {"find", "exists", "insert", "flush", "commit"} =>
                  req[h].kind = "approve"
    /\ \A k \in Keys :
           /\ IsFiniteSet(Using(k))
           /\ Cardinality(Using(k)) + Cardinality(RowsOf(k))
                  <= expired[k] + (IF k \in redis THEN 1 ELSE 0)

\* The interleaved transactions have the effect of approvals made one at a
\* time.
Ledger == INSTANCE PaymentLedger
Serializable == Ledger!Spec

\* Every request is answered: no two transactions wait for each other, and
\* none waits for one that is not going to end.
EveryRequestAnswered ==
    \A h \in Handlers : pc[h] # "idle" ~> pc[h] = "idle"

-----------------------------------------------------------------------------
(* What place-flow/README.md says and the code does not do.                *)

\* README: a duplicate payment is answered 409.
DuplicatePaymentGets409 ==
    \A h \in Handlers :
        answer[h].why \in {"duplicate payment", "unique constraint"} =>
            answer[h].code = 409

\* README: an order that does not exist is answered 404.
MissingOrderGets404 ==
    \A h \in Handlers :
        answer[h].why = "no such order" => answer[h].code = 404

\* README: an approval takes its order from CREATED to PAID.
ApprovalPaysCreatedOrder ==
    [][\A o \in DOMAIN orders :
           (\E i \in DOMAIN payments' \ DOMAIN payments : payments'[i].order = o)
               => orders[o].status = "CREATED"]_vars
=============================================================================
