------------------------ MODULE PaymentClientsProof ------------------------
(***************************************************************************)
(* Proofs about the clients of PlaceFlow, for any number of clients,       *)
(* handlers and faults, any requests and any expiries: what a client has   *)
(* learnt is true.                                                         *)
(***************************************************************************)
EXTENDS PaymentClients, PlaceFlowAdmissionProof

-----------------------------------------------------------------------------
(* The server.                                                             *)

\* What the clients and the faults do to the server is what may happen to it.
LEMMA ClientsAreUsers ==
    ASSUME ClientsTypeOK, [ClientsNext]_allVars
    PROVE  [Next]_vars
<1>1. ASSUME NEW c \in Clients, Send(c) \/ Hear(c)
      PROVE  Next
  <2>1. waits[c] \in Handlers \cup {Nobody}
    BY DEF ClientsTypeOK
  <2>2. \E h \in Handlers : Receive(h) \/ Respond(h)
    BY <1>1, <2>1 DEF Send, Hear
  <2> QED
    BY <2>2 DEF Next, Step
<1>2. ASSUME NEW c \in Clients, GiveUp(c)
      PROVE  UNCHANGED vars
  BY <1>2 DEF GiveUp
<1>3. ASSUME NEW h \in Handlers, Serve(h) \/ Fail(h)
      PROVE  Next
  BY <1>3 DEF Serve, Fail, Next
<1>4. ASSUME Restart
      PROVE  Next
  BY <1>4 DEF Restart, Next
<1>5. ASSUME NEW k \in Keys, Forget(k)
      PROVE  Next
  BY <1>5 DEF Forget, Next
<1>6. ASSUME Finished \/ UNCHANGED allVars
      PROVE  UNCHANGED vars
  BY <1>6 DEF Finished, allVars
<1> QED
  BY <1>1, <1>2, <1>3, <1>4, <1>5, <1>6 DEF ClientsNext

\* Payments are never deleted nor changed.
LEMMA PaymentsStay ==
    ASSUME IInv, [Next]_vars, NEW i \in DOMAIN payments
    PROVE  i \in DOMAIN payments' /\ payments'[i] = payments[i]
<1>1. CASE UNCHANGED payments
  BY <1>1
<1>2. CASE \E h \in Handlers : pc[h] = "commit" /\ Committed(h)
  <2>1. PICK h \in Handlers : pc[h] = "commit" /\ Committed(h)
    BY <1>2
  <2>2. TypeOK /\ TransactionInv(h)
    BY DEF IInv
  <2>3. /\ Len(payments) \in Nat /\ DOMAIN payments = 1 .. Len(payments)
        /\ DOMAIN payments' = 1 .. Len(payments) + 1
        /\ \A j \in DOMAIN payments : payments'[j] = payments[j]
    BY <2>1, <2>2, CommittedFacts
  <2> QED
    BY <2>3
<1>3. CASE \E h \in Handlers : Receive(h) \/ Step(h) \/ Failure(h)
  <2>1. PICK h \in Handlers : Receive(h) \/ Step(h) \/ Failure(h)
    BY <1>3
  <2>2. CASE Commit(h)
    BY <1>2, <2>2 DEF Commit, Answer, Goto
  <2>3. CASE CommitUnheard(h)
    BY <1>1, <1>2, <2>3 DEF CommitUnheard, Answer, Goto
  <2>4. CASE ~Commit(h) /\ ~CommitUnheard(h)
    <3>1. UNCHANGED payments
      BY <2>1, <2>4 DEF Step, Failure, database, Receive, Respond, Acquire, AcquireFails,
         SaveOrder, GetOrder, FindOrder, ExistsByPaymentKey, InsertPayment, FlushOrder,
         DatabaseFails
    <3> QED
      BY <1>1, <3>1
  <2> QED
    BY <2>2, <2>3, <2>4
<1>4. CASE (\E k \in Keys : Expire(k)) \/ Crash \/ UNCHANGED vars
  BY <1>1, <1>4 DEF Expire, Crash, vars, database
<1> QED
  BY <1>3, <1>4 DEF Next

LEMMA ExpiriesStay ==
    ASSUME IInv, [Next]_vars, NEW k \in Keys, expired[k] > 0
    PROVE  expired'[k] > 0
<1>1. expired \in [Keys -> Nat]
  BY DEF IInv, TypeOK
<1>2. CASE UNCHANGED expired
  BY <1>2
<1>3. CASE \E h \in Handlers : Receive(h) \/ Step(h) \/ Failure(h)
  BY <1>2, <1>3 DEF Step, Failure, Receive, Respond, Acquire, AcquireFails, SaveOrder,
     GetOrder, FindOrder, ExistsByPaymentKey, InsertPayment, FlushOrder, Commit,
     CommitUnheard, DatabaseFails
<1>4. CASE \E e \in Keys : Expire(e)
  <2>1. PICK e \in Keys : expired' = [expired EXCEPT ![e] = @ + 1]
    BY <1>4 DEF Expire
  <2> QED
    BY <1>1, <2>1
<1>5. CASE Crash \/ UNCHANGED vars
  BY <1>2, <1>5 DEF Crash, vars
<1> QED
  BY <1>3, <1>4, <1>5 DEF Next

-----------------------------------------------------------------------------
(* What is learnt.                                                         *)

LEMMA WantedKey ==
    ASSUME NEW c \in Clients, Wants[c].kind = "approve"
    PROVE  /\ Wants[c] \in Requests /\ Key(Wants[c]) \in Keys
           /\ RowsOf(Key(Wants[c])) = Rows(payments, Wants[c].rid)
<1>1. Wants[c] \in Requests
  BY WantsAssumption
<1>2. Key(Wants[c]) \in Keys
  BY <1>1, Fields
<1>3. RowsOf(Key(Wants[c])) = Rows(payments, Wants[c].rid)
  BY DEF RowsOf, Key
<1> QED
  BY <1>1, <1>2, <1>3

\* What a client has learnt stays true, whatever the server does.
LEMMA LearntLasts ==
    ASSUME IInv, AdmissionInv, [Next]_vars, NEW c \in Clients,
           Wants[c].kind = "approve", Learnt(c), outcome'[c] = outcome[c]
    PROVE  Learnt(c)'
<1>1. Key(Wants[c]) \in Keys
  BY WantedKey
<1>2. ASSUME outcome[c] = "approved"
      PROVE  \E i \in DOMAIN payments' :
                 payments'[i].key = Wants[c].key /\ payments'[i].rid = Wants[c].rid
  BY <1>2, PaymentsStay DEF Learnt
<1>3. ASSUME outcome[c] = "duplicate payment"
      PROVE  \E i \in DOMAIN payments' : payments'[i].key = Wants[c].key
  BY <1>3, PaymentsStay DEF Learnt
<1>4. ASSUME outcome[c] = "no such order"
      PROVE  Spent(Key(Wants[c]))' \/ expired'[Key(Wants[c])] > 0
  <2>1. PICK k \in Keys : k = Key(Wants[c])
    BY <1>1
  <2>2. Spent(k) \/ expired[k] > 0
    BY <1>4, <2>1 DEF Learnt
  <2>3. Spent(k)' \/ expired'[k] > 0
    BY <2>2, SpentUntilExpiry, ExpiriesStay
  <2> QED
    BY <2>1, <2>3 DEF Spent
<1> QED
  BY <1>2, <1>3, <1>4 DEF Learnt

\* A refusal that the client hears is final.
LEMMA RefusalHeard ==
    ASSUME IInv, AdmissionInv, NEW h \in Handlers, NEW k \in Keys, Respond(h),
           Key(req[h]) = k, answer[h].why \in Refusals, expired[k] = 0
    PROVE  Spent(k)'
<1>1. TypeOK /\ pc[h] = "respond" /\ pc'[h] = "idle"
  BY DEF IInv, TypeOK, Respond, Goto
<1>2. Still(h) /\ ~Admitted(h)'
  BY <1>1, HandlerStep, AdmittedAt DEF Step
<1>3. h \in Using(k)
  BY <1>1 DEF Using, Admitted
<1>4. Using(k) = {h} /\ RowsOf(k) = {} /\ k \in redis
  BY <1>1, <1>3, AdmissionParts, SoleUser
<1>5. Using(k)' = {}
  BY <1>2, <1>4, UsersKept
<1>6. RowsOf(k)' = RowsOf(k) /\ redis' = redis
  BY SameRows DEF Respond
<1> QED
  BY <1>4, <1>5, <1>6 DEF Spent

LEMMA AnswerHeard ==
    ASSUME ClientsInv, NEW c \in Clients, Hear(c), Wants[c].kind = "approve"
    PROVE  Learnt(c)'
<1>1. /\ IInv /\ AdmissionInv /\ TypeOK /\ DuplicatePaymentIsReal /\ SuccessIsDurable
      /\ Learnt(c) /\ outcome \in [Clients -> Reasons \cup {"away"}]
  BY DEF ClientsInv, IInv, ClientsTypeOK
<1>2. PICK h \in Handlers :
          /\ waits[c] = h /\ Respond(h) /\ req[h] = Wants[c]
          /\ IF Settles(answer[h]) THEN outcome' = [outcome EXCEPT ![c] = answer[h].why]
                                   ELSE UNCHANGED outcome
  <2>1. waits[c] \in Handlers \cup {Nobody}
    BY DEF ClientsInv, ClientsTypeOK
  <2>2. waits[c] \in Handlers /\ req[waits[c]] = Wants[c]
    BY <2>1 DEF ClientsInv, OneClientEach, Hear
  <2> QED
    BY <2>2 DEF Hear
<1>3. [Next]_vars
  BY <1>2 DEF Next, Step
<1>4. CASE outcome'[c] = outcome[c]
  BY <1>1, <1>3, <1>4, LearntLasts
<1>5. CASE outcome'[c] = answer[h].why
  <2>1. payments' = payments /\ expired' = expired
    BY <1>2 DEF Respond, database
  <2>2. ASSUME outcome'[c] = "approved"
        PROVE  \E i \in DOMAIN payments' :
                   payments'[i].key = Wants[c].key /\ payments'[i].rid = Wants[c].rid
    BY <1>1, <1>2, <1>5, <2>1, <2>2 DEF SuccessIsDurable
  <2>3. ASSUME outcome'[c] = "duplicate payment"
        PROVE  \E i \in DOMAIN payments' : payments'[i].key = Wants[c].key
    BY <1>1, <1>2, <1>5, <2>1, <2>3 DEF DuplicatePaymentIsReal
  <2>4. ASSUME outcome'[c] = "no such order"
        PROVE  Spent(Key(Wants[c]))' \/ expired'[Key(Wants[c])] > 0
    <3>1. PICK k \in Keys : k = Key(Wants[c])
      BY WantedKey
    <3>2. answer[h].why \in Refusals
      BY <1>5, <2>4 DEF Refusals
    <3>3. expired[k] \in Nat
      BY <1>1 DEF TypeOK
    <3>4. Spent(k)' \/ expired'[k] > 0
      BY <1>1, <1>2, <2>1, <3>1, <3>2, <3>3, RefusalHeard
    <3> QED
      BY <3>1, <3>4 DEF Spent
  <2> QED
    BY <2>2, <2>3, <2>4 DEF Learnt
<1> QED
  BY <1>1, <1>2, <1>4, <1>5

-----------------------------------------------------------------------------
(* The clients.                                                            *)

LEMMA InitClients == ClientsInit => ClientsInv
<1> SUFFICES ASSUME ClientsInit PROVE ClientsInv
  OBVIOUS
<1>1. IInv /\ AdmissionInv
  BY InitInv, InitAdmission DEF ClientsInit
<1>2. ClientsTypeOK /\ OneClientEach
  BY MaxFaultsAssumption DEF ClientsInit, ClientsTypeOK, OneClientEach, Reasons
<1>3. \A c \in Clients : Learnt(c)
  BY DEF ClientsInit, Learnt
<1> QED
  BY <1>1, <1>2, <1>3 DEF ClientsInv

LEMMA StepTypes ==
    ASSUME ClientsInv, [ClientsNext]_allVars
    PROVE  ClientsTypeOK'
<1>1. ClientsTypeOK /\ TypeOK
  BY DEF ClientsInv, IInv
<1>2. ASSUME NEW c \in Clients, Send(c)
      PROVE  ClientsTypeOK'
  BY <1>1, <1>2 DEF ClientsTypeOK, Send
<1>3. ASSUME NEW c \in Clients, Hear(c)
      PROVE  ClientsTypeOK'
  <2>1. waits[c] \in Handlers
    BY <1>1, <1>3 DEF ClientsTypeOK, Hear
  <2>2. answer[waits[c]].why \in Reasons
    BY <1>1, <2>1 DEF TypeOK
  <2> QED
    BY <1>1, <1>3, <2>2 DEF ClientsTypeOK, Hear
<1>4. ASSUME NEW c \in Clients, GiveUp(c)
      PROVE  ClientsTypeOK'
  BY <1>1, <1>4, MaxFaultsAssumption DEF ClientsTypeOK, GiveUp, Fault
<1>5. ASSUME NEW h \in Handlers, Serve(h) \/ Fail(h)
      PROVE  ClientsTypeOK'
  BY <1>1, <1>5, MaxFaultsAssumption DEF ClientsTypeOK, Serve, Fail, Fault, clientVars
<1>6. ASSUME Restart
      PROVE  ClientsTypeOK'
  BY <1>1, <1>6, MaxFaultsAssumption DEF ClientsTypeOK, Restart, Fault
<1>7. ASSUME \/ \E k \in Keys : Forget(k)
             \/ Finished \/ UNCHANGED allVars
      PROVE  ClientsTypeOK'
  BY <1>1, <1>7 DEF ClientsTypeOK, Forget, Finished, allVars, clientVars
<1> QED
  BY <1>2, <1>3, <1>4, <1>5, <1>6, <1>7 DEF ClientsNext

\* A handler that goes on goes on with the same request.
LEMMA SameRequest ==
    ASSUME TypeOK, NEW h \in Handlers, Failure(h) \/ (Step(h) /\ pc[h] # "respond")
    PROVE  UNCHANGED req /\ pc'[h] # "idle"
<1>1. ASSUME UNCHANGED req, \/ \E l : \E m \in Labels \ {"idle"} : Goto(h, l, m)
                            \/ \E l, c, w : Answer(h, l, c, w)
      PROVE  UNCHANGED req /\ pc'[h] # "idle"
  BY <1>1, Answers, GoesOn
<1>2. {"save", "find", "exists", "insert", "flush", "commit"} \subseteq Labels \ {"idle"}
  BY DEF Labels
<1>3. CASE Acquire(h)
  BY <1>1, <1>2, <1>3 DEF Acquire
<1>4. CASE FindOrder(h)
  BY <1>1, <1>2, <1>4 DEF FindOrder
<1>5. CASE ExistsByPaymentKey(h) \/ InsertPayment(h)
  BY <1>1, <1>2, <1>5 DEF ExistsByPaymentKey, InsertPayment
<1>6. CASE GetOrder(h) \/ SaveOrder(h) \/ Commit(h)
  BY <1>1, <1>6 DEF GetOrder, SaveOrder, Commit
<1>7. CASE FlushOrder(h)
  BY <1>1, <1>2, <1>7 DEF FlushOrder, locals
<1>8. CASE Failure(h)
  BY <1>1, <1>8 DEF Failure, AcquireFails, DatabaseFails, CommitUnheard
<1>9. ASSUME Respond(h)
      PROVE  pc[h] = "respond"
  BY <1>9 DEF Respond, Goto
<1> QED
  BY <1>3, <1>4, <1>5, <1>6, <1>7, <1>8, <1>9 DEF Step

LEMMA StepOneClientEach ==
    ASSUME ClientsInv, [ClientsNext]_allVars
    PROVE  OneClientEach'
<1>1. TypeOK /\ ClientsTypeOK /\ OneClientEach
  BY DEF ClientsInv, IInv
<1>2. waits \in [Clients -> Handlers \cup {Nobody}]
  BY <1>1 DEF ClientsTypeOK
<1>3. ASSUME NEW d \in Clients, Send(d)
      PROVE  OneClientEach'
  <2>1. PICK h \in Handlers :
            /\ Receive(h) /\ req'[h] = Wants[d]
            /\ waits' = [waits EXCEPT ![d] = h]
    BY <1>3 DEF Send
  <2>2. pc[h] = "idle" /\ pc'[h] # "idle" /\ Still(h)
    <3>1. Still(h)
      BY <1>1, <2>1, HandlerStep
    <3>2. \E m \in {"get", "acquire"} : Goto(h, "idle", m)
      BY <2>1 DEF Receive
    <3> QED
      BY <1>1, <3>1, <3>2, GoesOn
  <2>3. \A c \in Clients : waits[c] # h
    BY <1>1, <2>2, NobodyAssumption DEF OneClientEach
  <2> SUFFICES ASSUME NEW c \in Clients, waits'[c] # Nobody
               PROVE  /\ pc'[waits'[c]] # "idle"
                      /\ req'[waits'[c]] = Wants[c]
                      /\ \A e \in Clients \ {c} : waits'[e] # waits'[c]
    BY DEF OneClientEach
  <2>4. CASE c = d
    BY <1>2, <2>1, <2>2, <2>3, <2>4
  <2>5. CASE c # d
    <3>1. waits'[c] = waits[c] /\ waits[c] \in Handlers \ {h}
      BY <1>2, <2>1, <2>3, <2>5
    <3>2. pc'[waits[c]] # "idle" /\ req'[waits[c]] = Wants[c]
      BY <1>1, <2>2, <3>1, NobodyAssumption DEF OneClientEach, Still
    <3>3. \A e \in Clients \ {c} : waits'[e] # waits[c]
      BY <1>1, <1>2, <2>1, <3>1, NobodyAssumption DEF OneClientEach
    <3> QED
      BY <3>1, <3>2, <3>3
  <2> QED
    BY <2>4, <2>5
<1>4. ASSUME NEW d \in Clients, Hear(d)
      PROVE  OneClientEach'
  <2>1. PICK h \in Handlers :
            waits[d] = h /\ Respond(h) /\ waits' = [waits EXCEPT ![d] = Nobody]
    BY <1>2, <1>4 DEF Hear
  <2>2. Still(h)
    BY <1>1, <2>1, HandlerStep DEF Step
  <2>3. ASSUME NEW c \in Clients, waits'[c] # Nobody
        PROVE  c # d /\ waits'[c] = waits[c] /\ waits[c] \in Handlers \ {h}
    BY <1>1, <1>2, <2>1, <2>3 DEF OneClientEach
  <2> SUFFICES ASSUME NEW c \in Clients, waits'[c] # Nobody
               PROVE  /\ pc'[waits'[c]] # "idle"
                      /\ req'[waits'[c]] = Wants[c]
                      /\ \A e \in Clients \ {c} : waits'[e] # waits'[c]
    BY DEF OneClientEach
  <2>4. waits'[c] = waits[c] /\ waits[c] \in Handlers \ {h}
    BY <2>3
  <2>5. pc'[waits[c]] # "idle" /\ req'[waits[c]] = Wants[c]
    BY <1>1, <2>2, <2>4, NobodyAssumption DEF OneClientEach, Still
  <2>6. \A e \in Clients \ {c} : waits'[e] # waits[c]
    BY <1>1, <1>2, <2>1, <2>4, NobodyAssumption DEF OneClientEach
  <2> QED
    BY <2>4, <2>5, <2>6
<1>5. ASSUME NEW d \in Clients, GiveUp(d)
      PROVE  OneClientEach'
  <2>1. waits' = [waits EXCEPT ![d] = Nobody] /\ UNCHANGED <<pc, req>>
    BY <1>5 DEF GiveUp, vars
  <2> QED
    BY <1>1, <1>2, <2>1 DEF OneClientEach
<1>6. ASSUME NEW h \in Handlers, Serve(h) \/ Fail(h)
      PROVE  OneClientEach'
  <2>1. UNCHANGED waits /\ Still(h)
    BY <1>1, <1>6, HandlerStep DEF Serve, Fail, clientVars
  <2>2. ASSUME NEW c \in Clients, waits[c] = h
        PROVE  UNCHANGED req /\ pc'[h] # "idle"
    BY <1>1, <1>6, <2>2, SameRequest DEF Serve, Fail
  <2> SUFFICES ASSUME NEW c \in Clients, waits[c] # Nobody
               PROVE  pc'[waits[c]] # "idle" /\ req'[waits[c]] = Wants[c]
    BY <1>1, <2>1 DEF OneClientEach
  <2>3. waits[c] \in Handlers /\ pc[waits[c]] # "idle" /\ req[waits[c]] = Wants[c]
    BY <1>1, <1>2 DEF OneClientEach
  <2>4. CASE waits[c] = h
    BY <2>2, <2>3, <2>4
  <2>5. CASE waits[c] # h
    BY <2>1, <2>3, <2>5 DEF Still
  <2> QED
    BY <2>4, <2>5
<1>7. ASSUME Restart
      PROVE  OneClientEach'
  BY <1>7 DEF Restart, OneClientEach
<1>8. ASSUME (\E k \in Keys : Forget(k)) \/ Finished \/ UNCHANGED allVars
      PROVE  OneClientEach'
  <2>1. UNCHANGED <<waits, pc, req>>
    BY <1>8 DEF Forget, Expire, Finished, allVars, vars, clientVars, locals
  <2> QED
    BY <1>1, <2>1 DEF OneClientEach
<1> QED
  BY <1>3, <1>4, <1>5, <1>6, <1>7, <1>8 DEF ClientsNext

LEMMA StepLearnt ==
    ASSUME ClientsInv, [ClientsNext]_allVars, NEW c \in Clients, Wants[c].kind = "approve"
    PROVE  Learnt(c)'
<1>1. /\ IInv /\ AdmissionInv /\ ClientsTypeOK /\ Learnt(c)
      /\ outcome \in [Clients -> Reasons \cup {"away"}]
  BY DEF ClientsInv, ClientsTypeOK
<1>2. [Next]_vars
  BY <1>1, ClientsAreUsers
<1>3. CASE Hear(c)
  BY <1>3, AnswerHeard
<1>4. CASE ~Hear(c)
  <2>1. outcome'[c] = outcome[c]
    <3>1. ASSUME NEW d \in Clients, Hear(d)
          PROVE  outcome'[c] = outcome[c]
      <4>1. d # c
        BY <1>4, <3>1
      <4> QED
        BY <1>1, <3>1, <4>1 DEF Hear
    <3>2. ASSUME NEW d \in Clients, Send(d) \/ GiveUp(d)
          PROVE  outcome' = outcome
      BY <3>2 DEF Send, GiveUp, Fault
    <3>3. ASSUME NEW h \in Handlers, Serve(h) \/ Fail(h)
          PROVE  outcome' = outcome
      BY <3>3 DEF Serve, Fail, Fault, clientVars
    <3>4. ASSUME Restart \/ (\E k \in Keys : Forget(k)) \/ Finished \/ UNCHANGED allVars
          PROVE  outcome' = outcome
      BY <3>4 DEF Restart, Fault, Forget, Finished, allVars, clientVars
    <3> QED
      BY <3>1, <3>2, <3>3, <3>4 DEF ClientsNext
  <2> QED
    BY <1>1, <1>2, <2>1, LearntLasts
<1> QED
  BY <1>3, <1>4

LEMMA StepClients == ClientsInv /\ [ClientsNext]_allVars => ClientsInv'
<1> SUFFICES ASSUME ClientsInv, [ClientsNext]_allVars PROVE ClientsInv'
  OBVIOUS
<1>1. IInv /\ AdmissionInv /\ ClientsTypeOK
  BY DEF ClientsInv
<1>2. IInv' /\ AdmissionInv'
  BY <1>1, ClientsAreUsers, StepInv, StepAdmission
<1>3. ClientsTypeOK' /\ OneClientEach'
  BY StepTypes, StepOneClientEach
<1>4. \A c \in Clients : Wants[c].kind = "approve" => Learnt(c)'
  BY StepLearnt
<1> QED
  BY <1>2, <1>3, <1>4 DEF ClientsInv

-----------------------------------------------------------------------------
\* No handler works for two clients, and what a client has learnt of a payment
\* cannot become false any more.
THEOREM ClientsInvariance == ClientsSpec => []ClientsInv
  BY InitClients, StepClients, PTL DEF ClientsSpec

\* With these clients PlaceFlow behaves as it may with any, so what is proved of
\* PlaceFlow holds here too.
THEOREM ServerUnderClients == ClientsSpec => Spec
<1>1. ClientsInit => Init
  BY DEF ClientsInit
<1>2. ClientsInv /\ [ClientsNext]_allVars => [Next]_vars
  BY ClientsAreUsers DEF ClientsInv
<1> QED
  BY <1>1, <1>2, ClientsInvariance, PTL DEF ClientsSpec, Spec

\* Clients that retry do not make a request id count twice in the lifetime of
\* its key.
THEOREM OnceDespiteRetries == ClientsSpec => []OncePerKeyLifetime
  BY ServerUnderClients, OnceInALifetime, PTL

\* What a client has learnt is true, however often it has tried.
THEOREM WhatClientsLearnIsTrue == ClientsSpec => []ClientKnows
<1>1. ClientsInv => ClientKnows
  <2> SUFFICES ASSUME ClientsInv PROVE ClientKnows
    OBVIOUS
  <2> SUFFICES ASSUME NEW c \in Clients, Wants[c].kind = "approve",
                      NEW made, made = {i \in DOMAIN payments : payments[i].key = Wants[c].key},
                      NEW own, own = {i \in made : payments[i].rid = Wants[c].rid}
               PROVE  /\ outcome[c] = "approved" => Cardinality(made) = 1 /\ own = made
                      /\ outcome[c] = "duplicate payment" => Cardinality(made) = 1
                      /\ outcome[c] = "no such order" =>
                             own = {} \/ expired[Key(Wants[c])] > 0
    BY DEF ClientKnows
  <2>1. Learnt(c) /\ PaymentKeyUsedOnce
    BY DEF ClientsInv, IInv
  <2>2. ASSUME NEW i \in DOMAIN payments, payments[i].key = Wants[c].key
        PROVE  made = {i} /\ Cardinality(made) = 1
    <3>1. made = {i}
      BY <2>1, <2>2 DEF PaymentKeyUsedOnce
    <3> QED
      BY <3>1, FS_Singleton
  <2>3. CASE outcome[c] = "approved"
    <3>1. PICK i \in DOMAIN payments :
              payments[i].key = Wants[c].key /\ payments[i].rid = Wants[c].rid
      BY <2>1, <2>3 DEF Learnt
    <3>2. made = {i} /\ Cardinality(made) = 1
      BY <2>2, <3>1
    <3> QED
      BY <2>3, <3>1, <3>2
  <2>4. CASE outcome[c] = "duplicate payment"
    <3>1. PICK i \in DOMAIN payments : payments[i].key = Wants[c].key
      BY <2>1, <2>4 DEF Learnt
    <3>2. Cardinality(made) = 1
      BY <2>2, <3>1
    <3> QED
      BY <2>4, <3>2
  <2>5. CASE outcome[c] = "no such order"
    <3>1. CASE Spent(Key(Wants[c]))
      <4>1. Rows(payments, Wants[c].rid) = {}
        BY <3>1, WantedKey DEF Spent
      <4>2. own = {}
        BY <4>1 DEF Rows
      <4> QED
        BY <2>5, <4>2
    <3>2. CASE expired[Key(Wants[c])] > 0
      BY <2>5, <3>2
    <3> QED
      BY <2>1, <2>5, <3>1, <3>2 DEF Learnt
  <2> QED
    BY <2>3, <2>4, <2>5
<1> QED
  BY <1>1, ClientsInvariance, PTL

=============================================================================
