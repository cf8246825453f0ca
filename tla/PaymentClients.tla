--------------------------- MODULE PaymentClients ---------------------------
(***************************************************************************)
(* Clients of PlaceFlow that want one thing each and send their request    *)
(* again, under the same request id, until they know what came of it.      *)
(*                                                                         *)
(* A client may stop waiting for an attempt that is still going on, so     *)
(* several attempts of one request can run at a time.                      *)
(***************************************************************************)
EXTENDS PlaceFlow

CONSTANTS
    Clients,
    Wants,      \* client -> its request
    Nobody,     \* no handler
    MaxFaults   \* bound: failures, crashes and attempts given up

ASSUME WantsAssumption == Wants \in [Clients -> Requests]

ASSUME NobodyAssumption == Nobody \notin Handlers

ASSUME MaxFaultsAssumption == MaxFaults \in Nat

VARIABLES
    waits,    \* client -> the handler it waits for
    outcome,  \* client -> what it has learnt, "none" while it goes on trying,
              \* "away" if it never sends anything
    faults    \* how many more faults there may be

clientVars == <<waits, outcome, faults>>
allVars == <<vars, clientVars>>

\* Any of the clients may be there, and any number of faults lie ahead.
ClientsInit ==
    /\ Init
    /\ waits = [c \in Clients |-> Nobody]
    /\ outcome \in [Clients -> {"none", "away"}]
    /\ faults \in 0 .. MaxFaults

Send(c) ==
    /\ outcome[c] = "none" /\ waits[c] = Nobody
    /\ \E h \in Handlers :
           /\ Receive(h) /\ req'[h] = Wants[c]
           /\ waits' = [waits EXCEPT ![c] = h]
    /\ UNCHANGED <<outcome, faults>>

\* Success, 404 and "duplicate payment" settle the matter; a client that gets
\* another error, or whose request is a duplicate, cannot tell and tries again.
Settles(a) == a.code \in {200, 404} \/ a.why = "duplicate payment"

Hear(c) ==
    /\ waits[c] # Nobody
    /\ Respond(waits[c])
    /\ waits' = [waits EXCEPT ![c] = Nobody]
    /\ IF Settles(answer[waits[c]])
       THEN outcome' = [outcome EXCEPT ![c] = answer[waits[c]].why]
       ELSE UNCHANGED outcome
    /\ UNCHANGED faults

\* A handler goes on, whether or not its client is still there.
Serve(h) ==
    /\ Step(h)
    /\ pc[h] = "respond" => \A c \in Clients : waits[c] # h
    /\ UNCHANGED clientVars

Fault ==
    /\ faults > 0
    /\ faults' = faults - 1
    /\ UNCHANGED outcome

\* The client hangs up, or the response is lost.
GiveUp(c) ==
    /\ Fault
    /\ waits[c] # Nobody
    /\ waits' = [waits EXCEPT ![c] = Nobody]
    /\ UNCHANGED vars

Fail(h) == Fault /\ Failure(h) /\ UNCHANGED waits

Restart ==
    /\ Fault
    /\ Crash
    /\ waits' = [c \in Clients |-> Nobody]

\* The time to live that tryAcquire gives a key ends.
Forget(k) == Expire(k) /\ UNCHANGED clientVars

\* Every client knows.
Finished ==
    /\ \A c \in Clients : outcome[c] # "none"
    /\ UNCHANGED allVars

ClientsNext ==
    \/ \E c \in Clients : Send(c) \/ Hear(c) \/ GiveUp(c)
    \/ \E h \in Handlers : Serve(h) \/ Fail(h)
    \/ Restart
    \/ \E k \in Keys : Forget(k)
    \/ Finished

\* Handlers work, keys expire, a client that does not know goes on trying and
\* gets a handler at some time, and what is answered it hears.  Faults need
\* not happen.
Fairness ==
    /\ \A h \in Handlers : WF_allVars(Serve(h))
    /\ \A k \in Keys : WF_allVars(Forget(k))
    /\ \A c \in Clients : SF_allVars(Send(c)) /\ WF_allVars(Hear(c))

ClientsSpec == ClientsInit /\ [][ClientsNext]_allVars /\ Fairness

-----------------------------------------------------------------------------
\* However often a client has tried, and however often its key has expired in
\* between, what it has learnt is true: a payment it takes for made was made
\* once, by itself if it was told so, and one it takes for refused it has not
\* made, unless its key has expired: an attempt before may then have succeeded
\* unheard.
ClientKnows ==
    \A c \in Clients :
        Wants[c].kind = "approve" =>
            LET made == {i \in DOMAIN payments : payments[i].key = Wants[c].key}
                own == {i \in made : payments[i].rid = Wants[c].rid}
            IN  /\ outcome[c] = "approved" => Cardinality(made) = 1 /\ own = made
                /\ outcome[c] = "duplicate payment" => Cardinality(made) = 1
                /\ outcome[c] = "no such order" =>
                       own = {} \/ expired[Key(Wants[c])] > 0

ClientsTypeOK ==
    /\ waits \in [Clients -> Handlers \cup {Nobody}]
    /\ outcome \in [Clients -> Reasons \cup {"away"}]
    /\ faults \in 0 .. MaxFaults

\* No two clients wait for one handler, and it does what its client wants.
OneClientEach ==
    \A c \in Clients :
        waits[c] # Nobody =>
            /\ pc[waits[c]] # "idle"
            /\ req[waits[c]] = Wants[c]
            /\ \A d \in Clients \ {c} : waits[d] # waits[c]

\* What c has learnt of a payment, in terms that last.
Learnt(c) ==
    /\ outcome[c] = "approved" =>
           \E i \in DOMAIN payments :
               payments[i].key = Wants[c].key /\ payments[i].rid = Wants[c].rid
    /\ outcome[c] = "duplicate payment" =>
           \E i \in DOMAIN payments : payments[i].key = Wants[c].key
    /\ outcome[c] = "no such order" =>
           Spent(Key(Wants[c])) \/ expired[Key(Wants[c])] > 0

\* Why ClientKnows holds: the inductive invariant, together with those of the
\* server.
ClientsInv ==
    /\ IInv
    /\ AdmissionInv
    /\ ClientsTypeOK
    /\ OneClientEach
    /\ \A c \in Clients : Wants[c].kind = "approve" => Learnt(c)

\* A client that keeps trying learns what came of its request: an attempt that
\* has failed leaves its key behind, which stands in the way of the next one,
\* but not for ever.
EveryClientSettles == \A c \in Clients : <>(outcome[c] # "none")
=============================================================================
