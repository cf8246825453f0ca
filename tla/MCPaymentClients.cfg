CONSTANTS
    Handlers = {h1, h2}
    Clients = {creator, payer, rival, partner}
    creator = creator
    payer = payer
    rival = rival
    partner = partner
    r1 = r1
    r2 = r2
    r3 = r3
    k1 = k1
    k2 = k2
    Null = Null
    Nobody = Nobody
    MaxExpiries <- MCExpiries
    MaxFaults = 1
    Wants <- MCWants
    Requests <- MCRequests

SPECIFICATION MCSpec
INVARIANTS OncePerKeyLifetime ClientsInv ClientKnows
PROPERTIES EveryRequestAnswered EveryClientSettles
