CONSTANTS
    Handlers = {h1}
    Null = Null
    MaxExpiries <- NoExpiry
    r1 = r1
    r2 = r2
    k1 = k1
    k2 = k2
    Requests <- RacingRequests

SPECIFICATION Spec
PROPERTY ApprovalPaysCreatedOrder
