CONSTANTS
    Handlers = {h1, h2, h3}
    Null = Null
    MaxExpiries <- OneExpiry
    r1 = r1
    r2 = r2
    k1 = k1
    k2 = k2
    Requests <- RacingRequests

SPECIFICATION Spec
SYMMETRY Symmetry
INVARIANTS TypeOK IInv AdmissionInv PaidIffPayment PaymentKeyUsedOnce DuplicatePaymentIsReal SuccessIsDurable RefusalIsFinal
PROPERTY Serializable
