\* Four items through a ring of two usable slots: both sides meet their limit
\* and the indices wrap.
CONSTANTS
    Capacity = 3
    Producers = {p}
    Consumers = {c}
    Observers = {}
    PerProducer = 4
    Values <- MCItems
    NoValue = NoValue

SPECIFICATION TestSpec
INVARIANTS TestInv ConsumedInOrder TestVerdict
PROPERTY Termination
