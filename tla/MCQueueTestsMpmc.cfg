CONSTANTS
    Capacity = 3
    Producers = {p1, p2}
    Consumers = {c1, c2}
    Observers = {}
    PerProducer = 1
    Values <- MCItems
    NoValue = NoValue

SPECIFICATION TestSpec
INVARIANT TestVerdict
CHECK_DEADLOCK FALSE
