\* One thread on each side, one thread that only looks.  Three slots: the ring
\* wraps with zero, one and two elements in it.
CONSTANTS
    Capacity = 3
    Producers = {p}
    Consumers = {c}
    Observers = {o}
    Values = {v1, v2}
    NoValue = NoValue

SPECIFICATION Spec
INVARIANTS TypeOK IInv DequeueFindsElement
PROPERTIES Linearizable EveryCallReturns
