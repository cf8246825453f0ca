CONSTANTS
    Capacity = 2
    Producer = p
    Consumer = c
    Observers = {o}
    MaxItems = 4

SPECIFICATION Spec
INVARIANTS TypeOK IInv RaceFree FifoOrder NoOverwrite CountReadsForward OwnerQueries
