SPECIFICATION FairSpec
CONSTANTS
    a = a
    b = b
    c = c
    Nil = Nil
    NoTask = NoTask
    Tasks = {a, b, c}
    Nodes = {a, b, c}
    Need <- MixedNeed
    Initial = 2
    Capacity = 1
    Workers = {w1, w2}
    Visitors = {v1}
    MaxHeld = 2
    Cancellable = {a, c}
    CancelAt = {}
    LateReads = {FALSE}
INVARIANTS TypeOK PermitsConserved QueueFaithful NoIdlePermits ResumedOnce
PROPERTIES FirstComeFirstServed ImplementsFifo EveryoneReturns
CHECK_DEADLOCK FALSE
