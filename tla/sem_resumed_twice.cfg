SPECIFICATION Spec
CONSTANTS
    a = a
    b = b
    c = c
    Nil = Nil
    NoTask = NoTask
    Tasks = {a, b}
    Nodes = {a, b}
    Need <- UnitNeed
    Initial = 0
    Capacity = 1
    Workers = {w1, w2}
    Visitors = {v1}
    MaxHeld = 1
    Cancellable = {a}
    CancelAt = {"linked", "queued"}
    LateReads = {FALSE}
INVARIANTS ResumedOnce
CHECK_DEADLOCK FALSE
