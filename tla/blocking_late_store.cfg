SPECIFICATION Spec
CONSTANTS
    Tasks = {t1}
    Workers = {w1, w2}
    Pool = {p1}
    NoTask = NoTask
INVARIANTS HonestResult
CHECK_DEADLOCK FALSE
