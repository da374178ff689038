SPECIFICATION Spec
CONSTANTS
    Roots = {r1, r2}
    Nodes = {r1, r2}
    Workers = {w1, w2}
    Main = Main
    Nil = Nil
    NoRoot = NoRoot
    MaxAwaits = 1
    LateSpawn = TRUE
INVARIANTS WaitsForCancelled
CHECK_DEADLOCK FALSE
