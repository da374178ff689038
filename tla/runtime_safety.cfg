SPECIFICATION Spec
CONSTANTS
    Roots = {r1, r2, r3}
    Nodes = {r1, r2, r3}
    Workers = {w1, w2}
    Main = Main
    Nil = Nil
    NoRoot = NoRoot
    MaxAwaits = 1
    LateSpawn = FALSE
SYMMETRY Symmetry
INVARIANTS TypeOK RootsListed HandleOnce NoIdleWorker StopsWhenDone
CHECK_DEADLOCK FALSE
