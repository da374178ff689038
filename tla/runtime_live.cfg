SPECIFICATION FairSpec
CONSTANTS
    Roots = {r1, r2}
    Nodes = {r1, r2}
    Workers = {w1, w2}
    Main = Main
    Nil = Nil
    NoRoot = NoRoot
    MaxAwaits = 2
    LateSpawn = FALSE
PROPERTIES ShutsDown AbortEnds
CHECK_DEADLOCK FALSE
