SPECIFICATION FairFilesSpec
CONSTANTS
    t1 = t1
    t2 = t2
    Tasks = {t1, t2}
    Workers = {w1, w2}
    Pool = {p1, p2}
    NoTask = NoTask
    Function <- Functions
INVARIANTS TypeOK CancelReachesQueue WithdrawnNeverRuns FileHonest
PROPERTIES ImplementsAwait PoolEnds
CHECK_DEADLOCK FALSE
