SPECIFICATION Spec
CONSTANTS
    Tasks = {t1}
    Used = {"read", "accept", "sleep", "nap"}
    IoWorkers = 1
    CancelInSuspend = TRUE
INVARIANTS CancelReachesOp
CHECK_DEADLOCK FALSE
