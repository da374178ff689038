SPECIFICATION FairSpec
CONSTANTS
    Guards = {g1, g2, g3, u1}
    Scoped = {g1, g2, g3}
    Cancellers = {c1, c2}
    NoThread = NoThread
    NoGuard = NoGuard
INVARIANTS TypeOK CallbackContract NoDanglingGuard NoneLeftArmed
PROPERTIES CancelReachesArmed ImplementsToken
CHECK_DEADLOCK FALSE
