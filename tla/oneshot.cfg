SPECIFICATION FairSpec
CONSTANTS
    Values = {v1, v2}
    NoValue = NoValue
INVARIANTS TypeOK WokenOnce EndsAgree
PROPERTIES ComesBack UsesToken
CHECK_DEADLOCK FALSE
