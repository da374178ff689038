SPECIFICATION FairConnectSpec
CONSTANTS
    Tasks = {t1}
    Used = {"accept", "sleep", "nap"}
    IoWorkers = 1
    CancelInSuspend = FALSE
    Children = {c1, c2}
    MaxSteps = 2
    NoFrame = NoFrame
    MaxPort = 9
    Past = {"h", "6", ":"}
    Addresses <- Sample
INVARIANTS TypeOK AwaitersSound HonestResult FramesSound ExceptionArrives ParseExact
PROPERTIES CancelEnds ConnectsInOrder
CHECK_DEADLOCK FALSE
