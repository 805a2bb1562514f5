CONSTANTS
    v1 = v1
    v2 = v2
    NoVideo = NoVideo
    Videos = {v1}
    Genuine = {v1}
    RawSize = 1
    MaxWaiting = 1
    FaultKinds = {}
    MaxFaults = 0
SPECIFICATION Spec
INVARIANT DeletedLeavesNoFile
CHECK_DEADLOCK FALSE
