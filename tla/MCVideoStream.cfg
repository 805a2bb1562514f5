CONSTANTS
    v1 = v1
    v2 = v2
    NoVideo = NoVideo
    Videos = {v1, v2}
    Genuine = {v1, v2}
    RawSize = 2
    MaxWaiting = 1
    FaultKinds = {"crash", "throw", "throwOnDelete"}
    MaxFaults = 1
SPECIFICATION StreamSpec
SYMMETRY VideoSymmetry
INVARIANT StreamTypeOK
INVARIANT ReadyIsComplete
PROPERTY ImplementsVideoStore
INVARIANT ServedFromWholeFile
PROPERTY BodyIsExact
CHECK_DEADLOCK FALSE
