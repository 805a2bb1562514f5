CONSTANTS
    v1 = v1
    v2 = v2
    NoVideo = NoVideo
    Videos = {v1, v2}
    Genuine = {v1}
    RawSize = 1
    MaxWaiting = 1
    FaultKinds = {"crash", "throw", "throwOnDelete"}
    MaxFaults = 2
SPECIFICATION FairSpec
CONSTRAINT OnlyCrashesTwice
PROPERTY UploadSettles
PROPERTY DeletionSettles
CHECK_DEADLOCK FALSE
