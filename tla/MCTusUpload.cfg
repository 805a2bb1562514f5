CONSTANTS
    u1 = u1
    u2 = u2
    u3 = u3
    NoUpload = NoUpload
    Uploads = {u1, u2, u3}
    MaxLength = 3
    Chunk = 2
    Retries = 2
    FaultKinds = {"cut", "crash", "throw", "abort", "delete"}
    MaxFaults = 3
SPECIFICATION FairSpec
PROPERTY ImplementsUploadStore
PROPERTY UploadEnds
PROPERTY DoneMeansVideo
CHECK_DEADLOCK FALSE
