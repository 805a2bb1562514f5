CONSTANTS
    i1 = i1
    i2 = i2
    s1 = s1
    s2 = s2
    Images = {i1, i2}
    Sizes = {s1, s2}
    Decodable = {i1, i2}
    Concurrency = 1
    LateOpens = FALSE
    FaultKinds = {"crash"}
    MaxFaults = 1
SPECIFICATION FairSpec
PROPERTY ImageSettles
PROPERTY DeletionSettles
CHECK_DEADLOCK FALSE
