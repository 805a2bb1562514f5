CONSTANTS
    i1 = i1
    i2 = i2
    s1 = s1
    s2 = s2
    Images = {i1, i2}
    Sizes = {s1, s2}
    Decodable = {i1}
    Concurrency = 1
    LateOpens = TRUE
    FaultKinds = {"crash", "throw"}
    MaxFaults = 1
SPECIFICATION Spec
SYMMETRY SizeSymmetry
INVARIANT MadeIsWhole
PROPERTY ImplementsImageStore
CHECK_DEADLOCK FALSE
