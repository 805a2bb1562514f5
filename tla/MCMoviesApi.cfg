CONSTANTS
    r1 = r1
    r2 = r2
    m1 = m1
    m2 = m2
    c1 = c1
    Movies = {m1, m2}
    Requests = {r1, r2}
    Readers = {c1}
    NoList = NoList
    TTL = 1
    MaxRead = 1
    MaxTime = 3
    MaxFaults = 1
SPECIFICATION Spec
INVARIANT LogIsTrue
INVARIANT ListIsRight
SYMMETRY Symmetry
CHECK_DEADLOCK FALSE
