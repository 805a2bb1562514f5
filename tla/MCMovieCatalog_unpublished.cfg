CONSTANTS
    r1 = r1
    r2 = r2
    r3 = r3
    r4 = r4
    NoMovie = NoMovie
    Nothing = Nothing
    Default = Default
    Requests = {r1, r2, r3}
    Names = {"a"}
    Failing = FALSE
    Kinds = {"create", "poster", "publish"}
    Manners = {FALSE}
    MaxSent = 3
SPECIFICATION MCSpec
SYMMETRY RequestSymmetry
PROPERTY PublishSticks
CHECK_DEADLOCK FALSE
