CONSTANTS
    r1 = r1
    r2 = r2
    r3 = r3
    r4 = r4
    NoMovie = NoMovie
    Nothing = Nothing
    Default = Default
    Requests = {r1, r2, r3, r4}
    Names = {"a", "b"}
    Failing = TRUE
    Kinds = {"create", "import", "rename", "poster", "backdrop", "video", "publish", "unpublish", "delete"}
    Manners = {TRUE, FALSE}
    MaxSent = 3
SPECIFICATION MCSpec
SYMMETRY RequestSymmetry
INVARIANT UniqueHash
INVARIANT ImagesKept
INVARIANT VideosAreOfMovies
PROPERTY GoneForGood
PROPERTY OwnPartChanged
CHECK_DEADLOCK FALSE
