SPECIFICATION Spec
CONSTANTS
  Terms = {t1, t2}
  Empty = Empty
  Nothing = Nothing
  MaxTyped = 5
  Titles = {a, b}
  WithBackdrop = {a}
  Pics = {p}
  None = None
  MaxGiven = 2
  MaxSubmissions = 1
  Fields = {f, g}
  ReleaseDate = f
  MaxPosts = 1
  MaxActs = 2
  MaxTime = 1
  MaxViews = 2
  MaxKeys = 3
CONSTRAINT Together
INVARIANT TypeOK
INVARIANT ListsWhatWasAsked
INVARIANT ImportStoresWhatWasShown
INVARIANT PictureIsTheLastGiven
INVARIANT PageAgrees
INVARIANT FirstViewPlays
PROPERTY ChangesAreOfTheMovieShown
PROPERTY SpaceBarIsObeyed
PROPERTY SeeksWhereDragged
CHECK_DEADLOCK FALSE
