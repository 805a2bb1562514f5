------------------------------ MODULE WebPages ------------------------------
(***************************************************************************)
(* The pages of the web client.  The router shows one page at a time and   *)
(* each page's component holds the page's state, so a behaviour here is a  *)
(* visit to one of them: the search bar (SearchBar), the page that adds a  *)
(* title (CreateTitle), the page of one movie (InspectPage) or the video   *)
(* player, whose service outlives its page (VideoPlayer).  The pages not   *)
(* shown keep the state they start with.                                   *)
(***************************************************************************)
EXTENDS Naturals, Sequences, FiniteSets

CONSTANTS Terms, Empty, Nothing, MaxTyped,
          Titles, WithBackdrop, Pics, None, MaxGiven, MaxSubmissions,
          Fields, ReleaseDate, MaxPosts, MaxActs,
          MaxTime, MaxViews, MaxKeys

VARIABLES
  route,        \* the page shown
  typed, waiting, lastTerm, asked, results, message, isLoading, crossed,
  tab, selectedMovie, form, imageFile, posterURL, selections, imageUrl, originalImage, crops,
  imports, gone, given, written, wanted, spoilt,
  managing, fromCreation, behind, server, movie, posterUrl, backdropUrl, auditLogs, popup, calls,
  timers, backdropLoads, logLoads, uploads, posts, whole, videos, subject, closed, heard,
  isUploadingVideo, progressOf, left, sent, unread, apart,
  page, views, player, ready, listeners, loading, playing, eager, early, touched, rate,
  isSpaceHeld, isSpeedToggled, intervals, spaceHoldInterval, keys, repeated, now, currentTime,
  bound, newTime, isDragging, mouseUps, sought

Search == INSTANCE SearchBar
Create == INSTANCE CreateTitle
Inspect == INSTANCE InspectPage WITH gone <- left
Watch == INSTANCE VideoPlayer

\* The bounds are numbers, and nothing is none of the things it stands for
\* the absence of.
ASSUME BoundsAssumption ==
  {MaxTyped, MaxGiven, MaxPosts, MaxActs, MaxTime, MaxViews, MaxKeys} \subseteq Nat
ASSUME NothingAssumption == Nothing \notin Terms \cup {Empty}
ASSUME NoneAssumption == None \notin Titles \cup Pics \cup Nat \cup Inspect!Parts

searchVars == <<typed, waiting, lastTerm, asked, results, message, isLoading, crossed>>
createVars == <<tab, selectedMovie, form, imageFile, posterURL, selections, imageUrl,
                originalImage, crops, imports, gone, given, written, wanted, spoilt>>
inspectVars == <<managing, fromCreation, behind, server, movie, posterUrl, backdropUrl, auditLogs,
                 popup, calls, timers, backdropLoads, logLoads, uploads, posts, whole, videos,
                 subject, closed, heard, isUploadingVideo, progressOf, left, sent, unread, apart>>
playerVars == <<page, views, player, ready, listeners, loading, playing, eager, early, touched,
                rate, isSpaceHeld, isSpeedToggled, intervals, spaceHoldInterval, keys, repeated,
                now, currentTime, bound, newTime, isDragging, mouseUps, sought>>
vars == <<route, searchVars, createVars, inspectVars, playerVars>>

Routes == {"search", "create", "inspect", "watch"}

\* The choices of a page's first state are left for its own route.
Init ==
  /\ route \in Routes
  /\ Search!SearchInit
  /\ Create!CreateInit /\ (route # "create" => tab = "import")
  /\ Inspect!InspectInit /\ (route # "inspect" => managing /\ fromCreation /\ ~behind)
  /\ Watch!PlayerInit

Visit(r) == route = r /\ UNCHANGED route

Next ==
  \/ /\ Visit("search")
     /\ Search!SearchNext
     /\ UNCHANGED <<createVars, inspectVars, playerVars>>
  \/ /\ Visit("create")
     /\ Create!CreateNext
     /\ UNCHANGED <<searchVars, inspectVars, playerVars>>
  \/ /\ Visit("inspect")
     /\ Inspect!InspectNext
     /\ UNCHANGED <<searchVars, createVars, playerVars>>
  \/ /\ Visit("watch")
     /\ Watch!PlayerNext
     /\ UNCHANGED <<searchVars, createVars, inspectVars>>

Spec == Init /\ [][Next]_vars

(***************************************************************************)
(* The properties of the pages, each stated and explained in its module.   *)
(***************************************************************************)
\* Every page keeps its types.
TypeOK ==
  /\ route \in Routes
  /\ Search!SearchTypeOK
  /\ Create!CreateTypeOK
  /\ Inspect!InspectTypeOK
  /\ Watch!PlayerTypeOK

\* The titles listed answer the last term, unless searches crossed.
ListsWhatWasAsked == Search!ListsWhatWasAsked

\* An import stores what the page showed, and no form nobody edited.
ImportStoresWhatWasShown == Create!ImportStoresWhatWasShown

\* The picture the form sends is the one given last.
PictureIsTheLastGiven == Create!PictureIsTheLastGiven

\* The page of a movie agrees with the server once nothing is under way, and
\* shows an upload exactly while it runs.
PageAgrees == Inspect!PageAgrees

\* A request changes of the movie what was asked for on the page, and the
\* date of release a day behind UTC.
ChangesAreOfTheMovieShown == Inspect!ChangesAreOfTheMovieShown

\* The space bar doubles the speed while it is held, and only then.
SpaceBarIsObeyed == Watch!SpaceBarIsObeyed

\* A drag of the timeline seeks where it ended.
SeeksWhereDragged == Watch!SeeksWhereDragged

\* The first video watched plays once it can, unless it started too early.
FirstViewPlays == Watch!FirstViewPlays
=============================================================================
