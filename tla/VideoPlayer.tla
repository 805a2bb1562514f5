---------------------------- MODULE VideoPlayer ----------------------------
(***************************************************************************)
(* Watching a movie (pages/video-viewer): the page, its controls, the      *)
(* timeline and the player service they share.  The service outlives the   *)
(* page: the player of the page before, what it last reported and its      *)
(* subscriptions are still there when the next page opens.                 *)
(*                                                                         *)
(* The keyboard: the space bar pauses and resumes when tapped and doubles  *)
(* the speed while held, by an interval of 100 ms each keydown starts; a   *)
(* keyboard repeats keydown while a key is held.  Intervals run at the     *)
(* same pace, so between two ticks of one each other ticks once at most;   *)
(* that is left open here: any live interval may tick next.                *)
(*                                                                         *)
(* Times and positions on the timeline are points 0..MaxTime.  Angular     *)
(* renders after each event, which hands the timeline its inputs and lets  *)
(* it draw (mediaProgress); both are part of the event's action.  Seeking  *)
(* shows as the next time the player reports, which may be any.  The       *)
(* browser is taken to allow the page to play, and the film not to end.    *)
(***************************************************************************)
EXTENDS Naturals, FiniteSets

CONSTANTS MaxTime,    \* the end of the video
          MaxViews,   \* bound: pages opened
          MaxKeys     \* bound: keydown events of the space bar

VARIABLES
  page,             \* "closed", "asking" for the movie, "playing"
  views,            \* pages opened so far
  player,           \* the page whose player the service holds, 0 at first
  ready,            \* playerReady$: the last value, kept for new listeners
  listeners,        \* pages listening to playerReady$
  loading,          \* players that are not ready yet
  playing,          \* players that play
  eager,            \* autoplay: the player of the page may still start by itself
  early,            \* history: it did so before it was ready
  touched,          \* history: the user toggled the player since it was made
  rate,             \* its playback rate, 1 or 2
  isSpaceHeld, isSpeedToggled,
  intervals,        \* the intervals that run
  spaceHoldInterval,\* the one the component knows, 0 at first
  keys,             \* keydown events so far
  repeated,         \* history: the key was repeated while held
  now,              \* currentTime$ of the service
  currentTime,      \* of the timeline
  bound,            \* the value last bound to its input
  newTime,          \* where the pointer was last on the timeline
  isDragging,
  mouseUps,         \* listeners for the end of a drag, the last one known
  sought            \* the time the last drag asked for

viewVars == <<page, views, player, ready, listeners, loading, playing, eager, early, touched>>
keyVars == <<rate, isSpaceHeld, isSpeedToggled, intervals, spaceHoldInterval, keys, repeated>>
lineVars == <<now, currentTime, bound, newTime, isDragging, mouseUps, sought>>
playerVars == <<page, views, player, ready, listeners, loading, playing, eager, early, touched,
                rate, isSpaceHeld, isSpeedToggled, intervals, spaceHoldInterval, keys, repeated,
                now, currentTime, bound, newTime, isDragging, mouseUps, sought>>

Times == 0..MaxTime
Views == 1..MaxViews

PlayerTypeOK ==
  /\ page \in {"closed", "asking", "playing"}
  /\ views \in 0..MaxViews /\ player \in 0..MaxViews /\ ready \in BOOLEAN
  /\ UNION {listeners, loading, playing} \subseteq Views
  /\ {eager, early, touched} \subseteq BOOLEAN /\ rate \in {1, 2}
  /\ isSpaceHeld \in BOOLEAN /\ isSpeedToggled \in BOOLEAN /\ repeated \in BOOLEAN
  /\ intervals \subseteq 1..MaxKeys /\ spaceHoldInterval \in 0..MaxKeys /\ keys \in 0..MaxKeys
  /\ {now, currentTime, bound, newTime, sought} \subseteq Times
  /\ isDragging \in BOOLEAN /\ mouseUps \in 0..2

PlayerInit ==
  /\ page = "closed" /\ views = 0 /\ player = 0
  /\ ready = FALSE /\ listeners = {} /\ loading = {} /\ playing = {}
  /\ eager = FALSE /\ early = FALSE /\ touched = FALSE
  /\ rate = 1 /\ isSpaceHeld = FALSE /\ isSpeedToggled = FALSE
  /\ intervals = {} /\ spaceHoldInterval = 0 /\ keys = 0 /\ repeated = FALSE
  /\ now = 0 /\ currentTime = 0 /\ bound = 0 /\ newTime = 0
  /\ isDragging = FALSE /\ mouseUps = 0 /\ sought = 0

(***************************************************************************)
(* The page and the player service.                                        *)
(***************************************************************************)
\* togglePlay, n times over; without a player it does nothing.
Toggled(set, p, n) ==
  IF p = 0 \/ n % 2 = 0 THEN set
  ELSE (set \cup {p}) \ (set \cap {p})

\* ngOnInit: the player of the page before, if there was one, is toggled.
OpenViewer ==
  /\ page = "closed"
  /\ views < MaxViews
  /\ page' = "asking"
  /\ views' = views + 1
  /\ playing' = Toggled(playing, player, 1)
  /\ isSpaceHeld' = FALSE /\ isSpeedToggled' = FALSE /\ spaceHoldInterval' = 0
  /\ currentTime' = now /\ bound' = now /\ newTime' = 0 /\ isDragging' = FALSE /\ mouseUps' = 0
  /\ UNCHANGED <<player, ready, listeners, loading, eager, early, touched, rate, intervals, keys,
                 repeated, now, sought>>

\* Mutant: the player toggles though it is not ready yet.
SetupPlayerUnready ==
  /\ page = "asking"
  /\ page' = "playing"
  /\ player' = views
  /\ loading' = loading \cup {views}
  /\ listeners' = listeners \cup {views}
  /\ playing' = Toggled(playing, views, 1)
  /\ eager' = TRUE /\ early' = FALSE
  /\ touched' = FALSE
  /\ rate' = 1
  /\ UNCHANGED <<views, ready, isSpaceHeld, isSpeedToggled, intervals, spaceHoldInterval, keys,
                 repeated, lineVars>>

\* setupPlayer: a new player with autoplay, which the toggle of a readiness reported
\* before uses up.
SetupPlayer ==
  /\ page = "asking"
  /\ page' = "playing"
  /\ player' = views
  /\ loading' = loading \cup {views}
  /\ listeners' = listeners \cup {views}
  /\ playing' = Toggled(playing, views, IF ready THEN 1 ELSE 0)
  /\ eager' = ~ready /\ early' = FALSE
  /\ touched' = FALSE
  /\ rate' = 1
  /\ UNCHANGED <<views, ready, isSpaceHeld, isSpeedToggled, intervals, spaceHoldInterval, keys,
                 repeated, lineVars>>

\* The autoplay of the options: the video starts when there is enough of it, unless it
\* was played or paused already, be the player ready or not.
Autoplay ==
  /\ eager
  /\ eager' = FALSE
  /\ playing' = playing \cup {views}
  /\ early' = (views \in loading)
  /\ UNCHANGED <<page, views, player, ready, listeners, loading, touched, keyVars, lineVars>>

\* player.ready: every page that ever listened toggles the player of now, which pauses
\* one that autoplay has started.
PlayerReady(p) ==
  /\ p \in loading
  /\ loading' = loading \ {p}
  /\ ready' = TRUE
  /\ playing' = Toggled(playing, player, Cardinality(listeners))
  /\ eager' = FALSE
  /\ UNCHANGED <<page, views, player, listeners, early, touched, keyVars, lineVars>>

\* The page is left: the last interval ends, the key counts as released, and
\* the browser pauses the video that leaves the document.
LeaveViewer ==
  /\ page # "closed"
  /\ page' = "closed"
  /\ intervals' = intervals \ {spaceHoldInterval}
  /\ isSpaceHeld' = FALSE
  /\ isSpeedToggled' = FALSE
  /\ playing' = playing \ {views}
  /\ eager' = FALSE
  /\ isDragging' = FALSE
  /\ UNCHANGED <<views, player, ready, listeners, loading, early, touched, rate, spaceHoldInterval,
                 keys, repeated, now, currentTime, bound, newTime, mouseUps, sought>>

\* onTogglePlay: the button, or a click on the video.
TogglePlay ==
  /\ page # "closed"
  /\ playing' = Toggled(playing, player, 1)
  /\ eager' = FALSE
  /\ touched' = TRUE
  /\ UNCHANGED <<page, views, player, ready, listeners, loading, early, keyVars, lineVars>>

(***************************************************************************)
(* The space bar.                                                          *)
(***************************************************************************)
\* handleKeyboardEvent: pressed, or repeated by the keyboard.
SpaceDown ==
  /\ page # "closed"
  /\ keys < MaxKeys
  /\ keys' = keys + 1
  /\ repeated' = (repeated \/ isSpaceHeld)
  /\ isSpaceHeld' = TRUE
  /\ isSpeedToggled' = FALSE
  /\ intervals' = intervals \cup {keys'}
  /\ spaceHoldInterval' = keys'
  /\ UNCHANGED <<viewVars, rate, lineVars>>

\* A tick: an interval that finds the key released ends.
Tick(k) ==
  /\ k \in intervals
  /\ IF isSpaceHeld
     THEN /\ isSpeedToggled' = TRUE
          /\ rate' = IF player = 0 THEN rate ELSE 2
          /\ UNCHANGED intervals
     ELSE /\ intervals' = intervals \ {k}
          /\ UNCHANGED <<isSpeedToggled, rate>>
  /\ UNCHANGED <<viewVars, isSpaceHeld, spaceHoldInterval, keys, repeated, lineVars>>

\* Mutant: the tap is not told from the hold.
SpaceUpBoth ==
  /\ page # "closed"
  /\ IF isSpaceHeld THEN intervals' = intervals \ {spaceHoldInterval} ELSE UNCHANGED intervals
  /\ isSpaceHeld' = FALSE
  /\ rate' = IF isSpeedToggled THEN 1 ELSE rate
  /\ playing' = Toggled(playing, player, 1)
  /\ eager' = FALSE
  /\ touched' = TRUE
  /\ UNCHANGED <<page, views, player, ready, listeners, loading, early, isSpeedToggled,
                 spaceHoldInterval, keys, repeated, lineVars>>

\* handleKeyUp: the speed goes back, or the tap pauses or resumes.
SpaceUp ==
  /\ page # "closed"
  /\ IF isSpaceHeld THEN intervals' = intervals \ {spaceHoldInterval} ELSE UNCHANGED intervals
  /\ isSpaceHeld' = FALSE
  /\ IF isSpeedToggled
     THEN rate' = 1 /\ UNCHANGED <<playing, eager, touched>>
     ELSE /\ playing' = Toggled(playing, player, 1)
          /\ eager' = FALSE
          /\ touched' = TRUE
          /\ UNCHANGED rate
  /\ UNCHANGED <<page, views, player, ready, listeners, loading, early, isSpeedToggled,
                 spaceHoldInterval, keys, repeated, lineVars>>

(***************************************************************************)
(* The timeline.                                                           *)
(***************************************************************************)
\* Mutant: the time of the player is drawn during a drag.
RenderTime(input, dragging, pointed) ==
  /\ bound' = input
  /\ currentTime' = IF dragging /\ input = bound THEN pointed
                     ELSE IF input # bound THEN input ELSE currentTime

\* A rendering: the input if it changed, then mediaProgress.
Render(input, dragging, pointed) ==
  LET given == IF input # bound THEN input ELSE currentTime IN
  /\ bound' = input
  /\ currentTime' = IF dragging THEN pointed ELSE given

\* The player of this page, or one still playing, reports its time.
TimeUpdate(t) ==
  /\ playing # {}
  /\ now' = t
  /\ IF page = "closed" THEN UNCHANGED <<currentTime, bound>> ELSE Render(t, isDragging, newTime)
  /\ UNCHANGED <<viewVars, keyVars, newTime, isDragging, mouseUps, sought>>

\* onMouseDown: a listener for the release, even if there is one already.
MouseDown(x) ==
  /\ page # "closed"
  /\ isDragging' = TRUE
  /\ newTime' = x
  /\ mouseUps' = IF mouseUps < 2 THEN mouseUps + 1 ELSE mouseUps
  /\ Render(now, TRUE, x)
  /\ UNCHANGED <<viewVars, keyVars, now, sought>>

\* The pointer moves over the timeline.
MouseMove(x) ==
  /\ page # "closed"
  /\ newTime' = x
  /\ Render(now, isDragging, x)
  /\ UNCHANGED <<viewVars, keyVars, now, isDragging, mouseUps, sought>>

\* onMouseUp, wherever the pointer is by then: the time drawn last is sought
\* and the listener known last is removed; the others stay, without effect.
MouseUp(x) ==
  /\ mouseUps > 0
  /\ isDragging
  /\ isDragging' = FALSE
  /\ newTime' = x
  /\ sought' = currentTime
  /\ mouseUps' = mouseUps - 1
  /\ Render(now, FALSE, x)
  /\ UNCHANGED <<viewVars, keyVars, now>>

PlayerNext ==
  \/ OpenViewer \/ SetupPlayer \/ Autoplay \/ LeaveViewer \/ TogglePlay
  \/ \E p \in loading : PlayerReady(p)
  \/ SpaceDown \/ SpaceUp
  \/ \E k \in intervals : Tick(k)
  \/ \E t \in Times : TimeUpdate(t) \/ MouseDown(t) \/ MouseMove(t) \/ MouseUp(t)

(***************************************************************************)
(* Properties.                                                             *)
(***************************************************************************)
\* The speed is doubled only while the key is down: intervals that repeated
\* key events left behind never double it again once it is released.  As
\* long as the keyboard has not repeated the key, releasing it leaves the
\* speed normal, and a release that takes the doubled speed back does not
\* pause the player as well, whatever was held on the pages before.
SpaceBarIsObeyed ==
  /\ [][rate' = 2 /\ rate = 1 => isSpaceHeld]_rate
  /\ [][SpaceUp /\ isSpaceHeld /\ ~repeated /\ page = "playing" =>
          rate' = 1 /\ (rate = 2 => playing' = playing)]_<<isSpaceHeld, rate, playing>>

\* A drag seeks where the pointer was last on the timeline, though the video
\* plays on and reports its time during the drag, and nothing else on the
\* timeline seeks, whatever listeners earlier drags left behind.
SeeksWhereDragged ==
  [][sought' # sought => isDragging /\ sought' = newTime]_<<sought, isDragging>>

\* The first video watched after the page was loaded, if the user did not toggle it,
\* plays once its player is ready, unless autoplay was faster: then the toggle meant to
\* start it has stopped it, for good.  No other player plays.
FirstViewPlays ==
  views = 1 /\ page = "playing" =>
    /\ playing \subseteq {player}
    /\ ~touched /\ loading = {} => (playing = {player} <=> ~early)
=============================================================================
