---------------------------- MODULE WebPagesProofs ----------------------------
(***************************************************************************)
(* What is proved of the pages of the web client, for every set of terms,  *)
(* titles, pictures and fields and for any number of the user's acts.      *)
(*                                                                         *)
(* A page changes only while it is shown, so each has an inductive         *)
(* invariant of its own, over its own variables.                           *)
(***************************************************************************)
EXTENDS WebPages, FiniteSetTheorems, TLAPS

-----------------------------------------------------------------------------
(* The constants *)

LEMMA Bounds ==
    /\ MaxTyped \in Nat /\ MaxGiven \in Nat /\ MaxActs \in Nat /\ MaxPosts \in Nat
    /\ MaxTime \in Nat /\ MaxViews \in Nat /\ MaxKeys \in Nat
  BY BoundsAssumption

LEMMA Nothings ==
    /\ Nothing # Empty /\ Nothing \notin Terms
    /\ None \notin Titles /\ None \notin Pics /\ None \notin Nat /\ None \notin Inspect!Parts
  BY NothingAssumption, NoneAssumption

-----------------------------------------------------------------------------
(* The pages do not touch one another *)

LEMMA StepOfOnePage ==
    ASSUME [Next]_vars
    PROVE  /\ [Search!SearchNext]_searchVars
           /\ [Create!CreateNext]_createVars
           /\ [Inspect!InspectNext]_inspectVars
           /\ [Watch!PlayerNext]_playerVars
           /\ route' = route
  BY DEF Next, vars, Visit

-----------------------------------------------------------------------------
(* The search bar *)

\* Searches that did not cross are one at a time, for the last term.
OneSearch ==
  ~crossed => /\ \A q \in asked : q.term = lastTerm
              /\ \A p, q \in asked : p = q

\* A term that waits was typed.
TypedFirst == waiting # Nothing => typed > 0

SearchInv ==
  /\ Search!SearchTypeOK
  /\ OneSearch
  /\ TypedFirst
  /\ ListsWhatWasAsked

LEMMA SearchStarts == Search!SearchInit => SearchInv
  <1> SUFFICES ASSUME Search!SearchInit PROVE SearchInv
    OBVIOUS
  <1>1. Search!SearchTypeOK
    <2>1. typed \in 0..MaxTyped
      BY Bounds DEF Search!SearchInit
    <2>2. QED
      BY <2>1 DEF Search!SearchTypeOK, Search!SearchInit
  <1> USE DEF Search!SearchInit
  <1>2. OneSearch /\ TypedFirst
    BY DEF OneSearch, TypedFirst
  <1>3. ListsWhatWasAsked
    BY DEF ListsWhatWasAsked, Search!ListsWhatWasAsked
  <1>4. QED
    BY <1>1, <1>2, <1>3 DEF SearchInv

LEMMA SearchStep ==
    ASSUME SearchInv, [Search!SearchNext]_searchVars
    PROVE  SearchInv'
  <1> USE DEF SearchInv
  <1>1. ASSUME NEW t \in Terms \cup {Empty}, Search!Type(t)
        PROVE  SearchInv'
    <2>1. typed \in 0..MaxTyped /\ typed < MaxTyped /\ typed' = typed + 1
      BY <1>1 DEF Search!Type, Search!SearchTypeOK
    <2>2. typed' \in 0..MaxTyped /\ typed' > 0
      BY <2>1, Bounds
    <2>3. Search!SearchTypeOK'
      BY <1>1, <2>2 DEF Search!Type, Search!SearchTypeOK
    <2>4. OneSearch' /\ TypedFirst'
      BY <1>1, <2>2 DEF Search!Type, OneSearch, TypedFirst
    <2>5. ListsWhatWasAsked'
      BY <1>1 DEF Search!Type, ListsWhatWasAsked, Search!ListsWhatWasAsked
    <2>6. QED
      BY <2>3, <2>4, <2>5
  <1>2. CASE Search!PerformSearch
    <2>1. /\ waiting # Nothing /\ waiting # Empty
          /\ lastTerm' = waiting /\ waiting' = Nothing
          /\ isLoading' = TRUE
          /\ asked' = asked \cup {[no |-> typed, term |-> waiting]}
          /\ UNCHANGED <<typed, results, message>>
      BY <1>2 DEF Search!PerformSearch, Search!HandleTerm
    <2>2. crossed' \in BOOLEAN /\ (~crossed' => ~crossed /\ asked = {})
      BY <1>2 DEF Search!PerformSearch, Search!HandleTerm
    <2>3. waiting \in Terms /\ typed \in 0..MaxTyped /\ typed > 0
      BY <2>1 DEF Search!SearchTypeOK, TypedFirst
    <2>4. typed \in 1..MaxTyped
      BY <2>3, Bounds
    <2>5. Search!SearchTypeOK'
      <3>1. [no |-> typed, term |-> waiting] \in [no : 1..MaxTyped, term : Terms]
        BY <2>3, <2>4
      <3>2. QED
        BY <2>1, <2>2, <2>3, <3>1 DEF Search!SearchTypeOK
    <2>6. OneSearch' /\ TypedFirst'
      BY <2>1, <2>2 DEF OneSearch, TypedFirst
    <2>7. ListsWhatWasAsked'
      BY <2>1, <2>2 DEF ListsWhatWasAsked, Search!ListsWhatWasAsked
    <2>8. QED
      BY <2>5, <2>6, <2>7
  <1> USE Nothings DEF Search!SearchTypeOK, OneSearch, TypedFirst, ListsWhatWasAsked,
                       Search!ListsWhatWasAsked
  <1>3. CASE Search!SameTerm
    BY <1>3 DEF Search!SameTerm
  <1>4. CASE Search!ClearResults
    <2> USE <1>4 DEF Search!ClearResults, Search!HandleTerm
    <2>1. Search!SearchTypeOK'
      OBVIOUS
    <2>2. OneSearch' /\ TypedFirst'
      OBVIOUS
    <2>3. ListsWhatWasAsked'
      OBVIOUS
    <2>4. QED
      BY <2>1, <2>2, <2>3
  <1>5. ASSUME NEW q \in asked, Search!ShowResults(q)
        PROVE  SearchInv'
    BY <1>5 DEF Search!ShowResults
  <1>6. ASSUME NEW q \in asked, Search!SearchFails(q)
        PROVE  SearchInv'
    BY <1>6 DEF Search!SearchFails
  <1>7. CASE Search!SelectMovie
    BY <1>7 DEF Search!SelectMovie
  <1>8. CASE UNCHANGED searchVars
    BY <1>8 DEF searchVars
  <1>9. QED
    BY <1>1, <1>2, <1>3, <1>4, <1>5, <1>6, <1>7, <1>8 DEF Search!SearchNext

LEMMA SearchInvariant == Spec => []SearchInv
  <1>1. Init => SearchInv
    BY SearchStarts DEF Init
  <1>2. SearchInv /\ [Next]_vars => SearchInv'
    BY StepOfOnePage, SearchStep
  <1>3. QED
    BY <1>1, <1>2, PTL DEF Spec

\* Unless searches crossed, the titles listed once nothing is under way answer
\* the last term, and the throbber shows exactly while a search is on
\* (search-bar.component.ts:69-123).
THEOREM ListsCorrect == Spec => []ListsWhatWasAsked
  <1>1. SearchInv => ListsWhatWasAsked
    BY DEF SearchInv
  <1>2. QED
    BY <1>1, SearchInvariant, PTL

-----------------------------------------------------------------------------
(* The video player *)

ViewOpened == (page # "closed" => views > 0) /\ (eager => page = "playing")

\* Up to the first player nothing was made, and while the first page is open
\* only its own player is there: unless the user toggled it, it waits until
\* it is ready and plays from then on, or the other way round if autoplay was
\* faster.
NoPlayerYet == player = 0 /\ playing = {} /\ loading = {} /\ listeners = {} /\ ~ready

FirstView ==
  /\ views = 0 => page = "closed" /\ NoPlayerYet
  /\ views = 1 /\ page = "asking" => NoPlayerYet
  /\ views = 1 /\ page = "playing" =>
       /\ player = 1 /\ listeners = {1} /\ loading \subseteq {1} /\ playing \subseteq {1}
       /\ eager => 1 \in loading /\ playing = {} /\ ~early /\ ~touched
       /\ ~touched => (playing = {1} <=> (1 \in loading <=> early))

\* As long as no key was repeated, the speed is doubled by the key held down.
SpeedIsHeld == page = "playing" /\ ~repeated /\ rate = 2 => isSpaceHeld /\ isSpeedToggled

\* During a drag the timeline shows where the pointer is.
DragFollows == isDragging => page # "closed" /\ currentTime = newTime

\* The types of the page with its players, of the keyboard and of the timeline.
ViewTypes ==
  /\ page \in {"closed", "asking", "playing"}
  /\ views \in 0..MaxViews /\ player \in 0..MaxViews /\ ready \in BOOLEAN
  /\ listeners \subseteq Watch!Views /\ loading \subseteq Watch!Views
  /\ playing \subseteq Watch!Views
  /\ eager \in BOOLEAN /\ early \in BOOLEAN /\ touched \in BOOLEAN

KeyTypes ==
  /\ rate \in {1, 2}
  /\ isSpaceHeld \in BOOLEAN /\ isSpeedToggled \in BOOLEAN /\ repeated \in BOOLEAN
  /\ intervals \subseteq 1..MaxKeys /\ spaceHoldInterval \in 0..MaxKeys /\ keys \in 0..MaxKeys

LineTypes ==
  /\ now \in Watch!Times /\ currentTime \in Watch!Times /\ bound \in Watch!Times
  /\ newTime \in Watch!Times /\ sought \in Watch!Times
  /\ isDragging \in BOOLEAN /\ mouseUps \in 0..2

PlayerInv ==
  /\ ViewTypes
  /\ KeyTypes
  /\ LineTypes
  /\ ViewOpened
  /\ FirstView
  /\ SpeedIsHeld
  /\ DragFollows

LEMMA PlayerTyped == PlayerInv => Watch!PlayerTypeOK
  BY DEF PlayerInv, ViewTypes, KeyTypes, LineTypes, Watch!PlayerTypeOK

LEMMA ToggledIsSubset ==
    ASSUME NEW V, NEW S \in SUBSET V, NEW p, p = 0 \/ p \in V, NEW n
    PROVE  Watch!Toggled(S, p, n) \in SUBSET V
  BY DEF Watch!Toggled

\* The instance counts with the operator of its own copy of FiniteSets.
LEMMA CountedAlike == \A S : Watch!Cardinality(S) = Cardinality(S)
  BY DEF Watch!Cardinality, Cardinality

LEMMA ToggledOnce ==
    ASSUME NEW S, NEW p
    PROVE  /\ Watch!Toggled(S, 0, 1) = S
           /\ p # 0 => Watch!Toggled(S, p, 1) = (S \cup {p}) \ (S \cap {p})
           /\ Watch!Toggled(S, p, 0) = S
  BY DEF Watch!Toggled

LEMMA PlayerStarts == Watch!PlayerInit => PlayerInv
  <1> SUFFICES ASSUME Watch!PlayerInit PROVE PlayerInv
    OBVIOUS
  <1>1. ViewTypes /\ KeyTypes /\ LineTypes
    <2>1. 0 \in 0..MaxViews /\ 0 \in 0..MaxKeys /\ 0 \in 0..MaxTime /\ 0 \in 0..2
      BY Bounds
    <2>2. ViewTypes
      BY <2>1 DEF Watch!PlayerInit, ViewTypes
    <2>3. KeyTypes
      <3>1. rate = 1 /\ rate \in {1, 2} /\ intervals \subseteq 1..MaxKeys
        BY DEF Watch!PlayerInit
      <3>2. QED
        BY <2>1, <3>1, Zenon DEF Watch!PlayerInit, KeyTypes
    <2>4. LineTypes
      BY <2>1, Zenon DEF Watch!PlayerInit, LineTypes, Watch!Times
    <2>5. QED
      BY <2>2, <2>3, <2>4
  <1>2. ViewOpened /\ SpeedIsHeld /\ DragFollows
    BY DEF Watch!PlayerInit, ViewOpened, SpeedIsHeld, DragFollows
  <1>3. FirstView
    BY DEF Watch!PlayerInit, FirstView, NoPlayerYet
  <1>4. QED
    BY <1>1, <1>2, <1>3 DEF PlayerInv

LEMMA ViewStep ==
    ASSUME PlayerInv, [Watch!PlayerNext]_playerVars
    PROVE  ViewTypes' /\ ViewOpened'
  <1> USE DEF ViewTypes, ViewOpened
  <1>0. ViewTypes /\ ViewOpened
    BY DEF PlayerInv
  <1>1. \A n : Watch!Toggled(playing, player, n) \subseteq Watch!Views
    <2>1. player = 0 \/ player \in Watch!Views
      BY <1>0, Bounds DEF Watch!Views
    <2>2. QED
      BY <1>0, <2>1, ToggledIsSubset
  <1>2. CASE Watch!OpenViewer
    <2>1. page' = "asking" /\ views' = views + 1 /\ views < MaxViews
      BY <1>2 DEF Watch!OpenViewer
    <2>2. views' \in 0..MaxViews /\ views' > 0
      BY <1>0, <2>1, Bounds
    <2>3. playing' \subseteq Watch!Views
      BY <1>1, <1>2 DEF Watch!OpenViewer
    <2>4. QED
      BY <1>0, <1>2, <2>1, <2>2, <2>3 DEF Watch!OpenViewer
  <1>3. CASE Watch!SetupPlayer
    <2>1. views \in Watch!Views
      BY <1>0, <1>3, Bounds DEF Watch!SetupPlayer, Watch!Views
    <2>2. playing' \subseteq Watch!Views
      BY <1>0, <1>3, <2>1, ToggledIsSubset DEF Watch!SetupPlayer
    <2>3. /\ page' = "playing" /\ player' = views /\ loading' = loading \cup {views}
          /\ listeners' = listeners \cup {views} /\ eager' = ~ready /\ early' = FALSE
          /\ touched' = FALSE /\ UNCHANGED <<views, ready>>
      BY <1>3 DEF Watch!SetupPlayer
    <2>4. ViewTypes'
      <3>1. eager' \in BOOLEAN /\ early' \in BOOLEAN /\ touched' \in BOOLEAN
        BY <2>3
      <3>2. QED
        BY <1>0, <2>1, <2>2, <2>3, <3>1
    <2>5. ViewOpened'
      BY <1>0, <1>3, <2>3 DEF Watch!SetupPlayer
    <2>6. QED
      BY <2>4, <2>5
  <1>4. CASE Watch!LeaveViewer
    BY <1>0, <1>4 DEF Watch!LeaveViewer
  <1>a. CASE Watch!Autoplay
    <2>1. views \in Watch!Views
      BY <1>0, <1>a, Bounds DEF Watch!Autoplay, Watch!Views
    <2>2. /\ eager' = FALSE /\ playing' = playing \cup {views} /\ early' = (views \in loading)
          /\ UNCHANGED <<page, views, player, ready, listeners, loading, touched>>
      BY <1>a DEF Watch!Autoplay
    <2>3. early' \in BOOLEAN
      BY <2>2
    <2>4. ViewTypes'
      BY <1>0, <2>1, <2>2, <2>3
    <2>5. QED
      BY <1>0, <2>2, <2>4
  <1>5. CASE Watch!TogglePlay
    BY <1>0, <1>1, <1>5 DEF Watch!TogglePlay
  <1>6. ASSUME NEW p \in loading, Watch!PlayerReady(p)
        PROVE  ViewTypes' /\ ViewOpened'
    BY <1>0, <1>1, <1>6 DEF Watch!PlayerReady
  <1>7. CASE Watch!SpaceUp
    BY <1>0, <1>1, <1>7 DEF Watch!SpaceUp
  <1>8. ASSUME UNCHANGED <<page, views, player, ready, listeners, loading, playing, eager, early,
                           touched>>
        PROVE  ViewTypes' /\ ViewOpened'
    BY <1>0, <1>8
  <1>9. CASE Watch!SpaceDown
    BY <1>8, <1>9 DEF Watch!SpaceDown, Watch!viewVars
  <1>10. ASSUME NEW k \in intervals, Watch!Tick(k)
         PROVE  ViewTypes' /\ ViewOpened'
    BY <1>8, <1>10 DEF Watch!Tick, Watch!viewVars
  <1>11. ASSUME NEW t \in Watch!Times, \/ Watch!TimeUpdate(t) \/ Watch!MouseDown(t)
                                       \/ Watch!MouseMove(t) \/ Watch!MouseUp(t)
         PROVE  ViewTypes' /\ ViewOpened'
    BY <1>8, <1>11 DEF Watch!TimeUpdate, Watch!MouseDown, Watch!MouseMove, Watch!MouseUp,
                       Watch!viewVars
  <1>12. CASE UNCHANGED playerVars
    BY <1>8, <1>12 DEF playerVars
  <1>13. QED
    BY <1>2, <1>3, <1>4, <1>a, <1>5, <1>6, <1>7, <1>9, <1>10, <1>11, <1>12 DEF Watch!PlayerNext

LEMMA KeyStep ==
    ASSUME PlayerInv, [Watch!PlayerNext]_playerVars
    PROVE  KeyTypes' /\ SpeedIsHeld'
  <1>1. KeyTypes /\ SpeedIsHeld /\ page \in {"closed", "asking", "playing"}
    BY DEF PlayerInv, ViewTypes
  <1>2. CASE Watch!OpenViewer
    <2>1. 0 \in 0..MaxKeys
      BY Bounds
    <2>2. QED
      BY <1>1, <1>2, <2>1 DEF Watch!OpenViewer, KeyTypes, SpeedIsHeld
  <1>3. CASE Watch!SetupPlayer
    BY <1>1, <1>3 DEF Watch!SetupPlayer, KeyTypes, SpeedIsHeld
  <1>4. CASE Watch!LeaveViewer
    BY <1>1, <1>4 DEF Watch!LeaveViewer, KeyTypes, SpeedIsHeld
  <1>5. CASE Watch!SpaceUp
    <2>1. /\ isSpaceHeld' = FALSE /\ intervals' \subseteq intervals
          /\ UNCHANGED <<page, isSpeedToggled, spaceHoldInterval, keys, repeated>>
      BY <1>5 DEF Watch!SpaceUp
    <2>2. rate' \in {1, 2} /\ (rate' = 2 => rate = 2 /\ ~isSpeedToggled)
      BY <1>1, <1>5 DEF Watch!SpaceUp, KeyTypes
    <2>3. KeyTypes'
      BY <1>1, <2>1, <2>2 DEF KeyTypes
    <2>4. SpeedIsHeld'
      BY <1>1, <2>1, <2>2 DEF SpeedIsHeld
    <2>5. QED
      BY <2>3, <2>4
  <1>6. CASE Watch!SpaceDown
    <2>1. keys \in 0..MaxKeys /\ keys < MaxKeys /\ keys' = keys + 1
      BY <1>1, <1>6 DEF Watch!SpaceDown, KeyTypes
    <2>2. keys' \in 0..MaxKeys /\ keys' \in 1..MaxKeys
      BY <2>1, Bounds
    <2>3. repeated' \in BOOLEAN /\ (~repeated' => ~repeated /\ ~isSpaceHeld)
      BY <1>1, <1>6 DEF Watch!SpaceDown, KeyTypes
    <2>4. KeyTypes'
      BY <1>1, <1>6, <2>2, <2>3 DEF Watch!SpaceDown, KeyTypes
    <2>5. SpeedIsHeld'
      BY <1>1, <1>6, <2>3 DEF Watch!SpaceDown, Watch!viewVars, KeyTypes, SpeedIsHeld
    <2>6. QED
      BY <2>4, <2>5
  <1>7. ASSUME NEW k \in intervals, Watch!Tick(k)
        PROVE  KeyTypes' /\ SpeedIsHeld'
    BY <1>1, <1>7 DEF Watch!Tick, Watch!viewVars, KeyTypes, SpeedIsHeld
  <1>8. ASSUME page' = page, UNCHANGED <<rate, isSpaceHeld, isSpeedToggled, intervals,
                                         spaceHoldInterval, keys, repeated>>
        PROVE  KeyTypes' /\ SpeedIsHeld'
    BY <1>1, <1>8 DEF KeyTypes, SpeedIsHeld
  <1>9. CASE Watch!TogglePlay \/ Watch!Autoplay
    BY <1>8, <1>9 DEF Watch!TogglePlay, Watch!Autoplay, Watch!keyVars
  <1>10. ASSUME NEW p \in loading, Watch!PlayerReady(p)
         PROVE  KeyTypes' /\ SpeedIsHeld'
    BY <1>8, <1>10 DEF Watch!PlayerReady, Watch!keyVars
  <1>11. ASSUME NEW t \in Watch!Times, \/ Watch!TimeUpdate(t) \/ Watch!MouseDown(t)
                                       \/ Watch!MouseMove(t) \/ Watch!MouseUp(t)
         PROVE  KeyTypes' /\ SpeedIsHeld'
    BY <1>8, <1>11 DEF Watch!TimeUpdate, Watch!MouseDown, Watch!MouseMove, Watch!MouseUp,
                       Watch!viewVars, Watch!keyVars
  <1>12. CASE UNCHANGED playerVars
    BY <1>8, <1>12 DEF playerVars
  <1>13. QED
    BY <1>2, <1>3, <1>4, <1>5, <1>6, <1>7, <1>9, <1>10, <1>11, <1>12 DEF Watch!PlayerNext

LEMMA LineStep ==
    ASSUME PlayerInv, [Watch!PlayerNext]_playerVars
    PROVE  LineTypes' /\ DragFollows'
  <1>1. LineTypes /\ DragFollows
    BY DEF PlayerInv
  <1>2. CASE Watch!OpenViewer
    <2>1. 0 \in Watch!Times /\ 0 \in 0..2
      BY Bounds DEF Watch!Times
    <2>2. QED
      BY <1>1, <1>2, <2>1 DEF Watch!OpenViewer, LineTypes, DragFollows
  <1>3. CASE Watch!LeaveViewer
    BY <1>1, <1>3 DEF Watch!LeaveViewer, LineTypes, DragFollows
  <1>4. ASSUME NEW t \in Watch!Times, Watch!TimeUpdate(t)
        PROVE  LineTypes' /\ DragFollows'
    BY <1>1, <1>4 DEF Watch!TimeUpdate, Watch!Render, Watch!viewVars, LineTypes, DragFollows
  <1>5. ASSUME NEW x \in Watch!Times, Watch!MouseDown(x)
        PROVE  LineTypes' /\ DragFollows'
    <2>1. mouseUps' \in 0..2
      BY <1>1, <1>5 DEF Watch!MouseDown, LineTypes
    <2>2. QED
      BY <1>1, <1>5, <2>1 DEF Watch!MouseDown, Watch!Render, Watch!viewVars, LineTypes, DragFollows
  <1>6. ASSUME NEW x \in Watch!Times, Watch!MouseMove(x)
        PROVE  LineTypes' /\ DragFollows'
    BY <1>1, <1>6 DEF Watch!MouseMove, Watch!Render, Watch!viewVars, LineTypes, DragFollows
  <1>7. ASSUME NEW x \in Watch!Times, Watch!MouseUp(x)
        PROVE  LineTypes' /\ DragFollows'
    <2>1. mouseUps' \in 0..2
      BY <1>1, <1>7 DEF Watch!MouseUp, LineTypes
    <2>2. QED
      BY <1>1, <1>7, <2>1 DEF Watch!MouseUp, Watch!Render, LineTypes, DragFollows
  <1>8. ASSUME page # "closed" => page' # "closed",
               UNCHANGED <<now, currentTime, bound, newTime, isDragging, mouseUps, sought>>
        PROVE  LineTypes' /\ DragFollows'
    BY <1>1, <1>8 DEF LineTypes, DragFollows
  <1>9. CASE \/ Watch!SetupPlayer \/ Watch!Autoplay \/ Watch!TogglePlay
             \/ Watch!SpaceDown \/ Watch!SpaceUp
    BY <1>8, <1>9 DEF Watch!SetupPlayer, Watch!Autoplay, Watch!TogglePlay, Watch!SpaceDown,
                      Watch!SpaceUp, Watch!viewVars, Watch!lineVars
  <1>10. ASSUME NEW p \in loading, Watch!PlayerReady(p)
         PROVE  LineTypes' /\ DragFollows'
    BY <1>8, <1>10 DEF Watch!PlayerReady, Watch!lineVars
  <1>11. ASSUME NEW k \in intervals, Watch!Tick(k)
         PROVE  LineTypes' /\ DragFollows'
    BY <1>8, <1>11 DEF Watch!Tick, Watch!viewVars, Watch!lineVars
  <1>12. CASE UNCHANGED playerVars
    BY <1>8, <1>12 DEF playerVars
  <1>13. QED
    BY <1>2, <1>3, <1>4, <1>5, <1>6, <1>7, <1>9, <1>10, <1>11, <1>12 DEF Watch!PlayerNext

LEMMA FirstViewStep ==
    ASSUME PlayerInv, [Watch!PlayerNext]_playerVars
    PROVE  FirstView'
  <1>1. ViewTypes /\ ViewOpened /\ FirstView
    BY DEF PlayerInv
  <1> USE DEF FirstView, NoPlayerYet
  <1>2. CASE Watch!OpenViewer
    <2>1. views' = views + 1 /\ views \in Nat /\ page' = "asking"
      BY <1>1, <1>2, Bounds DEF Watch!OpenViewer, ViewTypes
    <2>2. views' # 0 /\ (views' = 1 => views = 0)
      BY <2>1
    <2>3. views = 0 => NoPlayerYet'
      BY <1>1, <1>2, ToggledOnce DEF Watch!OpenViewer
    <2>4. QED
      BY <2>1, <2>2, <2>3
  <1>3. CASE Watch!SetupPlayer
    <2>1. page = "asking" /\ page' = "playing" /\ views' = views
      BY <1>3 DEF Watch!SetupPlayer
    <2>2. views # 0
      BY <1>1, <2>1
    <2>3. ASSUME views = 1
          PROVE  /\ player' = 1 /\ listeners' = {1} /\ loading' = {1} /\ playing' = {}
                 /\ ~early' /\ ~touched'
      <3>1. NoPlayerYet
        BY <1>1, <2>1, <2>3
      <3>2. playing' = Watch!Toggled({}, 1, 0)
        BY <1>3, <2>3, <3>1 DEF Watch!SetupPlayer
      <3>3. QED
        BY <1>3, <2>3, <3>1, <3>2, ToggledOnce DEF Watch!SetupPlayer
    <2>4. QED
      BY <2>1, <2>2, <2>3
  <1>4. CASE Watch!LeaveViewer
    BY <1>1, <1>4 DEF Watch!LeaveViewer
  <1>a. CASE Watch!Autoplay
    <2>1. /\ eager /\ ~eager' /\ playing' = playing \cup {views} /\ early' = (views \in loading)
          /\ UNCHANGED <<page, views, player, ready, listeners, loading, touched>>
      BY <1>a DEF Watch!Autoplay
    <2>2. page = "playing" /\ views > 0
      BY <1>1, <2>1 DEF ViewOpened
    <2>3. ASSUME views = 1
          PROVE  /\ playing' = {1} /\ early' = TRUE
                 /\ player' = 1 /\ listeners' = {1} /\ loading' \subseteq {1} /\ 1 \in loading'
      BY <1>1, <2>1, <2>2, <2>3
    <2>4. QED
      BY <1>1, <2>1, <2>2, <2>3, Bounds DEF ViewTypes
  <1>5. ASSUME NEW p \in loading, Watch!PlayerReady(p)
        PROVE  FirstView'
    <2>1. /\ UNCHANGED <<page, views, player, listeners, early, touched>>
          /\ loading' = loading \ {p} /\ ~eager'
      BY <1>5 DEF Watch!PlayerReady
    <2>2. CASE views = 1 /\ page = "playing"
      <3>1. player = 1 /\ listeners = {1} /\ loading = {1} /\ p = 1 /\ playing \subseteq {1}
        BY <1>1, <1>5, <2>2
      <3>2. Cardinality(listeners) = 1
        BY <3>1, FS_Singleton
      <3>3. playing' = Watch!Toggled(playing, 1, 1)
        <4>1. playing' = Watch!Toggled(playing, player, Cardinality(listeners))
          BY <1>5, CountedAlike DEF Watch!PlayerReady
        <4>2. QED
          BY <3>1, <3>2, <4>1
      <3>4. playing' = (playing \cup {1}) \ (playing \cap {1})
        BY <3>3, ToggledOnce
      <3>5. loading' = {} /\ playing' \subseteq {1} /\ (playing' = {1} <=> playing # {1})
        BY <2>1, <3>1, <3>4
      <3>6. ~touched => (playing = {1} <=> early)
        BY <1>1, <2>2, <3>1
      <3>7. QED
        BY <2>1, <2>2, <3>1, <3>5, <3>6
    <2>3. CASE ~(views = 1 /\ page = "playing")
      BY <1>1, <1>5, <2>1, <2>3
    <2>4. QED
      BY <2>2, <2>3
  <1>6. ASSUME playing' = Watch!Toggled(playing, player, 1), eager' = FALSE, touched' = TRUE,
               page # "closed", UNCHANGED <<page, views, player, ready, listeners, loading>>
        PROVE  FirstView'
    <2>1. views # 0
      BY <1>1, <1>6
    <2>2. CASE views = 1 /\ page = "asking"
      BY <1>1, <1>6, <2>2, ToggledOnce
    <2>3. CASE views = 1 /\ page = "playing"
      <3>1. playing' = (playing \cup {1}) \ (playing \cap {1})
        BY <1>1, <1>6, <2>3, ToggledOnce
      <3>2. QED
        BY <1>1, <1>6, <2>3, <3>1
    <2>4. QED
      BY <1>6, <2>1, <2>2, <2>3
  <1>7. ASSUME UNCHANGED <<page, views, player, ready, listeners, loading, playing, eager, early,
                           touched>>
        PROVE  FirstView'
    BY <1>1, <1>7
  <1>8. CASE Watch!TogglePlay
    BY <1>6, <1>8 DEF Watch!TogglePlay
  <1>9. CASE Watch!SpaceUp
    BY <1>6, <1>7, <1>9 DEF Watch!SpaceUp
  <1>10. CASE Watch!SpaceDown
    BY <1>7, <1>10 DEF Watch!SpaceDown, Watch!viewVars
  <1>11. ASSUME NEW k \in intervals, Watch!Tick(k)
         PROVE  FirstView'
    BY <1>7, <1>11 DEF Watch!Tick, Watch!viewVars
  <1>12. ASSUME NEW t \in Watch!Times, \/ Watch!TimeUpdate(t) \/ Watch!MouseDown(t)
                                       \/ Watch!MouseMove(t) \/ Watch!MouseUp(t)
         PROVE  FirstView'
    BY <1>7, <1>12 DEF Watch!TimeUpdate, Watch!MouseDown, Watch!MouseMove, Watch!MouseUp,
                       Watch!viewVars
  <1>13. CASE UNCHANGED playerVars
    BY <1>7, <1>13 DEF playerVars
  <1>14. QED
    BY <1>2, <1>3, <1>4, <1>a, <1>5, <1>8, <1>9, <1>10, <1>11, <1>12, <1>13 DEF Watch!PlayerNext

LEMMA PlayerInvariant == Spec => []PlayerInv
  <1>1. Init => PlayerInv
    BY PlayerStarts DEF Init
  <1>2. PlayerInv /\ [Next]_vars => PlayerInv'
    <2> SUFFICES ASSUME PlayerInv, [Next]_vars PROVE PlayerInv'
      OBVIOUS
    <2>1. [Watch!PlayerNext]_playerVars
      BY StepOfOnePage
    <2>2. QED
      BY <2>1, ViewStep, KeyStep, LineStep, FirstViewStep DEF PlayerInv
  <1>3. QED
    BY <1>1, <1>2, PTL DEF Spec

\* The first video watched after the page was loaded, unless the user toggled it,
\* plays once its player is ready, or does not if autoplay started it before; no
\* other player plays (video-viewer.component.ts:59-67, videoPlayer.service.ts:22-64).
THEOREM FirstViewCorrect == Spec => []FirstViewPlays
  <1>1. PlayerInv => FirstViewPlays
    BY DEF PlayerInv, FirstView, FirstViewPlays, Watch!FirstViewPlays
  <1>2. QED
    BY <1>1, PlayerInvariant, PTL

\* The space bar doubles the speed while it is held and only then, and the
\* release that takes the doubled speed back does not pause the player
\* (video-controls.component.ts:151-216).
THEOREM SpaceBarCorrect == Spec => SpaceBarIsObeyed
  <1>1. PlayerInv /\ [Next]_vars => [rate' = 2 /\ rate = 1 => isSpaceHeld]_rate
    <2> SUFFICES ASSUME [Watch!PlayerNext]_playerVars, rate = 1, rate' = 2
                 PROVE  isSpaceHeld
      BY StepOfOnePage
    <2>1. CASE Watch!SetupPlayer
      BY <2>1 DEF Watch!SetupPlayer
    <2>2. ASSUME NEW k \in intervals, Watch!Tick(k)
          PROVE  isSpaceHeld
      BY <2>2 DEF Watch!Tick
    <2>3. CASE Watch!SpaceUp
      BY <2>3 DEF Watch!SpaceUp
    <2>4. rate' = 2 /\ rate = 1 /\ 1 # 2
      OBVIOUS
    <2>5. CASE \/ Watch!OpenViewer \/ Watch!Autoplay \/ Watch!LeaveViewer \/ Watch!TogglePlay
               \/ Watch!SpaceDown
      BY <2>4, <2>5 DEF Watch!OpenViewer, Watch!Autoplay, Watch!LeaveViewer, Watch!TogglePlay,
                        Watch!SpaceDown, Watch!keyVars
    <2>6. ASSUME NEW p \in loading, Watch!PlayerReady(p)
          PROVE  isSpaceHeld
      BY <2>4, <2>6 DEF Watch!PlayerReady, Watch!keyVars
    <2>7. ASSUME NEW t \in Watch!Times, \/ Watch!TimeUpdate(t) \/ Watch!MouseDown(t)
                                        \/ Watch!MouseMove(t) \/ Watch!MouseUp(t)
          PROVE  isSpaceHeld
      BY <2>4, <2>7 DEF Watch!TimeUpdate, Watch!MouseDown, Watch!MouseMove, Watch!MouseUp,
                        Watch!keyVars
    <2>8. CASE UNCHANGED playerVars
      BY <2>4, <2>8 DEF playerVars
    <2>9. QED
      BY <2>1, <2>2, <2>3, <2>5, <2>6, <2>7, <2>8 DEF Watch!PlayerNext
  <1>2. PlayerInv => [Watch!SpaceUp /\ isSpaceHeld /\ ~repeated /\ page = "playing" =>
                        rate' = 1 /\ (rate = 2 => playing' = playing)]_<<isSpaceHeld, rate, playing>>
    <2> SUFFICES ASSUME PlayerInv, Watch!SpaceUp, isSpaceHeld, ~repeated, page = "playing"
                 PROVE  rate' = 1 /\ (rate = 2 => playing' = playing)
      OBVIOUS
    <2>1. rate \in {1, 2} /\ (rate = 2 => isSpeedToggled)
      BY DEF PlayerInv, KeyTypes, SpeedIsHeld
    <2>2. QED
      BY <2>1 DEF Watch!SpaceUp
  <1>3. QED
    BY <1>1, <1>2, PlayerInvariant, PTL DEF Spec, SpaceBarIsObeyed, Watch!SpaceBarIsObeyed

\* A drag of the timeline seeks where the pointer was last, and nothing else
\* on it seeks (timeline.component.ts:37-107).
THEOREM SeeksCorrect == Spec => SeeksWhereDragged
  <1>1. PlayerInv /\ [Next]_vars =>
          [sought' # sought => isDragging /\ sought' = newTime]_<<sought, isDragging>>
    <2> SUFFICES ASSUME PlayerInv, [Watch!PlayerNext]_playerVars, sought' # sought
                 PROVE  isDragging /\ sought' = newTime
      BY StepOfOnePage
    <2>1. ASSUME NEW x \in Watch!Times, Watch!MouseUp(x)
          PROVE  isDragging /\ sought' = newTime
      BY <2>1 DEF Watch!MouseUp, PlayerInv, DragFollows
    <2>2. CASE \/ Watch!OpenViewer \/ Watch!SetupPlayer \/ Watch!Autoplay \/ Watch!LeaveViewer
               \/ Watch!TogglePlay \/ Watch!SpaceDown \/ Watch!SpaceUp
      BY <2>2 DEF Watch!OpenViewer, Watch!SetupPlayer, Watch!Autoplay, Watch!LeaveViewer,
                  Watch!TogglePlay, Watch!SpaceDown, Watch!SpaceUp, Watch!lineVars
    <2>3. ASSUME NEW p \in loading, Watch!PlayerReady(p)
          PROVE  isDragging /\ sought' = newTime
      BY <2>3 DEF Watch!PlayerReady, Watch!lineVars
    <2>4. ASSUME NEW k \in intervals, Watch!Tick(k)
          PROVE  isDragging /\ sought' = newTime
      BY <2>4 DEF Watch!Tick, Watch!lineVars
    <2>5. ASSUME NEW t \in Watch!Times,
                 Watch!TimeUpdate(t) \/ Watch!MouseDown(t) \/ Watch!MouseMove(t)
          PROVE  isDragging /\ sought' = newTime
      BY <2>5 DEF Watch!TimeUpdate, Watch!MouseDown, Watch!MouseMove
    <2>6. CASE UNCHANGED playerVars
      BY <2>6 DEF playerVars
    <2>7. QED
      BY <2>1, <2>2, <2>3, <2>4, <2>5, <2>6 DEF Watch!PlayerNext
  <1>2. QED
    BY <1>1, PlayerInvariant, PTL DEF Spec, SeeksWhereDragged, Watch!SeeksWhereDragged

-----------------------------------------------------------------------------
(* The page that adds a title *)

PageTypes ==
  /\ tab \in {"import", "upload"}
  /\ selectedMovie \in {None} \cup Titles
  /\ form \in [of : {None} \cup Titles, edited : BOOLEAN, valid : BOOLEAN]
  /\ imageFile \in {None} \cup Create!Pictures
  /\ written \subseteq {None} \cup Titles
  /\ gone \in BOOLEAN

PictureTypes ==
  /\ posterURL \in {None} \cup Create!Pictures /\ imageUrl \in {None} \cup Create!Pictures
  /\ originalImage \in {None} \cup Create!Pictures /\ wanted \in {None} \cup Create!Pictures
  /\ selections \subseteq [no : 1..MaxGiven, title : Titles, at : {"metadata", "poster"}]
  /\ crops \subseteq [no : 1..MaxGiven, pic : Create!Pictures, at : {"download", "timer", "crop"}]
  /\ given \in 0..MaxGiven
  /\ spoilt \in BOOLEAN

\* What one submission is.
Submissions ==
  [of : {None} \cup Titles, at : Create!Stages, sent : {None} \cup Create!Pictures,
   pic : Create!Pictures, edited : BOOLEAN, poster : {None} \cup Create!Pictures,
   meta : {None} \cup Titles, backdrop : {None} \cup Titles,
   failed : SUBSET Create!Stages, disturbed : BOOLEAN]

\* The form is that of the title selected, and edits leave a trace.
FormIsOfSelection == form.of = selectedMovie /\ (form.edited => form.of \in written)

\* Unless one was spoilt, one picture is in process at a time, it is the one
\* wanted, and what the cropper is going to take is that picture.
OnePicture ==
  ~spoilt =>
    /\ \A s \in selections : s.title = wanted /\ crops = {} /\ \A r \in selections : r = s
    /\ \A c \in crops : /\ c.pic = wanted /\ selections = {} /\ \A d \in crops : d = c
                        /\ c.at = "timer" => imageUrl = c.pic
    /\ selections = {} /\ crops = {} => imageFile = wanted

\* What a request carries, as far as the types ask.
SentIsATitle(r) ==
  /\ r.meta \in {None} \cup written
  /\ r.at = "metadata" => r.sent \in written
  /\ r.at = "backdrop" => r.sent \in {None} \cup Titles

\* The page still shows what it showed when r was submitted.
PageShows(r) ==
  /\ selectedMovie = r.of /\ form.edited = r.edited /\ form.valid /\ imageFile = r.pic

Kept(r, stage, shown) == IF stage \in r.failed THEN None ELSE shown

\* What an import has stored by the stage it is at, and what it is sending.
Progressed(r) ==
  /\ r.at \in {"importing", "poster"} => r.poster = None /\ r.failed = {}
  /\ r.at \in {"metadata", "backdrop", "done"} => r.poster = Kept(r, "poster", r.pic)
  /\ r.at \in {"importing", "poster", "metadata"} => r.meta = None /\ "metadata" \notin r.failed
  /\ r.at \in {"backdrop", "done"} => r.meta = Kept(r, "metadata", IF r.edited THEN r.of ELSE None)
  /\ r.at # "done" => r.backdrop = None /\ "backdrop" \notin r.failed
  /\ r.at = "done" => r.backdrop = Kept(r, "backdrop", IF r.of \in WithBackdrop THEN r.of ELSE None)
  /\ r.at = "poster" => r.sent = r.pic
  /\ r.at = "metadata" => r.edited /\ r.sent = r.of
  /\ r.at = "backdrop" => r.of \in WithBackdrop /\ r.sent = r.of

ImportFollows(r) ==
  /\ r.of = None => r.at \in {"uploading", "done", "failed"}
  /\ r.of # None => r.at # "uploading"
  /\ r.of # None /\ ~r.disturbed /\ Create!Running(r) => PageShows(r)
  /\ r.of # None /\ ~r.disturbed /\ r.at # "failed" => Progressed(r)

ImportsFollow ==
  /\ imports \in Seq(Submissions)
  /\ \A i \in DOMAIN imports : SentIsATitle(imports[i]) /\ ImportFollows(imports[i])

CreateInv ==
  /\ PageTypes
  /\ PictureTypes
  /\ FormIsOfSelection
  /\ OnePicture
  /\ ImportsFollow

LEMMA CreateTyped == CreateInv => Create!CreateTypeOK
  BY DEF CreateInv, PageTypes, PictureTypes, ImportsFollow, Submissions, Create!CreateTypeOK

LEMMA CreateCorrect == CreateInv => ImportStoresWhatWasShown /\ PictureIsTheLastGiven
  <1> SUFFICES ASSUME CreateInv PROVE ImportStoresWhatWasShown /\ PictureIsTheLastGiven
    OBVIOUS
  <1>1. ASSUME NEW i \in DOMAIN imports
        PROVE  /\ imports[i].meta \in {None} \cup written
               /\ imports[i].at = "done" /\ ~imports[i].disturbed /\ imports[i].of # None =>
                    Progressed(imports[i])
    BY <1>1 DEF CreateInv, ImportsFollow, SentIsATitle, ImportFollows
  <1>2. ImportStoresWhatWasShown
    BY <1>1 DEF ImportStoresWhatWasShown, Create!ImportStoresWhatWasShown, Progressed, Kept
  <1>3. PictureIsTheLastGiven
    BY DEF CreateInv, OnePicture, PictureIsTheLastGiven, Create!PictureIsTheLastGiven
  <1>4. QED
    BY <1>2, <1>3

LEMMA CreateStarts == Create!CreateInit => CreateInv
  <1> SUFFICES ASSUME Create!CreateInit PROVE CreateInv
    OBVIOUS
  <1>1. PageTypes
    BY DEF Create!CreateInit, PageTypes
  <1>2. PictureTypes
    <2>1. given \in 0..MaxGiven
      BY Bounds DEF Create!CreateInit
    <2>2. QED
      BY <2>1 DEF Create!CreateInit, PictureTypes
  <1>3. FormIsOfSelection /\ OnePicture
    BY DEF Create!CreateInit, FormIsOfSelection, OnePicture
  <1>4. ImportsFollow
    BY DEF Create!CreateInit, ImportsFollow
  <1>5. QED
    BY <1>1, <1>2, <1>3, <1>4 DEF CreateInv

(* What the stages of an import make of its record. *)

\* s is r with other fields than these.
SameOffer(r, s) ==
  /\ s \in Submissions
  /\ s.of = r.of /\ s.pic = r.pic /\ s.edited = r.edited /\ s.disturbed = r.disturbed
  /\ s.backdrop = r.backdrop /\ s.failed = r.failed

LEMMA TowardsBackdropMakes ==
    ASSUME PageTypes, NEW r \in Submissions
    PROVE  LET s == Create!TowardsBackdrop(r) IN
           /\ SameOffer(r, s) /\ s.poster = r.poster /\ s.meta = r.meta
           /\ IF selectedMovie \in WithBackdrop THEN s.at = "backdrop" /\ s.sent = selectedMovie
                                                ELSE s.at = "done"
  BY DEF PageTypes, Submissions, SameOffer, Create!TowardsBackdrop, Create!Stages, Create!Pictures

LEMMA TowardsMetadataMakes ==
    ASSUME PageTypes, FormIsOfSelection, NEW r \in Submissions
    PROVE  LET s == Create!TowardsMetadata(r) IN
           /\ SameOffer(r, s) /\ s.poster = r.poster /\ s.meta = r.meta
           /\ \/ form.edited /\ form.valid /\ s.at = "metadata" /\ s.sent = form.of
              \/ ~(form.edited /\ form.valid) /\ s = Create!TowardsBackdrop(r)
  <1>1. CASE form.edited /\ form.valid
    <2>1. Create!TowardsMetadata(r) = [r EXCEPT !.at = "metadata", !.sent = form.of]
      BY <1>1 DEF FormIsOfSelection, Create!TowardsMetadata, Create!IsEdited
    <2>2. form.of \in {None} \cup Create!Pictures
      BY DEF PageTypes, Create!Pictures
    <2>3. QED
      BY <1>1, <2>1, <2>2 DEF Submissions, SameOffer, Create!Stages
  <1>2. CASE ~(form.edited /\ form.valid)
    <2>1. Create!TowardsMetadata(r) = Create!TowardsBackdrop(r)
      BY <1>2 DEF FormIsOfSelection, Create!TowardsMetadata, Create!IsEdited
    <2>2. QED
      BY <1>2, <2>1, TowardsBackdropMakes
  <1>3. QED
    BY <1>1, <1>2

LEMMA TowardsPosterMakes ==
    ASSUME PageTypes, FormIsOfSelection, NEW r \in Submissions
    PROVE  LET s == Create!TowardsPoster(r) IN
           /\ SameOffer(r, s) /\ s.poster = r.poster /\ s.meta = r.meta
           /\ \/ imageFile # None /\ s.at = "poster" /\ s.sent = imageFile
              \/ imageFile = None /\ s = Create!TowardsMetadata(r)
  <1>1. CASE imageFile # None
    BY <1>1 DEF PageTypes, Submissions, SameOffer, Create!TowardsPoster, Create!Stages
  <1>2. CASE imageFile = None
    BY <1>2, TowardsMetadataMakes DEF Create!TowardsPoster
  <1>3. QED
    BY <1>1, <1>2

LEMMA PastMetadata ==
    ASSUME PageTypes, FormIsOfSelection, NEW r \in Submissions, r.of # None,
           r.meta \in {None} \cup written,
           ~r.disturbed =>
             /\ PageShows(r)
             /\ r.poster = Kept(r, "poster", r.pic)
             /\ r.meta = Kept(r, "metadata", IF r.edited THEN r.of ELSE None)
             /\ r.backdrop = None /\ "backdrop" \notin r.failed
    PROVE  LET s == Create!TowardsBackdrop(r) IN
           s \in Submissions /\ SentIsATitle(s) /\ ImportFollows(s)
  <1> DEFINE s == Create!TowardsBackdrop(r)
  <1>1. /\ SameOffer(r, s) /\ s.poster = r.poster /\ s.meta = r.meta
        /\ \/ selectedMovie \in WithBackdrop /\ s.at = "backdrop" /\ s.sent = selectedMovie
           \/ selectedMovie \notin WithBackdrop /\ s.at = "done"
    BY TowardsBackdropMakes
  <1> HIDE DEF s
  <1>2. SentIsATitle(s)
    BY <1>1 DEF SentIsATitle, PageTypes
  <1>3. ASSUME ~s.disturbed PROVE Progressed(s)
    <2>1. PageShows(r)
      BY <1>1, <1>3 DEF SameOffer
    <2>2. QED
      BY <1>1, <1>3, <2>1 DEF SameOffer, Progressed, Kept, PageShows
  <1>4. ~s.disturbed => PageShows(s)
    BY <1>1 DEF SameOffer, PageShows
  <1>5. s.at \notin {"importing", "uploading", "failed"} /\ s.of # None
    BY <1>1 DEF SameOffer
  <1>6. QED
    BY <1>1, <1>2, <1>3, <1>4, <1>5 DEF SameOffer, ImportFollows, s

LEMMA PastPoster ==
    ASSUME PageTypes, FormIsOfSelection, NEW r \in Submissions, r.of # None,
           r.meta \in {None} \cup written,
           ~r.disturbed =>
             /\ PageShows(r)
             /\ r.poster = Kept(r, "poster", r.pic)
             /\ r.meta = None /\ "metadata" \notin r.failed
             /\ r.backdrop = None /\ "backdrop" \notin r.failed
    PROVE  LET s == Create!TowardsMetadata(r) IN
           s \in Submissions /\ SentIsATitle(s) /\ ImportFollows(s)
  <1> DEFINE s == Create!TowardsMetadata(r)
  <1>1. /\ SameOffer(r, s) /\ s.poster = r.poster /\ s.meta = r.meta
        /\ \/ form.edited /\ form.valid /\ s.at = "metadata" /\ s.sent = form.of
           \/ ~(form.edited /\ form.valid) /\ s = Create!TowardsBackdrop(r)
    BY TowardsMetadataMakes
  <1> HIDE DEF s
  <1>2. CASE form.edited /\ form.valid /\ s.at = "metadata" /\ s.sent = form.of
    <2>1. SentIsATitle(s)
      BY <1>1, <1>2 DEF SentIsATitle, FormIsOfSelection
    <2>2. ASSUME ~s.disturbed PROVE Progressed(s) /\ PageShows(s)
      <3>1. PageShows(r) /\ PageShows(s) /\ ~r.disturbed
        BY <1>1, <2>2 DEF SameOffer, PageShows
      <3>2. s.edited /\ s.sent = s.of
        BY <1>2, <3>1 DEF PageShows, FormIsOfSelection
      <3>3. QED
        BY <1>1, <1>2, <3>1, <3>2 DEF SameOffer, Progressed, Kept
    <2>3. QED
      BY <1>1, <1>2, <2>1, <2>2 DEF SameOffer, ImportFollows, s
  <1>3. CASE ~(form.edited /\ form.valid) /\ s = Create!TowardsBackdrop(r)
    <2>1. ~r.disturbed => r.meta = Kept(r, "metadata", IF r.edited THEN r.of ELSE None)
      BY <1>3 DEF PageShows, Kept
    <2>2. QED
      BY <1>3, <2>1, PastMetadata DEF s
  <1>4. QED
    BY <1>1, <1>2, <1>3

\* Both answers keep a record in order.
LEMMA AnswersFollow ==
    ASSUME PageTypes, FormIsOfSelection, NEW r \in Submissions, Create!Running(r),
           SentIsATitle(r), ImportFollows(r), NEW s \in {Create!Stored(r), Create!NotStored(r)}
    PROVE  s \in Submissions /\ SentIsATitle(s) /\ ImportFollows(s)
  <1> DEFINE lost == [r EXCEPT !.failed = @ \cup {r.at}]
  <1>1. r.at \in {"importing", "poster", "metadata", "backdrop", "uploading"}
    BY DEF Submissions, Create!Stages, Create!Running
  <1>2. r.at # "uploading" =>
          r.of # None /\ r.meta \in {None} \cup written /\ (~r.disturbed => PageShows(r) /\ Progressed(r))
    BY <1>1 DEF ImportFollows, SentIsATitle
  <1>3. /\ lost \in Submissions
        /\ lost.of = r.of /\ lost.pic = r.pic /\ lost.edited = r.edited
        /\ lost.disturbed = r.disturbed /\ lost.sent = r.sent /\ lost.poster = r.poster
        /\ lost.meta = r.meta /\ lost.backdrop = r.backdrop /\ lost.failed = r.failed \cup {r.at}
    BY DEF Submissions
  <1> HIDE DEF lost
  <1>4. CASE r.at = "importing"
    <2>1. CASE s = Create!Stored(r) /\ imageFile # None
      <3>1. /\ SameOffer(r, s) /\ s.poster = r.poster /\ s.meta = r.meta
            /\ s.at = "poster" /\ s.sent = imageFile
        BY <1>4, <2>1, TowardsPosterMakes DEF Create!Stored
      <3>2. SentIsATitle(s)
        BY <1>2, <1>4, <3>1 DEF SentIsATitle
      <3>3. ASSUME ~s.disturbed PROVE Progressed(s) /\ PageShows(s)
        <4>1. PageShows(r) /\ Progressed(r)
          BY <1>2, <1>4, <3>1, <3>3 DEF SameOffer
        <4>2. QED
          BY <1>4, <3>1, <4>1 DEF SameOffer, Progressed, PageShows
      <3>4. QED
        BY <1>2, <1>4, <3>1, <3>2, <3>3 DEF SameOffer, ImportFollows
    <2>2. CASE s = Create!Stored(r) /\ imageFile = None
      <3>1. s = Create!TowardsMetadata(r)
        BY <1>4, <2>2, TowardsPosterMakes DEF Create!Stored
      <3>2. r.disturbed
        <4>1. r.pic # None
          BY Nothings DEF Submissions, Create!Pictures
        <4>2. QED
          BY <1>2, <1>4, <2>2, <4>1 DEF PageShows
      <3>3. QED
        BY <1>2, <1>4, <3>1, <3>2, PastPoster
    <2>3. CASE s = Create!NotStored(r)
      <3>1. s = [lost EXCEPT !.at = "failed"]
        BY <1>4, <2>3 DEF Create!NotStored, lost
      <3>2. s \in Submissions /\ s.at = "failed" /\ s.of = r.of /\ s.meta = r.meta
        BY <1>3, <3>1 DEF Submissions, Create!Stages
      <3>3. QED
        BY <1>2, <1>4, <3>2 DEF SentIsATitle, ImportFollows, Create!Running
    <2>4. QED
      BY <2>1, <2>2, <2>3
  <1>5. CASE r.at = "poster"
    <2>1. CASE s = Create!Stored(r)
      <3> DEFINE q == [r EXCEPT !.poster = r.sent]
      <3>1. s = Create!TowardsMetadata(q)
        BY <1>5, <2>1 DEF Create!Stored
      <3>2. /\ q \in Submissions /\ q.of = r.of /\ q.pic = r.pic /\ q.edited = r.edited
            /\ q.disturbed = r.disturbed /\ q.poster = r.sent /\ q.meta = r.meta
            /\ q.backdrop = r.backdrop /\ q.failed = r.failed
        BY DEF Submissions
      <3> HIDE DEF q
      <3>3. ~q.disturbed => /\ PageShows(q)
                            /\ q.poster = Kept(q, "poster", q.pic)
                            /\ q.meta = None /\ "metadata" \notin q.failed
                            /\ q.backdrop = None /\ "backdrop" \notin q.failed
        BY <1>2, <1>5, <3>2 DEF Progressed, PageShows, Kept
      <3>4. QED
        BY <1>2, <1>5, <3>1, <3>2, <3>3, PastPoster
    <2>2. CASE s = Create!NotStored(r)
      <3>1. s = Create!TowardsMetadata(lost)
        BY <1>5, <2>2 DEF Create!NotStored, lost
      <3>2. ~lost.disturbed => /\ PageShows(lost)
                               /\ lost.poster = Kept(lost, "poster", lost.pic)
                               /\ lost.meta = None /\ "metadata" \notin lost.failed
                               /\ lost.backdrop = None /\ "backdrop" \notin lost.failed
        BY <1>2, <1>3, <1>5 DEF Progressed, PageShows, Kept
      <3>3. QED
        BY <1>2, <1>3, <1>5, <3>1, <3>2, PastPoster
    <2>3. QED
      BY <2>1, <2>2
  <1>6. CASE r.at = "metadata"
    <2>1. CASE s = Create!Stored(r)
      <3> DEFINE q == [r EXCEPT !.meta = r.sent]
      <3>1. s = Create!TowardsBackdrop(q)
        BY <1>6, <2>1 DEF Create!Stored
      <3>2. r.sent \in written /\ r.sent \in {None} \cup Titles
        BY <1>6 DEF SentIsATitle, PageTypes
      <3>3. /\ q \in Submissions /\ q.of = r.of /\ q.pic = r.pic /\ q.edited = r.edited
            /\ q.disturbed = r.disturbed /\ q.poster = r.poster /\ q.meta = r.sent
            /\ q.backdrop = r.backdrop /\ q.failed = r.failed
        BY <3>2 DEF Submissions
      <3> HIDE DEF q
      <3>4. ~q.disturbed => /\ PageShows(q)
                            /\ q.poster = Kept(q, "poster", q.pic)
                            /\ q.meta = Kept(q, "metadata", IF q.edited THEN q.of ELSE None)
                            /\ q.backdrop = None /\ "backdrop" \notin q.failed
        BY <1>2, <1>6, <3>3 DEF Progressed, PageShows, Kept
      <3>5. QED
        BY <1>2, <1>6, <3>1, <3>2, <3>3, <3>4, PastMetadata
    <2>2. CASE s = Create!NotStored(r)
      <3>1. s = Create!TowardsBackdrop(lost)
        BY <1>6, <2>2 DEF Create!NotStored, lost
      <3>2. ~lost.disturbed => /\ PageShows(lost)
                               /\ lost.poster = Kept(lost, "poster", lost.pic)
                               /\ lost.meta = Kept(lost, "metadata",
                                                   IF lost.edited THEN lost.of ELSE None)
                               /\ lost.backdrop = None /\ "backdrop" \notin lost.failed
        BY <1>2, <1>3, <1>6 DEF Progressed, PageShows, Kept
      <3>3. QED
        BY <1>2, <1>3, <1>6, <3>1, <3>2, PastMetadata
    <2>3. QED
      BY <2>1, <2>2
  <1>7. CASE r.at = "backdrop"
    <2>1. CASE s = Create!Stored(r)
      <3>1. s = [r EXCEPT !.at = "done", !.backdrop = r.sent]
        BY <1>7, <2>1 DEF Create!Stored
      <3>2. r.sent \in {None} \cup Titles
        BY <1>7 DEF SentIsATitle
      <3>3. /\ s \in Submissions /\ s.of = r.of /\ s.pic = r.pic /\ s.edited = r.edited
            /\ s.disturbed = r.disturbed /\ s.poster = r.poster /\ s.meta = r.meta
            /\ s.backdrop = r.sent /\ s.failed = r.failed /\ s.at = "done"
        BY <3>1, <3>2 DEF Submissions, Create!Stages
      <3>4. ~s.disturbed => Progressed(s)
        BY <1>2, <1>7, <3>3 DEF Progressed, Kept
      <3>5. QED
        BY <1>2, <1>7, <3>3, <3>4 DEF SentIsATitle, ImportFollows, Create!Running
    <2>2. CASE s = Create!NotStored(r)
      <3>1. s = [lost EXCEPT !.at = "done"]
        BY <1>7, <2>2 DEF Create!NotStored, lost
      <3>2. /\ s \in Submissions /\ s.of = lost.of /\ s.pic = lost.pic /\ s.edited = lost.edited
            /\ s.disturbed = lost.disturbed /\ s.poster = lost.poster /\ s.meta = lost.meta
            /\ s.backdrop = lost.backdrop /\ s.failed = lost.failed /\ s.at = "done"
        BY <1>3, <3>1 DEF Submissions, Create!Stages
      <3>3. ~s.disturbed => Progressed(s)
        BY <1>2, <1>3, <1>7, <3>2 DEF Progressed, Kept
      <3>4. QED
        BY <1>2, <1>3, <1>7, <3>2, <3>3 DEF SentIsATitle, ImportFollows, Create!Running
    <2>3. QED
      BY <2>1, <2>2
  <1>8. CASE r.at = "uploading"
    <2>1. r.of = None /\ r.meta \in {None} \cup written
      BY <1>8 DEF ImportFollows, SentIsATitle
    <2>2. s \in Submissions /\ s.of = r.of /\ s.meta = r.meta /\ s.at \in {"done", "failed"}
      <3>1. CASE s = Create!Stored(r)
        <4>1. s = [r EXCEPT !.at = "done", !.poster = r.sent]
          BY <1>8, <3>1 DEF Create!Stored
        <4>2. QED
          BY <4>1 DEF Submissions, Create!Stages
      <3>2. CASE s = Create!NotStored(r)
        <4>1. s = [lost EXCEPT !.at = "failed"]
          BY <1>8, <3>2 DEF Create!NotStored, lost
        <4>2. QED
          BY <1>3, <4>1 DEF Submissions, Create!Stages
      <3>3. QED
        BY <3>1, <3>2
    <2>3. QED
      BY <2>1, <2>2 DEF SentIsATitle, ImportFollows, Create!Running
  <1>9. QED
    BY <1>1, <1>4, <1>5, <1>6, <1>7, <1>8

(* The steps of the page. *)

\* What is disturbed stays in order, whatever the page shows by now.
LEMMA DisturbedFollow ==
    ASSUME ImportsFollow, imports' = Create!Disturbed(imports), written \subseteq written'
    PROVE  ImportsFollow'
  <1>1. imports \in Seq(Submissions)
    BY DEF ImportsFollow
  <1>2. ASSUME NEW i \in DOMAIN imports
        PROVE  LET r == imports[i] s == Create!Disturbed(imports)[i] IN
               /\ s \in Submissions
               /\ s.of = r.of /\ s.at = r.at /\ s.pic = r.pic /\ s.edited = r.edited
               /\ s.poster = r.poster /\ s.meta = r.meta /\ s.backdrop = r.backdrop
               /\ s.failed = r.failed /\ s.sent = r.sent
               /\ ~s.disturbed => ~r.disturbed /\ ~Create!Running(r)
    <2>1. imports[i] \in Submissions
      BY <1>1
    <2>2. PICK b \in BOOLEAN : b = (imports[i].disturbed \/ Create!Running(imports[i]))
      BY DEF Create!Running
    <2>3. Create!Disturbed(imports)[i] = [imports[i] EXCEPT !.disturbed = b]
      BY <2>2 DEF Create!Disturbed
    <2>4. QED
      BY <2>1, <2>2, <2>3 DEF Submissions
  <1>3. DOMAIN Create!Disturbed(imports) = DOMAIN imports
    BY DEF Create!Disturbed
  <1>4. Create!Disturbed(imports) \in Seq(Submissions)
    <2>1. PICK n \in Nat : imports \in [1..n -> Submissions]
      BY <1>1
    <2>2. Create!Disturbed(imports) \in [1..n -> Submissions]
      BY <1>2, <1>3, <2>1 DEF Create!Disturbed
    <2>3. QED
      BY <2>2
  <1>5. ASSUME NEW i \in DOMAIN imports
        PROVE  SentIsATitle(imports[i])' /\ ImportFollows(imports[i])'
    <2> DEFINE r == imports[i]  s == imports'[i]
    <2>1. SentIsATitle(r) /\ ImportFollows(r)
      BY DEF ImportsFollow
    <2>2. /\ s.of = r.of /\ s.at = r.at /\ s.pic = r.pic /\ s.edited = r.edited
          /\ s.poster = r.poster /\ s.meta = r.meta /\ s.backdrop = r.backdrop
          /\ s.failed = r.failed /\ s.sent = r.sent
          /\ ~s.disturbed => ~r.disturbed /\ ~Create!Running(r)
      BY <1>2
    <2> HIDE DEF r, s
    <2>3. /\ s.meta \in {None} \cup written'
          /\ s.at = "metadata" => s.sent \in written'
          /\ s.at = "backdrop" => s.sent \in {None} \cup Titles
      BY <2>1, <2>2 DEF SentIsATitle
    <2>4. r.of # None /\ ~r.disturbed /\ r.at # "failed" => Progressed(r)
      BY <2>1 DEF ImportFollows
    <2>5. s.of # None /\ ~s.disturbed /\ s.at # "failed" => Progressed(s)
      BY <2>2, <2>4 DEF Progressed, Kept
    <2>6. ~(s.of # None /\ ~s.disturbed /\ Create!Running(s))
      BY <2>2 DEF Create!Running
    <2>7. /\ s.of = None => s.at \in {"uploading", "done", "failed"}
          /\ s.of # None => s.at # "uploading"
      BY <2>1, <2>2 DEF ImportFollows
    <2>8. QED
      BY <2>3, <2>5, <2>6, <2>7 DEF SentIsATitle, ImportFollows, PageShows, Progressed, Kept, s
  <1>6. QED
    BY <1>3, <1>4, <1>5 DEF ImportsFollow

LEMMA UndisturbedFollow ==
    ASSUME ImportsFollow, UNCHANGED <<imports, selectedMovie, form, imageFile, written>>
    PROVE  ImportsFollow'
  BY DEF ImportsFollow, SentIsATitle, ImportFollows, PageShows, Progressed, Kept

\* A submission shows what the page shows.
LEMMA SubmissionFollows ==
    ASSUME PageTypes, Create!CanSubmit, NEW t \in {None} \cup Titles,
           NEW at, NEW p \in {None} \cup Create!Pictures,
           \/ t = selectedMovie /\ t # None /\ at = "importing"
           \/ t = None /\ at = "uploading"
    PROVE  LET r == Create!Submission(t, at, p) IN
           r \in Submissions /\ SentIsATitle(r) /\ ImportFollows(r)
  <1> DEFINE r == Create!Submission(t, at, p)
  <1>1. /\ r.of = t /\ r.at = at /\ r.sent = p /\ r.pic = imageFile /\ r.edited = form.edited
        /\ r.poster = None /\ r.meta = None /\ r.backdrop = None /\ r.failed = {}
        /\ r.disturbed = FALSE
    BY DEF Create!Submission
  <1>2. r \in Submissions
    BY DEF Create!Submission, Submissions, PageTypes, Create!CanSubmit, Create!Stages
  <1> HIDE DEF r
  <1>3. SentIsATitle(r)
    BY <1>1 DEF SentIsATitle
  <1>4. t # None => PageShows(r) /\ Progressed(r)
    BY <1>1 DEF PageShows, Progressed, Create!CanSubmit
  <1>5. QED
    BY <1>1, <1>2, <1>3, <1>4 DEF ImportFollows, r

LEMMA AppendedFollow ==
    ASSUME ImportsFollow, UNCHANGED <<selectedMovie, form, imageFile, written>>,
           NEW r \in Submissions, SentIsATitle(r), ImportFollows(r), imports' = Append(imports, r)
    PROVE  ImportsFollow'
  <1>1. imports \in Seq(Submissions)
    BY DEF ImportsFollow
  <1>2. imports' \in Seq(Submissions)
    BY <1>1
  <1>3. ASSUME NEW i \in DOMAIN imports'
        PROVE  SentIsATitle(imports'[i]) /\ ImportFollows(imports'[i])
    <2>1. (i \in DOMAIN imports /\ imports'[i] = imports[i]) \/ imports'[i] = r
      BY <1>1
    <2>2. QED
      BY <2>1 DEF ImportsFollow
  <1>4. QED
    BY <1>2, <1>3 DEF ImportsFollow, SentIsATitle, ImportFollows, PageShows, Progressed, Kept

LEMMA AdvancedFollow ==
    ASSUME PageTypes, FormIsOfSelection, ImportsFollow,
           NEW i \in DOMAIN imports, Create!Advance(i)
    PROVE  ImportsFollow'
  <1>1. imports \in Seq(Submissions) /\ imports[i] \in Submissions
    BY DEF ImportsFollow
  <1>2. Create!Running(imports[i]) /\ SentIsATitle(imports[i]) /\ ImportFollows(imports[i])
    BY DEF ImportsFollow, Create!Advance
  <1>3. PICK s \in {Create!Stored(imports[i]), Create!NotStored(imports[i])} :
          imports' = [imports EXCEPT ![i] = s]
    BY DEF Create!Advance
  <1>4. s \in Submissions /\ SentIsATitle(s) /\ ImportFollows(s)
    BY <1>1, <1>2, AnswersFollow
  <1>5. imports' \in Seq(Submissions)
    BY <1>1, <1>3, <1>4
  <1>6. ASSUME NEW j \in DOMAIN imports'
        PROVE  SentIsATitle(imports'[j]) /\ ImportFollows(imports'[j])
    BY <1>3, <1>4 DEF ImportsFollow
  <1>7. UNCHANGED <<selectedMovie, form, imageFile, written>>
    BY DEF Create!Advance, Create!pageVars, Create!historyVars
  <1>8. QED
    BY <1>5, <1>6, <1>7 DEF ImportsFollow, SentIsATitle, ImportFollows, PageShows, Progressed, Kept

LEMMA CreatePageStep ==
    ASSUME CreateInv, [Create!CreateNext]_createVars
    PROVE  PageTypes' /\ FormIsOfSelection' /\ ImportsFollow'
  <1>1. PageTypes /\ FormIsOfSelection /\ ImportsFollow
    BY DEF CreateInv
  <1>2. ASSUME UNCHANGED <<tab, selectedMovie, form, imageFile, written, gone>>
        PROVE  PageTypes' /\ FormIsOfSelection'
    BY <1>1, <1>2 DEF PageTypes, FormIsOfSelection
  <1>3. ASSUME UNCHANGED <<tab, selectedMovie, form, imageFile, written, gone, imports>>
        PROVE  PageTypes' /\ FormIsOfSelection' /\ ImportsFollow'
    BY <1>1, <1>2, <1>3, UndisturbedFollow
  <1>4. ASSUME NEW t \in Titles, Create!SelectTitle(t)
        PROVE  PageTypes' /\ FormIsOfSelection' /\ ImportsFollow'
    BY <1>3, <1>4 DEF Create!SelectTitle, Create!Wants
  <1>5. ASSUME NEW s \in selections, Create!MetadataComes(s)
        PROVE  PageTypes' /\ FormIsOfSelection' /\ ImportsFollow'
    <2>1. s.title \in Titles
      BY <1>5 DEF CreateInv, PictureTypes
    <2>2. PICK valid \in BOOLEAN : form' = [of |-> s.title, edited |-> FALSE, valid |-> valid]
      BY <1>5 DEF Create!MetadataComes
    <2>3. selectedMovie' = s.title /\ UNCHANGED <<tab, imageFile, gone, written>>
      BY <1>5 DEF Create!MetadataComes
    <2>4. PageTypes' /\ FormIsOfSelection'
      BY <1>1, <2>1, <2>2, <2>3 DEF PageTypes, FormIsOfSelection
    <2>5. ImportsFollow'
      BY <1>1, <1>5, <2>3, DisturbedFollow DEF Create!MetadataComes
    <2>6. QED
      BY <2>4, <2>5
  <1>6. ASSUME NEW s \in selections, Create!PosterComes(s)
        PROVE  PageTypes' /\ FormIsOfSelection' /\ ImportsFollow'
    <2>1. s.title \in Titles
      BY <1>6 DEF CreateInv, PictureTypes
    <2>2. imageFile' = s.title /\ imports' = Create!Disturbed(imports)
          /\ UNCHANGED <<tab, selectedMovie, form, gone, written>>
      BY <1>6 DEF Create!PosterComes, Create!historyVars
    <2>3. QED
      BY <1>1, <2>1, <2>2, DisturbedFollow DEF PageTypes, FormIsOfSelection, Create!Pictures
  <1>7. ASSUME NEW s \in selections, Create!SelectionFails(s)
        PROVE  PageTypes' /\ FormIsOfSelection' /\ ImportsFollow'
    BY <1>3, <1>7 DEF Create!SelectionFails
  <1>8. CASE Create!EditForm
    <2>1. PICK edited \in BOOLEAN, valid \in BOOLEAN :
            form' = [form EXCEPT !.edited = edited, !.valid = valid]
      BY <1>8 DEF Create!EditForm
    <2>2. form' \in [of : {None} \cup Titles, edited : BOOLEAN, valid : BOOLEAN]
          /\ form'.of = form.of /\ form.of \in {None} \cup Titles
      BY <1>1, <2>1 DEF PageTypes
    <2>3. /\ written' = written \cup {form.of} /\ imports' = Create!Disturbed(imports)
          /\ UNCHANGED <<tab, selectedMovie, imageFile, gone>>
      BY <1>8 DEF Create!EditForm
    <2>4. PageTypes' /\ FormIsOfSelection'
      BY <1>1, <2>2, <2>3 DEF PageTypes, FormIsOfSelection
    <2>5. ImportsFollow'
      BY <1>1, <2>3, DisturbedFollow
    <2>6. QED
      BY <2>4, <2>5
  <1>9. ASSUME NEW p \in Pics, Create!ChoosePicture(p)
        PROVE  PageTypes' /\ FormIsOfSelection' /\ ImportsFollow'
    BY <1>3, <1>9 DEF Create!ChoosePicture, Create!GiveNext, Create!Wants, Create!pageVars
  <1>10. CASE Create!OpenCropModal \/ Create!CropByHand
    BY <1>3, <1>10 DEF Create!OpenCropModal, Create!CropByHand, Create!GiveNext, Create!Wants,
                       Create!pageVars
  <1>11. CASE Create!ClearPicture
    <2>1. imageFile' = None /\ imports' = Create!Disturbed(imports)
          /\ UNCHANGED <<tab, selectedMovie, form, gone, written>>
      BY <1>11 DEF Create!ClearPicture, Create!Wants
    <2>2. QED
      BY <1>1, <2>1, DisturbedFollow DEF PageTypes, FormIsOfSelection
  <1>12. ASSUME NEW c \in crops, Create!DownloadToCrop(c) \/ Create!CropTimer(c)
         PROVE  PageTypes' /\ FormIsOfSelection' /\ ImportsFollow'
    BY <1>3, <1>12 DEF Create!DownloadToCrop, Create!CropTimer, Create!pageVars, Create!historyVars
  <1>13. ASSUME NEW c \in crops, Create!CropEnds(c)
         PROVE  PageTypes' /\ FormIsOfSelection' /\ ImportsFollow'
    <2>1. c.pic \in Create!Pictures
      BY <1>13 DEF CreateInv, PictureTypes
    <2>2. UNCHANGED <<tab, selectedMovie, form, gone, written>>
      BY <1>13 DEF Create!CropEnds
    <2>3. CASE imageFile' = c.pic /\ imports' = Create!Disturbed(imports)
      BY <1>1, <2>1, <2>2, <2>3, DisturbedFollow DEF PageTypes, FormIsOfSelection
    <2>4. CASE UNCHANGED <<imageFile, imports>>
      BY <1>3, <2>2, <2>4
    <2>5. QED
      BY <1>13, <2>3, <2>4 DEF Create!CropEnds
  <1>14. CASE Create!SubmitImport
    <2>1. Create!CanSubmit /\ selectedMovie # None
          /\ imports' = Append(imports, Create!Submission(selectedMovie, "importing", None))
          /\ UNCHANGED <<tab, selectedMovie, form, imageFile, written, gone>>
      BY <1>14 DEF Create!SubmitImport, Create!pageVars, Create!historyVars
    <2>2. LET r == Create!Submission(selectedMovie, "importing", None) IN
          r \in Submissions /\ SentIsATitle(r) /\ ImportFollows(r)
      <3>1. PICK t \in {None} \cup Titles : t = selectedMovie
        BY <1>1 DEF PageTypes
      <3>2. QED
        BY <1>1, <2>1, <3>1, SubmissionFollows
    <2>3. QED
      BY <1>1, <1>2, <2>1, <2>2, AppendedFollow
  <1>15. CASE Create!SubmitUpload
    <2>1. Create!CanSubmit
          /\ imports' = Append(imports, Create!Submission(None, "uploading", imageFile))
          /\ UNCHANGED <<tab, selectedMovie, form, imageFile, written, gone>>
      BY <1>15 DEF Create!SubmitUpload, Create!pageVars, Create!historyVars
    <2>2. LET r == Create!Submission(None, "uploading", imageFile) IN
          r \in Submissions /\ SentIsATitle(r) /\ ImportFollows(r)
      <3>1. PICK p \in {None} \cup Create!Pictures : p = imageFile
        BY <1>1 DEF PageTypes
      <3>2. QED
        BY <1>1, <2>1, <3>1, SubmissionFollows
    <2>3. QED
      BY <1>1, <1>2, <2>1, <2>2, AppendedFollow
  <1>16. ASSUME NEW i \in DOMAIN imports, Create!Advance(i)
         PROVE  PageTypes' /\ FormIsOfSelection' /\ ImportsFollow'
    <2>1. ImportsFollow'
      BY <1>1, <1>16, AdvancedFollow
    <2>2. UNCHANGED <<tab, selectedMovie, form, imageFile, written>>
      BY <1>16 DEF Create!Advance, Create!pageVars, Create!historyVars
    <2>3. gone' \in BOOLEAN
      BY <1>16 DEF Create!Advance
    <2>4. QED
      BY <1>1, <2>1, <2>2, <2>3 DEF PageTypes, FormIsOfSelection
  <1>17. CASE UNCHANGED createVars
    BY <1>3, <1>17 DEF createVars
  <1>18. QED
    BY <1>4, <1>5, <1>6, <1>7, <1>8, <1>9, <1>10, <1>11, <1>12, <1>13, <1>14, <1>15, <1>16, <1>17
       DEF Create!CreateNext

LEMMA PictureTypesStep ==
    ASSUME CreateInv, [Create!CreateNext]_createVars
    PROVE  PictureTypes'
  <1>1. PictureTypes
    BY DEF CreateInv
  <1>2. ASSUME Create!GiveNext
        PROVE  given' \in 0..MaxGiven /\ given' \in 1..MaxGiven
    BY <1>1, <1>2, Bounds DEF Create!GiveNext, PictureTypes
  <1>3. ASSUME NEW no \in 1..MaxGiven, NEW p \in Create!Pictures, NEW at \in {"download", "timer", "crop"}
        PROVE  [no |-> no, pic |-> p, at |-> at]
                  \in [no : 1..MaxGiven, pic : Create!Pictures, at : {"download", "timer", "crop"}]
    BY <1>3
  <1>4. ASSUME NEW p \in {None} \cup Create!Pictures, Create!Wants(p)
        PROVE  wanted' \in {None} \cup Create!Pictures /\ spoilt' \in BOOLEAN
    BY <1>4 DEF Create!Wants
  <1>5. ASSUME NEW t \in Titles, Create!SelectTitle(t)
        PROVE  PictureTypes'
    <2>1. t \in Create!Pictures
      BY DEF Create!Pictures
    <2>2. given' \in 0..MaxGiven /\ given' \in 1..MaxGiven
      BY <1>2, <1>5 DEF Create!SelectTitle
    <2>3. wanted' \in {None} \cup Create!Pictures /\ spoilt' \in BOOLEAN
      BY <1>4, <1>5, <2>1 DEF Create!SelectTitle
    <2>4. [no |-> given', title |-> t, at |-> "metadata"]
            \in [no : 1..MaxGiven, title : Titles, at : {"metadata", "poster"}]
      BY <2>2
    <2>5. QED
      BY <1>1, <1>5, <2>2, <2>3, <2>4 DEF Create!SelectTitle, Create!imageVars, PictureTypes
  <1>6. ASSUME NEW s \in selections, Create!MetadataComes(s)
        PROVE  PictureTypes'
    <2>1. s.title \in Create!Pictures
      BY <1>1, <1>6 DEF PictureTypes, Create!Pictures
    <2>2. [s EXCEPT !.at = "poster"] \in [no : 1..MaxGiven, title : Titles, at : {"metadata", "poster"}]
      BY <1>1, <1>6 DEF PictureTypes
    <2>3. selections' \subseteq [no : 1..MaxGiven, title : Titles, at : {"metadata", "poster"}]
      BY <1>1, <1>6, <2>2 DEF Create!MetadataComes, PictureTypes
    <2>4. /\ posterURL' \in {None} \cup Create!Pictures /\ imageUrl' \in {None} \cup Create!Pictures
          /\ spoilt' \in BOOLEAN
      BY <1>1, <1>6, <2>1 DEF Create!MetadataComes, PictureTypes
    <2>5. UNCHANGED <<originalImage, crops, given, wanted>>
      BY <1>6 DEF Create!MetadataComes
    <2>6. QED
      BY <1>1, <2>3, <2>4, <2>5 DEF PictureTypes
  <1>7. ASSUME NEW s \in selections, Create!PosterComes(s) \/ Create!SelectionFails(s)
        PROVE  PictureTypes'
    BY <1>1, <1>7 DEF Create!PosterComes, Create!SelectionFails, Create!imageVars,
                      Create!historyVars, PictureTypes
  <1>8. ASSUME NEW p \in Pics, Create!ChoosePicture(p)
        PROVE  PictureTypes'
    <2>1. p \in Create!Pictures
      BY DEF Create!Pictures
    <2>2. given' \in 0..MaxGiven /\ given' \in 1..MaxGiven
      BY <1>2, <1>8 DEF Create!ChoosePicture
    <2>3. wanted' \in {None} \cup Create!Pictures /\ spoilt' \in BOOLEAN
      BY <1>4, <1>8, <2>1 DEF Create!ChoosePicture
    <2>4. [no |-> given', pic |-> p, at |-> "timer"]
             \in [no : 1..MaxGiven, pic : Create!Pictures, at : {"download", "timer", "crop"}]
      BY <1>3, <2>1, <2>2
    <2>5. QED
      BY <1>1, <1>8, <2>1, <2>2, <2>3, <2>4
         DEF Create!ChoosePicture, Create!SetFile, Create!pageVars, PictureTypes
  <1>9. CASE Create!OpenCropModal
    <2>1. posterURL \in Create!Pictures
      BY <1>1, <1>9 DEF Create!OpenCropModal, PictureTypes
    <2>2. given' \in 0..MaxGiven /\ given' \in 1..MaxGiven
      BY <1>2, <1>9 DEF Create!OpenCropModal
    <2>3. wanted' \in {None} \cup Create!Pictures /\ spoilt' \in BOOLEAN
      BY <1>9, <2>1 DEF Create!OpenCropModal, Create!Wants
    <2>4. [no |-> given', pic |-> posterURL, at |-> "download"]
             \in [no : 1..MaxGiven, pic : Create!Pictures, at : {"download", "timer", "crop"}]
      BY <2>1, <2>2
    <2>5. QED
      BY <1>1, <1>9, <2>2, <2>3, <2>4 DEF Create!OpenCropModal, Create!pageVars, PictureTypes
  <1>10. CASE Create!CropByHand
    <2>1. originalImage \in Create!Pictures
      BY <1>1, <1>10 DEF Create!CropByHand, PictureTypes
    <2>2. given' \in 0..MaxGiven /\ given' \in 1..MaxGiven
      BY <1>2, <1>10 DEF Create!CropByHand
    <2>3. wanted' \in {None} \cup Create!Pictures /\ spoilt' \in BOOLEAN
      BY <1>10, <2>1 DEF Create!CropByHand, Create!Wants
    <2>4. [no |-> given', pic |-> originalImage, at |-> "crop"]
             \in [no : 1..MaxGiven, pic : Create!Pictures, at : {"download", "timer", "crop"}]
      BY <2>1, <2>2
    <2>5. QED
      BY <1>1, <1>10, <2>2, <2>3, <2>4 DEF Create!CropByHand, Create!pageVars, PictureTypes
  <1>11. CASE Create!ClearPicture
    <2>1. given' \in 0..MaxGiven
      BY <1>2, <1>11 DEF Create!ClearPicture
    <2>2. wanted' = None /\ spoilt' \in BOOLEAN
      BY <1>11 DEF Create!ClearPicture, Create!Wants
    <2>3. QED
      BY <1>1, <1>11, <2>1, <2>2 DEF Create!ClearPicture, PictureTypes
  <1>12. ASSUME NEW c \in crops, Create!DownloadToCrop(c)
         PROVE  PictureTypes'
    <2>1. c.pic \in Create!Pictures /\ c.no \in 1..MaxGiven
      BY <1>1, <1>12 DEF PictureTypes
    <2>2. [no |-> c.no, pic |-> c.pic, at |-> "timer"]
             \in [no : 1..MaxGiven, pic : Create!Pictures, at : {"download", "timer", "crop"}]
      BY <2>1
    <2>3. QED
      BY <1>1, <1>12, <2>1, <2>2
         DEF Create!DownloadToCrop, Create!SetFile, Create!pageVars, PictureTypes
  <1>13. ASSUME NEW c \in crops, Create!CropTimer(c)
         PROVE  PictureTypes'
    <2>1. imageUrl # None => [c EXCEPT !.at = "crop", !.pic = imageUrl]
             \in [no : 1..MaxGiven, pic : Create!Pictures, at : {"download", "timer", "crop"}]
      BY <1>1, <1>13 DEF PictureTypes
    <2>2. crops' \subseteq [no : 1..MaxGiven, pic : Create!Pictures, at : {"download", "timer", "crop"}]
      BY <1>1, <1>13, <2>1 DEF Create!CropTimer, PictureTypes
    <2>3. UNCHANGED <<posterURL, imageUrl, originalImage, wanted, selections, given, spoilt>>
      BY <1>13 DEF Create!CropTimer, Create!pageVars, Create!historyVars
    <2>4. QED
      BY <1>1, <2>2, <2>3 DEF PictureTypes
  <1>14. ASSUME NEW c \in crops, Create!CropEnds(c)
         PROVE  PictureTypes'
    <2>1. c.pic \in Create!Pictures
      BY <1>1, <1>14 DEF PictureTypes
    <2>2. QED
      BY <1>1, <1>14, <2>1 DEF Create!CropEnds, PictureTypes
  <1>15. ASSUME UNCHANGED <<posterURL, imageUrl, originalImage, wanted, selections, crops, given, spoilt>>
         PROVE  PictureTypes'
    BY <1>1, <1>15 DEF PictureTypes
  <1>16. CASE Create!EditForm \/ Create!SubmitImport \/ Create!SubmitUpload
    BY <1>15, <1>16 DEF Create!EditForm, Create!SubmitImport, Create!SubmitUpload, Create!imageVars,
                        Create!pageVars, Create!historyVars
  <1>17. ASSUME NEW i \in DOMAIN imports, Create!Advance(i)
         PROVE  PictureTypes'
    BY <1>15, <1>17 DEF Create!Advance, Create!imageVars, Create!pageVars, Create!historyVars
  <1>18. CASE UNCHANGED createVars
    BY <1>15, <1>18 DEF createVars
  <1>19. QED
    BY <1>5, <1>6, <1>7, <1>8, <1>9, <1>10, <1>11, <1>12, <1>13, <1>14, <1>16, <1>17, <1>18
       DEF Create!CreateNext

\* One crop in process, or one selection.
LEMMA OneCrop ==
    ASSUME NEW q, crops' = {q}, selections' = {}, q.pic = wanted', q.at = "timer" => imageUrl' = q.pic
    PROVE  OnePicture'
  BY DEF OnePicture

LEMMA OneSelection ==
    ASSUME NEW q, selections' = {q}, crops' = {}, q.title = wanted'
    PROVE  OnePicture'
  BY DEF OnePicture

LEMMA SpoiltAnyway ==
    ASSUME spoilt'
    PROVE  OnePicture'
  BY DEF OnePicture

LEMMA OnePictureStep ==
    ASSUME CreateInv, [Create!CreateNext]_createVars
    PROVE  OnePicture'
  <1>1. OnePicture /\ spoilt \in BOOLEAN
    BY DEF CreateInv, PictureTypes
  <1>2. ASSUME NEW p, Create!Wants(p), ~spoilt'
        PROVE  selections = {} /\ crops = {} /\ wanted' = p
    BY <1>2 DEF Create!Wants
  <1>3. ASSUME NEW t \in Titles, Create!SelectTitle(t)
        PROVE  OnePicture'
    <2>1. /\ selections' = selections \cup {[no |-> given', title |-> t, at |-> "metadata"]}
          /\ UNCHANGED <<imageFile, imageUrl, crops>>
      BY <1>3 DEF Create!SelectTitle, Create!imageVars
    <2>2. ~spoilt' => selections = {} /\ crops = {} /\ wanted' = t
      BY <1>2, <1>3 DEF Create!SelectTitle
    <2>3. [no |-> given', title |-> t, at |-> "metadata"].title = t
      OBVIOUS
    <2>4. QED
      BY <2>1, <2>2, <2>3, OneSelection, SpoiltAnyway
  <1>4. ASSUME NEW s \in selections, Create!MetadataComes(s)
        PROVE  OnePicture'
    <2>1. CASE spoilt' = TRUE
      BY <2>1 DEF OnePicture
    <2>2. CASE /\ selections' = (selections \ {s}) \cup {[s EXCEPT !.at = "poster"]}
               /\ UNCHANGED spoilt
      <3>1. UNCHANGED <<crops, wanted>>
        BY <1>4 DEF Create!MetadataComes
      <3>2. [s EXCEPT !.at = "poster"].title = s.title
        BY <1>4 DEF CreateInv, PictureTypes
      <3>3. QED
        BY <1>1, <1>4, <2>2, <3>1, <3>2 DEF OnePicture
    <2>3. QED
      BY <1>4, <2>1, <2>2 DEF Create!MetadataComes
  <1>5. ASSUME NEW s \in selections, Create!PosterComes(s)
        PROVE  OnePicture'
    <2>1. /\ imageFile' = s.title /\ selections' = selections \ {s}
          /\ UNCHANGED <<crops, wanted, spoilt>>
      BY <1>5 DEF Create!PosterComes, Create!imageVars, Create!historyVars
    <2>2. QED
      BY <1>1, <1>5, <2>1 DEF OnePicture
  <1>6. ASSUME NEW s \in selections, Create!SelectionFails(s)
        PROVE  OnePicture'
    BY <1>6 DEF Create!SelectionFails, OnePicture
  <1>7. ASSUME NEW p \in Pics, Create!ChoosePicture(p)
        PROVE  OnePicture'
    <2>1. /\ crops' = {c \in crops : c.no # given'} \cup {[no |-> given', pic |-> p, at |-> "timer"]}
          /\ imageUrl' = p /\ UNCHANGED <<imageFile, selections>>
      BY <1>7 DEF Create!ChoosePicture, Create!SetFile, Create!pageVars
    <2>2. ~spoilt' => selections = {} /\ crops = {} /\ wanted' = p
      BY <1>2, <1>7 DEF Create!ChoosePicture
    <2>3. ~spoilt' => crops' = {[no |-> given', pic |-> p, at |-> "timer"]}
      BY <2>1, <2>2
    <2>4. [no |-> given', pic |-> p, at |-> "timer"].pic = p
      OBVIOUS
    <2>5. QED
      BY <2>1, <2>2, <2>3, <2>4, OneCrop, SpoiltAnyway
  <1>8. CASE Create!OpenCropModal
    <2>1. /\ crops' = crops \cup {[no |-> given', pic |-> posterURL, at |-> "download"]}
          /\ UNCHANGED <<imageFile, selections>>
      BY <1>8 DEF Create!OpenCropModal, Create!pageVars
    <2>2. ~spoilt' => selections = {} /\ crops = {} /\ wanted' = posterURL
      BY <1>8 DEF Create!OpenCropModal, Create!Wants
    <2>3. LET q == [no |-> given', pic |-> posterURL, at |-> "download"] IN q.pic = posterURL /\ q.at # "timer"
      OBVIOUS
    <2>4. QED
      BY <2>1, <2>2, <2>3, OneCrop, SpoiltAnyway
  <1>9. CASE Create!CropByHand
    <2>1. /\ crops' = crops \cup {[no |-> given', pic |-> originalImage, at |-> "crop"]}
          /\ UNCHANGED <<imageFile, selections>>
      BY <1>9 DEF Create!CropByHand, Create!pageVars
    <2>2. ~spoilt' => selections = {} /\ crops = {} /\ wanted' = originalImage
      BY <1>9 DEF Create!CropByHand, Create!Wants
    <2>3. LET q == [no |-> given', pic |-> originalImage, at |-> "crop"] IN q.pic = originalImage /\ q.at # "timer"
      OBVIOUS
    <2>4. QED
      BY <2>1, <2>2, <2>3, OneCrop, SpoiltAnyway
  <1>10. CASE Create!ClearPicture
    <2>1. imageFile' = None /\ UNCHANGED <<selections, crops>>
      BY <1>10 DEF Create!ClearPicture
    <2>2. ~spoilt' => selections = {} /\ crops = {} /\ wanted' = None
      BY <1>10 DEF Create!ClearPicture, Create!Wants
    <2>3. QED
      BY <2>1, <2>2 DEF OnePicture
  <1>11. ASSUME NEW c \in crops, Create!DownloadToCrop(c)
         PROVE  OnePicture'
    <2>1. UNCHANGED <<imageFile, selections, wanted>>
      BY <1>11 DEF Create!DownloadToCrop, Create!pageVars
    <2>2. CASE spoilt' = TRUE
      BY <2>2 DEF OnePicture
    <2>3. CASE Create!SetFile(c.no, c.pic) /\ UNCHANGED spoilt
      <3>1. /\ crops' = {d \in crops : d.no # c.no} \cup {[no |-> c.no, pic |-> c.pic, at |-> "timer"]}
            /\ imageUrl' = c.pic
        BY <2>3 DEF Create!SetFile
      <3>2. ~spoilt => crops' = {[no |-> c.no, pic |-> c.pic, at |-> "timer"]}
                       /\ c.pic = wanted /\ selections = {}
        BY <1>1, <1>11, <3>1 DEF OnePicture
      <3>3. [no |-> c.no, pic |-> c.pic, at |-> "timer"].pic = c.pic
        OBVIOUS
      <3>4. QED
        BY <2>1, <2>3, <3>1, <3>2, <3>3, OneCrop, SpoiltAnyway
    <2>4. QED
      BY <1>11, <2>2, <2>3 DEF Create!DownloadToCrop
  <1>12. ASSUME NEW c \in crops, Create!CropTimer(c)
         PROVE  OnePicture'
    <2>1. /\ crops' = (crops \ {c}) \cup
                        (IF imageUrl = None THEN {} ELSE {[c EXCEPT !.at = "crop", !.pic = imageUrl]})
          /\ c.at = "timer" /\ UNCHANGED <<imageFile, imageUrl, selections, wanted, spoilt>>
      BY <1>12 DEF Create!CropTimer, Create!pageVars, Create!historyVars
    <2>2. ASSUME ~spoilt
          PROVE  /\ crops' = {[c EXCEPT !.at = "crop", !.pic = imageUrl]}
                 /\ imageUrl = wanted /\ selections = {}
      <3>1. c.pic = wanted /\ imageUrl = c.pic /\ selections = {} /\ crops = {c}
        BY <1>1, <1>12, <2>1, <2>2 DEF OnePicture
      <3>2. c.pic # None
        BY <1>12, Nothings DEF CreateInv, PictureTypes, Create!Pictures
      <3>3. QED
        BY <2>1, <3>1, <3>2
    <2>3. LET d == [c EXCEPT !.at = "crop", !.pic = imageUrl] IN d.at = "crop" /\ d.pic = imageUrl
      BY <1>12 DEF CreateInv, PictureTypes
    <2>4. QED
      BY <2>1, <2>2, <2>3 DEF OnePicture
  <1>13. ASSUME NEW c \in crops, Create!CropEnds(c)
         PROVE  OnePicture'
    <2>1. crops' = crops \ {c} /\ UNCHANGED <<selections, wanted>>
      BY <1>13 DEF Create!CropEnds
    <2>2. CASE spoilt' = TRUE
      BY <2>2 DEF OnePicture
    <2>3. CASE imageFile' = c.pic /\ UNCHANGED spoilt
      BY <1>1, <1>13, <2>1, <2>3 DEF OnePicture
    <2>4. QED
      BY <1>13, <2>2, <2>3 DEF Create!CropEnds
  <1>14. ASSUME UNCHANGED <<imageFile, imageUrl, selections, crops, wanted, spoilt>>
         PROVE  OnePicture'
    BY <1>1, <1>14 DEF OnePicture
  <1>15. CASE Create!EditForm \/ Create!SubmitImport \/ Create!SubmitUpload
    BY <1>14, <1>15 DEF Create!EditForm, Create!SubmitImport, Create!SubmitUpload, Create!imageVars,
                        Create!pageVars, Create!historyVars
  <1>16. ASSUME NEW i \in DOMAIN imports, Create!Advance(i)
         PROVE  OnePicture'
    BY <1>14, <1>16 DEF Create!Advance, Create!imageVars, Create!pageVars, Create!historyVars
  <1>17. CASE UNCHANGED createVars
    BY <1>14, <1>17 DEF createVars
  <1>18. QED
    BY <1>3, <1>4, <1>5, <1>6, <1>7, <1>8, <1>9, <1>10, <1>11, <1>12, <1>13, <1>15, <1>16, <1>17
       DEF Create!CreateNext

LEMMA CreateInvariant == Spec => []CreateInv
  <1>1. Init => CreateInv
    BY CreateStarts DEF Init
  <1>2. CreateInv /\ [Next]_vars => CreateInv'
    <2> SUFFICES ASSUME CreateInv, [Next]_vars PROVE CreateInv'
      OBVIOUS
    <2>1. [Create!CreateNext]_createVars
      BY StepOfOnePage
    <2>2. QED
      BY <2>1, CreatePageStep, PictureTypesStep, OnePictureStep DEF CreateInv
  <1>3. QED
    BY <1>1, <1>2, PTL DEF Spec

\* An import stores what the page showed when it was submitted, each stage
\* that fails losing only its own part, and never writes a form that nobody
\* edited (import-title.component.ts:65-177).
THEOREM ImportCorrect == Spec => []ImportStoresWhatWasShown
  <1>1. CreateInv => ImportStoresWhatWasShown
    BY CreateCorrect
  <1>2. QED
    BY <1>1, CreateInvariant, PTL

\* Once nothing is in process the picture of the form is the one given last,
\* unless two crossed or one failed (image-upload.component.ts:102-183).
THEOREM PictureCorrect == Spec => []PictureIsTheLastGiven
  <1>1. CreateInv => PictureIsTheLastGiven
    BY CreateCorrect
  <1>2. QED
    BY <1>1, CreateInvariant, PTL

-----------------------------------------------------------------------------
(* The page of one movie *)

(* Its steps, and what each leaves alone. *)

\* The dialog on top is opened, filled, reset or closed.
Typing ==
  \/ \E kind \in {"edit", "publish", "poster", "backdrop", "remove", "upload"} : Inspect!OpenPopup(kind)
  \/ \E f \in Fields : Inspect!EditField(f)
  \/ Inspect!ResetForm
  \/ Inspect!ClosePopup

\* A dialog is confirmed with a request.
Asking ==
  \/ Inspect!SaveMetadata
  \/ Inspect!TogglePublish
  \/ Inspect!ChangePoster
  \/ Inspect!ChangeBackdrop
  \/ Inspect!RemoveMovie

InspectStep ==
  \/ Typing \/ Asking \/ Inspect!UploadVideo
  \/ \E c \in calls : Inspect!Serve(c)
  \/ \E c \in calls : Inspect!MovieComes(c)
  \/ \E c \in calls : Inspect!OnMovieLoad(c)
  \/ \E c \in calls : Inspect!MovieRemoved(c)
  \/ \E c \in calls : Inspect!CallFails(c)
  \/ Inspect!PosterTimer \/ Inspect!BackdropTimer \/ Inspect!CreatedTimer
  \/ Inspect!VideoTimer
  \/ \E id \in backdropLoads : Inspect!BackdropComes(id)
  \/ Inspect!PosterError
  \/ \E l \in logLoads : Inspect!ReadLog(l)
  \/ \E l \in logLoads : Inspect!LogComes(l)
  \/ \E n \in uploads : Inspect!Progress(n)
  \/ \E n \in uploads : Inspect!UploadDone(n)
  \/ \E n \in uploads : Inspect!UploadFails(n)
  \/ \E n \in uploads : Inspect!UploadBegins(n)
  \/ \E n \in uploads : Inspect!UploadWhole(n)
  \/ \E n \in videos : Inspect!VideoNamed(n)
  \/ Inspect!LogEntry
  \/ Inspect!WatchMovie
  \/ UNCHANGED inspectVars

LEMMA InspectCases == [Inspect!InspectNext]_inspectVars => InspectStep
  BY DEF Inspect!InspectNext, Typing, Asking, InspectStep

LEMMA DialogFrame ==
    /\ Typing =>
         UNCHANGED <<managing, fromCreation, behind, server, movie, posterUrl, backdropUrl,
                     auditLogs, calls, timers, backdropLoads, logLoads, uploads, posts, whole,
                     videos, subject, closed, heard, isUploadingVideo, progressOf, left, sent,
                     unread>>
    /\ Asking =>
         UNCHANGED <<managing, fromCreation, behind, server, movie, posterUrl, backdropUrl,
                     auditLogs, timers, backdropLoads, logLoads, uploads, posts, whole, videos,
                     subject, closed, heard, isUploadingVideo, progressOf, left, unread>>
    /\ Inspect!UploadVideo =>
         UNCHANGED <<managing, fromCreation, behind, server, movie, posterUrl, backdropUrl,
                     auditLogs, calls, timers, backdropLoads, logLoads, posts, whole, videos,
                     subject, closed, left, unread>>
  <1>1. Typing =>
         UNCHANGED <<managing, fromCreation, behind, server, movie, posterUrl, backdropUrl,
                     auditLogs, calls, timers, backdropLoads, logLoads, uploads, posts, whole,
                     videos, subject, closed, heard, isUploadingVideo, progressOf, left, sent,
                     unread>>
    BY DEF Typing, Inspect!OpenPopup, Inspect!EditField, Inspect!ResetForm, Inspect!ClosePopup,
           Inspect!shownVars, Inspect!loadVars, Inspect!uploadVars
  <1>2. Asking =>
         UNCHANGED <<managing, fromCreation, behind, server, movie, posterUrl, backdropUrl,
                     auditLogs, timers, backdropLoads, logLoads, uploads, posts, whole, videos,
                     subject, closed, heard, isUploadingVideo, progressOf, left, unread>>
    BY DEF Asking, Inspect!SaveMetadata, Inspect!TogglePublish, Inspect!ChangePoster,
           Inspect!ChangeBackdrop, Inspect!RemoveMovie, Inspect!Confirm, Inspect!shownVars,
           Inspect!loadVars, Inspect!uploadVars
  <1>3. Inspect!UploadVideo =>
         UNCHANGED <<managing, fromCreation, behind, server, movie, posterUrl, backdropUrl,
                     auditLogs, calls, timers, backdropLoads, logLoads, posts, whole, videos,
                     subject, closed, left, unread>>
    BY DEF Inspect!UploadVideo, Inspect!Confirm, Inspect!shownVars, Inspect!loadVars
  <1>4. QED
    BY <1>1, <1>2, <1>3

LEMMA AnswerFrame ==
    ASSUME NEW c \in calls
    PROVE  /\ Inspect!Serve(c) =>
                UNCHANGED <<managing, fromCreation, behind, movie, posterUrl, backdropUrl,
                            auditLogs, popup, timers, backdropLoads, logLoads, uploads, posts,
                            whole, videos, subject, closed, heard, isUploadingVideo, progressOf,
                            left, sent, unread, apart>>
           /\ Inspect!MovieComes(c) =>
                UNCHANGED <<managing, fromCreation, behind, server, backdropUrl, auditLogs, popup,
                            uploads, posts, whole, videos, subject, closed, heard, isUploadingVideo,
                            progressOf, left, sent, unread>>
           /\ Inspect!OnMovieLoad(c) =>
                UNCHANGED <<managing, fromCreation, behind, server, posterUrl, backdropUrl,
                            auditLogs, popup, backdropLoads, uploads, posts, whole, videos, subject,
                            closed, heard, isUploadingVideo, progressOf, left, sent, unread>>
           /\ Inspect!MovieRemoved(c) =>
                UNCHANGED <<managing, fromCreation, behind, server, movie, posterUrl, backdropUrl,
                            auditLogs, popup, timers, backdropLoads, logLoads, uploads, posts,
                            whole, videos, subject, closed, heard, isUploadingVideo, progressOf,
                            sent, unread, apart>>
           /\ Inspect!CallFails(c) =>
                UNCHANGED <<managing, fromCreation, behind, server, movie, posterUrl, backdropUrl,
                            auditLogs, popup, timers, backdropLoads, logLoads, uploads, posts,
                            whole, videos, subject, closed, heard, isUploadingVideo, progressOf,
                            sent>>
  BY DEF Inspect!Serve, Inspect!MovieComes, Inspect!OnMovieLoad, Inspect!MovieRemoved,
         Inspect!CallFails, Inspect!Answered, Inspect!shownVars, Inspect!loadVars, Inspect!uploadVars

LEMMA TimerFrame ==
    /\ Inspect!PosterTimer =>
         UNCHANGED <<managing, fromCreation, behind, server, movie, backdropUrl, auditLogs, popup,
                     calls, backdropLoads, logLoads, uploads, posts, whole, videos, subject, closed,
                     heard, isUploadingVideo, progressOf, left, sent, unread, apart>>
    /\ Inspect!BackdropTimer =>
         UNCHANGED <<managing, fromCreation, behind, server, movie, posterUrl, backdropUrl,
                     auditLogs, popup, calls, logLoads, uploads, posts, whole, videos, subject,
                     closed, heard, isUploadingVideo, progressOf, left, sent, unread>>
    /\ Inspect!CreatedTimer =>
         UNCHANGED <<managing, fromCreation, behind, server, movie, backdropUrl, auditLogs, popup,
                     calls, logLoads, uploads, posts, whole, videos, subject, closed, heard,
                     isUploadingVideo, progressOf, left, sent, unread>>
    /\ Inspect!VideoTimer =>
         UNCHANGED <<managing, fromCreation, behind, server, movie, posterUrl, backdropUrl,
                     auditLogs, popup, backdropLoads, logLoads, uploads, posts, whole, videos,
                     subject, closed, heard, isUploadingVideo, progressOf, left, sent, unread>>
  BY DEF Inspect!PosterTimer, Inspect!BackdropTimer, Inspect!CreatedTimer, Inspect!VideoTimer,
         Inspect!FirstTimer, Inspect!uploadVars

LEMMA LoadFrame ==
    /\ \A id \in backdropLoads : Inspect!BackdropComes(id) =>
         UNCHANGED <<managing, fromCreation, behind, server, movie, posterUrl, auditLogs, popup,
                     calls, timers, logLoads, uploads, posts, whole, videos, subject, closed, heard,
                     isUploadingVideo, progressOf, left, sent, unread, apart>>
    /\ Inspect!PosterError =>
         UNCHANGED <<managing, fromCreation, behind, server, movie, backdropUrl, auditLogs, popup,
                     calls, timers, backdropLoads, logLoads, uploads, posts, whole, videos, subject,
                     closed, heard, isUploadingVideo, progressOf, left, sent, unread, apart>>
    /\ \A l \in logLoads : Inspect!ReadLog(l) =>
         UNCHANGED <<managing, fromCreation, behind, server, movie, posterUrl, backdropUrl,
                     auditLogs, popup, calls, timers, backdropLoads, uploads, posts, whole, videos,
                     subject, closed, heard, isUploadingVideo, progressOf, left, sent, apart>>
    /\ \A l \in logLoads : Inspect!LogComes(l) =>
         UNCHANGED <<managing, fromCreation, behind, server, movie, posterUrl, backdropUrl, popup,
                     calls, timers, backdropLoads, uploads, posts, whole, videos, subject, closed,
                     heard, isUploadingVideo, progressOf, left, sent, unread>>
  BY DEF Inspect!BackdropComes, Inspect!PosterError, Inspect!ReadLog, Inspect!LogComes,
         Inspect!shownVars, Inspect!loadVars, Inspect!uploadVars

LEMMA VideoFrame ==
    /\ \A n \in uploads : Inspect!Progress(n) =>
         UNCHANGED <<managing, fromCreation, behind, server, movie, posterUrl, backdropUrl,
                     auditLogs, popup, calls, timers, backdropLoads, logLoads, uploads, posts,
                     whole, videos, subject, closed, heard, isUploadingVideo, left, sent, unread,
                     apart>>
    /\ \A n \in uploads : Inspect!UploadDone(n) =>
         UNCHANGED <<managing, fromCreation, behind, server, movie, posterUrl, backdropUrl,
                     auditLogs, popup, calls, backdropLoads, logLoads, videos, progressOf, left,
                     sent, unread, apart>>
    /\ \A n \in uploads : Inspect!UploadFails(n) =>
         UNCHANGED <<managing, fromCreation, behind, server, movie, posterUrl, backdropUrl,
                     auditLogs, popup, calls, timers, backdropLoads, logLoads, videos, subject,
                     closed, progressOf, left, sent>>
    /\ \A n \in uploads : Inspect!UploadBegins(n) =>
         UNCHANGED <<managing, fromCreation, behind, movie, posterUrl, backdropUrl, auditLogs, popup,
                     calls, timers, backdropLoads, logLoads, uploads, whole, videos, subject, closed,
                     heard, isUploadingVideo, progressOf, left, sent, unread, apart>>
    /\ \A n \in uploads : Inspect!UploadWhole(n) =>
         UNCHANGED <<managing, fromCreation, behind, server, movie, posterUrl, backdropUrl, auditLogs,
                     popup, calls, timers, backdropLoads, logLoads, uploads, posts, subject, closed,
                     heard, isUploadingVideo, progressOf, left, sent, unread, apart>>
    /\ \A n \in videos : Inspect!VideoNamed(n) =>
         UNCHANGED <<managing, fromCreation, behind, movie, posterUrl, backdropUrl, auditLogs, popup,
                     calls, timers, backdropLoads, logLoads, uploads, posts, whole, subject, closed,
                     heard, isUploadingVideo, progressOf, left, sent, unread>>
    /\ Inspect!LogEntry =>
         UNCHANGED <<managing, fromCreation, behind, movie, posterUrl, backdropUrl, popup, calls,
                     timers, backdropLoads, uploads, posts, whole, videos, subject, closed, heard,
                     isUploadingVideo, progressOf, left, sent, apart>>
    /\ Inspect!WatchMovie =>
         UNCHANGED <<managing, fromCreation, behind, server, movie, posterUrl, backdropUrl,
                     auditLogs, popup, calls, timers, backdropLoads, logLoads, uploads, posts,
                     whole, videos, subject, closed, isUploadingVideo, progressOf, sent, unread,
                     apart>>
  BY DEF Inspect!Progress, Inspect!UploadDone, Inspect!UploadFails, Inspect!UploadOver,
         Inspect!UploadBegins, Inspect!UploadWhole, Inspect!VideoNamed, Inspect!LogEntry,
         Inspect!WatchMovie, Inspect!shownVars, Inspect!loadVars, Inspect!uploadVars

LEMMA StutterFrame ==
    UNCHANGED inspectVars =>
         UNCHANGED <<managing, fromCreation, behind, server, movie, posterUrl, backdropUrl,
                     auditLogs, popup, calls, timers, backdropLoads, logLoads, uploads, posts,
                     whole, videos, subject, closed, heard, isUploadingVideo, progressOf, left,
                     sent, unread, apart>>
  BY DEF inspectVars

\* Which steps change which part.
LEMMA ServerWriters ==
    ASSUME InspectStep
    PROVE  \/ UNCHANGED server
           \/ \E c \in calls : Inspect!Serve(c)
           \/ \E n \in uploads : Inspect!UploadBegins(n)
           \/ \E n \in videos : Inspect!VideoNamed(n)
           \/ Inspect!LogEntry
  BY DialogFrame, AnswerFrame, TimerFrame, LoadFrame, VideoFrame, StutterFrame DEF InspectStep

LEMMA DialogWriters ==
    ASSUME InspectStep
    PROVE  UNCHANGED popup \/ Typing \/ Asking \/ Inspect!UploadVideo
  BY AnswerFrame, TimerFrame, LoadFrame, VideoFrame, StutterFrame DEF InspectStep

LEMMA CallWriters ==
    ASSUME InspectStep
    PROVE  \/ UNCHANGED calls
           \/ Asking
           \/ \E c \in calls : Inspect!Serve(c)
           \/ \E c \in calls : Inspect!MovieComes(c)
           \/ \E c \in calls : Inspect!OnMovieLoad(c)
           \/ \E c \in calls : Inspect!MovieRemoved(c)
           \/ \E c \in calls : Inspect!CallFails(c)
           \/ Inspect!VideoTimer
  BY DialogFrame, TimerFrame, LoadFrame, VideoFrame, StutterFrame DEF InspectStep

LEMMA TimerWriters ==
    ASSUME InspectStep
    PROVE  \/ UNCHANGED timers
           \/ \E c \in calls : Inspect!MovieComes(c)
           \/ \E c \in calls : Inspect!OnMovieLoad(c)
           \/ Inspect!PosterTimer \/ Inspect!BackdropTimer \/ Inspect!CreatedTimer
           \/ Inspect!VideoTimer
           \/ \E n \in uploads : Inspect!UploadDone(n)
  BY DialogFrame, AnswerFrame, LoadFrame, VideoFrame, StutterFrame DEF InspectStep

LEMMA LoadWriters ==
    ASSUME InspectStep
    PROVE  \/ UNCHANGED <<backdropLoads, logLoads>>
           \/ \E c \in calls : Inspect!MovieComes(c)
           \/ \E c \in calls : Inspect!OnMovieLoad(c)
           \/ Inspect!BackdropTimer \/ Inspect!CreatedTimer
           \/ \E id \in backdropLoads : Inspect!BackdropComes(id)
           \/ \E l \in logLoads : Inspect!ReadLog(l)
           \/ \E l \in logLoads : Inspect!LogComes(l)
           \/ Inspect!LogEntry
  BY DialogFrame, AnswerFrame, TimerFrame, LoadFrame, VideoFrame, StutterFrame DEF InspectStep

LEMMA ShownWriters ==
    ASSUME InspectStep
    PROVE  \/ UNCHANGED <<movie, posterUrl, backdropUrl, auditLogs>>
           \/ \E c \in calls : Inspect!MovieComes(c)
           \/ \E c \in calls : Inspect!OnMovieLoad(c)
           \/ Inspect!PosterTimer \/ Inspect!CreatedTimer
           \/ \E id \in backdropLoads : Inspect!BackdropComes(id)
           \/ Inspect!PosterError
           \/ \E l \in logLoads : Inspect!LogComes(l)
           \/ Inspect!LogEntry
  BY DialogFrame, AnswerFrame, TimerFrame, LoadFrame, VideoFrame, StutterFrame DEF InspectStep

LEMMA UploadWriters ==
    ASSUME InspectStep
    PROVE  \/ UNCHANGED <<uploads, posts, whole, videos, subject, closed, heard, isUploadingVideo,
                          progressOf>>
           \/ Inspect!UploadVideo
           \/ \E n \in uploads : Inspect!Progress(n)
           \/ \E n \in uploads : Inspect!UploadDone(n)
           \/ \E n \in uploads : Inspect!UploadFails(n)
           \/ \E n \in uploads : Inspect!UploadBegins(n)
           \/ \E n \in uploads : Inspect!UploadWhole(n)
           \/ \E n \in videos : Inspect!VideoNamed(n)
           \/ Inspect!WatchMovie
  BY DialogFrame, AnswerFrame, TimerFrame, LoadFrame, VideoFrame, StutterFrame DEF InspectStep

LEMMA UnreadWriters ==
    ASSUME InspectStep
    PROVE  \/ UNCHANGED unread
           \/ \E c \in calls : Inspect!CallFails(c)
           \/ \E l \in logLoads : Inspect!ReadLog(l)
           \/ \E n \in uploads : Inspect!UploadFails(n)
           \/ Inspect!LogEntry
  BY DialogFrame, AnswerFrame, TimerFrame, LoadFrame, VideoFrame, StutterFrame DEF InspectStep

(* Its types. *)

Movies == Inspect!Parts

Calls ==
  [no : 0..MaxActs, kind : Inspect!Kinds, base : {None} \cup Movies, fields : SUBSET Fields,
   shown : SUBSET Fields, at : {"sent", "answered"}, answer : {None} \cup Movies]

\* Every request but that for the movie is made from a movie, and every
\* answer is one.
CallTyped(c) ==
  /\ c \in Calls
  /\ c.kind = "load" => c.base = None
  /\ c.kind # "load" => c.base \in Movies
  /\ c.kind = "backdrop" => c.no \in Inspect!Acts
  /\ c.at = "answered" => c.answer \in Movies

Dialogs ==
  [kind : Inspect!Kinds \cup {"upload"}, base : Movies, shown : SUBSET Fields, held : SUBSET Fields,
   told : BOOLEAN, reset : BOOLEAN]

Timers ==
  [what : {"poster"}, id : 0..MaxActs] \cup [what : {"backdrop"}, id : {None} \cup Inspect!Acts]
    \cup [what : {"created"}, id : {None}] \cup [what : {"video"}, id : Inspect!Acts]

LogTyped(l) ==
  \E no : \E read, entries \in BOOLEAN : l = [no |-> no, read |-> read, entries |-> entries]

FlagTypes ==
  /\ managing \in BOOLEAN /\ fromCreation \in BOOLEAN /\ behind \in BOOLEAN
  /\ left \in BOOLEAN /\ unread \in BOOLEAN /\ apart \in BOOLEAN
  /\ sent \in 0..MaxActs

ServerTypes == server \in [movie : Movies, owed : Nat]

DialogTypes == popup = None \/ popup \in Dialogs

CallTypes == \A c \in calls : CallTyped(c)

TimerTypes == timers \in Seq(Timers)

LoadTypes == backdropLoads \subseteq Inspect!Acts /\ \A l \in logLoads : LogTyped(l)

ShownTypes ==
  /\ movie = None \/ movie \in Movies
  /\ posterUrl \in {None} \cup 0..MaxActs /\ backdropUrl \in {None} \cup Inspect!Acts
  /\ auditLogs \in BOOLEAN

UploadTypes ==
  /\ uploads \subseteq Inspect!Acts /\ videos \subseteq Inspect!Acts
  /\ whole \subseteq Inspect!Acts /\ posts \in [Inspect!Acts -> 0..MaxPosts]
  /\ subject \in Nat /\ \A s \in closed : s \in Nat /\ s < subject
  /\ heard \in {None} \cup 0..subject
  /\ isUploadingVideo \in BOOLEAN /\ progressOf \in {None} \cup Inspect!Acts

\* Before the movie came there is nothing on the page to act on.
NothingYet ==
  movie = None =>
    /\ popup = None /\ timers = <<>> /\ uploads = {} /\ backdropLoads = {}
    /\ posterUrl = None /\ backdropUrl = None
    /\ \A c \in calls : c.kind = "load"

InspectTypes ==
  /\ FlagTypes
  /\ ServerTypes
  /\ DialogTypes
  /\ CallTypes
  /\ TimerTypes
  /\ LoadTypes
  /\ ShownTypes
  /\ UploadTypes
  /\ NothingYet

LEMMA InspectTyped == InspectTypes => Inspect!InspectTypeOK
  <1> SUFFICES ASSUME InspectTypes PROVE Inspect!InspectTypeOK
    OBVIOUS
  <1>1. /\ {managing, fromCreation, behind, left, unread} \subseteq BOOLEAN
        /\ sent \in 0..MaxActs
    BY DEF InspectTypes, FlagTypes
  <1>2. server.movie \in Inspect!Parts /\ server.owed \in Nat
    BY DEF InspectTypes, ServerTypes, Movies
  <1>3. /\ movie = None \/ movie \in Inspect!Parts
        /\ posterUrl \in {None} \cup 0..MaxActs /\ backdropUrl \in {None} \cup Inspect!Acts
        /\ auditLogs \in BOOLEAN
    BY DEF InspectTypes, ShownTypes, Movies
  <1>4. popup # None => popup.kind \in Inspect!Kinds \cup {"upload"}
    BY DEF InspectTypes, DialogTypes, Dialogs
  <1>5. \A c \in calls : c.kind \in Inspect!Kinds /\ c.at \in {"sent", "answered"}
    BY DEF InspectTypes, CallTypes, CallTyped, Calls
  <1>6. \A i \in DOMAIN timers : timers[i].what \in {"poster", "backdrop", "created", "video"}
    <2> SUFFICES ASSUME NEW i \in DOMAIN timers
                 PROVE  timers[i].what \in {"poster", "backdrop", "created", "video"}
      OBVIOUS
    <2>1. timers[i] \in Timers
      BY DEF InspectTypes, TimerTypes
    <2>2. QED
      BY <2>1 DEF Timers
  <1>7. /\ UNION {uploads, whole, videos} \subseteq Inspect!Acts
        /\ posts \in [Inspect!Acts -> 0..MaxPosts]
        /\ heard \in {None} \cup 0..subject
        /\ isUploadingVideo \in BOOLEAN /\ progressOf \in {None} \cup Inspect!Acts
    BY DEF InspectTypes, UploadTypes
  <1>8. closed \subseteq 0..subject
    <2> SUFFICES ASSUME NEW s \in closed PROVE s \in 0..subject
      OBVIOUS
    <2>1. s \in Nat /\ s < subject /\ subject \in Nat
      BY DEF InspectTypes, UploadTypes
    <2>2. QED
      BY <2>1
  <1>9. QED
    BY <1>1, <1>2, <1>3, <1>4, <1>5, <1>6, <1>7, <1>8 DEF Inspect!InspectTypeOK

LEMMA InspectStartsTyped == Inspect!InspectInit => InspectTypes
  <1> SUFFICES ASSUME Inspect!InspectInit PROVE InspectTypes
    OBVIOUS
  <1>1. 0 \in 0..MaxActs /\ None \notin Nat
    BY Bounds, Nothings
  <1>2. FlagTypes
    <2>1. /\ managing \in BOOLEAN /\ fromCreation \in BOOLEAN /\ behind \in BOOLEAN
          /\ left = FALSE /\ unread = FALSE /\ apart = FALSE /\ sent = 0
      BY DEF Inspect!InspectInit
    <2>2. sent \in 0..MaxActs
      BY <1>1, <2>1
    <2>3. QED
      BY <2>1, <2>2 DEF FlagTypes
  <1>3. ServerTypes
    <2>1. server = [movie |-> [meta |-> [f \in Fields |-> 0], days |-> 0, poster |-> 0,
                               backdrop |-> None, video |-> None, published |-> FALSE],
                    owed |-> IF fromCreation THEN 1 ELSE 0]
      BY DEF Inspect!InspectInit
    <2>2. [f \in Fields |-> 0] \in [Fields -> 0..MaxActs]
      BY <1>1
    <2>3. server.movie \in Movies
      BY <1>1, <2>1, <2>2 DEF Movies, Inspect!Parts
    <2>4. server.owed \in {0, 1}
      BY <2>1
    <2>5. QED
      BY <2>1, <2>3, <2>4 DEF ServerTypes
  <1>4. CallTypes
    <2>1. calls = {[no |-> 0, kind |-> "load", base |-> None, fields |-> {}, shown |-> {},
                    at |-> "sent", answer |-> None]}
      BY DEF Inspect!InspectInit
    <2>2. QED
      BY <1>1, <2>1 DEF CallTypes, CallTyped, Calls, Inspect!Kinds
  <1>5. DialogTypes /\ TimerTypes /\ LoadTypes
    BY DEF Inspect!InspectInit, DialogTypes, TimerTypes, LoadTypes
  <1>6. ShownTypes
    BY DEF Inspect!InspectInit, ShownTypes
  <1>7. UploadTypes
    <2>1. [n \in Inspect!Acts |-> 0] \in [Inspect!Acts -> 0..MaxPosts]
      BY Bounds
    <2>2. QED
      BY <2>1 DEF Inspect!InspectInit, UploadTypes
  <1>8. NothingYet
    BY DEF Inspect!InspectInit, NothingYet
  <1>9. QED
    BY <1>2, <1>3, <1>4, <1>5, <1>6, <1>7, <1>8 DEF InspectTypes

\* What a request makes of a movie.
LEMMA ChangedMakes ==
    ASSUME NEW c, CallTyped(c), NEW m \in Movies
    PROVE  LET n == Inspect!Changed(c, m) IN
           /\ n \in Movies
           /\ n.video = m.video
           /\ c.kind # "edit" => n.meta = m.meta /\ n.days = m.days
           /\ n.poster = IF c.kind = "poster" THEN c.no ELSE m.poster
           /\ n.backdrop = IF c.kind = "backdrop" THEN c.no ELSE m.backdrop
           /\ c.kind = "publish" => n.published = TRUE
           /\ c.kind = "unpublish" => n.published = FALSE
           /\ c.kind \notin {"publish", "unpublish"} => n.published = m.published
  <1> USE DEF Movies, Inspect!Parts
  <1>1. c.kind \in Inspect!Kinds /\ c.no \in 0..MaxActs
    BY DEF CallTyped, Calls
  <1>2. CASE c.kind = "edit"
    <2>1. c.base \in Movies
      BY <1>2 DEF CallTyped
    <2>2. [f \in Fields |-> IF f \in c.fields THEN c.no ELSE c.base.meta[f]] \in [Fields -> 0..MaxActs]
      BY <1>1, <2>1
    <2>3. PICK meta \in [Fields -> 0..MaxActs] :
            meta = [f \in Fields |-> IF f \in c.fields THEN c.no ELSE c.base.meta[f]]
      BY <2>2
    <2>4. (IF ReleaseDate \in c.fields THEN 0 ELSE c.base.days + Inspect!Shift) \in Nat
      BY <2>1 DEF Inspect!Shift
    <2>5. PICK days \in Nat :
            days = IF ReleaseDate \in c.fields THEN 0 ELSE c.base.days + Inspect!Shift
      BY <2>4
    <2>6. Inspect!Changed(c, m) = [m EXCEPT !.meta = meta, !.days = days]
      BY <1>2, <2>3, <2>5 DEF Inspect!Changed
    <2>7. QED
      BY <1>2, <2>6
  <1>3. CASE c.kind \in {"publish", "unpublish"}
    <2>1. PICK b \in BOOLEAN : b = (c.kind = "publish")
      OBVIOUS
    <2>2. Inspect!Changed(c, m) = [m EXCEPT !.published = b]
      BY <1>3, <2>1 DEF Inspect!Changed
    <2>3. QED
      BY <1>3, <2>1, <2>2
  <1>4. CASE c.kind = "poster"
    BY <1>1, <1>4 DEF Inspect!Changed
  <1>5. CASE c.kind = "backdrop"
    BY <1>5 DEF Inspect!Changed, CallTyped
  <1>6. CASE c.kind \in {"load", "remove"}
    BY <1>6 DEF Inspect!Changed
  <1>7. QED
    BY <1>1, <1>2, <1>3, <1>4, <1>5, <1>6 DEF Inspect!Kinds

\* What a confirmed dialog sends.
Sends(c) ==
  /\ ~left /\ popup # None /\ popup' = None
  /\ sent' \in Inspect!Acts
  /\ calls' = calls \cup {c} /\ CallTyped(c)
  /\ apart' = (apart \/ calls # {})
  /\ c.at = "sent" /\ c.kind # "load" /\ c.base = popup.base /\ c.shown = popup.shown
  /\ \/ c.kind = "edit" /\ c.fields = popup.held
     \/ c.kind # "edit" /\ c.fields = {} /\ popup.kind # "edit"
  /\ c.kind = "publish" => ~movie.published
  /\ c.kind = "unpublish" => movie.published

LEMMA ConfirmedIsTyped ==
    ASSUME DialogTypes, FlagTypes, NEW kind, Inspect!Confirm(kind)
    PROVE  popup \in Dialogs /\ popup.kind = kind /\ sent' \in Inspect!Acts
  <1>1. popup \in Dialogs /\ popup.kind = kind
    BY DEF DialogTypes, Inspect!Confirm
  <1>2. sent \in 0..MaxActs /\ sent < MaxActs /\ sent' = sent + 1
    BY DEF FlagTypes, Inspect!Confirm
  <1>3. sent' \in Inspect!Acts
    BY <1>2, Bounds DEF Inspect!Acts
  <1>4. QED
    BY <1>1, <1>3

LEMMA SentIsTyped ==
    ASSUME DialogTypes, FlagTypes, NEW of, Inspect!Confirm(of), NEW kind \in Inspect!Kinds,
           NEW fields \in SUBSET Fields, kind # "load", Inspect!Send(kind, fields)
    PROVE  \E c : /\ ~left /\ popup # None /\ popup' = None
                  /\ sent' \in Inspect!Acts
                  /\ calls' = calls \cup {c} /\ CallTyped(c)
                  /\ apart' = (apart \/ calls # {})
                  /\ c.at = "sent" /\ c.kind = kind /\ c.base = popup.base /\ c.shown = popup.shown
                  /\ c.fields = fields
  <1>1. popup \in Dialogs /\ sent' \in Inspect!Acts
    BY ConfirmedIsTyped
  <1>2. sent' \in 0..MaxActs
    BY <1>1, Bounds DEF Inspect!Acts
  <1> DEFINE c == [no |-> sent', kind |-> kind, base |-> popup.base, fields |-> fields,
                   shown |-> popup.shown, at |-> "sent", answer |-> None]
  <1>3. c \in Calls
    BY <1>1, <1>2 DEF Calls, Dialogs
  <1>4. CallTyped(c)
    BY <1>1, <1>3 DEF CallTyped, Dialogs
  <1>5. calls' = calls \cup {c} /\ apart' = (apart \/ calls # {})
    BY DEF Inspect!Send
  <1>6. ~left /\ popup # None /\ popup' = None
    BY DEF Inspect!Confirm
  <1>7. QED
    BY <1>1, <1>4, <1>5, <1>6

LEMMA AskingSends ==
    ASSUME DialogTypes, FlagTypes, ShownTypes, NothingYet, Asking
    PROVE  \E c : Sends(c)
  <1>1. CASE Inspect!SaveMetadata
    <2>1. popup.held \in SUBSET Fields /\ Inspect!Confirm("edit") /\ Inspect!Send("edit", popup.held)
      BY <1>1, ConfirmedIsTyped DEF Inspect!SaveMetadata, Dialogs
    <2>2. QED
      BY <2>1, SentIsTyped DEF Sends, Inspect!Kinds
  <1>2. CASE Inspect!TogglePublish
    <2>1. Inspect!Confirm("publish") /\ popup.kind # "edit"
      BY <1>2, ConfirmedIsTyped DEF Inspect!TogglePublish
    <2>2. movie.published \in BOOLEAN
      BY <2>1 DEF NothingYet, ShownTypes, Movies, Inspect!Parts, Inspect!Confirm
    <2>3. CASE movie.published
      <3>1. Inspect!Send("unpublish", {})
        BY <1>2, <2>3 DEF Inspect!TogglePublish
      <3>2. QED
        BY <2>1, <2>3, <3>1, SentIsTyped DEF Sends, Inspect!Kinds
    <2>4. CASE ~movie.published
      <3>1. Inspect!Send("publish", {})
        BY <1>2, <2>4 DEF Inspect!TogglePublish
      <3>2. QED
        BY <2>1, <2>4, <3>1, SentIsTyped DEF Sends, Inspect!Kinds
    <2>5. QED
      BY <2>3, <2>4
  <1>3. CASE Inspect!ChangePoster
    <2>1. Inspect!Confirm("poster") /\ popup.kind # "edit" /\ Inspect!Send("poster", {})
      BY <1>3, ConfirmedIsTyped DEF Inspect!ChangePoster
    <2>2. QED
      BY <2>1, SentIsTyped DEF Sends, Inspect!Kinds
  <1>4. CASE Inspect!ChangeBackdrop
    <2>1. Inspect!Confirm("backdrop") /\ popup.kind # "edit" /\ Inspect!Send("backdrop", {})
      BY <1>4, ConfirmedIsTyped DEF Inspect!ChangeBackdrop
    <2>2. QED
      BY <2>1, SentIsTyped DEF Sends, Inspect!Kinds
  <1>5. CASE Inspect!RemoveMovie
    <2>1. Inspect!Confirm("remove") /\ popup.kind # "edit" /\ Inspect!Send("remove", {})
      BY <1>5, ConfirmedIsTyped DEF Inspect!RemoveMovie
    <2>2. QED
      BY <2>1, SentIsTyped DEF Sends, Inspect!Kinds
  <1>6. QED
    BY <1>1, <1>2, <1>3, <1>4, <1>5 DEF Asking

(* The types, one part at a time. *)

LEMMA UnreadStep ==
    ASSUME FlagTypes, InspectStep
    PROVE  unread' \in BOOLEAN
  <1>1. unread \in BOOLEAN
    BY DEF FlagTypes
  <1>2. \/ unread' = unread \/ unread' = TRUE \/ unread' = FALSE
        \/ \E b \in BOOLEAN : unread' = (unread \/ b)
    BY UnreadWriters DEF Inspect!CallFails, Inspect!ReadLog, Inspect!UploadFails, Inspect!LogEntry
  <1>3. QED
    BY <1>1, <1>2

LEMMA FlagStep ==
    ASSUME InspectTypes, [Inspect!InspectNext]_inspectVars
    PROVE  FlagTypes' /\ (apart => apart') /\ (left => left')
  <1>1. FlagTypes /\ DialogTypes /\ ShownTypes /\ NothingYet
    BY DEF InspectTypes
  <1> DEFINE P == /\ {managing', fromCreation', behind', left', apart'} \subseteq BOOLEAN
                  /\ sent' \in 0..MaxActs
                  /\ (apart => apart') /\ (left => left')
  <1>2. ASSUME UNCHANGED <<managing, fromCreation, behind, left, sent>>,
               apart' = apart \/ apart' = TRUE \/ \E b \in BOOLEAN : apart' = (apart \/ b)
        PROVE  P
    BY <1>1, <1>2 DEF FlagTypes
  <1>3. ASSUME Typing
        PROVE  P
    <2>1. apart' = apart \/ apart' = TRUE \/ \E b \in BOOLEAN : apart' = (apart \/ b)
      BY <1>3 DEF Typing, Inspect!OpenPopup, Inspect!EditField, Inspect!ResetForm, Inspect!ClosePopup
    <2>2. QED
      BY <1>2, <1>3, <2>1, DialogFrame
  <1>4. ASSUME Asking
        PROVE  P
    <2>1. PICK c : Sends(c)
      BY <1>1, <1>4, AskingSends
    <2>2. sent' \in 0..MaxActs
      <3>1. sent' \in Inspect!Acts
        BY <2>1 DEF Sends
      <3>2. QED
        BY <3>1, Bounds DEF Inspect!Acts
    <2>3. UNCHANGED <<managing, fromCreation, behind, left>> /\ apart' = (apart \/ calls # {})
      BY <1>4, <2>1, DialogFrame DEF Sends
    <2>4. QED
      BY <1>1, <2>2, <2>3 DEF FlagTypes
  <1>5. ASSUME Inspect!UploadVideo
        PROVE  P
    <2>1. sent' \in 0..MaxActs
      <3>1. sent' \in Inspect!Acts
        BY <1>1, <1>5, ConfirmedIsTyped DEF Inspect!UploadVideo
      <3>2. QED
        BY <3>1, Bounds DEF Inspect!Acts
    <2>2. UNCHANGED <<managing, fromCreation, behind, left>>
          /\ apart' = (apart \/ uploads # {} \/ videos # {})
      BY <1>5, DialogFrame DEF Inspect!UploadVideo
    <2>3. QED
      BY <1>1, <2>1, <2>2 DEF FlagTypes
  <1>6. ASSUME NEW c \in calls, Inspect!Serve(c)
        PROVE  P
    BY <1>2, <1>6, AnswerFrame
  <1>7. ASSUME NEW c \in calls, Inspect!MovieComes(c)
        PROVE  P
    <2>1. \E b \in BOOLEAN : apart' = (apart \/ b)
      BY <1>7 DEF Inspect!MovieComes
    <2>2. QED
      BY <1>2, <1>7, <2>1, AnswerFrame
  <1>8. ASSUME NEW c \in calls, Inspect!OnMovieLoad(c)
        PROVE  P
    <2>1. \E b \in BOOLEAN : apart' = (apart \/ b)
      BY <1>8 DEF Inspect!OnMovieLoad
    <2>2. QED
      BY <1>2, <1>8, <2>1, AnswerFrame
  <1>9. ASSUME NEW c \in calls, Inspect!MovieRemoved(c)
        PROVE  P
    <2>1. left' = TRUE
      BY <1>9 DEF Inspect!MovieRemoved
    <2>2. QED
      BY <1>1, <1>9, <2>1, AnswerFrame DEF FlagTypes
  <1>10. ASSUME NEW c \in calls, Inspect!CallFails(c)
         PROVE  P
    <2>1. left' = (left \/ c.kind = "load") /\ apart' = (apart \/ c.at = "answered")
      BY <1>10 DEF Inspect!CallFails
    <2>2. UNCHANGED <<managing, fromCreation, behind, sent>>
      BY <1>10, AnswerFrame
    <2>3. QED
      BY <1>1, <2>1, <2>2 DEF FlagTypes
  <1>11. ASSUME Inspect!PosterTimer
         PROVE  P
    BY <1>2, <1>11, TimerFrame
  <1>12. ASSUME Inspect!BackdropTimer \/ Inspect!CreatedTimer \/ Inspect!VideoTimer
         PROVE  P
    <2>1. apart' = apart \/ \E b \in BOOLEAN : apart' = (apart \/ b)
      BY <1>12 DEF Inspect!BackdropTimer, Inspect!CreatedTimer, Inspect!VideoTimer, Inspect!LoadBackdrop
    <2>2. QED
      BY <1>2, <1>12, <2>1, TimerFrame
  <1>13. ASSUME \/ \E id \in backdropLoads : Inspect!BackdropComes(id)
              \/ Inspect!PosterError
              \/ \E l \in logLoads : Inspect!ReadLog(l)
         PROVE  P
    BY <1>2, <1>13, LoadFrame
  <1>14. ASSUME NEW l \in logLoads, Inspect!LogComes(l)
         PROVE  P
    <2>1. apart' = apart \/ apart' = TRUE
      BY <1>14 DEF Inspect!LogComes
    <2>2. QED
      BY <1>2, <1>14, <2>1, LoadFrame
  <1>15. ASSUME \/ \E n \in uploads : \/ Inspect!Progress(n) \/ Inspect!UploadDone(n)
                                     \/ Inspect!UploadBegins(n) \/ Inspect!UploadWhole(n)
                \/ Inspect!LogEntry
         PROVE  P
    BY <1>2, <1>15, VideoFrame
  <1>16. ASSUME \/ \E n \in videos : Inspect!VideoNamed(n)
                \/ \E n \in uploads : Inspect!UploadFails(n)
         PROVE  P
    <2>1. \E b \in BOOLEAN : apart' = (apart \/ b)
      BY <1>16 DEF Inspect!VideoNamed, Inspect!UploadFails
    <2>2. QED
      BY <1>2, <1>16, <2>1, VideoFrame
  <1>17. ASSUME Inspect!WatchMovie
         PROVE  P
    <2>1. left' = TRUE
      BY <1>17 DEF Inspect!WatchMovie
    <2>2. QED
      BY <1>1, <1>17, <2>1, VideoFrame DEF FlagTypes
  <1>18. ASSUME UNCHANGED inspectVars
         PROVE  P
    BY <1>2, <1>18, StutterFrame
  <1> HIDE DEF P
  <1>19. InspectStep
    BY InspectCases
  <1>20. P
    BY <1>3, <1>4, <1>5, <1>6, <1>7, <1>8, <1>9, <1>10, <1>11, <1>12, <1>13, <1>14, <1>15, <1>16,
       <1>17, <1>18, <1>19 DEF InspectStep
  <1>21. unread' \in BOOLEAN
    BY <1>1, <1>19, UnreadStep
  <1>22. QED
    BY <1>20, <1>21 DEF P, FlagTypes

LEMMA HeadTyped ==
    ASSUME TimerTypes, timers # <<>>
    PROVE  /\ Head(timers) \in Timers
           /\ Tail(timers) \in Seq(Timers)
           /\ Head(timers).what = "poster" => Head(timers).id \in 0..MaxActs
           /\ Head(timers).what = "backdrop" => Head(timers).id \in {None} \cup Inspect!Acts
           /\ Head(timers).what = "video" => Head(timers).id \in Inspect!Acts
  <1>1. Head(timers) \in Timers /\ Tail(timers) \in Seq(Timers)
    BY DEF TimerTypes
  <1>2. QED
    BY <1>1 DEF Timers

LEMMA ServerStep ==
    ASSUME InspectTypes, InspectStep
    PROVE  ServerTypes'
  <1>1. server \in [movie : Movies, owed : Nat] /\ FlagTypes /\ CallTypes /\ UploadTypes
    BY DEF InspectTypes, ServerTypes
  <1>2. ASSUME UNCHANGED server
        PROVE  ServerTypes'
    BY <1>1, <1>2 DEF ServerTypes
  <1>3. ASSUME NEW c \in calls, Inspect!Serve(c)
        PROVE  ServerTypes'
    <2>1. PICK m \in Movies : m = server.movie
      BY <1>1
    <2>2. Inspect!Changed(c, m) \in Movies
      BY <1>1, ChangedMakes DEF CallTypes
    <2>3. PICK n \in Nat : server' = [movie |-> Inspect!Changed(c, m), owed |-> n]
      <3>1. \E n \in Nat : n = IF c.kind = "load" THEN server.owed ELSE server.owed + 1
        BY <1>1
      <3>2. PICK n \in Nat : n = IF c.kind = "load" THEN server.owed ELSE server.owed + 1
        BY <3>1
      <3>3. server' = [server EXCEPT !.movie = Inspect!Changed(c, m), !.owed = n]
        BY <1>3, <2>1, <3>2 DEF Inspect!Serve
      <3>4. QED
        BY <1>1, <3>3
    <2>4. QED
      BY <2>2, <2>3 DEF ServerTypes
  <1>4. ASSUME NEW n \in videos, Inspect!VideoNamed(n)
        PROVE  ServerTypes'
    <2>1. n \in Inspect!Acts
      BY <1>1 DEF UploadTypes
    <2>2. PICK v : v \in {n, server.movie.video} /\ server' = [server EXCEPT !.movie.video = v]
      BY <1>4 DEF Inspect!VideoNamed
    <2>3. [server.movie EXCEPT !.video = v] \in Movies
      BY <1>1, <2>1, <2>2 DEF Movies, Inspect!Parts
    <2>4. QED
      BY <1>1, <2>2, <2>3 DEF ServerTypes
  <1>5. ASSUME NEW owed \in Nat, server' = [server EXCEPT !.owed = owed]
        PROVE  ServerTypes'
    BY <1>1, <1>5 DEF ServerTypes
  <1>6. ASSUME NEW n \in uploads, Inspect!UploadBegins(n)
        PROVE  ServerTypes'
    <2>1. server.owed + 1 \in Nat
      BY <1>1
    <2>2. QED
      BY <1>5, <1>6, <2>1 DEF Inspect!UploadBegins
  <1>7. ASSUME Inspect!LogEntry
        PROVE  ServerTypes'
    <2>1. server.owed \in Nat /\ server.owed > 0
      BY <1>1, <1>7 DEF Inspect!LogEntry
    <2>2. server.owed - 1 \in Nat
      BY <2>1
    <2>3. QED
      BY <1>5, <1>7, <2>2 DEF Inspect!LogEntry
  <1>8. QED
    BY <1>2, <1>3, <1>4, <1>6, <1>7, ServerWriters

LEMMA DialogStep ==
    ASSUME InspectTypes, InspectStep
    PROVE  DialogTypes'
  <1>1. DialogTypes /\ FlagTypes /\ ShownTypes /\ NothingYet
    BY DEF InspectTypes
  <1>2. ASSUME popup' = popup \/ popup' = None
        PROVE  DialogTypes'
    BY <1>1, <1>2 DEF DialogTypes
  <1>3. ASSUME NEW kind \in {"edit", "publish", "poster", "backdrop", "remove", "upload"},
               Inspect!OpenPopup(kind)
        PROVE  DialogTypes'
    <2>1. movie \in Movies
      BY <1>1, <1>3 DEF ShownTypes, Inspect!OpenPopup
    <2>2. popup' = [kind |-> kind, base |-> movie, shown |-> {}, held |-> {}, told |-> FALSE,
                    reset |-> FALSE]
      BY <1>3 DEF Inspect!OpenPopup, Inspect!Dialog
    <2>3. QED
      BY <2>1, <2>2 DEF DialogTypes, Dialogs, Inspect!Kinds
  <1>4. ASSUME NEW f \in Fields, Inspect!EditField(f)
        PROVE  DialogTypes'
    <2> DEFINE shown == (popup.shown \cup {f}) \ (popup.shown \cap {f})
    <2>1. popup \in Dialogs
      BY <1>1, <1>4 DEF DialogTypes, Inspect!EditField
    <2>2. shown \in SUBSET Fields /\ popup.held \in SUBSET Fields
      BY <2>1 DEF Dialogs
    <2>3. PICK held \in SUBSET Fields : held = IF popup.reset THEN popup.held ELSE shown
      BY <2>2
    <2>4. popup' = [popup EXCEPT !.shown = shown, !.held = held, !.told = TRUE]
      BY <1>4, <2>3 DEF Inspect!EditField
    <2>5. QED
      BY <2>1, <2>2, <2>4 DEF DialogTypes, Dialogs
  <1>5. ASSUME Inspect!ResetForm
        PROVE  DialogTypes'
    <2>1. popup \in Dialogs
      BY <1>1, <1>5 DEF DialogTypes, Inspect!ResetForm
    <2>2. popup' = [popup EXCEPT !.shown = {}, !.reset = TRUE]
      BY <1>5 DEF Inspect!ResetForm
    <2>3. QED
      BY <2>1, <2>2 DEF DialogTypes, Dialogs
  <1>6. ASSUME Inspect!ClosePopup \/ Asking \/ Inspect!UploadVideo
        PROVE  DialogTypes'
    BY <1>2, <1>6 DEF Asking, Inspect!ClosePopup, Inspect!SaveMetadata, Inspect!TogglePublish,
       Inspect!ChangePoster, Inspect!ChangeBackdrop, Inspect!RemoveMovie, Inspect!UploadVideo,
       Inspect!Confirm
  <1>7. QED
    BY <1>2, <1>3, <1>4, <1>5, <1>6, DialogWriters DEF Typing

LEMMA CallStep ==
    ASSUME InspectTypes, InspectStep
    PROVE  CallTypes'
  <1>1. DialogTypes /\ FlagTypes /\ ShownTypes /\ NothingYet /\ CallTypes /\ TimerTypes
        /\ ServerTypes
    BY DEF InspectTypes
  <1>2. ASSUME \A c \in calls' : c \in calls \/ CallTyped(c)
        PROVE  CallTypes'
    BY <1>1, <1>2 DEF CallTypes
  <1>3. ASSUME Asking
        PROVE  CallTypes'
    <2>1. PICK c : calls' = calls \cup {c} /\ CallTyped(c)
      BY <1>1, <1>3, AskingSends DEF Sends
    <2>2. QED
      BY <1>2, <2>1
  <1>4. ASSUME NEW c \in calls, Inspect!Serve(c)
        PROVE  CallTypes'
    <2>1. PICK m \in Movies : m = server.movie
      BY <1>1 DEF ServerTypes
    <2>2. Inspect!Changed(c, m) \in Movies /\ CallTyped(c)
      BY <1>1, ChangedMakes DEF CallTypes
    <2> DEFINE d == [c EXCEPT !.at = "answered", !.answer = Inspect!Changed(c, m)]
    <2>3. CallTyped(d)
      BY <2>2 DEF CallTyped, Calls
    <2>4. calls' = (calls \ {c}) \cup {d}
      BY <1>4, <2>1 DEF Inspect!Serve
    <2>5. QED
      BY <1>2, <2>3, <2>4
  <1>5. ASSUME NEW c \in calls,
               \/ Inspect!MovieComes(c) \/ Inspect!OnMovieLoad(c)
               \/ Inspect!MovieRemoved(c) \/ Inspect!CallFails(c)
        PROVE  CallTypes'
    <2>1. calls' = calls \ {c}
      BY <1>5 DEF Inspect!MovieComes, Inspect!OnMovieLoad, Inspect!MovieRemoved, Inspect!CallFails,
         Inspect!Answered
    <2>2. QED
      BY <1>2, <2>1
  <1>6. ASSUME Inspect!VideoTimer
        PROVE  CallTypes'
    <2> DEFINE c == [no |-> Head(timers).id, kind |-> "load", base |-> None, fields |-> {},
                     shown |-> {}, at |-> "sent", answer |-> None]
    <2>1. Head(timers).id \in Inspect!Acts
      BY <1>1, <1>6, HeadTyped DEF Inspect!VideoTimer, Inspect!FirstTimer
    <2>2. Head(timers).id \in 0..MaxActs
      BY <2>1, Bounds DEF Inspect!Acts
    <2>3. CallTyped(c)
      BY <2>2 DEF CallTyped, Calls, Inspect!Kinds
    <2>4. calls' = calls \cup {c}
      BY <1>6 DEF Inspect!VideoTimer
    <2>5. QED
      BY <1>2, <2>3, <2>4
  <1>7. ASSUME UNCHANGED calls
        PROVE  CallTypes'
    BY <1>2, <1>7
  <1>8. QED
    BY <1>3, <1>4, <1>5, <1>6, <1>7, CallWriters

\* The pictures an answer changed are loaded by timers of these types.
NewPicture(what, id) == [what |-> what, id |-> id]

LEMMA LoadStarts ==
    ASSUME NEW c \in calls, InspectTypes, Inspect!OnMovieLoad(c)
    PROVE  /\ movie \in Movies /\ CallTyped(c) /\ c.at = "answered" /\ c.answer \in Movies
           /\ c.kind \in {"edit", "publish", "unpublish", "poster", "backdrop"}
           /\ \E s, t : /\ timers' = (timers \o s) \o t
                        /\ \/ s = <<>> /\ movie.poster = c.answer.poster
                           \/ s = <<NewPicture("poster", c.answer.poster)>>
                        /\ \/ t = <<>> /\ movie.backdrop = c.answer.backdrop
                           \/ t = <<NewPicture("backdrop", c.answer.backdrop)>> /\ movie.backdrop # c.answer.backdrop
  <1>1. c.at = "answered" /\ c.kind \in {"edit", "publish", "unpublish", "poster", "backdrop"}
    BY DEF Inspect!OnMovieLoad, Inspect!Answered
  <1>2. CallTyped(c)
    BY DEF InspectTypes, CallTypes
  <1>3. c.answer \in Movies
    BY <1>1, <1>2 DEF CallTyped
  <1>4. movie \in Movies
    BY <1>1 DEF InspectTypes, ShownTypes, NothingYet
  <1> DEFINE new(what) == IF movie[what] # c.answer[what]
                          THEN <<[what |-> what, id |-> c.answer[what]]>> ELSE <<>>
  <1>5. timers' = (timers \o new("poster")) \o new("backdrop")
    BY DEF Inspect!OnMovieLoad
  <1>6. movie["poster"] = movie.poster /\ c.answer["poster"] = c.answer.poster
        /\ movie["backdrop"] = movie.backdrop /\ c.answer["backdrop"] = c.answer.backdrop
    BY <1>3, <1>4 DEF Movies, Inspect!Parts
  <1>7. \/ new("poster") = <<>> /\ movie.poster = c.answer.poster
        \/ new("poster") = <<NewPicture("poster", c.answer.poster)>>
    BY <1>6 DEF NewPicture
  <1>8. \/ new("backdrop") = <<>> /\ movie.backdrop = c.answer.backdrop
        \/ /\ new("backdrop") = <<NewPicture("backdrop", c.answer.backdrop)>>
           /\ movie.backdrop # c.answer.backdrop
    BY <1>6 DEF NewPicture
  <1> HIDE DEF new
  <1>9. QED
    BY <1>1, <1>2, <1>3, <1>4, <1>5, <1>7, <1>8

LEMMA OneTimer == <<>> \in Seq(Timers) /\ \A t \in Timers : <<t>> \in Seq(Timers)
  OBVIOUS

LEMMA TimerStep ==
    ASSUME InspectTypes, InspectStep
    PROVE  TimerTypes'
  <1>1. timers \in Seq(Timers) /\ TimerTypes /\ UploadTypes
    BY DEF InspectTypes, TimerTypes
  <1>2. ASSUME UNCHANGED timers
        PROVE  TimerTypes'
    BY <1>1, <1>2 DEF TimerTypes
  <1>3. ASSUME NEW c \in calls, Inspect!MovieComes(c)
        PROVE  TimerTypes'
    <2>1. timers' = timers \/ timers' = Append(timers, [what |-> "created", id |-> None])
      BY <1>3 DEF Inspect!MovieComes
    <2>2. [what |-> "created", id |-> None] \in Timers
      BY DEF Timers
    <2>3. QED
      BY <1>1, <2>1, <2>2 DEF TimerTypes
  <1>4. ASSUME NEW c \in calls, Inspect!OnMovieLoad(c)
        PROVE  TimerTypes'
    <2>1. c.answer \in Movies
      BY <1>4, LoadStarts
    <2>2. /\ NewPicture("poster", c.answer.poster) \in Timers
          /\ NewPicture("backdrop", c.answer.backdrop) \in Timers
      BY <2>1 DEF NewPicture, Timers, Movies, Inspect!Parts
    <2>3. PICK s, t : /\ timers' = (timers \o s) \o t
                      /\ s = <<>> \/ s = <<NewPicture("poster", c.answer.poster)>>
                      /\ t = <<>> \/ t = <<NewPicture("backdrop", c.answer.backdrop)>>
      BY <1>4, LoadStarts
    <2>4. s \in Seq(Timers) /\ t \in Seq(Timers)
      BY <2>2, <2>3, OneTimer
    <2>5. QED
      BY <1>1, <2>3, <2>4 DEF TimerTypes
  <1>5. ASSUME Inspect!PosterTimer \/ Inspect!BackdropTimer \/ Inspect!CreatedTimer \/ Inspect!VideoTimer
        PROVE  TimerTypes'
    <2>1. timers # <<>> /\ timers' = Tail(timers)
      BY <1>5 DEF Inspect!PosterTimer, Inspect!BackdropTimer, Inspect!CreatedTimer, Inspect!VideoTimer,
         Inspect!FirstTimer
    <2>2. QED
      BY <1>1, <2>1, HeadTyped DEF TimerTypes
  <1>6. ASSUME NEW n \in uploads, Inspect!UploadDone(n)
        PROVE  TimerTypes'
    <2>1. timers' = Append(timers, [what |-> "video", id |-> n])
      BY <1>6 DEF Inspect!UploadDone
    <2>2. [what |-> "video", id |-> n] \in Timers
      BY <1>1 DEF Timers, UploadTypes
    <2>3. QED
      BY <1>1, <2>1, <2>2 DEF TimerTypes
  <1>7. QED
    BY <1>2, <1>3, <1>4, <1>5, <1>6, TimerWriters

\* A page with a delayed load has its movie.
LEMMA TimerHasMovie == InspectTypes /\ timers # <<>> => movie \in Movies
  BY DEF InspectTypes, ShownTypes, NothingYet

LEMMA AskedLogsTyped ==
    ASSUME LoadTypes, Inspect!AskLogs
    PROVE  \A l \in logLoads' : LogTyped(l)
  <1>1. CASE managing
    <2>1. PICK no : logLoads' = logLoads \cup {[no |-> no, read |-> FALSE, entries |-> FALSE]}
      BY <1>1 DEF Inspect!AskLogs
    <2>2. LogTyped([no |-> no, read |-> FALSE, entries |-> FALSE])
      BY DEF LogTyped
    <2>3. QED
      BY <2>1, <2>2 DEF LoadTypes
  <1>2. CASE ~managing
    BY <1>2 DEF Inspect!AskLogs, LoadTypes
  <1>3. QED
    BY <1>1, <1>2

LEMMA LoadBackdropTyped ==
    ASSUME LoadTypes, NEW id \in {None} \cup Inspect!Acts, Inspect!LoadBackdrop(id)
    PROVE  backdropLoads' \subseteq Inspect!Acts
  BY DEF LoadTypes, Inspect!LoadBackdrop

LEMMA EntryTyped ==
    ASSUME NEW l, LogTyped(l)
    PROVE  /\ \A k : k = [l EXCEPT !.read = TRUE, !.entries = TRUE] => LogTyped(k)
           /\ \A k : k = [l EXCEPT !.entries = FALSE] => LogTyped(k)
           /\ l.entries \in BOOLEAN
  <1>1. PICK no : \E read, entries \in BOOLEAN : l = [no |-> no, read |-> read, entries |-> entries]
    BY DEF LogTyped
  <1>2. PICK read, entries \in BOOLEAN : l = [no |-> no, read |-> read, entries |-> entries]
    BY <1>1
  <1>3. ASSUME NEW k, k = [l EXCEPT !.read = TRUE, !.entries = TRUE]
        PROVE  LogTyped(k)
    <2>1. k = [no |-> no, read |-> TRUE, entries |-> TRUE]
      BY <1>2, <1>3
    <2>2. QED
      BY <2>1 DEF LogTyped
  <1>4. ASSUME NEW k, k = [l EXCEPT !.entries = FALSE]
        PROVE  LogTyped(k)
    <2>1. k = [no |-> no, read |-> read, entries |-> FALSE]
      BY <1>2, <1>4
    <2>2. QED
      BY <1>2, <2>1 DEF LogTyped
  <1>5. l.entries = entries
    BY <1>2
  <1>6. QED
    BY <1>2, <1>3, <1>4, <1>5

LEMMA LoadStep ==
    ASSUME InspectTypes, InspectStep
    PROVE  LoadTypes'
  <1>1. LoadTypes /\ TimerTypes /\ CallTypes /\ ServerTypes
    BY DEF InspectTypes
  <1>2. ASSUME UNCHANGED <<backdropLoads, logLoads>>
        PROVE  LoadTypes'
    BY <1>1, <1>2 DEF LoadTypes
  <1>3. ASSUME NEW c \in calls, Inspect!MovieComes(c)
        PROVE  LoadTypes'
    <2>1. \A l \in logLoads' : LogTyped(l)
      BY <1>1, <1>3, AskedLogsTyped DEF Inspect!MovieComes
    <2>2. c.answer \in Movies
      BY <1>1, <1>3 DEF Inspect!MovieComes, Inspect!Answered, CallTypes, CallTyped
    <2>3. backdropLoads' = backdropLoads \/ backdropLoads' = backdropLoads \cup ({c.answer.backdrop} \ {None})
      BY <1>3 DEF Inspect!MovieComes
    <2>4. c.answer.backdrop \in {None} \cup Inspect!Acts
      BY <2>2 DEF Movies, Inspect!Parts
    <2>5. backdropLoads' \subseteq Inspect!Acts
      BY <1>1, <2>3, <2>4 DEF LoadTypes
    <2>6. QED
      BY <2>1, <2>5 DEF LoadTypes
  <1>4. ASSUME NEW c \in calls, Inspect!OnMovieLoad(c)
        PROVE  LoadTypes'
    <2>1. \A l \in logLoads' : LogTyped(l)
      BY <1>1, <1>4, AskedLogsTyped DEF Inspect!OnMovieLoad
    <2>2. backdropLoads' = backdropLoads
      BY <1>4, AnswerFrame
    <2>3. QED
      BY <1>1, <2>1, <2>2 DEF LoadTypes
  <1>5. ASSUME Inspect!BackdropTimer
        PROVE  LoadTypes'
    <2>1. PICK id \in {None} \cup Inspect!Acts : id = Head(timers).id
      BY <1>1, <1>5, HeadTyped DEF Inspect!BackdropTimer, Inspect!FirstTimer
    <2>2. Inspect!LoadBackdrop(id) /\ logLoads' = logLoads
      BY <1>5, <2>1, TimerFrame DEF Inspect!BackdropTimer
    <2>3. QED
      BY <1>1, <2>2, LoadBackdropTyped DEF LoadTypes
  <1>6. ASSUME Inspect!CreatedTimer
        PROVE  LoadTypes'
    <2>1. movie \in Movies
      BY <1>6, TimerHasMovie DEF Inspect!CreatedTimer, Inspect!FirstTimer
    <2>2. PICK id \in {None} \cup Inspect!Acts : id = movie.backdrop
      BY <2>1 DEF Movies, Inspect!Parts
    <2>3. Inspect!LoadBackdrop(id) /\ logLoads' = logLoads
      BY <1>6, <2>2, TimerFrame DEF Inspect!CreatedTimer
    <2>4. QED
      BY <1>1, <2>3, LoadBackdropTyped DEF LoadTypes
  <1>7. ASSUME NEW id \in backdropLoads, Inspect!BackdropComes(id)
        PROVE  LoadTypes'
    <2>1. backdropLoads' = backdropLoads \ {id} /\ logLoads' = logLoads
      BY <1>7, LoadFrame DEF Inspect!BackdropComes
    <2>2. QED
      BY <1>1, <2>1 DEF LoadTypes
  <1>8. ASSUME NEW l \in logLoads, Inspect!ReadLog(l)
        PROVE  LoadTypes'
    <2>1. PICK k : k = [l EXCEPT !.read = TRUE, !.entries = TRUE]
      OBVIOUS
    <2>2. LogTyped(k)
      BY <1>1, <2>1, EntryTyped DEF LoadTypes
    <2>3. logLoads' = (logLoads \ {l}) \cup {k} /\ backdropLoads' = backdropLoads
      BY <1>8, <2>1, LoadFrame DEF Inspect!ReadLog
    <2>4. QED
      BY <1>1, <2>2, <2>3 DEF LoadTypes
  <1>9. ASSUME NEW l \in logLoads, Inspect!LogComes(l)
        PROVE  LoadTypes'
    <2>1. logLoads' = logLoads \ {l} /\ backdropLoads' = backdropLoads
      BY <1>9, LoadFrame DEF Inspect!LogComes
    <2>2. QED
      BY <1>1, <2>1 DEF LoadTypes
  <1>10. ASSUME Inspect!LogEntry
         PROVE  LoadTypes'
    <2>1. ASSUME NEW k \in logLoads'
          PROVE  LogTyped(k)
      <3>1. CASE k \in logLoads
        BY <1>1, <3>1 DEF LoadTypes
      <3>2. CASE k \notin logLoads
        <4>1. PICK l \in logLoads : k = [l EXCEPT !.entries = FALSE]
          BY <1>10, <3>2 DEF Inspect!LogEntry
        <4>2. QED
          BY <1>1, <4>1, EntryTyped DEF LoadTypes
      <3>3. QED
        BY <3>1, <3>2
    <2>2. backdropLoads' = backdropLoads
      BY <1>10, VideoFrame
    <2>3. QED
      BY <1>1, <2>1, <2>2 DEF LoadTypes
  <1>11. QED
    BY <1>2, <1>3, <1>4, <1>5, <1>6, <1>7, <1>8, <1>9, <1>10, LoadWriters

LEMMA ShownStep ==
    ASSUME InspectTypes, InspectStep
    PROVE  ShownTypes'
  <1>1. ShownTypes /\ LoadTypes /\ TimerTypes /\ CallTypes /\ ServerTypes
    BY DEF InspectTypes
  <1>2. ASSUME UNCHANGED <<movie, posterUrl, backdropUrl, auditLogs>>
        PROVE  ShownTypes'
    BY <1>1, <1>2 DEF ShownTypes
  <1>3. ASSUME NEW c \in calls, Inspect!MovieComes(c)
        PROVE  ShownTypes'
    <2>1. c.answer \in Movies
      BY <1>1, <1>3 DEF Inspect!MovieComes, Inspect!Answered, CallTypes, CallTyped
    <2>2. /\ movie' = c.answer /\ backdropUrl' = backdropUrl /\ auditLogs' = auditLogs
          /\ posterUrl' = posterUrl \/ posterUrl' = c.answer.poster
      BY <1>3 DEF Inspect!MovieComes
    <2>3. c.answer.poster \in 0..MaxActs
      BY <2>1 DEF Movies, Inspect!Parts
    <2>4. QED
      BY <1>1, <2>1, <2>2, <2>3 DEF ShownTypes
  <1>4. ASSUME NEW c \in calls, Inspect!OnMovieLoad(c)
        PROVE  ShownTypes'
    <2>1. c.answer \in Movies
      BY <1>4, LoadStarts
    <2>2. movie' = c.answer /\ UNCHANGED <<posterUrl, backdropUrl, auditLogs>>
      BY <1>4 DEF Inspect!OnMovieLoad
    <2>3. QED
      BY <1>1, <2>1, <2>2 DEF ShownTypes
  <1>5. ASSUME Inspect!PosterTimer
        PROVE  ShownTypes'
    <2>1. Head(timers).id \in 0..MaxActs
      BY <1>1, <1>5, HeadTyped DEF Inspect!PosterTimer, Inspect!FirstTimer
    <2>2. posterUrl' = Head(timers).id /\ UNCHANGED <<movie, backdropUrl, auditLogs>>
      BY <1>5, TimerFrame DEF Inspect!PosterTimer
    <2>3. QED
      BY <1>1, <2>1, <2>2 DEF ShownTypes
  <1>6. ASSUME Inspect!CreatedTimer
        PROVE  ShownTypes'
    <2>1. movie \in Movies
      BY <1>6, TimerHasMovie DEF Inspect!CreatedTimer, Inspect!FirstTimer
    <2>2. movie.poster \in 0..MaxActs
      BY <2>1 DEF Movies, Inspect!Parts
    <2>3. posterUrl' = movie.poster /\ UNCHANGED <<movie, backdropUrl, auditLogs>>
      BY <1>6, TimerFrame DEF Inspect!CreatedTimer
    <2>4. QED
      BY <1>1, <2>2, <2>3 DEF ShownTypes
  <1>7. ASSUME NEW id \in backdropLoads, Inspect!BackdropComes(id)
        PROVE  ShownTypes'
    <2>1. backdropUrl' \in {None} \cup Inspect!Acts /\ UNCHANGED <<movie, posterUrl, auditLogs>>
      BY <1>1, <1>7, LoadFrame DEF Inspect!BackdropComes, LoadTypes
    <2>2. QED
      BY <1>1, <2>1 DEF ShownTypes
  <1>8. ASSUME Inspect!PosterError
        PROVE  ShownTypes'
    <2>1. posterUrl' = None /\ UNCHANGED <<movie, backdropUrl, auditLogs>>
      BY <1>8, LoadFrame DEF Inspect!PosterError
    <2>2. QED
      BY <1>1, <2>1 DEF ShownTypes
  <1>9. ASSUME NEW l \in logLoads, Inspect!LogComes(l)
        PROVE  ShownTypes'
    <2>1. l.entries \in BOOLEAN
      BY <1>1, EntryTyped DEF LoadTypes
    <2>2. /\ auditLogs' = auditLogs \/ auditLogs' = l.entries
          /\ UNCHANGED <<movie, posterUrl, backdropUrl>>
      BY <1>9, LoadFrame DEF Inspect!LogComes
    <2>3. QED
      BY <1>1, <2>1, <2>2 DEF ShownTypes
  <1>10. ASSUME Inspect!LogEntry
         PROVE  ShownTypes'
    <2>1. /\ auditLogs' = auditLogs \/ auditLogs' = FALSE
          /\ UNCHANGED <<movie, posterUrl, backdropUrl>>
      BY <1>10, VideoFrame DEF Inspect!LogEntry
    <2>2. QED
      BY <1>1, <2>1 DEF ShownTypes
  <1>11. QED
    BY <1>2, <1>3, <1>4, <1>5, <1>6, <1>7, <1>8, <1>9, <1>10, ShownWriters

LEMMA UploadStep ==
    ASSUME InspectTypes, InspectStep
    PROVE  UploadTypes'
  <1>1. UploadTypes /\ FlagTypes /\ DialogTypes
    BY DEF InspectTypes
  <1>2. ASSUME UNCHANGED <<uploads, posts, whole, videos, subject, closed, heard, isUploadingVideo,
                           progressOf>>
        PROVE  UploadTypes'
    BY <1>1, <1>2 DEF UploadTypes
  <1>3. subject \in 0..subject /\ subject + 1 \in Nat
    BY <1>1 DEF UploadTypes
  <1>4. ASSUME Inspect!UploadVideo
        PROVE  UploadTypes'
    <2>1. sent' \in Inspect!Acts
      BY <1>1, <1>4, ConfirmedIsTyped DEF Inspect!UploadVideo
    <2>2. /\ uploads' = uploads \cup {sent'} /\ isUploadingVideo' = TRUE /\ progressOf' = None
          /\ heard' = subject /\ UNCHANGED <<posts, whole, videos, subject, closed>>
      BY <1>4, DialogFrame DEF Inspect!UploadVideo
    <2>3. QED
      BY <1>1, <1>3, <2>1, <2>2 DEF UploadTypes
  <1>5. ASSUME NEW n \in uploads, Inspect!Progress(n)
        PROVE  UploadTypes'
    <2>1. /\ progressOf' = n \/ progressOf' = progressOf
          /\ UNCHANGED <<uploads, posts, whole, videos, subject, closed, heard, isUploadingVideo>>
      BY <1>5, VideoFrame DEF Inspect!Progress
    <2>2. n \in Inspect!Acts
      BY <1>1 DEF UploadTypes
    <2>3. QED
      BY <1>1, <2>1, <2>2 DEF UploadTypes
  <1>6. ASSUME NEW n \in uploads, Inspect!UploadOver(n)
        PROVE  /\ uploads' = uploads \ {n} /\ whole' = whole \ {n} /\ videos' = videos
               /\ posts' \in [Inspect!Acts -> 0..MaxPosts]
               /\ isUploadingVideo' = FALSE /\ heard' = None /\ progressOf' = progressOf
    <2>1. posts \in [Inspect!Acts -> 0..MaxPosts] /\ 0 \in 0..MaxPosts
      BY <1>1, Bounds DEF UploadTypes
    <2>2. posts' = [posts EXCEPT ![n] = 0]
      BY <1>6 DEF Inspect!UploadOver
    <2>3. QED
      BY <1>6, <2>1, <2>2 DEF Inspect!UploadOver
  <1>7. ASSUME NEW n \in uploads, Inspect!UploadDone(n)
        PROVE  UploadTypes'
    <2>1. closed' = closed \cup {subject} /\ subject' = subject + 1 /\ Inspect!UploadOver(n)
      BY <1>7 DEF Inspect!UploadDone
    <2>2. \A s \in closed' : s \in Nat /\ s < subject'
      <3>1. \A s \in closed : s \in Nat /\ s < subject /\ subject \in Nat
        BY <1>1 DEF UploadTypes
      <3>2. subject \in Nat
        BY <1>1 DEF UploadTypes
      <3>3. QED
        BY <2>1, <3>1, <3>2
    <2>3. subject' \in Nat
      BY <1>3, <2>1
    <2>4. QED
      BY <1>1, <1>6, <2>1, <2>2, <2>3 DEF UploadTypes
  <1>8. ASSUME NEW n \in uploads, Inspect!UploadFails(n)
        PROVE  UploadTypes'
    <2>1. Inspect!UploadOver(n) /\ UNCHANGED <<subject, closed>>
      BY <1>8 DEF Inspect!UploadFails
    <2>2. QED
      BY <1>1, <1>6, <2>1 DEF UploadTypes
  <1>9. ASSUME NEW n \in uploads, Inspect!UploadBegins(n)
        PROVE  UploadTypes'
    <2>1. n \in Inspect!Acts /\ posts \in [Inspect!Acts -> 0..MaxPosts]
      BY <1>1 DEF UploadTypes
    <2>2. posts' = [posts EXCEPT ![n] = posts[n] + 1] /\ posts[n] < MaxPosts
      BY <1>9 DEF Inspect!UploadBegins
    <2>3. posts[n] + 1 \in 0..MaxPosts
      BY <2>1, <2>2, Bounds
    <2>4. posts' \in [Inspect!Acts -> 0..MaxPosts]
      BY <2>1, <2>2, <2>3
    <2>5. UNCHANGED <<uploads, whole, videos, subject, closed, heard, isUploadingVideo, progressOf>>
      BY <1>9, VideoFrame
    <2>6. QED
      BY <1>1, <2>4, <2>5 DEF UploadTypes
  <1>10. ASSUME NEW n \in uploads, Inspect!UploadWhole(n)
         PROVE  UploadTypes'
    <2>1. /\ whole' = whole \cup {n} /\ videos' = videos \cup {n}
          /\ UNCHANGED <<uploads, posts, subject, closed, heard, isUploadingVideo, progressOf>>
      BY <1>10, VideoFrame DEF Inspect!UploadWhole
    <2>2. n \in Inspect!Acts
      BY <1>1 DEF UploadTypes
    <2>3. QED
      BY <1>1, <2>1, <2>2 DEF UploadTypes
  <1>11. ASSUME NEW n \in videos, Inspect!VideoNamed(n)
         PROVE  UploadTypes'
    <2>1. /\ videos' = videos \ {n}
          /\ UNCHANGED <<uploads, posts, whole, subject, closed, heard, isUploadingVideo, progressOf>>
      BY <1>11, VideoFrame DEF Inspect!VideoNamed
    <2>2. QED
      BY <1>1, <2>1 DEF UploadTypes
  <1>12. ASSUME Inspect!WatchMovie
         PROVE  UploadTypes'
    <2>1. /\ heard' = None
          /\ UNCHANGED <<uploads, posts, whole, videos, subject, closed, isUploadingVideo, progressOf>>
      BY <1>12, VideoFrame DEF Inspect!WatchMovie
    <2>2. QED
      BY <1>1, <2>1 DEF UploadTypes
  <1>13. QED
    BY <1>2, <1>4, <1>5, <1>7, <1>8, <1>9, <1>10, <1>11, <1>12, UploadWriters

LEMMA NothingStep ==
    ASSUME InspectTypes, InspectStep
    PROVE  NothingYet'
  <1> SUFFICES ASSUME movie' = None PROVE NothingYet'
    BY DEF NothingYet
  <1>1. CallTypes /\ NothingYet /\ None \notin Movies
    BY Nothings DEF InspectTypes, Movies
  <1>2. ASSUME NEW c \in calls, Inspect!MovieComes(c) \/ Inspect!OnMovieLoad(c)
        PROVE  FALSE
    <2>1. c.answer \in Movies
      BY <1>1, <1>2 DEF Inspect!MovieComes, Inspect!OnMovieLoad, Inspect!Answered, CallTypes, CallTyped
    <2>2. movie' = c.answer
      BY <1>2 DEF Inspect!MovieComes, Inspect!OnMovieLoad
    <2>3. QED
      BY <1>1, <2>1, <2>2
  <1>3. movie = None
    BY <1>2, ShownWriters, TimerFrame, LoadFrame, VideoFrame
  <1>4. /\ popup = None /\ timers = <<>> /\ uploads = {} /\ backdropLoads = {}
        /\ posterUrl = None /\ backdropUrl = None
        /\ \A c \in calls : c.kind = "load"
    BY <1>1, <1>3 DEF NothingYet
  <1>5. ~Asking /\ ~Inspect!UploadVideo
    BY <1>4 DEF Asking, Inspect!SaveMetadata, Inspect!TogglePublish, Inspect!ChangePoster,
       Inspect!ChangeBackdrop, Inspect!RemoveMovie, Inspect!UploadVideo, Inspect!Confirm
  <1>6. /\ ~Inspect!PosterTimer /\ ~Inspect!BackdropTimer /\ ~Inspect!CreatedTimer
        /\ ~Inspect!VideoTimer
    BY <1>4 DEF Inspect!PosterTimer, Inspect!BackdropTimer, Inspect!CreatedTimer, Inspect!VideoTimer,
       Inspect!FirstTimer
  <1>7. popup' = None
    BY <1>3, <1>4, <1>5, DialogWriters DEF Typing, Inspect!OpenPopup, Inspect!EditField,
       Inspect!ResetForm, Inspect!ClosePopup
  <1>8. timers' = <<>>
    BY <1>2, <1>4, <1>6, TimerWriters
  <1>9. uploads' = {}
    BY <1>4, <1>5, UploadWriters, VideoFrame
  <1>10. backdropLoads' = {}
    BY <1>2, <1>4, <1>6, LoadWriters, LoadFrame, VideoFrame
  <1>11. posterUrl' = None /\ backdropUrl' = None
    BY <1>2, <1>4, <1>6, ShownWriters, LoadFrame, VideoFrame DEF Inspect!PosterError
  <1>12. \A c \in calls' : c.kind = "load"
    <2>1. ASSUME NEW c \in calls, Inspect!Serve(c)
          PROVE  \A d \in calls' : d.kind = "load"
      <3>1. PICK m : calls' = (calls \ {c}) \cup {[c EXCEPT !.at = "answered", !.answer = m]}
        BY <2>1 DEF Inspect!Serve
      <3>2. c \in Calls /\ c.kind = "load"
        BY <1>1, <1>4 DEF CallTypes, CallTyped
      <3>3. [c EXCEPT !.at = "answered", !.answer = m].kind = "load"
        BY <3>2 DEF Calls
      <3>4. QED
        BY <1>4, <3>1, <3>3
    <2>2. ASSUME NEW c \in calls, Inspect!MovieRemoved(c) \/ Inspect!CallFails(c)
          PROVE  \A d \in calls' : d.kind = "load"
      BY <1>4, <2>2 DEF Inspect!MovieRemoved, Inspect!CallFails, Inspect!Answered
    <2>3. QED
      BY <1>2, <1>4, <1>5, <1>6, <2>1, <2>2, CallWriters
  <1>13. QED
    BY <1>7, <1>8, <1>9, <1>10, <1>11, <1>12 DEF NothingYet

LEMMA InspectTypesStep ==
    ASSUME InspectTypes, [Inspect!InspectNext]_inspectVars
    PROVE  InspectTypes' /\ InspectStep /\ (apart => apart') /\ (left => left')
  <1>1. InspectStep
    BY InspectCases
  <1>2. QED
    BY <1>1, FlagStep, ServerStep, DialogStep, CallStep, TimerStep, LoadStep, ShownStep, UploadStep,
       NothingStep DEF InspectTypes

(* The movie the page holds, and the requests made from it. *)

SameButVideo(m, n) ==
  /\ m.meta = n.meta /\ m.days = n.days /\ m.published = n.published
  /\ m.poster = n.poster /\ m.backdrop = n.backdrop

\* The page is shown and nothing came between it and the server.
Shown == ~apart /\ ~left

OneCall == ~apart => \A c, d \in calls : c = d

\* The page holds the server's movie, but for a video and unless the answer
\* to a change is on its way; an answer on its way is the server's movie.
MovieFollows ==
  Shown =>
    /\ movie = None => \E c \in calls : c.kind = "load"
    /\ movie # None /\ (\A c \in calls : c.at = "answered" => c.kind = "load") =>
         SameButVideo(movie, server.movie)
    /\ \A c \in calls : c.at = "answered" =>
         /\ SameButVideo(c.answer, server.movie)
         /\ movie # None /\ c.answer.backdrop = None => movie.backdrop = None

\* The dialog on top was opened on the server's movie, and what its form
\* shows is what would be saved.
DialogIsOfMovie ==
  ~apart /\ popup # None =>
    /\ \A c \in calls : c.kind = "load"
    /\ popup.base.meta = server.movie.meta /\ popup.base.days = server.movie.days
    /\ popup.base.published = server.movie.published
    /\ popup.shown = popup.held
    /\ ~popup.reset
    /\ popup.kind # "edit" => popup.shown = {}

\* A request on its way was made from the server's movie.
SentIsOfMovie ==
  ~apart => \A c \in calls : c.at = "sent" /\ c.kind # "load" =>
    /\ c.base.meta = server.movie.meta /\ c.base.days = server.movie.days
    /\ c.base.published = server.movie.published
    /\ c.fields = c.shown
    /\ c.kind = "publish" => ~server.movie.published
    /\ c.kind = "unpublish" => server.movie.published

\* What serving a request does.
Served(c, d) ==
  /\ CallTyped(d)
  /\ d.kind = c.kind /\ d.base = c.base /\ d.fields = c.fields /\ d.shown = c.shown
  /\ c.at = "sent" /\ d.at = "answered" /\ d.answer = server'.movie
  /\ calls' = (calls \ {c}) \cup {d}
  /\ server'.movie.video = server.movie.video
  /\ c.kind = "load" => server'.movie = server.movie
  /\ c.kind # "edit" => server'.movie.meta = server.movie.meta /\ server'.movie.days = server.movie.days
  /\ c.kind = "poster" \/ server'.movie.poster = server.movie.poster
  /\ server'.movie.backdrop \in Inspect!Acts \/ server'.movie.backdrop = server.movie.backdrop
  /\ c.kind = "publish" => server'.movie.published = TRUE
  /\ c.kind = "unpublish" => server'.movie.published = FALSE
  /\ c.kind = "edit" =>
       /\ server'.movie.meta = [f \in Fields |-> IF f \in c.fields THEN c.no ELSE c.base.meta[f]]
       /\ server'.movie.days = IF ReleaseDate \in c.fields THEN 0 ELSE c.base.days + Inspect!Shift

LEMMA ServeMakes ==
    ASSUME InspectTypes, NEW c \in calls, Inspect!Serve(c)
    PROVE  \E d : Served(c, d)
  <1>1. PICK m \in Movies : m = server.movie
    BY DEF InspectTypes, ServerTypes
  <1> DEFINE n == Inspect!Changed(c, m)
  <1>2. CallTyped(c)
    BY DEF InspectTypes, CallTypes
  <1>3. /\ n \in Movies
        /\ n.video = m.video
        /\ c.kind # "edit" => n.meta = m.meta /\ n.days = m.days
        /\ n.poster = IF c.kind = "poster" THEN c.no ELSE m.poster
        /\ n.backdrop = IF c.kind = "backdrop" THEN c.no ELSE m.backdrop
        /\ c.kind = "publish" => n.published = TRUE
        /\ c.kind = "unpublish" => n.published = FALSE
    BY <1>2, ChangedMakes
  <1>4. /\ c.kind = "load" => n = m
        /\ c.kind = "edit" =>
             /\ n.meta = [f \in Fields |-> IF f \in c.fields THEN c.no ELSE c.base.meta[f]]
             /\ n.days = IF ReleaseDate \in c.fields THEN 0 ELSE c.base.days + Inspect!Shift
    BY DEF Inspect!Changed, Movies, Inspect!Parts
  <1>5. c.kind = "backdrop" => c.no \in Inspect!Acts
    BY <1>2 DEF CallTyped
  <1> HIDE DEF n
  <1>6. /\ c.at = "sent"
        /\ server'.movie = n
        /\ calls' = (calls \ {c}) \cup {[c EXCEPT !.at = "answered", !.answer = n]}
    BY <1>1 DEF Inspect!Serve, InspectTypes, ServerTypes, n
  <1> DEFINE d == [c EXCEPT !.at = "answered", !.answer = n]
  <1>7. CallTyped(d)
    BY <1>2, <1>3 DEF CallTyped, Calls
  <1>8. /\ d.kind = c.kind /\ d.base = c.base /\ d.fields = c.fields /\ d.shown = c.shown
        /\ d.at = "answered" /\ d.answer = n
    BY <1>2 DEF CallTyped, Calls
  <1> HIDE DEF d
  <1>9. Served(c, d)
    BY <1>1, <1>3, <1>4, <1>5, <1>6, <1>7, <1>8 DEF Served, d
  <1>10. QED
    BY <1>9

LEMMA NamedMakes ==
    ASSUME InspectTypes, NEW n \in videos, Inspect!VideoNamed(n)
    PROVE  /\ SameButVideo(server'.movie, server.movie)
           /\ server'.movie.video \in {n, server.movie.video}
  <1>1. PICK v : v \in {n, server.movie.video} /\ server' = [server EXCEPT !.movie.video = v]
    BY DEF Inspect!VideoNamed
  <1>2. server.movie \in Movies /\ server'.movie = [server.movie EXCEPT !.video = v]
    BY <1>1 DEF InspectTypes, ServerTypes
  <1>3. QED
    BY <1>1, <1>2 DEF SameButVideo, Movies, Inspect!Parts

LEMMA OneCallStep ==
    ASSUME InspectTypes, InspectStep, apart => apart', OneCall
    PROVE  OneCall'
  <1> SUFFICES ASSUME ~apart' PROVE \A c, d \in calls' : c = d
    BY DEF OneCall
  <1>1. \A c, d \in calls : c = d
    BY DEF OneCall
  <1>2. ASSUME Asking
        PROVE  \A c, d \in calls' : c = d
    <2>1. PICK c : calls' = calls \cup {c} /\ apart' = (apart \/ calls # {})
      BY <1>2, AskingSends DEF Sends, InspectTypes
    <2>2. QED
      BY <2>1
  <1>3. ASSUME NEW c \in calls, Inspect!Serve(c)
        PROVE  \A a, b \in calls' : a = b
    <2>1. PICK d : calls' = (calls \ {c}) \cup {d}
      BY <1>3, ServeMakes DEF Served
    <2>2. QED
      BY <1>1, <2>1
  <1>4. ASSUME Inspect!VideoTimer
        PROVE  \A c, d \in calls' : c = d
    <2>1. PICK c : calls' = calls \cup {c} /\ apart' = (apart \/ calls # {} \/ videos # {})
      BY <1>4 DEF Inspect!VideoTimer
    <2>2. QED
      BY <2>1
  <1>5. ASSUME NEW c \in calls,
               \/ Inspect!MovieComes(c) \/ Inspect!OnMovieLoad(c)
               \/ Inspect!MovieRemoved(c) \/ Inspect!CallFails(c)
        PROVE  \A a, b \in calls' : a = b
    BY <1>1, <1>5 DEF Inspect!MovieComes, Inspect!OnMovieLoad, Inspect!MovieRemoved,
       Inspect!CallFails, Inspect!Answered
  <1>6. QED
    BY <1>1, <1>2, <1>3, <1>4, <1>5, CallWriters

\* The last answer, and what is left of the requests when it came.
LEMMA AnswerTaken ==
    ASSUME InspectTypes, OneCall, ~apart, NEW c \in calls
    PROVE  /\ Inspect!MovieComes(c) =>
                /\ calls = {c} /\ calls' = {} /\ movie' = c.answer /\ c.kind = "load"
                /\ c.at = "answered" /\ c.answer \in Movies
           /\ Inspect!OnMovieLoad(c) =>
                /\ calls = {c} /\ calls' = {} /\ movie' = c.answer /\ c.kind # "load"
                /\ c.at = "answered" /\ c.answer \in Movies
           /\ Inspect!MovieRemoved(c) => calls = {c} /\ calls' = {} /\ left' = TRUE
           /\ Inspect!CallFails(c) =>
                /\ calls = {c} /\ calls' = {} /\ left' = (left \/ c.kind = "load")
                /\ apart' = (apart \/ c.at = "answered")
  <1>1. calls = {c} /\ CallTyped(c)
    BY DEF OneCall, InspectTypes, CallTypes
  <1>2. QED
    BY <1>1 DEF Inspect!MovieComes, Inspect!OnMovieLoad, Inspect!MovieRemoved,
       Inspect!CallFails, Inspect!Answered, CallTyped

LEMMA MovieAskedAgain ==
    ASSUME Inspect!VideoTimer
    PROVE  \E c : /\ calls' = calls \cup {c} /\ c.at = "sent" /\ c.kind = "load"
                  /\ apart' = (apart \/ calls # {} \/ videos # {})
  <1> DEFINE c == [no |-> Head(timers).id, kind |-> "load", base |-> None, fields |-> {},
                   shown |-> {}, at |-> "sent", answer |-> None]
  <1>1. calls' = calls \cup {c} /\ apart' = (apart \/ calls # {} \/ videos # {})
    BY DEF Inspect!VideoTimer
  <1>2. c.at = "sent" /\ c.kind = "load"
    OBVIOUS
  <1> HIDE DEF c
  <1>3. QED
    BY <1>1, <1>2

\* An event or its entry leaves the movie alone.
LEMMA OwedMakes ==
    ASSUME InspectTypes, \/ Inspect!LogEntry \/ \E n \in uploads : Inspect!UploadBegins(n)
    PROVE  server'.movie = server.movie
  BY DEF InspectTypes, ServerTypes, Inspect!LogEntry, Inspect!UploadBegins

LEMMA MovieWriters ==
    ASSUME InspectTypes, InspectStep
    PROVE  \/ UNCHANGED <<calls, movie>> /\ server'.movie = server.movie
           \/ Asking
           \/ \E c \in calls : Inspect!Serve(c)
           \/ \E c \in calls : Inspect!MovieComes(c)
           \/ \E c \in calls : Inspect!OnMovieLoad(c)
           \/ \E c \in calls : Inspect!MovieRemoved(c)
           \/ \E c \in calls : Inspect!CallFails(c)
           \/ Inspect!VideoTimer
           \/ \E n \in videos : Inspect!VideoNamed(n)
  BY DialogFrame, TimerFrame, LoadFrame, VideoFrame, StutterFrame, OwedMakes DEF InspectStep

LEMMA MovieStep ==
    ASSUME InspectTypes, InspectStep, apart => apart', left => left', OneCall, MovieFollows
    PROVE  MovieFollows'
  <1> SUFFICES ASSUME Shown' PROVE MovieFollows'
    BY DEF MovieFollows
  <1>1. Shown /\ ~apart /\ ~apart' /\ ~left /\ ~left'
    BY DEF Shown
  <1>2. /\ movie = None => \E c \in calls : c.kind = "load"
        /\ movie # None /\ (\A c \in calls : c.at = "answered" => c.kind = "load") =>
             SameButVideo(movie, server.movie)
        /\ \A c \in calls : c.at = "answered" =>
             /\ SameButVideo(c.answer, server.movie)
             /\ movie # None /\ c.answer.backdrop = None => movie.backdrop = None
    BY <1>1 DEF MovieFollows
  <1>3. ASSUME UNCHANGED <<calls, movie>>, server'.movie = server.movie
        PROVE  MovieFollows'
    BY <1>2, <1>3 DEF MovieFollows, Shown, SameButVideo
  <1>4. ASSUME Asking
        PROVE  MovieFollows'
    <2>1. PICK c : /\ calls' = calls \cup {c} /\ apart' = (apart \/ calls # {}) /\ c.at = "sent"
                   /\ popup # None
      BY <1>4, AskingSends DEF Sends, InspectTypes
    <2>2. calls = {} /\ calls' = {c}
      BY <1>1, <2>1
    <2>3. UNCHANGED <<server, movie>>
      BY <1>4, DialogFrame
    <2>4. movie # None
      BY <1>2, <2>2
    <2>5. QED
      BY <1>2, <2>1, <2>2, <2>3, <2>4 DEF MovieFollows, SameButVideo
  <1>5. ASSUME NEW c \in calls, Inspect!Serve(c)
        PROVE  MovieFollows'
    <2>1. PICK d : Served(c, d)
      BY <1>5, ServeMakes
    <2>2. calls = {c} /\ calls' = {d} /\ movie' = movie
      BY <1>1, <1>5, <2>1, AnswerFrame DEF OneCall, Served
    <2>3. movie = None => d.kind = "load"
      BY <1>2, <2>1, <2>2 DEF Served
    <2>4. movie # None => SameButVideo(movie, server.movie)
      BY <1>2, <2>1, <2>2 DEF Served
    <2>5. d.answer = server'.movie /\ SameButVideo(d.answer, server'.movie)
      BY <2>1 DEF SameButVideo, Served
    <2>6. movie # None /\ d.answer.backdrop = None => movie.backdrop = None
      <3>1. None \notin Inspect!Acts
        BY Nothings DEF Inspect!Acts
      <3>2. QED
        BY <2>1, <2>4, <2>5, <3>1 DEF SameButVideo, Served
    <2>7. movie # None /\ d.kind = "load" => SameButVideo(movie, server'.movie)
      BY <2>1, <2>4 DEF Served
    <2>8. QED
      BY <2>1, <2>2, <2>3, <2>5, <2>6, <2>7 DEF MovieFollows, Served
  <1>6. ASSUME NEW c \in calls, Inspect!MovieComes(c) \/ Inspect!OnMovieLoad(c)
        PROVE  MovieFollows'
    <2>1. calls' = {} /\ movie' = c.answer /\ c.at = "answered" /\ c.answer \in Movies
      BY <1>1, <1>6, AnswerTaken
    <2>2. movie' # None /\ server' = server
      BY <1>6, <2>1, Nothings, AnswerFrame DEF Movies
    <2>3. SameButVideo(movie', server'.movie)
      BY <1>2, <2>1, <2>2
    <2>4. QED
      BY <2>1, <2>2, <2>3 DEF MovieFollows
  <1>7. ASSUME NEW c \in calls, Inspect!MovieRemoved(c) \/ Inspect!CallFails(c)
        PROVE  MovieFollows'
    <2>1. /\ calls = {c} /\ calls' = {} /\ Inspect!CallFails(c)
          /\ c.kind # "load" /\ c.at # "answered"
      BY <1>1, <1>7, AnswerTaken
    <2>2. UNCHANGED <<server, movie>>
      BY <2>1, AnswerFrame
    <2>3. movie # None
      BY <1>2, <2>1
    <2>4. QED
      BY <1>2, <2>1, <2>2, <2>3 DEF MovieFollows, SameButVideo
  <1>8. ASSUME Inspect!VideoTimer
        PROVE  MovieFollows'
    <2>1. PICK c : /\ calls' = calls \cup {c} /\ apart' = (apart \/ calls # {} \/ videos # {})
                   /\ c.at = "sent" /\ c.kind = "load"
      BY <1>8, MovieAskedAgain
    <2>2. calls = {} /\ calls' = {c} /\ UNCHANGED <<server, movie>>
      BY <1>1, <1>8, <2>1, TimerFrame
    <2>3. QED
      BY <1>2, <2>1, <2>2 DEF MovieFollows, SameButVideo
  <1>9. ASSUME NEW n \in videos, Inspect!VideoNamed(n)
        PROVE  MovieFollows'
    <2>1. SameButVideo(server'.movie, server.movie) /\ UNCHANGED <<calls, movie>>
      BY <1>9, NamedMakes, VideoFrame
    <2>2. QED
      BY <1>2, <2>1 DEF MovieFollows, SameButVideo
  <1>10. QED
    BY <1>3, <1>4, <1>5, <1>6, <1>7, <1>8, <1>9, MovieWriters

LEMMA DialogOfMovieStep ==
    ASSUME InspectTypes, InspectStep, apart => apart', left => left', OneCall, MovieFollows,
           DialogIsOfMovie
    PROVE  DialogIsOfMovie'
  <1> SUFFICES ASSUME ~apart', popup' # None PROVE DialogIsOfMovie'
    BY DEF DialogIsOfMovie
  <1>1. ~apart /\ FlagTypes /\ DialogTypes /\ ShownTypes
    BY DEF InspectTypes
  <1>2. popup # None =>
          /\ \A c \in calls : c.kind = "load"
          /\ popup.base.meta = server.movie.meta /\ popup.base.days = server.movie.days
          /\ popup.base.published = server.movie.published
          /\ popup.shown = popup.held
          /\ ~popup.reset
          /\ popup.kind # "edit" => popup.shown = {}
    BY <1>1 DEF DialogIsOfMovie
  <1>3. ASSUME NEW kind, Inspect!OpenPopup(kind)
        PROVE  DialogIsOfMovie'
    <2>1. popup' = [kind |-> kind, base |-> movie, shown |-> {}, held |-> {}, told |-> FALSE,
                    reset |-> FALSE]
      BY <1>3 DEF Inspect!OpenPopup, Inspect!Dialog
    <2>2. calls = {} /\ calls' = {} /\ server' = server /\ movie # None /\ ~left
      BY <1>3 DEF Inspect!OpenPopup
    <2>3. SameButVideo(movie, server.movie)
      BY <1>1, <2>2 DEF MovieFollows, Shown
    <2>4. QED
      BY <2>1, <2>2, <2>3 DEF DialogIsOfMovie, SameButVideo
  <1>4. ASSUME NEW f \in Fields, Inspect!EditField(f)
        PROVE  DialogIsOfMovie'
    <2> DEFINE shown == (popup.shown \cup {f}) \ (popup.shown \cap {f})
    <2>1. popup # None /\ popup.kind = "edit" /\ popup \in Dialogs
      BY <1>1, <1>4 DEF Inspect!EditField, DialogTypes
    <2>2. /\ popup' = [popup EXCEPT !.shown = shown, !.held = shown, !.told = TRUE]
          /\ UNCHANGED <<calls, server>>
      BY <1>2, <1>4, <2>1 DEF Inspect!EditField
    <2>3. /\ popup'.base = popup.base /\ popup'.shown = shown /\ popup'.held = shown
          /\ popup'.reset = popup.reset /\ popup'.kind = popup.kind
      BY <2>1, <2>2 DEF Dialogs
    <2>4. QED
      BY <1>2, <2>1, <2>2, <2>3 DEF DialogIsOfMovie
  <1>5. ASSUME Inspect!ResetForm \/ Inspect!ClosePopup \/ Asking \/ Inspect!UploadVideo
        PROVE  FALSE
    BY <1>5 DEF Asking, Inspect!ResetForm, Inspect!ClosePopup, Inspect!SaveMetadata,
       Inspect!TogglePublish, Inspect!ChangePoster, Inspect!ChangeBackdrop, Inspect!RemoveMovie,
       Inspect!UploadVideo, Inspect!Confirm
  <1>6. ASSUME UNCHANGED popup, UNCHANGED calls, server'.movie = server.movie
        PROVE  DialogIsOfMovie'
    BY <1>2, <1>6 DEF DialogIsOfMovie
  <1>7. ASSUME UNCHANGED popup, NEW c \in calls, Inspect!Serve(c)
        PROVE  DialogIsOfMovie'
    <2>1. PICK d : Served(c, d)
      BY <1>7, ServeMakes
    <2>2. c.kind = "load"
      BY <1>2, <1>7
    <2>3. server'.movie = server.movie /\ \A b \in calls' : b.kind = "load"
      BY <1>2, <1>7, <2>1, <2>2 DEF Served
    <2>4. QED
      BY <1>2, <1>7, <2>3 DEF DialogIsOfMovie
  <1>8. ASSUME UNCHANGED popup, NEW c \in calls,
               \/ Inspect!MovieComes(c) \/ Inspect!OnMovieLoad(c)
               \/ Inspect!MovieRemoved(c) \/ Inspect!CallFails(c)
        PROVE  DialogIsOfMovie'
    <2>1. calls' = {} /\ server' = server
      BY <1>1, <1>8, AnswerTaken, AnswerFrame
    <2>2. QED
      BY <1>2, <1>8, <2>1 DEF DialogIsOfMovie
  <1>9. ASSUME UNCHANGED popup, Inspect!VideoTimer
        PROVE  DialogIsOfMovie'
    <2>1. PICK c : calls' = calls \cup {c} /\ c.kind = "load"
      BY <1>9, MovieAskedAgain
    <2>2. server' = server
      BY <1>9, TimerFrame
    <2>3. QED
      BY <1>2, <1>9, <2>1, <2>2 DEF DialogIsOfMovie
  <1>10. ASSUME UNCHANGED popup, NEW n \in videos, Inspect!VideoNamed(n)
        PROVE  DialogIsOfMovie'
    <2>1. SameButVideo(server'.movie, server.movie) /\ UNCHANGED calls
      BY <1>10, NamedMakes, VideoFrame
    <2>2. QED
      BY <1>2, <1>10, <2>1 DEF DialogIsOfMovie, SameButVideo
  <1>11. CASE UNCHANGED popup
    BY <1>5, <1>6, <1>7, <1>8, <1>9, <1>10, <1>11, MovieWriters
  <1>12. CASE ~UNCHANGED popup
    BY <1>3, <1>4, <1>5, <1>12, DialogWriters DEF Typing
  <1>13. QED
    BY <1>11, <1>12

LEMMA SentOfMovieStep ==
    ASSUME InspectTypes, InspectStep, apart => apart', left => left', OneCall, MovieFollows,
           DialogIsOfMovie, SentIsOfMovie
    PROVE  SentIsOfMovie'
  <1> SUFFICES ASSUME ~apart' PROVE SentIsOfMovie'
    BY DEF SentIsOfMovie
  <1> DEFINE Of(c, m) ==
        /\ c.base.meta = m.meta /\ c.base.days = m.days /\ c.base.published = m.published
        /\ c.fields = c.shown
        /\ c.kind = "publish" => ~m.published
        /\ c.kind = "unpublish" => m.published
  <1>1. ~apart /\ \A c \in calls : c.at = "sent" /\ c.kind # "load" => Of(c, server.movie)
    BY DEF SentIsOfMovie
  <1>2. ASSUME \A c \in calls' : c.at = "sent" /\ c.kind # "load" => Of(c, server'.movie)
        PROVE  SentIsOfMovie'
    BY <1>2 DEF SentIsOfMovie
  <1>3. ASSUME Asking
        PROVE  SentIsOfMovie'
    <2>1. PICK c : Sends(c)
      BY <1>3, AskingSends DEF InspectTypes
    <2>2. calls = {} /\ calls' = {c} /\ server' = server /\ ~left
      BY <1>1, <1>3, <2>1, DialogFrame DEF Sends
    <2>3. movie # None /\ SameButVideo(movie, server.movie)
      BY <1>1, <2>1, <2>2 DEF MovieFollows, Shown, Sends, NothingYet, InspectTypes
    <2>4. /\ c.base.meta = server.movie.meta /\ c.base.days = server.movie.days
          /\ c.base.published = server.movie.published
      BY <1>1, <2>1 DEF Sends, DialogIsOfMovie
    <2>5. c.fields = c.shown
      BY <1>1, <2>1 DEF Sends, DialogIsOfMovie
    <2>6. (c.kind = "publish" => ~server.movie.published)
          /\ (c.kind = "unpublish" => server.movie.published)
      BY <2>1, <2>3 DEF Sends, SameButVideo
    <2>7. Of(c, server'.movie)
      BY <2>2, <2>4, <2>5, <2>6
    <2> HIDE DEF Of
    <2>8. QED
      BY <1>2, <2>2, <2>7
  <1>4. ASSUME NEW c \in calls, Inspect!Serve(c)
        PROVE  SentIsOfMovie'
    <2>1. PICK d : Served(c, d)
      BY <1>4, ServeMakes
    <2>2. calls' = {d} /\ d.at = "answered"
      BY <1>1, <2>1 DEF Served, OneCall
    <2>3. QED
      BY <1>2, <2>2
  <1>5. ASSUME NEW c \in calls,
               \/ Inspect!MovieComes(c) \/ Inspect!OnMovieLoad(c)
               \/ Inspect!MovieRemoved(c) \/ Inspect!CallFails(c)
        PROVE  SentIsOfMovie'
    <2>1. calls' = {}
      BY <1>1, <1>5, AnswerTaken
    <2>2. QED
      BY <1>2, <2>1
  <1>6. ASSUME Inspect!VideoTimer
        PROVE  SentIsOfMovie'
    <2>1. PICK c : calls' = calls \cup {c} /\ c.kind = "load"
      BY <1>6, MovieAskedAgain
    <2>2. server' = server
      BY <1>6, TimerFrame
    <2>3. QED
      BY <1>1, <1>2, <2>1, <2>2
  <1>7. ASSUME NEW n \in videos, Inspect!VideoNamed(n)
        PROVE  SentIsOfMovie'
    <2>1. SameButVideo(server'.movie, server.movie) /\ UNCHANGED calls
      BY <1>7, NamedMakes, VideoFrame
    <2>2. QED
      BY <1>1, <1>2, <2>1 DEF SameButVideo
  <1>8. ASSUME UNCHANGED calls, server'.movie = server.movie
        PROVE  SentIsOfMovie'
    BY <1>1, <1>2, <1>8
  <1>9. QED
    BY <1>3, <1>4, <1>5, <1>6, <1>7, <1>8, MovieWriters

(* Delayed loads: whether one of some kinds is waiting, and the last one. *)

Among(s, kinds) == \E i \in DOMAIN s : s[i].what \in kinds

EndsIn(s, kinds, T) ==
  \A i \in DOMAIN s :
    s[i].what \in kinds /\ (\A j \in DOMAIN s : j > i => s[j].what \notin kinds) => s[i] \in T

LEMMA TailShifts ==
    ASSUME NEW s \in Seq(Timers), s # <<>>
    PROVE  /\ \A i \in DOMAIN Tail(s) : i + 1 \in DOMAIN s /\ Tail(s)[i] = s[i + 1]
           /\ \A i \in DOMAIN s : i # 1 => i - 1 \in DOMAIN Tail(s) /\ Tail(s)[i - 1] = s[i]
           /\ 1 \in DOMAIN s /\ Head(s) = s[1]
           /\ DOMAIN s \subseteq Nat /\ DOMAIN Tail(s) \subseteq Nat
  <1>1. PICK n \in Nat : n = Len(s) /\ n > 0
    OBVIOUS
  <1>2. DOMAIN s = 1..n /\ Head(s) = s[1]
    BY <1>1
  <1>3. DOMAIN Tail(s) = 1..(n - 1) /\ \A i \in 1..(n - 1) : Tail(s)[i] = s[i + 1]
    BY <1>1
  <1> DEFINE u == Tail(s)
  <1> HIDE DEF u
  <1>4. DOMAIN u = 1..(n - 1) /\ \A i \in 1..(n - 1) : u[i] = s[i + 1]
    BY <1>3 DEF u
  <1>5. \A m \in Nat : m # 0 => \A i \in 1..m : i # 1 => \E j \in 1..(m - 1) : j = i - 1 /\ j + 1 = i
    OBVIOUS
  <1>6. \A i \in DOMAIN u : i + 1 \in DOMAIN s /\ u[i] = s[i + 1]
    BY <1>1, <1>2, <1>4
  <1>7. ASSUME NEW i \in DOMAIN s, i # 1
        PROVE  i - 1 \in DOMAIN u /\ u[i - 1] = s[i]
    <2>1. PICK j \in 1..(n - 1) : j = i - 1 /\ j + 1 = i
      <3>1. n # 0 /\ i \in 1..n
        BY <1>1, <1>2, <1>7
      <3>2. QED
        BY <1>5, <1>7, <3>1
    <2>2. QED
      BY <1>4, <2>1
  <1>8. 1 \in DOMAIN s /\ DOMAIN s \subseteq Nat /\ DOMAIN u \subseteq Nat
    BY <1>1, <1>2, <1>4
  <1>9. \A i \in DOMAIN s : i # 1 => i - 1 \in DOMAIN u /\ u[i - 1] = s[i]
    BY <1>7, Zenon
  <1>10. QED
    BY <1>2, <1>6, <1>8, <1>9 DEF u

LEMMA AppendKeeps ==
    ASSUME NEW s \in Seq(Timers), NEW t \in Timers
    PROVE  /\ \A i \in DOMAIN s : i \in DOMAIN Append(s, t) /\ Append(s, t)[i] = s[i] /\ i < Len(s) + 1
           /\ \A i \in DOMAIN Append(s, t) : i \in DOMAIN s \/ i = Len(s) + 1
           /\ Len(s) + 1 \in DOMAIN Append(s, t) /\ Append(s, t)[Len(s) + 1] = t
           /\ DOMAIN s \subseteq Nat /\ Len(s) + 1 \in Nat
  OBVIOUS

LEMMA AmongTail ==
    ASSUME NEW s \in Seq(Timers), s # <<>>, NEW kinds
    PROVE  Among(s, kinds) <=> Head(s).what \in kinds \/ Among(Tail(s), kinds)
  <1>1. ASSUME Among(s, kinds) PROVE Head(s).what \in kinds \/ Among(Tail(s), kinds)
    <2>1. PICK i \in DOMAIN s : s[i].what \in kinds
      BY <1>1 DEF Among
    <2>2. QED
      BY <2>1, TailShifts DEF Among
  <1>2. ASSUME Head(s).what \in kinds \/ Among(Tail(s), kinds) PROVE Among(s, kinds)
    BY <1>2, TailShifts DEF Among
  <1>3. QED
    BY <1>1, <1>2

LEMMA AmongAppend ==
    ASSUME NEW s \in Seq(Timers), NEW t \in Timers, NEW kinds
    PROVE  Among(Append(s, t), kinds) <=> t.what \in kinds \/ Among(s, kinds)
  <1> DEFINE u == Append(s, t)
  <1>1. /\ \A i \in DOMAIN s : i \in DOMAIN u /\ u[i] = s[i]
        /\ \A i \in DOMAIN u : i \in DOMAIN s \/ u[i] = t
        /\ \E i \in DOMAIN u : u[i] = t
    BY AppendKeeps
  <1> HIDE DEF u
  <1>2. Among(u, kinds) <=> t.what \in kinds \/ Among(s, kinds)
    BY <1>1 DEF Among
  <1>3. QED
    BY <1>2 DEF u

LEMMA EndsTail ==
    ASSUME NEW s \in Seq(Timers), s # <<>>, NEW kinds, NEW T, EndsIn(s, kinds, T)
    PROVE  /\ EndsIn(Tail(s), kinds, T)
           /\ Head(s).what \in kinds /\ ~Among(Tail(s), kinds) => Head(s) \in T
  <1> DEFINE u == Tail(s)
  <1>1. /\ \A i \in DOMAIN u : i + 1 \in DOMAIN s /\ u[i] = s[i + 1]
        /\ \A i \in DOMAIN s : i # 1 => i - 1 \in DOMAIN u /\ u[i - 1] = s[i]
        /\ 1 \in DOMAIN s /\ Head(s) = s[1]
        /\ DOMAIN s \subseteq Nat /\ DOMAIN u \subseteq Nat
    BY TailShifts
  <1> HIDE DEF u
  <1>2. EndsIn(u, kinds, T)
    <2> SUFFICES ASSUME NEW i \in DOMAIN u, u[i].what \in kinds,
                        \A j \in DOMAIN u : j > i => u[j].what \notin kinds
                 PROVE  u[i] \in T
      BY DEF EndsIn
    <2>1. i + 1 \in DOMAIN s /\ u[i] = s[i + 1] /\ i \in Nat
      BY <1>1
    <2>2. ASSUME NEW j \in DOMAIN s, j > i + 1
          PROVE  s[j].what \notin kinds
      <3>1. j \in Nat /\ j # 1 /\ j - 1 > i
        <4>1. j \in Nat
          BY <1>1
        <4>2. QED
          BY <2>1, <2>2, <4>1
      <3>2. j - 1 \in DOMAIN u /\ u[j - 1] = s[j]
        BY <1>1, <3>1
      <3>3. QED
        BY <3>1, <3>2
    <2>3. s[i + 1] \in T
      BY <2>1, <2>2 DEF EndsIn
    <2>4. QED
      BY <2>1, <2>3
  <1>3. Head(s).what \in kinds /\ ~Among(u, kinds) => Head(s) \in T
    <2> SUFFICES ASSUME s[1].what \in kinds, ~Among(u, kinds) PROVE s[1] \in T
      BY <1>1
    <2>1. ASSUME NEW j \in DOMAIN s, j > 1
          PROVE  s[j].what \notin kinds
      <3>1. j - 1 \in DOMAIN u /\ u[j - 1] = s[j]
        BY <1>1, <2>1
      <3>2. QED
        BY <3>1 DEF Among
    <2>2. QED
      BY <1>1, <2>1 DEF EndsIn
  <1>4. QED
    BY <1>2, <1>3 DEF u

LEMMA EndsAppend ==
    ASSUME NEW s \in Seq(Timers), NEW t \in Timers, NEW kinds, NEW T,
           t.what \in kinds => t \in T,
           t.what \notin kinds => EndsIn(s, kinds, T)
    PROVE  EndsIn(Append(s, t), kinds, T)
  <1> DEFINE u == Append(s, t)
  <1>1. PICK n \in Nat : n = Len(s) + 1
    BY AppendKeeps
  <1>2. /\ \A i \in DOMAIN s : i \in DOMAIN u /\ u[i] = s[i] /\ i < n
        /\ \A i \in DOMAIN u : i \in DOMAIN s \/ i = n
        /\ n \in DOMAIN u /\ u[n] = t
        /\ DOMAIN s \subseteq Nat
    BY <1>1, AppendKeeps
  <1> HIDE DEF u
  <1> SUFFICES ASSUME NEW i \in DOMAIN u, u[i].what \in kinds,
                      \A j \in DOMAIN u : j > i => u[j].what \notin kinds
               PROVE  u[i] \in T
    BY DEF EndsIn, u
  <1>3. CASE i = n
    BY <1>2, <1>3
  <1>4. CASE i # n
    <2>1. i \in DOMAIN s /\ u[i] = s[i] /\ i < n /\ i \in Nat
      BY <1>2, <1>4
    <2>2. t.what \notin kinds
      BY <1>2, <2>1
    <2>3. \A j \in DOMAIN s : j > i => s[j].what \notin kinds
      BY <1>2
    <2>4. s[i] \in T
      BY <2>1, <2>2, <2>3 DEF EndsIn
    <2>5. QED
      BY <2>1, <2>4
  <1>5. QED
    BY <1>3, <1>4

LEMMA NoneWaiting ==
    /\ \A kinds : ~Among(<<>>, kinds)
    /\ \A kinds, T : EndsIn(<<>>, kinds, T)
  BY DEF Among, EndsIn

\* What an answer to a change adds to the delayed loads.
LEMMA LoadAppends ==
    ASSUME NEW c \in calls, InspectTypes, Inspect!OnMovieLoad(c)
    PROVE  /\ NewPicture("poster", c.answer.poster) \in Timers
           /\ NewPicture("backdrop", c.answer.backdrop) \in Timers
           /\ \E mid \in Seq(Timers) :
                /\ \/ mid = timers /\ movie.poster = c.answer.poster
                   \/ mid = Append(timers, NewPicture("poster", c.answer.poster))
                /\ \/ timers' = mid /\ movie.backdrop = c.answer.backdrop
                   \/ /\ timers' = Append(mid, NewPicture("backdrop", c.answer.backdrop))
                      /\ movie.backdrop # c.answer.backdrop
  <1>1. c.answer \in Movies
    BY LoadStarts
  <1>2. PICK p, b : p = NewPicture("poster", c.answer.poster) /\ b = NewPicture("backdrop", c.answer.backdrop)
    OBVIOUS
  <1>3. p \in Timers /\ b \in Timers
    BY <1>1, <1>2 DEF NewPicture, Timers, Movies, Inspect!Parts
  <1>4. timers \in Seq(Timers)
    BY DEF InspectTypes, TimerTypes
  <1>5. \A u \in Seq(Timers), e \in Timers : u \o <<e>> = Append(u, e) /\ u \o <<>> = u
    OBVIOUS
  <1>6. \A u \in Seq(Timers), e \in Timers : Append(u, e) \in Seq(Timers)
    OBVIOUS
  <1>7. PICK s, t : /\ timers' = (timers \o s) \o t
                    /\ \/ s = <<>> /\ movie.poster = c.answer.poster
                       \/ s = <<p>>
                    /\ \/ t = <<>> /\ movie.backdrop = c.answer.backdrop
                       \/ t = <<b>> /\ movie.backdrop # c.answer.backdrop
    BY <1>2, LoadStarts
  <1>8. PICK mid \in Seq(Timers) : /\ mid = timers \o s
                                  /\ \/ mid = timers /\ movie.poster = c.answer.poster
                                     \/ mid = Append(timers, p)
    BY <1>3, <1>4, <1>5, <1>6, <1>7
  <1>9. \/ timers' = mid /\ movie.backdrop = c.answer.backdrop
        \/ timers' = Append(mid, b) /\ movie.backdrop # c.answer.backdrop
    BY <1>3, <1>5, <1>7, <1>8
  <1>10. QED
    BY <1>2, <1>3, <1>8, <1>9

LEMMA DoneAsksAgain ==
    ASSUME UploadTypes, NEW n \in uploads, Inspect!UploadDone(n)
    PROVE  \E t \in Timers : t.what = "video" /\ timers' = Append(timers, t)
  <1> DEFINE t == [what |-> "video", id |-> n]
  <1>1. t \in Timers
    BY DEF Timers, UploadTypes
  <1>2. timers' = Append(timers, t) /\ t.what = "video"
    BY DEF Inspect!UploadDone
  <1> HIDE DEF t
  <1>3. QED
    BY <1>1, <1>2

\* The movie will be asked for again, after an upload.
AskedAgain == Among(timers, {"video"})

LEMMA AskedAgainStays ==
    ASSUME InspectTypes, InspectStep, AskedAgain
    PROVE  AskedAgain' \/ Inspect!VideoTimer
  <1>1. timers \in Seq(Timers) /\ Among(timers, {"video"}) /\ UploadTypes
    BY DEF InspectTypes, TimerTypes, AskedAgain
  <1>2. ASSUME NEW t \in Timers, timers' = Append(timers, t)
        PROVE  AskedAgain'
    <2>1. Among(Append(timers, t), {"video"})
      BY <1>1, AmongAppend
    <2>2. QED
      BY <1>2, <2>1 DEF AskedAgain
  <1>3. ASSUME NEW c \in calls, Inspect!MovieComes(c)
        PROVE  AskedAgain'
    <2>1. timers' = timers \/ timers' = Append(timers, [what |-> "created", id |-> None])
      BY <1>3 DEF Inspect!MovieComes
    <2>2. [what |-> "created", id |-> None] \in Timers
      BY DEF Timers
    <2>3. QED
      BY <1>1, <1>2, <2>1, <2>2 DEF AskedAgain
  <1>4. ASSUME NEW c \in calls, Inspect!OnMovieLoad(c)
        PROVE  AskedAgain'
    <2>1. PICK mid \in Seq(Timers), p \in Timers, b \in Timers :
            /\ mid = timers \/ mid = Append(timers, p)
            /\ timers' = mid \/ timers' = Append(mid, b)
      BY <1>4, LoadAppends
    <2>2. Among(mid, {"video"})
      BY <1>1, <2>1, AmongAppend
    <2>3. Among(timers', {"video"})
      BY <2>1, <2>2, AmongAppend
    <2>4. QED
      BY <2>3 DEF AskedAgain
  <1>5. ASSUME Inspect!PosterTimer \/ Inspect!BackdropTimer \/ Inspect!CreatedTimer
        PROVE  AskedAgain'
    <2>1. timers # <<>> /\ timers' = Tail(timers) /\ Head(timers).what # "video"
      BY <1>5 DEF Inspect!PosterTimer, Inspect!BackdropTimer, Inspect!CreatedTimer, Inspect!FirstTimer
    <2>2. Among(Tail(timers), {"video"})
      BY <1>1, <2>1, AmongTail
    <2>3. QED
      BY <2>1, <2>2 DEF AskedAgain
  <1>6. ASSUME NEW n \in uploads, Inspect!UploadDone(n)
        PROVE  AskedAgain'
    <2>1. timers' = Append(timers, [what |-> "video", id |-> n])
      BY <1>6 DEF Inspect!UploadDone
    <2>2. [what |-> "video", id |-> n] \in Timers
      BY <1>1 DEF Timers, UploadTypes
    <2>3. QED
      BY <1>2, <2>1, <2>2
  <1>7. ASSUME UNCHANGED timers
        PROVE  AskedAgain'
    BY <1>1, <1>7 DEF AskedAgain
  <1>8. QED
    BY <1>3, <1>4, <1>5, <1>6, <1>7, TimerWriters

\* The server has every byte of an upload under way that it has a video of.
WholeFollows ==
  /\ whole \subseteq uploads
  /\ ~apart => videos \cap uploads \subseteq whole

LEMMA WholeStep ==
    ASSUME InspectTypes, InspectStep, apart => apart', WholeFollows
    PROVE  WholeFollows'
  <1>1. whole \subseteq uploads /\ (~apart => videos \cap uploads \subseteq whole)
    BY DEF WholeFollows
  <1>2. ASSUME Inspect!UploadVideo
        PROVE  WholeFollows'
    <2>1. /\ uploads' = uploads \cup {sent'} /\ UNCHANGED <<whole, videos>>
          /\ apart' = (apart \/ uploads # {} \/ videos # {})
      BY <1>2, DialogFrame DEF Inspect!UploadVideo
    <2>2. QED
      BY <1>1, <2>1 DEF WholeFollows
  <1>3. ASSUME NEW n \in uploads, Inspect!UploadDone(n) \/ Inspect!UploadFails(n)
        PROVE  WholeFollows'
    <2>1. uploads' = uploads \ {n} /\ whole' = whole \ {n} /\ videos' = videos
      BY <1>3 DEF Inspect!UploadDone, Inspect!UploadFails, Inspect!UploadOver
    <2>2. QED
      BY <1>1, <2>1 DEF WholeFollows
  <1>4. ASSUME NEW n \in uploads, Inspect!UploadWhole(n)
        PROVE  WholeFollows'
    <2>1. whole' = whole \cup {n} /\ videos' = videos \cup {n} /\ uploads' = uploads
      BY <1>4, VideoFrame DEF Inspect!UploadWhole
    <2>2. QED
      BY <1>1, <2>1 DEF WholeFollows
  <1>5. ASSUME NEW n \in videos, Inspect!VideoNamed(n)
        PROVE  WholeFollows'
    <2>1. videos' = videos \ {n} /\ UNCHANGED <<uploads, whole>>
      BY <1>5, VideoFrame DEF Inspect!VideoNamed
    <2>2. QED
      BY <1>1, <2>1 DEF WholeFollows
  <1>6. ASSUME UNCHANGED <<uploads, whole, videos>>
        PROVE  WholeFollows'
    BY <1>1, <1>6 DEF WholeFollows
  <1>7. QED
    BY <1>2, <1>3, <1>4, <1>5, <1>6, UploadWriters, VideoFrame

\* The page has the server's video, or will ask for it: at the latest at the
\* end of an upload the server has all of.
VideoFollows ==
  Shown =>
    \/ AskedAgain
    \/ whole # {}
    \/ \E c \in calls : c.kind = "load" /\ (c.at = "answered" => c.answer.video = server.movie.video)
    \/ /\ movie # None /\ movie.video = server.movie.video
       /\ \A c \in calls : c.at = "answered" => c.answer.video = server.movie.video

LEMMA NamedAsksAgain ==
    ASSUME WholeFollows, ~apart, ~apart', NEW n \in videos, Inspect!VideoNamed(n)
    PROVE  AskedAgain \/ whole # {}
  <1>1. n \in uploads \/ Inspect!VideoTimed
    BY DEF Inspect!VideoNamed
  <1>2. CASE n \in uploads
    BY <1>2 DEF WholeFollows
  <1>3. CASE Inspect!VideoTimed
    BY <1>3 DEF Inspect!VideoTimed, AskedAgain, Among
  <1>4. QED
    BY <1>1, <1>2, <1>3

\* Once the server has all of an upload, the page asks for the movie at its end.
LEMMA WholeStays ==
    ASSUME InspectTypes, InspectStep, ~apart', whole # {}
    PROVE  AskedAgain' \/ whole' # {}
  <1>1. ASSUME NEW n \in uploads, Inspect!UploadDone(n)
        PROVE  AskedAgain'
    <2>1. UploadTypes /\ timers \in Seq(Timers)
      BY DEF InspectTypes, TimerTypes
    <2>2. PICK t \in Timers : t.what = "video" /\ timers' = Append(timers, t)
      BY <1>1, <2>1, DoneAsksAgain
    <2>3. Among(Append(timers, t), {"video"})
      BY <2>1, <2>2, AmongAppend
    <2>4. QED
      BY <2>2, <2>3 DEF AskedAgain
  <1>2. ASSUME NEW n \in uploads, Inspect!UploadFails(n)
        PROVE  whole' # {}
    <2>1. n \notin whole /\ whole' = whole \ {n}
      BY <1>2 DEF Inspect!UploadFails, Inspect!UploadOver
    <2>2. QED
      BY <2>1
  <1>3. ASSUME NEW n \in uploads, Inspect!UploadWhole(n)
        PROVE  whole' # {}
    BY <1>3 DEF Inspect!UploadWhole
  <1>4. QED
    BY <1>1, <1>2, <1>3, UploadWriters, DialogFrame, VideoFrame

LEMMA VideoStep ==
    ASSUME InspectTypes, InspectStep, apart => apart', left => left', OneCall, MovieFollows,
           WholeFollows, VideoFollows
    PROVE  VideoFollows'
  <1> SUFFICES ASSUME Shown' PROVE VideoFollows'
    BY DEF VideoFollows
  <1>1. Shown /\ ~apart /\ ~apart' /\ ~left /\ ~left'
    BY DEF Shown
  <1>2. ASSUME Inspect!VideoTimer
        PROVE  VideoFollows'
    <2>1. PICK c : calls' = calls \cup {c} /\ c.at = "sent" /\ c.kind = "load"
      BY <1>2, MovieAskedAgain
    <2>2. QED
      BY <2>1 DEF VideoFollows
  <1>3. CASE AskedAgain
    BY <1>2, <1>3, AskedAgainStays DEF VideoFollows
  <1>4. CASE whole # {}
    BY <1>1, <1>4, WholeStays DEF VideoFollows
  <1>5. CASE ~AskedAgain /\ whole = {}
    <2>1. \/ \E c \in calls : c.kind = "load" /\ (c.at = "answered" => c.answer.video = server.movie.video)
          \/ /\ movie # None /\ movie.video = server.movie.video
             /\ \A c \in calls : c.at = "answered" => c.answer.video = server.movie.video
      BY <1>1, <1>5 DEF VideoFollows
    <2>2. ASSUME UNCHANGED <<calls, movie>>, server'.movie = server.movie
          PROVE  VideoFollows'
      BY <2>1, <2>2 DEF VideoFollows
    <2>3. ASSUME Asking
          PROVE  VideoFollows'
      <3>1. PICK c : calls' = calls \cup {c} /\ c.at = "sent" /\ apart' = (apart \/ calls # {})
        BY <2>3, AskingSends DEF Sends, InspectTypes
      <3>2. calls = {} /\ calls' = {c} /\ UNCHANGED <<server, movie>>
        BY <1>1, <2>3, <3>1, DialogFrame
      <3>3. QED
        BY <2>1, <3>1, <3>2 DEF VideoFollows
    <2>4. ASSUME NEW c \in calls, Inspect!Serve(c)
          PROVE  VideoFollows'
      <3>1. PICK d : Served(c, d)
        BY <2>4, ServeMakes
      <3>2. calls = {c} /\ calls' = {d} /\ movie' = movie
        BY <1>1, <2>4, <3>1, AnswerFrame DEF OneCall, Served
      <3>3. d.kind = c.kind /\ d.answer.video = server'.movie.video
            /\ server'.movie.video = server.movie.video
        BY <3>1 DEF Served
      <3>4. QED
        BY <2>1, <3>2, <3>3 DEF VideoFollows
    <2>5. ASSUME NEW c \in calls, Inspect!MovieComes(c) \/ Inspect!OnMovieLoad(c)
          PROVE  VideoFollows'
      <3>1. calls = {c} /\ calls' = {} /\ movie' = c.answer /\ c.at = "answered" /\ c.answer \in Movies
        BY <1>1, <2>5, AnswerTaken
      <3>2. movie' # None /\ server' = server
        BY <2>5, <3>1, Nothings, AnswerFrame DEF Movies
      <3>3. c.answer.video = server.movie.video
        BY <2>1, <3>1
      <3>4. QED
        BY <3>1, <3>2, <3>3 DEF VideoFollows
    <2>6. ASSUME NEW c \in calls, Inspect!MovieRemoved(c) \/ Inspect!CallFails(c)
          PROVE  VideoFollows'
      <3>1. /\ calls = {c} /\ calls' = {} /\ Inspect!CallFails(c)
            /\ c.kind # "load" /\ c.at # "answered"
        BY <1>1, <2>6, AnswerTaken
      <3>2. UNCHANGED <<server, movie>>
        BY <3>1, AnswerFrame
      <3>3. QED
        BY <2>1, <3>1, <3>2 DEF VideoFollows
    <2>7. ASSUME NEW n \in videos, Inspect!VideoNamed(n)
          PROVE  VideoFollows'
      BY <1>1, <1>5, <2>7, NamedAsksAgain
    <2>8. QED
      BY <1>2, <2>2, <2>3, <2>4, <2>5, <2>6, <2>7, MovieWriters
  <1>6. QED
    BY <1>3, <1>5, <1>4

\* The audit log is asked for once at a time.
OneLog == ~apart => \A l, k \in logLoads : l = k

\* A request, an upload or a delayed load will make the page ask for the log.
OnTheWay == calls # {} \/ uploads # {} \/ AskedAgain

\* The page shows every entry of the audit log or will ask for it, unless an
\* entry came when nothing would make it ask again.
LogFollows ==
  Shown /\ managing =>
    \/ unread
    \/ OnTheWay
    \/ logLoads = {} /\ auditLogs
    \/ logLoads # {} /\ \A l \in logLoads : l.read => l.entries

LEMMA LogWriters ==
    ASSUME InspectStep
    PROVE  /\ managing' = managing
           /\ \/ UNCHANGED <<logLoads, auditLogs>>
              \/ \E c \in calls : Inspect!MovieComes(c)
              \/ \E c \in calls : Inspect!OnMovieLoad(c)
              \/ \E l \in logLoads : Inspect!ReadLog(l)
              \/ \E l \in logLoads : Inspect!LogComes(l)
              \/ Inspect!LogEntry
  BY DialogFrame, AnswerFrame, TimerFrame, LoadFrame, VideoFrame, StutterFrame DEF InspectStep

\* A new movie asks for the audit log; nobody else does.
LEMMA LogAsked ==
    ASSUME ~apart', NEW c \in calls, Inspect!MovieComes(c) \/ Inspect!OnMovieLoad(c)
    PROVE  /\ managing => \E l : logLoads' = {l} /\ ~l.read
           /\ ~managing => logLoads' = logLoads
  <1>1. Inspect!AskLogs /\ logLoads = {}
    BY DEF Inspect!MovieComes, Inspect!OnMovieLoad
  <1>2. PICK no : no = Inspect!Cardinality(logLoads)
    OBVIOUS
  <1>3. PICK l : l = [no |-> no, read |-> FALSE, entries |-> FALSE]
    OBVIOUS
  <1>4. ~l.read
    BY <1>3
  <1>5. managing => logLoads' = {l}
    BY <1>1, <1>2, <1>3 DEF Inspect!AskLogs
  <1>6. ~managing => logLoads' = logLoads
    BY <1>1 DEF Inspect!AskLogs
  <1>7. QED
    BY <1>4, <1>5, <1>6

LEMMA LogRead ==
    ASSUME InspectTypes, NEW l \in logLoads, Inspect!ReadLog(l)
    PROVE  \E k : logLoads' = (logLoads \ {l}) \cup {k} /\ k.entries
  <1>1. PICK no : \E read, entries \in BOOLEAN : l = [no |-> no, read |-> read, entries |-> entries]
    BY DEF InspectTypes, LoadTypes, LogTyped
  <1>2. PICK k : k = [l EXCEPT !.read = TRUE, !.entries = TRUE]
    OBVIOUS
  <1>3. k.entries
    BY <1>1, <1>2
  <1>4. logLoads' = (logLoads \ {l}) \cup {k}
    BY <1>2 DEF Inspect!ReadLog
  <1>5. QED
    BY <1>3, <1>4

\* A new entry makes what was read of the log incomplete.
LEMMA EntryComes ==
    ASSUME InspectTypes, Inspect!LogEntry
    PROVE  \/ UNCHANGED <<auditLogs, logLoads, unread>>
           \/ /\ \A k \in logLoads' : \E l \in logLoads :
                   k = [l EXCEPT !.entries = FALSE] /\ k.read = l.read
              /\ \A l \in logLoads : \E k \in logLoads' : k = [l EXCEPT !.entries = FALSE]
              /\ \/ unread'
                 \/ Inspect!AsksAgain
  <1>1. ASSUME NEW l \in logLoads, NEW k, k = [l EXCEPT !.entries = FALSE]
        PROVE  k.read = l.read
    <2>1. PICK no : \E read, entries \in BOOLEAN :
                      l = [no |-> no, read |-> read, entries |-> entries]
      BY DEF InspectTypes, LoadTypes, LogTyped
    <2>2. QED
      BY <1>1, <2>1
  <1>2. CASE UNCHANGED <<auditLogs, logLoads, unread>>
    BY <1>2
  <1>3. CASE /\ logLoads' = {[l EXCEPT !.entries = FALSE] : l \in logLoads}
             /\ unread' = (unread \/ ~Inspect!AsksAgain)
    <2>1. unread' \/ Inspect!AsksAgain
      BY <1>3
    <2>2. \A k \in logLoads' : \E l \in logLoads : k = [l EXCEPT !.entries = FALSE]
      BY <1>3
    <2>3. \A l \in logLoads : \E k \in logLoads' : k = [l EXCEPT !.entries = FALSE]
      BY <1>3
    <2>4. QED
      BY <1>1, <2>1, <2>2, <2>3
  <1>4. QED
    BY <1>2, <1>3 DEF Inspect!LogEntry

LEMMA OneLogStep ==
    ASSUME InspectTypes, InspectStep, apart => apart', OneLog
    PROVE  OneLog'
  <1> SUFFICES ASSUME ~apart' PROVE \A l, k \in logLoads' : l = k
    BY DEF OneLog
  <1>1. \A l, k \in logLoads : l = k
    BY DEF OneLog
  <1>2. ASSUME NEW c \in calls, Inspect!MovieComes(c) \/ Inspect!OnMovieLoad(c)
        PROVE  \A l, k \in logLoads' : l = k
    BY <1>1, <1>2, LogAsked
  <1>3. ASSUME NEW l \in logLoads, Inspect!ReadLog(l)
        PROVE  \A a, b \in logLoads' : a = b
    <2>1. PICK k : logLoads' = (logLoads \ {l}) \cup {k}
      BY <1>3, LogRead
    <2>2. QED
      BY <1>1, <2>1
  <1>4. ASSUME NEW l \in logLoads, Inspect!LogComes(l)
        PROVE  \A a, b \in logLoads' : a = b
    <2>1. logLoads' = logLoads \ {l}
      BY <1>4 DEF Inspect!LogComes
    <2>2. QED
      BY <1>1, <2>1
  <1>5. ASSUME Inspect!LogEntry
        PROVE  \A a, b \in logLoads' : a = b
    <2>1. CASE logLoads' = logLoads
      BY <1>1, <2>1
    <2>2. CASE logLoads' # logLoads
      <3>1. ASSUME NEW a \in logLoads', NEW b \in logLoads'
            PROVE  a = b
        <4>1. PICK l \in logLoads : a = [l EXCEPT !.entries = FALSE]
          BY <1>5, <2>2, EntryComes
        <4>2. PICK k \in logLoads : b = [k EXCEPT !.entries = FALSE]
          BY <1>5, <2>2, EntryComes
        <4>3. l = k
          BY <1>1
        <4>4. QED
          BY <4>1, <4>2, <4>3
      <3>2. QED
        BY <3>1
    <2>3. QED
      BY <2>1, <2>2
  <1>6. QED
    BY <1>1, <1>2, <1>3, <1>4, <1>5, LogWriters

\* What is to make the page ask for the log does so, or is left to the next.
LEMMA OnTheWayStays ==
    ASSUME InspectTypes, InspectStep, apart => apart', left => left', Shown', OneCall, OnTheWay
    PROVE  \/ OnTheWay' \/ unread'
           \/ \E c \in calls : Inspect!MovieComes(c) \/ Inspect!OnMovieLoad(c)
  <1>1. ~apart /\ ~apart' /\ ~left /\ ~left'
    BY DEF Shown
  <1>2. CASE calls # {}
    <2>1. ASSUME Asking
          PROVE  calls' # {}
      BY <2>1, AskingSends DEF Sends, InspectTypes
    <2>2. ASSUME NEW c \in calls, Inspect!Serve(c)
          PROVE  calls' # {}
      BY <2>2, ServeMakes DEF Served
    <2>3. ASSUME NEW c \in calls, Inspect!MovieRemoved(c)
          PROVE  FALSE
      BY <1>1, <2>3 DEF Inspect!MovieRemoved
    <2>4. ASSUME NEW c \in calls, Inspect!CallFails(c)
          PROVE  unread'
      BY <2>4 DEF Inspect!CallFails
    <2>5. ASSUME Inspect!VideoTimer
          PROVE  calls' # {}
      BY <2>5, MovieAskedAgain
    <2>6. QED
      BY <1>2, <2>1, <2>2, <2>3, <2>4, <2>5, CallWriters DEF OnTheWay
  <1>3. CASE AskedAgain
    <2>1. ASSUME Inspect!VideoTimer
          PROVE  calls' # {}
      BY <2>1, MovieAskedAgain
    <2>2. QED
      BY <1>3, <2>1, AskedAgainStays DEF OnTheWay
  <1>4. CASE uploads # {}
    <2>1. ASSUME NEW n \in uploads, Inspect!UploadDone(n)
          PROVE  AskedAgain'
      <3>1. UploadTypes /\ timers \in Seq(Timers)
        BY DEF InspectTypes, TimerTypes
      <3>2. PICK t \in Timers : t.what = "video" /\ timers' = Append(timers, t)
        BY <2>1, <3>1, DoneAsksAgain
      <3>3. Among(Append(timers, t), {"video"})
        BY <3>1, <3>2, AmongAppend
      <3>4. QED
        BY <3>2, <3>3 DEF AskedAgain
    <2>2. ASSUME NEW n \in uploads, Inspect!UploadFails(n)
          PROVE  unread'
      BY <2>2 DEF Inspect!UploadFails
    <2>3. ASSUME Inspect!UploadVideo
          PROVE  uploads' # {}
      BY <2>3 DEF Inspect!UploadVideo
    <2>4. QED
      BY <1>4, <2>1, <2>2, <2>3, UploadWriters, VideoFrame DEF OnTheWay
  <1>5. QED
    BY <1>2, <1>3, <1>4 DEF OnTheWay

LEMMA LogStep ==
    ASSUME InspectTypes, InspectStep, apart => apart', left => left', OneCall, OneLog, LogFollows
    PROVE  LogFollows'
  <1> SUFFICES ASSUME Shown', managing' PROVE LogFollows'
    BY DEF LogFollows
  <1>1. Shown /\ ~apart /\ ~apart' /\ ~left /\ ~left' /\ managing
    BY LogWriters DEF Shown
  <1>2. ASSUME NEW c \in calls, Inspect!MovieComes(c) \/ Inspect!OnMovieLoad(c)
        PROVE  LogFollows'
    <2>1. PICK l : logLoads' = {l} /\ ~l.read
      BY <1>1, <1>2, LogAsked
    <2>2. QED
      BY <2>1 DEF LogFollows
  <1>3. ASSUME NEW l \in logLoads, Inspect!ReadLog(l)
        PROVE  LogFollows'
    <2>1. PICK k : logLoads' = (logLoads \ {l}) \cup {k} /\ k.entries
      BY <1>3, LogRead
    <2>2. logLoads' = {k}
      BY <1>1, <2>1 DEF OneLog
    <2>3. QED
      BY <2>1, <2>2 DEF LogFollows
  <1>4. ASSUME Inspect!LogEntry
        PROVE  LogFollows'
    <2>1. UNCHANGED <<calls, uploads, timers>>
      BY <1>4, VideoFrame
    <2>2. OnTheWay => OnTheWay'
      BY <2>1 DEF OnTheWay, AskedAgain
    <2>3. CASE UNCHANGED <<auditLogs, logLoads, unread>>
      BY <1>1, <2>2, <2>3 DEF LogFollows
    <2>4. CASE unread'
      BY <2>4 DEF LogFollows
    <2>5. CASE OnTheWay
      BY <2>2, <2>5 DEF LogFollows
    <2>6. CASE /\ ~OnTheWay /\ Inspect!AsksAgain
               /\ \A k \in logLoads' : \E l \in logLoads :
                    k = [l EXCEPT !.entries = FALSE] /\ k.read = l.read
               /\ \A l \in logLoads : \E k \in logLoads' : k = [l EXCEPT !.entries = FALSE]
      <3>1. PICK l \in logLoads : ~l.read
        BY <2>6 DEF Inspect!AsksAgain, Inspect!VideoTimed, OnTheWay, AskedAgain, Among
      <3>2. \A m \in logLoads : ~m.read
        BY <1>1, <3>1 DEF OneLog
      <3>3. logLoads' # {} /\ \A k \in logLoads' : ~k.read
        BY <2>6, <3>1, <3>2
      <3>4. QED
        BY <3>3 DEF LogFollows
    <2>7. QED
      BY <1>4, <2>3, <2>4, <2>5, <2>6, EntryComes
  <1>5. CASE OnTheWay
    BY <1>2, <1>5, OnTheWayStays DEF LogFollows
  <1>6. CASE unread
    <2>1. unread' \/ (\E l \in logLoads : Inspect!ReadLog(l)) \/ Inspect!LogEntry
      BY <1>6, UnreadWriters DEF Inspect!CallFails, Inspect!UploadFails
    <2>2. QED
      BY <1>3, <1>4, <2>1 DEF LogFollows
  <1>7. CASE ~OnTheWay /\ ~unread
    <2>1. \/ logLoads = {} /\ auditLogs
          \/ logLoads # {} /\ \A l \in logLoads : l.read => l.entries
      BY <1>1, <1>7 DEF LogFollows
    <2>2. ASSUME UNCHANGED <<logLoads, auditLogs>>
          PROVE  LogFollows'
      BY <2>1, <2>2 DEF LogFollows
    <2>3. ASSUME NEW l \in logLoads, Inspect!LogComes(l)
          PROVE  LogFollows'
      <3>1. logLoads' = {} /\ l.read /\ auditLogs' = l.entries
        BY <1>1, <2>3 DEF Inspect!LogComes, OneLog
      <3>2. QED
        BY <2>1, <2>3, <3>1 DEF LogFollows
    <2>4. QED
      BY <1>2, <1>3, <1>4, <2>2, <2>3, LogWriters
  <1>8. QED
    BY <1>5, <1>6, <1>7

(* The pictures. *)

PosterKinds == {"poster", "created"}

BackdropKinds == {"backdrop", "created"}

\* The delayed loads that end with the picture of this number shown, when
\* it is the movie's by then.
Right(id) == {t \in Timers : t.what = "created" \/ t.id = id}

\* The poster shown is the movie's, or the last delayed load will show it.
PosterFollows ==
  Shown /\ movie # None =>
    /\ EndsIn(timers, PosterKinds, Right(movie.poster))
    /\ ~Among(timers, PosterKinds) => posterUrl \in {None, movie.poster}

\* Delayed loads of pictures there are.
Loaded == {t \in Timers : t.what = "backdrop" => t.id # None}

\* The same for the backdrop, which is loaded before it is shown.  It is
\* never taken away, so that a movie without one never had one.
BackdropFollows ==
  Shown /\ movie # None =>
    /\ EndsIn(timers, BackdropKinds, Right(movie.backdrop))
    /\ ~Among(timers, BackdropKinds) =>
         /\ backdropLoads \subseteq {movie.backdrop}
         /\ backdropLoads = {} => backdropUrl \in {None, movie.backdrop}
    /\ movie.backdrop = None =>
         backdropLoads = {} /\ backdropUrl = None /\ ~Among(timers, {"backdrop"})
    /\ timers \in Seq(Loaded)

LEMMA PictureWriters ==
    ASSUME InspectStep
    PROVE  \/ UNCHANGED <<movie, posterUrl, backdropUrl, backdropLoads, timers>>
           \/ \E c \in calls : Inspect!MovieComes(c)
           \/ \E c \in calls : Inspect!OnMovieLoad(c)
           \/ Inspect!PosterTimer \/ Inspect!BackdropTimer \/ Inspect!CreatedTimer
           \/ Inspect!VideoTimer
           \/ \E id \in backdropLoads : Inspect!BackdropComes(id)
           \/ Inspect!PosterError
           \/ \E n \in uploads : Inspect!UploadDone(n)
  BY DialogFrame, AnswerFrame, TimerFrame, LoadFrame, VideoFrame, StutterFrame DEF InspectStep

\* While the page and the server agree, a movie that is asked for again
\* comes with the pictures the page knows.
LEMMA SamePictures ==
    ASSUME InspectTypes, OneCall, MovieFollows, Shown, movie # None,
           NEW c \in calls, Inspect!MovieComes(c)
    PROVE  movie.poster = c.answer.poster /\ movie.backdrop = c.answer.backdrop
  <1>1. calls = {c} /\ c.kind = "load" /\ c.at = "answered"
    BY AnswerTaken DEF Shown
  <1>2. SameButVideo(movie, server.movie) /\ SameButVideo(c.answer, server.movie)
    BY <1>1 DEF MovieFollows
  <1>3. QED
    BY <1>2 DEF SameButVideo

\* The two ways a movie comes.
LEMMA ComesHow ==
    ASSUME Shown', NEW c \in calls, Inspect!MovieComes(c)
    PROVE  /\ \/ /\ timers' = Append(timers, [what |-> "created", id |-> None])
                 /\ UNCHANGED <<posterUrl, backdropLoads>>
              \/ /\ timers' = timers /\ posterUrl' = c.answer.poster
                 /\ backdropLoads = {} /\ backdropLoads' = {c.answer.backdrop} \ {None}
           /\ [what |-> "created", id |-> None] \in Timers
           /\ [what |-> "created", id |-> None].what = "created"
           /\ backdropUrl' = backdropUrl
  <1>1. [what |-> "created", id |-> None] \in Timers
    BY DEF Timers
  <1>2. CASE fromCreation
    BY <1>1, <1>2 DEF Inspect!MovieComes
  <1>3. CASE ~fromCreation
    BY <1>1, <1>3 DEF Inspect!MovieComes, Shown
  <1>4. QED
    BY <1>2, <1>3

LEMMA PosterStep ==
    ASSUME InspectTypes, InspectStep, apart => apart', left => left', OneCall, MovieFollows,
           PosterFollows
    PROVE  PosterFollows'
  <1> SUFFICES ASSUME Shown' PROVE PosterFollows'
    BY DEF PosterFollows
  <1>1. Shown /\ ~apart /\ ~apart' /\ timers \in Seq(Timers) /\ UploadTypes /\ ShownTypes
    BY DEF Shown, InspectTypes, TimerTypes
  <1>2. movie # None =>
          /\ EndsIn(timers, PosterKinds, Right(movie.poster))
          /\ ~Among(timers, PosterKinds) => posterUrl \in {None, movie.poster}
    BY <1>1 DEF PosterFollows
  <1>3. ASSUME EndsIn(timers', PosterKinds, Right(movie'.poster)),
               ~Among(timers', PosterKinds) => posterUrl' \in {None, movie'.poster}
        PROVE  PosterFollows'
    BY <1>3 DEF PosterFollows
  <1>4. ASSUME NEW c \in calls, Inspect!MovieComes(c)
        PROVE  PosterFollows'
    <2>1. movie' = c.answer /\ c.answer \in Movies
      BY <1>1, <1>4, AnswerTaken
    <2>2. CASE timers' = Append(timers, [what |-> "created", id |-> None])
      <3>1. PICK t \in Timers : timers' = Append(timers, t) /\ t.what = "created"
        BY <1>4, <2>2, ComesHow
      <3>2. t.what \in PosterKinds /\ t \in Right(movie'.poster)
        BY <3>1 DEF PosterKinds, Right
      <3>3. PICK T : T = Right(movie'.poster)
        OBVIOUS
      <3>4. EndsIn(timers', PosterKinds, T)
        BY <1>1, <3>1, <3>2, <3>3, EndsAppend
      <3>5. Among(timers', PosterKinds)
        BY <1>1, <3>1, <3>2, AmongAppend
      <3>6. QED
        BY <1>3, <3>3, <3>4, <3>5
    <2>3. CASE timers' = timers /\ posterUrl' = c.answer.poster
      <3>1. CASE movie = None
        <4>1. timers' = <<>>
          BY <2>3, <3>1 DEF InspectTypes, NothingYet
        <4>2. QED
          BY <1>3, <2>1, <2>3, <4>1, NoneWaiting
      <3>2. CASE movie # None
        BY <1>1, <1>2, <1>3, <1>4, <2>1, <2>3, <3>2, SamePictures
      <3>3. QED
        BY <3>1, <3>2
    <2>4. QED
      BY <1>4, <2>2, <2>3, ComesHow
  <1>5. ASSUME NEW c \in calls, Inspect!OnMovieLoad(c)
        PROVE  PosterFollows'
    <2>1. movie' = c.answer /\ movie # None /\ posterUrl' = posterUrl
      BY <1>1, <1>5, AnswerTaken, AnswerFrame, LoadStarts, Nothings DEF Movies
    <2>2. PICK p, b : p = NewPicture("poster", c.answer.poster) /\ b = NewPicture("backdrop", c.answer.backdrop)
      OBVIOUS
    <2>3. /\ p.what \in PosterKinds /\ p.id = c.answer.poster /\ b.what \notin PosterKinds
      BY <2>2 DEF NewPicture, PosterKinds
    <2>4. PICK mid \in Seq(Timers) :
            /\ (mid = timers /\ movie.poster = c.answer.poster) \/ mid = Append(timers, p)
            /\ timers' = mid \/ timers' = Append(mid, b)
      BY <1>5, <2>2, LoadAppends
    <2>5. p \in Timers /\ b \in Timers
      BY <1>5, <2>2, LoadAppends
    <2>6. PICK T : T = Right(movie'.poster)
      OBVIOUS
    <2>7. p \in T
      BY <2>1, <2>3, <2>5, <2>6 DEF Right
    <2>8. EndsIn(mid, PosterKinds, T)
      <3>1. CASE mid = timers /\ movie.poster = c.answer.poster
        BY <1>2, <2>1, <2>6, <3>1
      <3>2. CASE mid = Append(timers, p)
        BY <1>1, <2>3, <2>5, <2>7, <3>2, EndsAppend
      <3>3. QED
        BY <2>4, <3>1, <3>2
    <2>9. EndsIn(timers', PosterKinds, T)
      BY <2>3, <2>4, <2>5, <2>8, EndsAppend
    <2>10. ASSUME ~Among(timers', PosterKinds)
           PROVE  posterUrl' \in {None, movie'.poster}
      <3>1. ~Among(mid, PosterKinds)
        BY <2>4, <2>5, <2>10, AmongAppend
      <3>2. mid = timers /\ movie.poster = c.answer.poster
        BY <1>1, <2>3, <2>4, <2>5, <3>1, AmongAppend
      <3>3. QED
        BY <1>2, <2>1, <3>1, <3>2
    <2>11. QED
      BY <1>3, <2>6, <2>9, <2>10
  <1>6. ASSUME Inspect!PosterTimer \/ Inspect!BackdropTimer \/ Inspect!CreatedTimer \/ Inspect!VideoTimer
        PROVE  PosterFollows'
    <2>1. timers # <<>> /\ timers' = Tail(timers) /\ movie' = movie
      BY <1>6 DEF Inspect!PosterTimer, Inspect!BackdropTimer, Inspect!CreatedTimer,
         Inspect!VideoTimer, Inspect!FirstTimer
    <2>2. movie # None
      BY <2>1 DEF InspectTypes, NothingYet
    <2>3. PICK T : T = Right(movie.poster)
      OBVIOUS
    <2>4. /\ EndsIn(timers', PosterKinds, T)
          /\ Head(timers).what \in PosterKinds /\ ~Among(timers', PosterKinds) => Head(timers) \in T
      BY <1>1, <1>2, <2>1, <2>2, <2>3, EndsTail
    <2>5. ASSUME ~Among(timers', PosterKinds)
          PROVE  posterUrl' \in {None, movie'.poster}
      <3>1. CASE Inspect!PosterTimer
        <4>1. Head(timers).what = "poster" /\ posterUrl' = Head(timers).id
          BY <3>1 DEF Inspect!PosterTimer, Inspect!FirstTimer
        <4>2. Head(timers).id = movie.poster
          BY <2>3, <2>4, <2>5, <4>1 DEF PosterKinds, Right
        <4>3. QED
          BY <2>1, <4>1, <4>2
      <3>2. CASE Inspect!CreatedTimer
        BY <2>1, <3>2 DEF Inspect!CreatedTimer
      <3>3. CASE Inspect!BackdropTimer \/ Inspect!VideoTimer
        <4>1. Head(timers).what \notin PosterKinds /\ posterUrl' = posterUrl
          BY <3>3, TimerFrame DEF Inspect!BackdropTimer, Inspect!VideoTimer, Inspect!FirstTimer,
             PosterKinds
        <4>2. ~Among(timers, PosterKinds)
          BY <1>1, <2>1, <2>5, <4>1, AmongTail
        <4>3. QED
          BY <1>2, <2>1, <2>2, <4>1, <4>2
      <3>4. QED
        BY <1>6, <3>1, <3>2, <3>3
    <2>6. QED
      BY <1>3, <2>1, <2>3, <2>4, <2>5
  <1>7. ASSUME Inspect!PosterError
        PROVE  PosterFollows'
    <2>1. posterUrl' = None /\ UNCHANGED <<movie, timers>>
      BY <1>7, LoadFrame DEF Inspect!PosterError
    <2>2. QED
      BY <1>2, <2>1 DEF PosterFollows
  <1>8. ASSUME NEW n \in uploads, Inspect!UploadDone(n)
        PROVE  PosterFollows'
    <2>1. PICK t \in Timers : t.what = "video" /\ timers' = Append(timers, t)
      BY <1>1, <1>8, DoneAsksAgain
    <2>2. t.what \notin PosterKinds
      BY <2>1 DEF PosterKinds
    <2>3. UNCHANGED <<movie, posterUrl>>
      BY <1>8, VideoFrame
    <2>4. movie # None
      BY <1>8 DEF InspectTypes, NothingYet
    <2>5. PICK T : T = Right(movie.poster)
      OBVIOUS
    <2>6. EndsIn(timers', PosterKinds, T)
      BY <1>1, <1>2, <2>1, <2>2, <2>4, <2>5, EndsAppend
    <2>7. Among(timers', PosterKinds) <=> Among(timers, PosterKinds)
      BY <1>1, <2>1, <2>2, AmongAppend
    <2>8. QED
      BY <1>2, <1>3, <2>3, <2>4, <2>5, <2>6, <2>7
  <1>9. ASSUME UNCHANGED <<movie, posterUrl, timers>>
        PROVE  PosterFollows'
    BY <1>2, <1>9 DEF PosterFollows
  <1>10. QED
    BY <1>4, <1>5, <1>6, <1>7, <1>8, <1>9, PictureWriters, LoadFrame

LEMMA BackdropStep ==
    ASSUME InspectTypes, InspectStep, apart => apart', left => left', OneCall, MovieFollows,
           BackdropFollows
    PROVE  BackdropFollows'
  <1> SUFFICES ASSUME Shown' PROVE BackdropFollows'
    BY DEF BackdropFollows
  <1>1. /\ Shown /\ ~apart /\ ~apart' /\ timers \in Seq(Timers) /\ UploadTypes /\ ShownTypes
        /\ LoadTypes
    BY DEF Shown, InspectTypes, TimerTypes
  <1>2. movie # None =>
          /\ EndsIn(timers, BackdropKinds, Right(movie.backdrop))
          /\ ~Among(timers, BackdropKinds) =>
               /\ backdropLoads \subseteq {movie.backdrop}
               /\ backdropLoads = {} => backdropUrl \in {None, movie.backdrop}
          /\ movie.backdrop = None =>
               backdropLoads = {} /\ backdropUrl = None /\ ~Among(timers, {"backdrop"})
          /\ timers \in Seq(Loaded)
    BY <1>1 DEF BackdropFollows
  <1>3. ASSUME EndsIn(timers', BackdropKinds, Right(movie'.backdrop)),
               ~Among(timers', BackdropKinds) =>
                 /\ backdropLoads' \subseteq {movie'.backdrop}
                 /\ backdropLoads' = {} => backdropUrl' \in {None, movie'.backdrop},
               movie'.backdrop = None =>
                 backdropLoads' = {} /\ backdropUrl' = None /\ ~Among(timers', {"backdrop"}),
               timers' \in Seq(Loaded)
        PROVE  BackdropFollows'
    BY <1>3 DEF BackdropFollows
  <1>4. ASSUME NEW c \in calls, Inspect!MovieComes(c)
        PROVE  BackdropFollows'
    <2>1. movie' = c.answer /\ c.answer \in Movies /\ backdropUrl' = backdropUrl
      BY <1>1, <1>4, AnswerTaken, AnswerFrame
    <2>2. PICK T : T = Right(movie'.backdrop)
      OBVIOUS
    <2>3. /\ EndsIn(timers, BackdropKinds, T)
          /\ timers \in Seq(Loaded)
          /\ movie'.backdrop = None =>
               backdropLoads = {} /\ backdropUrl = None /\ ~Among(timers, {"backdrop"})
      <3>1. CASE movie = None
        <4>1. timers = <<>> /\ backdropLoads = {} /\ backdropUrl = None
          BY <3>1 DEF InspectTypes, NothingYet
        <4>2. QED
          BY <4>1, NoneWaiting
      <3>2. CASE movie # None
        BY <1>1, <1>2, <1>4, <2>1, <2>2, <3>2, SamePictures
      <3>3. QED
        BY <3>1, <3>2
    <2>4. CASE timers' = timers /\ backdropLoads' = {c.answer.backdrop} \ {None}
      <3>1. /\ backdropLoads' \subseteq {movie'.backdrop}
            /\ backdropLoads' = {} <=> movie'.backdrop = None
        BY <2>1, <2>4
      <3>2. QED
        BY <1>3, <2>1, <2>2, <2>3, <2>4, <3>1
    <2>5. CASE UNCHANGED backdropLoads /\ timers' = Append(timers, [what |-> "created", id |-> None])
      <3>1. PICK t \in Timers : timers' = Append(timers, t) /\ t.what = "created"
        BY <1>4, <2>5, ComesHow
      <3>2. t.what \in BackdropKinds /\ t.what \notin {"backdrop"} /\ t \in T /\ t \in Loaded
        BY <2>2, <3>1 DEF BackdropKinds, Right, Loaded
      <3>3. EndsIn(timers', BackdropKinds, T)
        BY <1>1, <3>1, <3>2, EndsAppend
      <3>4. Among(timers', BackdropKinds) /\ (Among(timers', {"backdrop"}) <=> Among(timers, {"backdrop"}))
        BY <1>1, <3>1, <3>2, AmongAppend
      <3>5. timers' \in Seq(Loaded)
        BY <2>3, <3>1, <3>2
      <3>6. QED
        BY <1>3, <2>1, <2>2, <2>3, <2>5, <3>3, <3>4, <3>5
    <2>6. QED
      BY <1>4, <2>4, <2>5, ComesHow
  <1>5. ASSUME NEW c \in calls, Inspect!OnMovieLoad(c)
        PROVE  BackdropFollows'
    <2>1. /\ movie' = c.answer /\ movie # None /\ c.at = "answered"
          /\ UNCHANGED <<backdropUrl, backdropLoads>>
      BY <1>1, <1>5, AnswerTaken, AnswerFrame, LoadStarts, Nothings DEF Movies
    <2>2. PICK p, b : p = NewPicture("poster", c.answer.poster) /\ b = NewPicture("backdrop", c.answer.backdrop)
      OBVIOUS
    <2>3. /\ p.what = "poster" /\ p.what \notin BackdropKinds
          /\ b.what \in BackdropKinds /\ b.id = c.answer.backdrop
      BY <2>2 DEF NewPicture, BackdropKinds
    <2>4. PICK mid \in Seq(Timers) :
            /\ mid = timers \/ mid = Append(timers, p)
            /\ \/ timers' = mid /\ movie.backdrop = c.answer.backdrop
               \/ timers' = Append(mid, b) /\ movie.backdrop # c.answer.backdrop
      BY <1>5, <2>2, LoadAppends
    <2>5. p \in Timers /\ b \in Timers
      BY <1>5, <2>2, LoadAppends
    <2>6. PICK T : T = Right(movie.backdrop)
      OBVIOUS
    <2>7. EndsIn(mid, BackdropKinds, T)
      BY <1>1, <1>2, <2>1, <2>3, <2>4, <2>5, <2>6, EndsAppend
    <2>8. /\ Among(mid, BackdropKinds) <=> Among(timers, BackdropKinds)
          /\ Among(mid, {"backdrop"}) <=> Among(timers, {"backdrop"})
      BY <1>1, <2>3, <2>4, <2>5, AmongAppend
    <2>9. mid \in Seq(Loaded)
      <3>1. p \in Loaded
        BY <2>3, <2>5 DEF Loaded
      <3>2. QED
        BY <1>2, <2>1, <2>4, <3>1
    <2>10. CASE timers' = mid /\ movie.backdrop = c.answer.backdrop
      BY <1>2, <1>3, <2>1, <2>6, <2>7, <2>8, <2>9, <2>10
    <2>11. CASE timers' = Append(mid, b) /\ movie.backdrop # c.answer.backdrop
      <3>1. c.answer.backdrop # None
        BY <1>1, <2>1, <2>11 DEF MovieFollows
      <3>2. PICK U : U = Right(movie'.backdrop)
        OBVIOUS
      <3>3. b \in U /\ b \in Loaded
        BY <2>1, <2>3, <2>5, <3>1, <3>2 DEF Right, Loaded
      <3>4. EndsIn(timers', BackdropKinds, U)
        BY <2>3, <2>5, <2>11, <3>3, EndsAppend
      <3>5. Among(timers', BackdropKinds)
        BY <2>3, <2>5, <2>11, AmongAppend
      <3>6. timers' \in Seq(Loaded)
        BY <2>9, <2>11, <3>3
      <3>7. QED
        BY <1>3, <2>1, <3>1, <3>2, <3>4, <3>5, <3>6
    <2>12. QED
      BY <2>4, <2>10, <2>11
  <1>6. ASSUME Inspect!PosterTimer \/ Inspect!BackdropTimer \/ Inspect!CreatedTimer \/ Inspect!VideoTimer
        PROVE  BackdropFollows'
    <2>1. timers # <<>> /\ timers' = Tail(timers) /\ UNCHANGED <<movie, backdropUrl>>
      BY <1>6, TimerFrame DEF Inspect!PosterTimer, Inspect!BackdropTimer, Inspect!CreatedTimer,
         Inspect!VideoTimer, Inspect!FirstTimer
    <2>2. movie # None
      BY <2>1 DEF InspectTypes, NothingYet
    <2>3. PICK T : T = Right(movie.backdrop)
      OBVIOUS
    <2>4. /\ EndsIn(timers', BackdropKinds, T)
          /\ Head(timers).what \in BackdropKinds /\ ~Among(timers', BackdropKinds) => Head(timers) \in T
      BY <1>1, <1>2, <2>1, <2>2, <2>3, EndsTail
    <2>5. timers \in Seq(Loaded) /\ timers' \in Seq(Loaded) /\ Head(timers) \in Loaded
      BY <1>2, <2>1, <2>2
    <2>6. movie.backdrop = None => ~Among(timers', {"backdrop"}) /\ Head(timers).what # "backdrop"
      BY <1>1, <1>2, <2>1, <2>2, AmongTail
    <2>7. CASE Inspect!BackdropTimer
      <3>1. PICK id : id = Head(timers).id
        OBVIOUS
      <3>2. Head(timers).what = "backdrop" /\ Inspect!LoadBackdrop(id)
        BY <2>7, <3>1 DEF Inspect!BackdropTimer, Inspect!FirstTimer
      <3>3. id # None
        BY <2>5, <3>1, <3>2 DEF Loaded
      <3>4. backdropLoads' = {id}
        BY <1>1, <3>2, <3>3 DEF Inspect!LoadBackdrop
      <3>5. ~Among(timers', BackdropKinds) => id = movie.backdrop
        BY <2>3, <2>4, <3>1, <3>2 DEF BackdropKinds, Right
      <3>6. movie.backdrop # None
        BY <2>6, <3>2
      <3>7. QED
        BY <1>3, <2>1, <2>3, <2>4, <2>5, <3>4, <3>5, <3>6
    <2>8. CASE Inspect!CreatedTimer
      <3>1. PICK id : id = movie.backdrop
        OBVIOUS
      <3>2. Inspect!LoadBackdrop(id)
        BY <2>8, <3>1 DEF Inspect!CreatedTimer
      <3>3. CASE id = None
        <4>1. backdropLoads' = {} /\ backdropUrl' = None
          BY <1>2, <2>1, <2>2, <3>1, <3>2, <3>3 DEF Inspect!LoadBackdrop
        <4>2. QED
          BY <1>3, <2>1, <2>3, <2>4, <2>5, <2>6, <4>1
      <3>4. CASE id # None
        <4>1. backdropLoads' = {id}
          BY <1>1, <3>2, <3>4 DEF Inspect!LoadBackdrop
        <4>2. QED
          BY <1>3, <2>1, <2>3, <2>4, <2>5, <3>1, <3>4, <4>1
      <3>5. QED
        BY <3>3, <3>4
    <2>9. CASE Inspect!PosterTimer \/ Inspect!VideoTimer
      <3>1. Head(timers).what \notin BackdropKinds /\ backdropLoads' = backdropLoads
        BY <2>9, TimerFrame DEF Inspect!PosterTimer, Inspect!VideoTimer, Inspect!FirstTimer,
           BackdropKinds
      <3>2. Among(timers, BackdropKinds) => Among(timers', BackdropKinds)
        BY <1>1, <2>1, <3>1, AmongTail
      <3>3. QED
        BY <1>2, <1>3, <2>1, <2>2, <2>3, <2>4, <2>5, <2>6, <3>1, <3>2
    <2>10. QED
      BY <1>6, <2>7, <2>8, <2>9
  <1>7. ASSUME NEW id \in backdropLoads, Inspect!BackdropComes(id)
        PROVE  BackdropFollows'
    <2>1. /\ backdropLoads' = backdropLoads \ {id} /\ backdropUrl' \in {id, None}
          /\ UNCHANGED <<movie, timers>>
      BY <1>7, LoadFrame DEF Inspect!BackdropComes
    <2>2. movie # None
      BY DEF InspectTypes, NothingYet
    <2>3. movie.backdrop # None
      BY <1>2, <2>2
    <2>4. ~Among(timers, BackdropKinds) => id = movie.backdrop
      BY <1>2, <2>2
    <2>5. QED
      BY <1>2, <1>3, <2>1, <2>2, <2>3, <2>4
  <1>8. ASSUME NEW n \in uploads, Inspect!UploadDone(n)
        PROVE  BackdropFollows'
    <2>1. PICK t \in Timers : t.what = "video" /\ timers' = Append(timers, t)
      BY <1>1, <1>8, DoneAsksAgain
    <2>2. t.what \notin BackdropKinds /\ t \in Loaded
      BY <2>1 DEF BackdropKinds, Loaded
    <2>3. UNCHANGED <<movie, backdropUrl, backdropLoads>>
      BY <1>8, VideoFrame
    <2>4. movie # None
      BY <1>8 DEF InspectTypes, NothingYet
    <2>5. PICK T : T = Right(movie.backdrop)
      OBVIOUS
    <2>6. EndsIn(timers', BackdropKinds, T)
      BY <1>1, <1>2, <2>1, <2>2, <2>4, <2>5, EndsAppend
    <2>7. /\ Among(timers', BackdropKinds) <=> Among(timers, BackdropKinds)
          /\ Among(timers', {"backdrop"}) <=> Among(timers, {"backdrop"})
      BY <1>1, <2>1, <2>2, AmongAppend
    <2>8. timers' \in Seq(Loaded)
      BY <1>2, <2>1, <2>2, <2>4
    <2>9. QED
      BY <1>2, <1>3, <2>3, <2>4, <2>5, <2>6, <2>7, <2>8
  <1>9. ASSUME UNCHANGED <<movie, backdropUrl, backdropLoads, timers>>
        PROVE  BackdropFollows'
    BY <1>2, <1>9 DEF BackdropFollows
  <1>10. QED
    BY <1>4, <1>5, <1>6, <1>7, <1>8, <1>9, PictureWriters, LoadFrame

(* Uploads, and all of it together. *)

\* The page shows the one upload there is and hears the current subject.
UploadFollows ==
  Shown =>
    /\ \A m, n \in uploads : m = n
    /\ isUploadingVideo <=> uploads # {}
    /\ isUploadingVideo => heard = subject /\ progressOf \in {None} \cup uploads

LEMMA UploadFollowsStep ==
    ASSUME InspectTypes, InspectStep, apart => apart', left => left', UploadFollows
    PROVE  UploadFollows'
  <1> SUFFICES ASSUME Shown' PROVE UploadFollows'
    BY DEF UploadFollows
  <1>1. Shown /\ ~apart /\ ~apart' /\ ~left'
    BY DEF Shown
  <1>2. /\ \A m, n \in uploads : m = n
        /\ isUploadingVideo <=> uploads # {}
        /\ isUploadingVideo => heard = subject /\ progressOf \in {None} \cup uploads
    BY <1>1 DEF UploadFollows
  <1>3. ASSUME Inspect!UploadVideo
        PROVE  UploadFollows'
    <2>1. /\ uploads' = uploads \cup {sent'} /\ isUploadingVideo' = TRUE /\ progressOf' = None
          /\ heard' = subject /\ subject' = subject
          /\ apart' = (apart \/ uploads # {} \/ videos # {})
      BY <1>3 DEF Inspect!UploadVideo
    <2>2. uploads' = {sent'}
      BY <1>1, <2>1
    <2>3. QED
      BY <2>1, <2>2 DEF UploadFollows
  <1>4. ASSUME NEW n \in uploads, Inspect!Progress(n)
        PROVE  UploadFollows'
    <2>1. /\ progressOf' = n \/ progressOf' = progressOf
          /\ UNCHANGED <<uploads, subject, heard, isUploadingVideo>>
      BY <1>4, VideoFrame DEF Inspect!Progress
    <2>2. QED
      BY <1>2, <2>1 DEF UploadFollows
  <1>5. ASSUME NEW n \in uploads, Inspect!UploadDone(n) \/ Inspect!UploadFails(n)
        PROVE  UploadFollows'
    <2>1. uploads' = uploads \ {n} /\ isUploadingVideo' = FALSE
      BY <1>5 DEF Inspect!UploadDone, Inspect!UploadFails, Inspect!UploadOver
    <2>2. uploads' = {}
      BY <1>2, <2>1
    <2>3. QED
      BY <2>1, <2>2 DEF UploadFollows
  <1>6. ASSUME Inspect!WatchMovie
        PROVE  FALSE
    BY <1>1, <1>6 DEF Inspect!WatchMovie
  <1>7. ASSUME UNCHANGED <<uploads, subject, heard, isUploadingVideo, progressOf>>
        PROVE  UploadFollows'
    BY <1>2, <1>7 DEF UploadFollows
  <1>8. QED
    BY <1>3, <1>4, <1>5, <1>6, <1>7, UploadWriters, VideoFrame

InspectInv ==
  /\ InspectTypes
  /\ OneCall
  /\ MovieFollows
  /\ DialogIsOfMovie
  /\ SentIsOfMovie
  /\ WholeFollows
  /\ VideoFollows
  /\ OneLog
  /\ LogFollows
  /\ PosterFollows
  /\ BackdropFollows
  /\ UploadFollows

LEMMA InspectStarts == Inspect!InspectInit => InspectInv
  <1> SUFFICES ASSUME Inspect!InspectInit PROVE InspectInv
    OBVIOUS
  <1>1. InspectTypes
    BY InspectStartsTyped
  <1>2. PICK c : c.kind = "load" /\ c.at = "sent" /\ calls = {c}
    <2> DEFINE c == [no |-> 0, kind |-> "load", base |-> None, fields |-> {}, shown |-> {},
                     at |-> "sent", answer |-> None]
    <2>1. c.kind = "load" /\ c.at = "sent"
      OBVIOUS
    <2>2. calls = {c}
      BY DEF Inspect!InspectInit
    <2> HIDE DEF c
    <2>3. QED
      BY <2>1, <2>2
  <1>3. /\ movie = None /\ popup = None /\ logLoads = {} /\ uploads = {} /\ whole = {}
        /\ isUploadingVideo = FALSE
    BY DEF Inspect!InspectInit
  <1>4. OneCall /\ OneLog
    BY <1>2, <1>3 DEF OneCall, OneLog
  <1>5. MovieFollows /\ WholeFollows /\ VideoFollows /\ LogFollows
    BY <1>2, <1>3 DEF MovieFollows, WholeFollows, VideoFollows, LogFollows, OnTheWay
  <1>6. DialogIsOfMovie /\ SentIsOfMovie
    BY <1>2, <1>3 DEF DialogIsOfMovie, SentIsOfMovie
  <1>7. PosterFollows /\ BackdropFollows
    BY <1>3 DEF PosterFollows, BackdropFollows
  <1>8. UploadFollows
    BY <1>3 DEF UploadFollows
  <1>9. QED
    BY <1>1, <1>4, <1>5, <1>6, <1>7, <1>8 DEF InspectInv

LEMMA InspectInvariant == Spec => []InspectInv
  <1>1. Init => InspectInv
    BY InspectStarts DEF Init
  <1>2. InspectInv /\ [Next]_vars => InspectInv'
    <2> SUFFICES ASSUME InspectInv, [Next]_vars PROVE InspectInv'
      OBVIOUS
    <2>1. [Inspect!InspectNext]_inspectVars
      BY StepOfOnePage
    <2>2. InspectTypes' /\ InspectStep /\ (apart => apart') /\ (left => left')
      BY <2>1, InspectTypesStep DEF InspectInv
    <2>3. OneCall' /\ MovieFollows' /\ DialogIsOfMovie' /\ SentIsOfMovie'
      BY <2>2, OneCallStep, MovieStep, DialogOfMovieStep, SentOfMovieStep DEF InspectInv
    <2>4. WholeFollows' /\ VideoFollows' /\ OneLog' /\ LogFollows'
      BY <2>2, WholeStep, VideoStep, OneLogStep, LogStep DEF InspectInv
    <2>5. PosterFollows' /\ BackdropFollows' /\ UploadFollows'
      BY <2>2, PosterStep, BackdropStep, UploadFollowsStep DEF InspectInv
    <2>6. QED
      BY <2>2, <2>3, <2>4, <2>5 DEF InspectInv
  <1>3. QED
    BY <1>1, <1>2, PTL DEF Spec

\* Once nothing is under way the page holds the server's movie, shows its
\* pictures or none, and every entry of its audit log, unless one came when
\* nothing made the page ask for it again; while a video is uploaded, and only
\* then, it shows the upload it started and listens to the subject that
\* reports it (inspect-movie.component.ts, video-upload.service.ts).
THEOREM PageCorrect == Spec => []PageAgrees
  <1>1. InspectInv => PageAgrees
    <2> SUFFICES ASSUME InspectInv, ~apart, ~left
                 PROVE  /\ Inspect!Quiet => /\ movie = server.movie
                                            /\ posterUrl \in {None, server.movie.poster}
                                            /\ backdropUrl \in {None, server.movie.backdrop}
                                            /\ managing /\ uploads = {} /\ ~unread => auditLogs
                        /\ isUploadingVideo <=> uploads # {}
                        /\ isUploadingVideo => /\ heard = subject /\ subject \notin closed
                                               /\ progressOf \in {None} \cup uploads
      BY DEF PageAgrees, Inspect!PageAgrees
    <2>1. Shown
      BY DEF Shown
    <2>2. ASSUME Inspect!Quiet
          PROVE  /\ movie = server.movie
                 /\ posterUrl \in {None, server.movie.poster}
                 /\ backdropUrl \in {None, server.movie.backdrop}
                 /\ managing /\ uploads = {} /\ ~unread => auditLogs
      <3>1. calls = {} /\ timers = <<>> /\ backdropLoads = {} /\ logLoads = {} /\ whole = {}
        BY <2>2 DEF Inspect!Quiet
      <3>2. ~Among(timers, {"video"}) /\ ~Among(timers, PosterKinds) /\ ~Among(timers, BackdropKinds)
        BY <3>1, NoneWaiting
      <3>3. movie # None /\ SameButVideo(movie, server.movie)
        BY <2>1, <3>1 DEF InspectInv, MovieFollows
      <3>4. movie.video = server.movie.video
        BY <2>1, <3>1, <3>2 DEF InspectInv, VideoFollows, AskedAgain
      <3>5. movie \in Movies /\ server.movie \in Movies
        BY <3>3 DEF InspectInv, InspectTypes, ShownTypes, ServerTypes
      <3>6. movie = server.movie
        BY <3>3, <3>4, <3>5 DEF SameButVideo, Movies, Inspect!Parts
      <3>7. posterUrl \in {None, movie.poster} /\ backdropUrl \in {None, movie.backdrop}
        BY <2>1, <3>1, <3>2, <3>3 DEF InspectInv, PosterFollows, BackdropFollows
      <3>8. managing /\ uploads = {} /\ ~unread => auditLogs
        BY <2>1, <3>1, <3>2 DEF InspectInv, LogFollows, OnTheWay, AskedAgain
      <3>9. QED
        BY <3>6, <3>7, <3>8
    <2>3. subject \notin closed
      <3>1. subject \in Nat /\ \A s \in closed : s \in Nat /\ s < subject
        BY DEF InspectInv, InspectTypes, UploadTypes
      <3>2. QED
        BY <3>1
    <2>4. /\ isUploadingVideo <=> uploads # {}
          /\ isUploadingVideo => heard = subject /\ progressOf \in {None} \cup uploads
      BY <2>1 DEF InspectInv, UploadFollows
    <2>5. QED
      BY <2>2, <2>3, <2>4
  <1>2. QED
    BY <1>1, InspectInvariant, PTL

\* A request changes of the server's movie what was asked for on the page: an
\* edit writes the fields changed on the screen and leaves the others as they
\* are, but for the date, which behind UTC moves a day back; and the
\* publication goes the way the dialog said (movie-settings components,
\* utils.ts, movies.service.ts).
THEOREM ChangesCorrect == Spec => ChangesAreOfTheMovieShown
  <1> DEFINE A ==
        \A c \in calls : Inspect!Serve(c) /\ c.base # None /\ ~apart =>
          /\ c.kind \in {"publish", "unpublish"} =>
               /\ server.movie.published = c.base.published
               /\ server'.movie.published = ~c.base.published
          /\ c.kind = "edit" =>
               /\ \A f \in Fields :
                    server'.movie.meta[f] = IF f \in c.shown THEN c.no ELSE server.movie.meta[f]
               /\ ReleaseDate \notin c.shown =>
                    server'.movie.days = server.movie.days + (IF behind THEN 1 ELSE 0)
  <1>1. InspectInv => A
    <2> DEFINE Toggled(c) == /\ server.movie.published = c.base.published
                             /\ server'.movie.published = ~c.base.published
               Written(c) ==
                 /\ \A f \in Fields :
                      server'.movie.meta[f] = IF f \in c.shown THEN c.no ELSE server.movie.meta[f]
                 /\ ReleaseDate \notin c.shown =>
                      server'.movie.days = server.movie.days + (IF behind THEN 1 ELSE 0)
    <2> SUFFICES ASSUME InspectInv, NEW c \in calls, Inspect!Serve(c), c.base # None, ~apart
                 PROVE  /\ c.kind \in {"publish", "unpublish"} => Toggled(c)
                        /\ c.kind = "edit" => Written(c)
      OBVIOUS
    <2>1. PICK d : Served(c, d)
      BY ServeMakes DEF InspectInv
    <2>2. CallTyped(c) /\ c.at = "sent" /\ c.kind # "load"
      <3>1. CallTyped(c)
        BY DEF InspectInv, InspectTypes, CallTypes
      <3>2. QED
        BY <2>1, <3>1 DEF CallTyped, Served
    <2>3. /\ c.base.meta = server.movie.meta /\ c.base.days = server.movie.days
          /\ c.base.published = server.movie.published
          /\ c.fields = c.shown
          /\ c.kind = "publish" => ~server.movie.published
          /\ c.kind = "unpublish" => server.movie.published
      BY <2>2 DEF InspectInv, SentIsOfMovie
    <2>4. server.movie.published \in BOOLEAN
      BY DEF InspectInv, InspectTypes, ServerTypes, Movies, Inspect!Parts
    <2>5. ASSUME c.kind \in {"publish", "unpublish"}
          PROVE  Toggled(c)
      <3>1. CASE c.kind = "publish"
        BY <2>1, <2>3, <2>4, <3>1 DEF Served
      <3>2. CASE c.kind = "unpublish"
        BY <2>1, <2>3, <2>4, <3>2 DEF Served
      <3>3. QED
        BY <2>5, <3>1, <3>2
    <2>6. ASSUME c.kind = "edit"
          PROVE  Written(c)
      <3>1. /\ server'.movie.meta = [f \in Fields |-> IF f \in c.fields THEN c.no ELSE c.base.meta[f]]
            /\ server'.movie.days = IF ReleaseDate \in c.fields THEN 0 ELSE c.base.days + Inspect!Shift
        BY <2>1, <2>6 DEF Served
      <3>2. QED
        BY <2>3, <3>1 DEF Inspect!Shift
    <2> HIDE DEF Toggled, Written
    <2>7. QED
      BY <2>5, <2>6
  <1>2. QED
    BY <1>1, InspectInvariant, PTL DEF ChangesAreOfTheMovieShown, Inspect!ChangesAreOfTheMovieShown

-----------------------------------------------------------------------------
(* Every page keeps its types *)

\* The component of each page holds what it was declared to hold, in every
\* state of a visit.
THEOREM TypeCorrect == Spec => []TypeOK
  <1>1. Spec => [](route \in Routes)
    <2>1. Init => route \in Routes
      BY DEF Init
    <2>2. route \in Routes /\ [Next]_vars => (route \in Routes)'
      BY StepOfOnePage
    <2>3. QED
      BY <2>1, <2>2, PTL DEF Spec
  <1>2. SearchInv => Search!SearchTypeOK
    BY DEF SearchInv
  <1>3. CreateInv => Create!CreateTypeOK
    BY CreateTyped
  <1>4. InspectInv => Inspect!InspectTypeOK
    BY InspectTyped DEF InspectInv
  <1>5. PlayerInv => Watch!PlayerTypeOK
    BY PlayerTyped
  <1>6. route \in Routes /\ SearchInv /\ CreateInv /\ InspectInv /\ PlayerInv => TypeOK
    BY <1>2, <1>3, <1>4, <1>5 DEF TypeOK
  <1>7. QED
    BY <1>1, <1>6, SearchInvariant, CreateInvariant, InspectInvariant, PlayerInvariant, PTL

=============================================================================
