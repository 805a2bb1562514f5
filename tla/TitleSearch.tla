---------------------------- MODULE TitleSearch ----------------------------
(***************************************************************************)
(* Titles of others: LibraryController.search and getExternalTitleMetadata *)
(* and MoviesImportController.import, down to the requests TMDBService     *)
(* makes.  All of them pass one APIRateLimiter, which waits for nothing: a *)
(* call made too early is answered as if there were no such title.         *)
(*                                                                         *)
(* TMDB itself is external: a listing of titles for every query, page by   *)
(* page, from which a request may fail at any time.  Only films are asked  *)
(* for, as the controllers do.                                             *)
(***************************************************************************)
EXTENDS Integers, FiniteSets, FiniteSetsExt

CONSTANTS
    Calls,         \* requests to the three handlers
    Titles,        \* the films TMDB knows
    Wanted,        \* the identifiers whose details are asked for
    Queries,       \* what can be searched for
    Listing,       \* query -> page -> the films on it, an empty page after the last
    Pages,         \* query -> total_pages, or 1 when there is no film
    Undated,       \* films without a release date or popularity
    Popularity,    \* film -> popularity
    Alike,         \* query -> films Fuse.js finds similar to it
    Limits,        \* values of the parameter limit that are accepted, 1 to 30 or NaN
    Between,       \* rateLimitMs, in units of the clock
    MaxPages,      \* MAX_RESULT_PAGES_TO_SEARCH_THROUGH
    Few, Many,     \* 5 and 10 in the selector
    Unpopular,     \* 10, the popularity above which a film is kept
    MaxTime        \* bound of the model: the clock stops there

ASSUME BetweenAssumption == Between \in Nat
ASSUME TimeAssumption == MaxTime \in Nat
\* A limit that is not a number: no comparison with it is true.
NaN == 0

ASSUME LimitsAssumption == Limits # {} /\ Limits \subseteq {NaN} \cup 1..30
ASSUME WantedAssumption == Wanted # {}
ASSUME FewAssumption == Few \in Nat /\ Many \in Nat /\ 1 <= Few /\ Few <= Many
ASSUME PagesAssumption == MaxPages \in Nat \ {0} /\ Pages \in [Queries -> Nat \ {0}]
ASSUME ListingAssumption ==
    \A q \in Queries :
        /\ Listing[q] \in [1..MaxPages -> SUBSET Titles]
        /\ \A p, r \in 1..MaxPages : p <= r /\ Listing[q][p] = {} => Listing[q][r] = {}

VARIABLES
    now,           \* Date.now(), counted from a time long after 0
    lastCallTime,  \* of the limiter
    calls

vars == <<now, lastCallTime, calls>>

-----------------------------------------------------------------------------
Never == -1        \* a time so long ago that it does not count: lastCallTime is 0
Handlers == {"search", "metadata", "import"}
Phases == {"free", "own", "page", "details", "create", "answered"}

\* gate is what the limiter said, at the time start.
Call == [handler : Handlers, asked : Queries \cup Wanted, limit : Limits,
         external : BOOLEAN, phase : Phases, gate : {"none", "open", "closed"},
         start : Nat, page : Nat, candidates : SUBSET Titles, failed : BOOLEAN,
         answer : SUBSET Titles, status : Nat]

TypeOK ==
    /\ now \in Nat
    /\ lastCallTime \in Nat \cup {Never}
    /\ calls \in [Calls -> Call]

Free == [handler |-> "search", asked |-> CHOOSE t \in Wanted : TRUE, limit |-> CHOOSE l \in Limits : TRUE,
         external |-> FALSE, phase |-> "free", gate |-> "none", start |-> 0, page |-> 0,
         candidates |-> {}, failed |-> FALSE, answer |-> {}, status |-> 0]

Init ==
    /\ now = 0
    /\ lastCallTime = Never
    /\ calls = [c \in Calls |-> Free]

-----------------------------------------------------------------------------
(* APIRateLimiter and ApplyCallRateLimit *)

\* Mutant: a call is let through when the time has just passed.
CanCallEarly == lastCallTime = Never \/ now - lastCallTime >= Between

CanCall == lastCallTime = Never \/ now - lastCallTime > Between

\* Mutant: every call is noted, also the one that is refused.
GatedAlways(c, call, passed, refused) ==
    /\ lastCallTime' = now
    /\ calls' = [calls EXCEPT ![c] =
            IF CanCall THEN [passed EXCEPT !.gate = "open", !.start = now]
                       ELSE [refused EXCEPT !.gate = "closed", !.start = now]]

\* The call c goes on as passed, or is answered for as refused.
Gated(c, call, passed, refused) ==
    /\ lastCallTime' = IF CanCall THEN now ELSE lastCallTime
    /\ calls' = [calls EXCEPT ![c] =
            IF CanCall THEN [passed EXCEPT !.gate = "open", !.start = now]
                       ELSE [refused EXCEPT !.gate = "closed", !.start = now]]

-----------------------------------------------------------------------------
(* TMDBTitleSelectorFuseJS.select *)

Lowest(C) == Min({Popularity[t] : t \in C})
Highest(C) == Max({Popularity[t] : t \in C})

Popular(C) ==
    IF Cardinality(C) > Many THEN {t \in C : Popularity[t] > Unpopular} ELSE C

\* The films whose normalised popularity is above 0.03.
NotAtBottom(C) ==
    IF Cardinality(C) > Many
    THEN {t \in C : 100 * (Popularity[t] - Lowest(C)) > 3 * (Highest(C) - Lowest(C))}
    ELSE C

Similar(q, C) == NotAtBottom(Popular(C)) \cap Alike[q]
Dissimilar(q, C) == IF Cardinality(C) <= Few THEN Popular(C) \ Similar(q, C) ELSE {}

\* What may be answered, the order of equally good films being open.  A film that is
\* not similar has no score, so it comes after those that have one.  The slice up to NaN,
\* which LibraryService takes at the end, is empty.
Selections(q, C, limit) ==
    IF limit = NaN THEN {{}}
    ELSE IF Cardinality(C) = 1 THEN {C}
    ELSE LET good == Similar(q, C)
             all == good \cup Dissimilar(q, C)
             size == Min({limit, Cardinality(all)})
         IN {S \in kSubset(size, all) : S \subseteq good \/ good \subseteq S}

-----------------------------------------------------------------------------
(* LibraryController.search and LibraryService.searchByName *)

Answered(call, status) == [call EXCEPT !.phase = "answered", !.status = status]

ToProvider(c, call) ==
    IF call.external
    THEN Gated(c, call, [call EXCEPT !.phase = "page", !.page = 1], Answered(call, 200))
    ELSE calls' = [calls EXCEPT ![c] = Answered(call, 200)] /\ UNCHANGED lastCallTime

\* The parameter providers names one of the catalogs, or both.
Search(c, q, limit, own, external) ==
    LET call == [Free EXCEPT !.handler = "search", !.asked = q, !.limit = limit,
                             !.external = external]
    IN /\ calls[c].phase = "free"
       /\ own \/ external
       /\ IF own
          THEN calls' = [calls EXCEPT ![c] = [call EXCEPT !.phase = "own"]] /\ UNCHANGED lastCallTime
          ELSE ToProvider(c, call)
       /\ UNCHANGED now

\* MoviesService.findAllByName, whose movies come before the films of TMDB.
OwnFound(c) ==
    /\ calls[c].phase = "own"
    /\ ToProvider(c, calls[c])
    /\ UNCHANGED now

\* The query of the database fails.
OwnFails(c) ==
    /\ calls[c].phase = "own"
    /\ calls' = [calls EXCEPT ![c] = Answered(@, 500)]
    /\ UNCHANGED <<now, lastCallTime>>

-----------------------------------------------------------------------------
(* TMDBService.search and TMDBMovieGatewayAPIv3.search *)

\* Mutant: the pages end one too early.
LastPageTooEarly(q, page) ==
    \/ Listing[q][page] = {}
    \/ page + 1 >= Min({Pages[q], MaxPages})

LastPage(q, page) ==
    \/ Listing[q][page] = {}
    \/ page >= Min({Pages[q], MaxPages})

PageComes(c) ==
    /\ calls[c].phase = "page"
    /\ LET call == calls[c]
           candidates == call.candidates \cup (Listing[call.asked][call.page] \ Undated)
           more == [call EXCEPT !.candidates = candidates, !.page = @ + 1]
       IN IF LastPage(call.asked, call.page)
          THEN \E S \in Selections(call.asked, candidates, call.limit) :
                  calls' = [calls EXCEPT ![c] = Answered([more EXCEPT !.answer = S], 200)]
          ELSE calls' = [calls EXCEPT ![c] = more]
    /\ UNCHANGED <<now, lastCallTime>>

\* Mutant: the films of the pages there are already are answered.
PageFailsPartly(c) ==
    /\ calls[c].phase = "page"
    /\ LET call == calls[c]
       IN \E S \in Selections(call.asked, call.candidates, call.limit) :
             calls' = [calls EXCEPT ![c] = Answered([call EXCEPT !.answer = S, !.failed = TRUE], 200)]
    /\ UNCHANGED <<now, lastCallTime>>

\* The request fails or its answer is not a page: the pages before it are lost too.
PageFails(c) ==
    /\ calls[c].phase = "page"
    /\ calls' = [calls EXCEPT ![c] =
            Answered([@ EXCEPT !.candidates = {}, !.failed = TRUE], 200)]
    /\ UNCHANGED <<now, lastCallTime>>

-----------------------------------------------------------------------------
(* getExternalTitleMetadata and import, and TMDBService.getMetadata *)

AskDetails(c, handler, t) ==
    LET call == [Free EXCEPT !.handler = handler, !.asked = t]
    IN /\ calls[c].phase = "free"
       /\ Gated(c, call, [call EXCEPT !.phase = "details"], Answered(call, 404))
       /\ UNCHANGED now

\* The parameters are refused: nothing to look for, a limit out of bounds; a provider
\* there is not is a 400 of the library and a 500 of the import, one that is disabled or
\* named twice a 500 of both.
AskBadly(c, handler) ==
    /\ calls[c].phase = "free"
    /\ \E status \in IF handler = "search" THEN {400} ELSE {400, 500} :
          calls' = [calls EXCEPT ![c] = Answered([Free EXCEPT !.handler = handler], status)]
    /\ UNCHANGED <<now, lastCallTime>>

\* Mutant: an answer of TMDB that has no film is taken for one.
DetailsComeUnchecked(c) ==
    /\ calls[c].phase = "details"
    /\ LET call == calls[c]
       IN calls' = [calls EXCEPT ![c] =
            IF call.handler = "metadata" THEN Answered([call EXCEPT !.answer = {call.asked}], 200)
            ELSE [call EXCEPT !.phase = "create"]]
    /\ UNCHANGED <<now, lastCallTime>>

\* An answer without an id is none.
DetailsCome(c) ==
    /\ calls[c].phase = "details"
    /\ LET call == calls[c]
       IN calls' = [calls EXCEPT ![c] =
            IF call.asked \notin Titles THEN Answered(call, 404)
            ELSE IF call.handler = "metadata"
                 THEN Answered([call EXCEPT !.answer = {call.asked}], 200)
                 ELSE [call EXCEPT !.phase = "create"]]
    /\ UNCHANGED <<now, lastCallTime>>

DetailsFail(c) ==
    /\ calls[c].phase = "details"
    /\ calls' = [calls EXCEPT ![c] = Answered([@ EXCEPT !.failed = TRUE], 404)]
    /\ UNCHANGED <<now, lastCallTime>>

\* MoviesService.createOne with what was found.
Create(c) ==
    /\ calls[c].phase = "create"
    /\ calls' = [calls EXCEPT ![c] = Answered([@ EXCEPT !.answer = {calls[c].asked}], 201)]
    /\ UNCHANGED <<now, lastCallTime>>

\* The film has no summary or a runtime out of bounds, or it is there already, or the
\* database fails.
CreateFails(c) ==
    /\ calls[c].phase = "create"
    /\ \E status \in {400, 409, 500} : calls' = [calls EXCEPT ![c] = Answered(@, status)]
    /\ UNCHANGED <<now, lastCallTime>>

-----------------------------------------------------------------------------
Tick ==
    /\ now < MaxTime
    /\ now' = now + 1
    /\ UNCHANGED <<lastCallTime, calls>>

Asks(c) ==
    \/ \E q \in Queries, limit \in Limits, own, external \in BOOLEAN :
          Search(c, q, limit, own, external)
    \/ \E handler \in Handlers : AskBadly(c, handler)
    \/ \E handler \in {"metadata", "import"}, t \in Wanted :
          AskDetails(c, handler, t)

GoesOn(c) ==
    \/ OwnFound(c) \/ OwnFails(c) \/ PageComes(c) \/ PageFails(c)
    \/ DetailsCome(c) \/ DetailsFail(c) \/ Create(c) \/ CreateFails(c)

Next == Tick \/ \E c \in Calls : Asks(c) \/ GoesOn(c)

Spec == Init /\ [][Next]_vars

-----------------------------------------------------------------------------
(* Properties *)

\* Whichever handlers they come from, the calls let through to TMDB start more than
\* rateLimitMs apart (api-rate-limiter.abstract.ts:36).
CallsApart ==
    \A c, d \in Calls :
        c # d /\ calls[c].gate = "open" /\ calls[d].gate = "open" =>
            \/ calls[c].start - calls[d].start > Between
            \/ calls[d].start - calls[c].start > Between

\* A call is refused because of one let through shortly before, and never because of
\* one refused itself: who asks again and again does not shut everybody out
\* (api-rate-limiter.abstract.ts:7-15).
RefusedForAnother ==
    \A c \in Calls : calls[c].gate = "closed" =>
        \E d \in Calls : /\ calls[d].gate = "open"
                         /\ calls[d].start <= calls[c].start
                         /\ calls[c].start - calls[d].start <= Between

\* How many pages are read, and the films with a date on them.
PagesRead(q) == Min({Pages[q], MaxPages})
FirstPages(q, n) == (UNION {Listing[q][p] : p \in 1..n}) \ Undated
Read(q) == FirstPages(q, PagesRead(q))

\* A search answers with the best of all the films its pages have, or with none of
\* them: when it was refused, when a page did not come, or when none is left by the
\* selector.  It never answers with those of some pages (TMDB-movie-gateway:38-80).
Whole(call) ==
    call.handler = "search" /\ call.status = 200 =>
        /\ call.answer # {} => call.answer \in Selections(call.asked, Read(call.asked), call.limit)
        /\ call.answer = {} =>
              \/ ~call.external \/ call.gate = "closed" \/ call.failed
              \/ {} \in Selections(call.asked, Read(call.asked), call.limit)
WholeOrNothing == \A c \in Calls : Whole(calls[c])

\* A film TMDB knows is answered 404 only by a call that was refused or whose request
\* failed, and what is imported is known (movies-import.controller.ts:68).
Tried(call) ==
    call.handler # "search" =>
        /\ call.status = 404 /\ call.asked \in Titles => call.gate = "closed" \/ call.failed
        /\ call.status \in {200, 201} => call.gate = "open" /\ call.asked \in Titles
NotFoundUntried == \A c \in Calls : Tried(calls[c])

=============================================================================
