------------------------- MODULE TitleSearchProofs -------------------------
(***************************************************************************)
(* What the limiter and the searches behind it promise, for any number of  *)
(* calls, films and queries and any rateLimitMs.                           *)
(*                                                                         *)
(* The two halves of the limiter's invariant, CallsApart and               *)
(* RefusedForAnother, are not inductive alone: that lastCallTime is the    *)
(* start of the latest call let through (Noted) ties the calls to what the *)
(* limiter remembers of them.  Sound says of one call what its phase       *)
(* implies; in "page" its candidates are the films of the pages so far.    *)
(***************************************************************************)
EXTENDS TitleSearch, TLAPS

Open(c) == calls[c].gate = "open"
Closed(c) == calls[c].gate = "closed"

Noted ==
    /\ lastCallTime = Never \/ lastCallTime <= now
    /\ lastCallTime # Never => \E c \in Calls : Open(c) /\ calls[c].start = lastCallTime
    /\ \A c \in Calls : Open(c) => lastCallTime # Never /\ calls[c].start <= lastCallTime
    /\ \A c \in Calls : Closed(c) => calls[c].start <= now

Sound(x) ==
    /\ x.phase \in {"free", "own"} => x.gate = "none"
    /\ x.phase # "answered" => x.status = 0 /\ x.answer = {}
    /\ x.phase \in {"own", "page"} => x.asked \in Queries /\ x.handler = "search"
    /\ x.phase = "own" => x.candidates = {}
    /\ x.phase = "page" =>
          /\ x.page \in 1..PagesRead(x.asked)
          /\ x.candidates = FirstPages(x.asked, x.page - 1)
    /\ x.phase \in {"details", "create"} => x.handler # "search" /\ x.gate = "open"
    /\ x.phase = "create" => x.asked \in Titles
    /\ Whole(x) /\ Tried(x)

AllSound == \A c \in Calls : Sound(calls[c])

IInv == TypeOK /\ AllSound /\ Noted /\ CallsApart /\ RefusedForAnother

-----------------------------------------------------------------------------
(* Pages and films *)

\* The least of two numbers.
LEMMA MinOfTwo ==
    ASSUME NEW a \in Nat, NEW b \in Nat
    PROVE  /\ Min({a, b}) \in {a, b} /\ Min({a, b}) <= a /\ Min({a, b}) <= b
<1>1. \E m \in {a, b} : \A n \in {a, b} : m <= n
  OBVIOUS
<1> QED BY <1>1 DEF Min

LEMMA PagesReadBounds ==
    ASSUME NEW q \in Queries
    PROVE  PagesRead(q) \in 1..MaxPages
  BY MinOfTwo, PagesAssumption DEF PagesRead

\* The selector answers with some of the films it was given.
LEMMA SelectedAreCandidates ==
    ASSUME NEW q, NEW limit, NEW C, NEW S \in Selections(q, C, limit)
    PROVE  S \subseteq C
<1>1. Popular(C) \subseteq C
  BY DEF Popular
<1>2. NotAtBottom(Popular(C)) \subseteq Popular(C)
  BY DEF NotAtBottom
<1>3. Similar(q, C) \cup Dissimilar(q, C) \subseteq C
  BY <1>1, <1>2 DEF Similar, Dissimilar
<1> QED BY <1>3 DEF Selections, kSubset

LEMMA OnFirstPages ==
    ASSUME NEW q, NEW n, NEW t
    PROVE  t \in FirstPages(q, n) <=> t \notin Undated /\ \E p \in 1..n : t \in Listing[q][p]
<1> DEFINE pages == {Listing[q][p] : p \in 1..n}
<1>1. \A X : X \in pages <=> \E p \in 1..n : X = Listing[q][p]
  OBVIOUS
<1> HIDE DEF pages
<1>2. t \in UNION pages <=> \E X \in pages : t \in X
  OBVIOUS
<1>3. t \in UNION pages <=> \E p \in 1..n : t \in Listing[q][p]
  BY <1>1, <1>2
<1>4. FirstPages(q, n) = (UNION pages) \ Undated
  BY DEF FirstPages, pages
<1> QED BY <1>3, <1>4

LEMMA FirstPagesAreFilms ==
    ASSUME NEW q \in Queries, NEW n \in 0..MaxPages
    PROVE  FirstPages(q, n) \subseteq Titles
<1>1. \A p \in 1..n : Listing[q][p] \subseteq Titles
  BY ListingAssumption, PagesAssumption
<1> QED BY <1>1, OnFirstPages

LEMMA NextPage ==
    ASSUME NEW q \in Queries, NEW page \in 1..MaxPages
    PROVE  FirstPages(q, page) = FirstPages(q, page - 1) \cup (Listing[q][page] \ Undated)
<1>1. 1..page = (1..(page - 1)) \cup {page}
  BY PagesAssumption
<1>2. ASSUME NEW t
      PROVE  t \in FirstPages(q, page)
                <=> t \in FirstPages(q, page - 1) \/ t \in Listing[q][page] \ Undated
  BY <1>1, OnFirstPages
<1> HIDE DEF FirstPages
<1> QED BY <1>2

\* After the last page there are no films the search has not seen.
LEMMA LastPageIsAll ==
    ASSUME NEW q \in Queries, NEW page \in 1..PagesRead(q), LastPage(q, page)
    PROVE  FirstPages(q, page) = Read(q)
<1>1. PagesRead(q) \in 1..MaxPages /\ page \in 1..MaxPages
  BY PagesReadBounds, PagesAssumption
<1>2. CASE Listing[q][page] = {}
  <2>1. \A p \in page..PagesRead(q) : Listing[q][p] = {}
    BY <1>1, <1>2, ListingAssumption, PagesAssumption
  <2>2. \A p \in 1..PagesRead(q) : p \in 1..page \/ p \in page..PagesRead(q)
    BY <1>1, PagesAssumption
  <2>3. 1..page \subseteq 1..PagesRead(q)
    BY <1>1, PagesAssumption
  <2>4. ASSUME NEW t
        PROVE  t \in FirstPages(q, page) <=> t \in FirstPages(q, PagesRead(q))
    BY <2>1, <2>2, <2>3, OnFirstPages
  <2> QED BY <2>4 DEF Read
<1>3. CASE Listing[q][page] # {}
  <2>1. page = PagesRead(q)
    BY <1>1, <1>3, PagesAssumption DEF LastPage, PagesRead
  <2> QED BY <2>1 DEF Read
<1> QED BY <1>2, <1>3

-----------------------------------------------------------------------------
(* The two kinds of steps: those that pass the limiter and those that do not *)

QuietStep(c) ==
    /\ UNCHANGED <<now, lastCallTime>>
    /\ \E x \in Call :
          /\ calls' = [calls EXCEPT ![c] = x]
          /\ x.gate = calls[c].gate /\ (x.gate # "none" => x.start = calls[c].start)
          /\ Sound(x)

GatedStep(c) ==
    /\ calls[c].gate = "none"
    /\ UNCHANGED now
    /\ lastCallTime' = IF CanCall THEN now ELSE lastCallTime
    /\ \E x \in Call :
          /\ calls' = [calls EXCEPT ![c] = x]
          /\ x.start = now /\ Sound(x)
          /\ x.gate = IF CanCall THEN "open" ELSE "closed"

LEMMA QuietInv ==
    ASSUME IInv, NEW c \in Calls, QuietStep(c)
    PROVE  IInv'
<1> USE DEF IInv
<1>1. PICK x \in Call : /\ calls' = [calls EXCEPT ![c] = x]
                        /\ x.gate = calls[c].gate /\ (x.gate # "none" => x.start = calls[c].start)
                        /\ Sound(x)
  BY DEF QuietStep
<1>2. UNCHANGED <<now, lastCallTime>>
  BY DEF QuietStep
<1>3. \A d \in Calls : /\ calls'[d].gate = calls[d].gate
                       /\ calls[d].gate # "none" => calls'[d].start = calls[d].start
  BY <1>1 DEF TypeOK
<1>4. TypeOK'
  BY <1>1, <1>2 DEF TypeOK
<1>5. AllSound'
  BY <1>1 DEF AllSound, TypeOK
<1>6. Noted'
  BY <1>2, <1>3 DEF Noted, Open, Closed
<1>7. CallsApart'
  BY <1>3 DEF CallsApart
<1>8. RefusedForAnother'
  BY <1>3 DEF RefusedForAnother
<1> QED BY <1>4, <1>5, <1>6, <1>7, <1>8

LEMMA GatedInv ==
    ASSUME IInv, NEW c \in Calls, GatedStep(c)
    PROVE  IInv'
<1> USE DEF IInv
<1>1. PICK x \in Call : /\ calls' = [calls EXCEPT ![c] = x]
                        /\ x.start = now /\ Sound(x)
                        /\ x.gate = IF CanCall THEN "open" ELSE "closed"
  BY DEF GatedStep
<1>2. calls[c].gate = "none" /\ now' = now /\ lastCallTime' = IF CanCall THEN now ELSE lastCallTime
  BY DEF GatedStep
<1>3. \A d \in Calls \ {c} : calls'[d] = calls[d]
  BY <1>1 DEF TypeOK
<1>4. calls'[c] = x
  BY <1>1 DEF TypeOK
<1>5. now \in Nat /\ lastCallTime \in Nat \cup {Never} /\ \A d \in Calls : calls[d].start \in Nat
  BY DEF TypeOK, Call
<1>6. TypeOK'
  BY <1>1, <1>2, <1>5 DEF TypeOK
<1>7. AllSound'
  BY <1>1, <1>3, <1>4 DEF AllSound
<1>8. Noted'
  BY <1>1, <1>2, <1>3, <1>4, <1>5 DEF Noted, Open, Closed, Never
<1>9. CallsApart'
  <2>1. ASSUME NEW d \in Calls \ {c}, calls[d].gate = "open", x.gate = "open"
        PROVE  now - calls[d].start > Between
    BY <2>1, <1>1, <1>5, BetweenAssumption DEF Noted, Open, CanCall, Never
  <2> QED BY <2>1, <1>1, <1>3, <1>4 DEF CallsApart
<1>10. RefusedForAnother'
  <2>1. ASSUME x.gate = "closed"
        PROVE  \E d \in Calls \ {c} : /\ calls[d].gate = "open" /\ calls[d].start <= now
                                      /\ now - calls[d].start <= Between
    BY <2>1, <1>1, <1>2, <1>5, BetweenAssumption DEF Noted, Open, CanCall, Never
  <2>2. \A d \in Calls \ {c} : calls[d].gate = "closed" =>
            \E e \in Calls \ {c} : /\ calls[e].gate = "open" /\ calls[e].start <= calls[d].start
                                   /\ calls[d].start - calls[e].start <= Between
    BY <1>2 DEF RefusedForAnother
  <2> QED BY <2>1, <2>2, <1>1, <1>3, <1>4 DEF RefusedForAnother
<1> QED BY <1>6, <1>7, <1>8, <1>9, <1>10

-----------------------------------------------------------------------------
(* Every action of a call is one of them *)

LEMMA FreeIsCall == Free \in Call /\ Free.gate = "none" /\ Sound(Free)
<1>1. (CHOOSE l \in Limits : TRUE) \in Limits
  BY LimitsAssumption
<1>2. (CHOOSE t \in Wanted : TRUE) \in Wanted
  BY WantedAssumption
<1> QED BY <1>1, <1>2 DEF Free, Call, Handlers, Phases, Sound, Whole, Tried

LEMMA PhaseIsCall ==
    ASSUME NEW x \in Call, NEW phase \in Phases
    PROVE  [x EXCEPT !.phase = phase] \in Call
  BY DEF Call

LEMMA AnsweredIsCall ==
    ASSUME NEW x \in Call, NEW status \in Nat
    PROVE  Answered(x, status) \in Call
  BY DEF Answered, Call, Phases

LEMMA QuietIsStep ==
    ASSUME IInv, NEW c \in Calls, NEW x \in Call, calls' = [calls EXCEPT ![c] = x],
           UNCHANGED <<now, lastCallTime>>, x.gate = calls[c].gate,
           x.start = calls[c].start \/ x.gate = "none", Sound(x)
    PROVE  QuietStep(c)
  BY DEF QuietStep

LEMMA GatedIsStep ==
    ASSUME IInv, NEW c \in Calls, calls[c].gate = "none", NEW call,
           NEW passed \in Call, NEW refused \in Call,
           Sound([passed EXCEPT !.gate = "open", !.start = now]),
           Sound([refused EXCEPT !.gate = "closed", !.start = now]),
           Gated(c, call, passed, refused), UNCHANGED now
    PROVE  GatedStep(c)
<1> DEFINE x == IF CanCall THEN [passed EXCEPT !.gate = "open", !.start = now]
                           ELSE [refused EXCEPT !.gate = "closed", !.start = now]
<1>1. now \in Nat
  BY DEF IInv, TypeOK
<1>2. x \in Call /\ x.start = now /\ x.gate = IF CanCall THEN "open" ELSE "closed"
  BY <1>1 DEF Call
<1>3. Sound(x)
  OBVIOUS
<1>4. calls' = [calls EXCEPT ![c] = x]
  BY DEF Gated
<1> QED BY <1>2, <1>3, <1>4 DEF GatedStep, Gated

\* A call that asks TMDB for nothing, or has nothing to ask with, is answered at once.
LEMMA ToProviderIsStep ==
    ASSUME IInv, NEW c \in Calls, NEW x \in Call, x.gate = "none", calls[c].gate = "none",
           x.handler = "search", x.asked \in Queries, x.candidates = {}, x.answer = {}, x.status = 0,
           ToProvider(c, x), UNCHANGED now
    PROVE  QuietStep(c) \/ GatedStep(c)
<1> DEFINE paging == [x EXCEPT !.phase = "page", !.page = 1]
           passed == [paging EXCEPT !.gate = "open", !.start = now]
           refused == [Answered(x, 200) EXCEPT !.gate = "closed", !.start = now]
<1>1. paging \in Call /\ Answered(x, 200) \in Call
  <2>1. paging \in Call
    BY DEF Call, Phases
  <2> QED BY <2>1, AnsweredIsCall
<1>2. Sound(passed)
  <2>1. 1 \in 1..PagesRead(x.asked)
    BY PagesReadBounds, PagesAssumption
  <2>2. FirstPages(x.asked, 0) = {}
    BY OnFirstPages
  <2> QED BY <2>1, <2>2 DEF Sound, Whole, Tried, Call
<1>3. Sound(refused)
  BY DEF Sound, Whole, Tried, Call, Answered
<1>4. ~x.external => Sound(Answered(x, 200)) /\ Answered(x, 200).gate = "none"
  BY DEF Sound, Whole, Tried, Call, Answered
<1>5. CASE x.external
  BY <1>1, <1>2, <1>3, <1>5, GatedIsStep DEF ToProvider
<1>6. CASE ~x.external
  BY <1>1, <1>4, <1>6, QuietIsStep DEF ToProvider
<1> QED BY <1>5, <1>6

LEMMA AsksIsStep ==
    ASSUME IInv, NEW c \in Calls, Asks(c)
    PROVE  QuietStep(c) \/ GatedStep(c)
<1>1. calls[c].phase = "free" /\ calls[c].gate = "none"
  BY DEF Asks, Search, AskBadly, AskDetails, IInv, AllSound, Sound
<1>2. CASE \E q \in Queries, limit \in Limits, own, external \in BOOLEAN : Search(c, q, limit, own, external)
  <2>1. PICK q \in Queries, limit \in Limits, own \in BOOLEAN, external \in BOOLEAN :
            Search(c, q, limit, own, external)
    BY <1>2
  <2> DEFINE call == [Free EXCEPT !.handler = "search", !.asked = q, !.limit = limit,
                                  !.external = external]
             waits == [call EXCEPT !.phase = "own"]
  <2>2. /\ call \in Call /\ call.gate = "none" /\ call.handler = "search" /\ call.asked \in Queries
        /\ call.candidates = {} /\ call.answer = {} /\ call.status = 0
    BY FreeIsCall DEF Call, Handlers, Free
  <2>3. waits \in Call /\ waits.gate = "none" /\ Sound(waits)
    <3> HIDE DEF call
    <3>1. waits \in Call
      BY <2>2, PhaseIsCall DEF Phases
    <3> QED BY <2>2, <3>1 DEF Call, Sound, Whole, Tried
  <2>4. CASE own
    BY <1>1, <2>1, <2>3, <2>4, QuietIsStep DEF Search
  <2>5. CASE ~own
    <3>1. ToProvider(c, call) /\ UNCHANGED now
      BY <2>1, <2>5 DEF Search
    <3> HIDE DEF call
    <3> QED BY <1>1, <2>2, <3>1, ToProviderIsStep
  <2> QED BY <2>4, <2>5
<1>3. CASE \E handler \in Handlers : AskBadly(c, handler)
  <2>1. PICK handler \in Handlers : AskBadly(c, handler)
    BY <1>3
  <2>2. PICK status \in {400, 500} : calls' = [calls EXCEPT ![c] = Answered([Free EXCEPT !.handler = handler], status)]
    BY <2>1 DEF AskBadly
  <2> DEFINE asks == [Free EXCEPT !.handler = handler]
             x == Answered(asks, status)
  <2>3. asks \in Call
    BY FreeIsCall DEF Call
  <2>4. x \in Call
    BY <2>3, AnsweredIsCall
  <2>5. x.gate = "none" /\ Sound(x)
    BY FreeIsCall DEF Call, Answered, Sound, Whole, Tried
  <2>6. UNCHANGED <<now, lastCallTime>> /\ calls' = [calls EXCEPT ![c] = x]
    BY <2>1, <2>2 DEF AskBadly
  <2>7. x.gate = calls[c].gate
    BY <1>1, <2>5
  <2> HIDE DEF x
  <2>8. QuietStep(c)
    BY <2>4, <2>5, <2>6, <2>7, QuietIsStep
  <2> QED BY <2>8
<1>4. CASE \E handler \in {"metadata", "import"}, t \in Wanted : AskDetails(c, handler, t)
  <2>1. PICK handler \in {"metadata", "import"}, t \in Wanted : AskDetails(c, handler, t)
    BY <1>4
  <2> DEFINE call == [Free EXCEPT !.handler = handler, !.asked = t]
             asks == [call EXCEPT !.phase = "details"]
  <2>2. call \in Call /\ asks \in Call /\ Answered(call, 404) \in Call
    <3>1. call \in Call
      BY FreeIsCall DEF Call, Handlers
    <3> HIDE DEF call
    <3>2. asks \in Call
      BY <3>1, PhaseIsCall DEF Phases
    <3> QED BY <3>1, <3>2, AnsweredIsCall
  <2>3. Sound([asks EXCEPT !.gate = "open", !.start = now])
    BY FreeIsCall DEF Free, Call, Sound, Whole, Tried
  <2>4. Sound([Answered(call, 404) EXCEPT !.gate = "closed", !.start = now])
    BY FreeIsCall DEF Free, Call, Answered, Sound, Whole, Tried
  <2>5. Gated(c, call, asks, Answered(call, 404)) /\ UNCHANGED now
    BY <2>1 DEF AskDetails
  <2> HIDE DEF call, asks
  <2> QED BY <1>1, <2>2, <2>3, <2>4, <2>5, GatedIsStep
<1> QED BY <1>2, <1>3, <1>4 DEF Asks

\* A page is one more of those that are read, or the last.
LEMMA PageComesIsStep ==
    ASSUME IInv, NEW c \in Calls, PageComes(c)
    PROVE  QuietStep(c)
<1> DEFINE x == calls[c]
           candidates == x.candidates \cup (Listing[x.asked][x.page] \ Undated)
           more == [x EXCEPT !.candidates = candidates, !.page = @ + 1]
<1>1. x \in Call /\ x.phase = "page" /\ Sound(x)
  BY DEF PageComes, IInv, TypeOK, AllSound
<1>2. /\ x.asked \in Queries /\ x.handler = "search" /\ x.status = 0 /\ x.answer = {}
      /\ x.page \in 1..PagesRead(x.asked) /\ x.candidates = FirstPages(x.asked, x.page - 1)
  BY <1>1 DEF Sound
<1>3. PagesRead(x.asked) \in 1..MaxPages /\ x.page \in 1..MaxPages
  BY <1>2, PagesReadBounds, PagesAssumption
<1>4. candidates = FirstPages(x.asked, x.page) /\ candidates \subseteq Titles
  BY <1>2, <1>3, NextPage, FirstPagesAreFilms, PagesAssumption
<1> HIDE DEF candidates
<1>5. more \in Call
  <2>1. x.page + 1 \in Nat
    BY <1>3, PagesAssumption
  <2> QED BY <1>1, <1>4, <2>1 DEF Call
<1>6. CASE LastPage(x.asked, x.page)
  <2>1. PICK S \in Selections(x.asked, candidates, x.limit) :
            calls' = [calls EXCEPT ![c] = Answered([more EXCEPT !.answer = S], 200)]
    BY <1>6 DEF PageComes, candidates
  <2> DEFINE with == [more EXCEPT !.answer = S]
             y == Answered(with, 200)
  <2>2. candidates = Read(x.asked)
    BY <1>2, <1>4, <1>6, LastPageIsAll
  <2>3. with \in Call
    BY <1>4, <1>5, SelectedAreCandidates DEF Call
  <2>4. y \in Call
    BY <2>3, AnsweredIsCall
  <2>5. y.gate = x.gate /\ y.start = x.start /\ y.phase = "answered" /\ y.handler = "search"
        /\ y.status = 200 /\ y.answer = S /\ y.asked = x.asked /\ y.limit = x.limit
    BY <1>1, <1>2 DEF Answered, Call
  <2>6. UNCHANGED <<now, lastCallTime>> /\ calls' = [calls EXCEPT ![c] = y]
    BY <2>1 DEF PageComes
  <2> HIDE DEF y
  <2>7. Sound(y)
    BY <2>2, <2>5 DEF Sound, Whole, Tried
  <2> QED BY <2>4, <2>5, <2>6, <2>7, QuietIsStep
<1>7. CASE ~LastPage(x.asked, x.page)
  <2>1. x.page + 1 \in 1..PagesRead(x.asked)
    BY <1>2, <1>3, <1>7, PagesAssumption DEF LastPage, PagesRead
  <2>2. more.gate = x.gate /\ more.start = x.start /\ more.phase = "page" /\ more.handler = "search"
        /\ more.status = 0 /\ more.answer = {} /\ more.asked = x.asked /\ more.page = x.page + 1
        /\ more.candidates = candidates
    BY <1>1, <1>2 DEF Call
  <2>3. UNCHANGED <<now, lastCallTime>> /\ calls' = [calls EXCEPT ![c] = more]
    BY <1>7 DEF PageComes, candidates
  <2>4. (x.page + 1) - 1 = x.page
    BY <1>3, PagesAssumption
  <2> HIDE DEF more
  <2>5. Sound(more)
    BY <1>2, <1>4, <2>1, <2>2, <2>4 DEF Sound, Whole, Tried
  <2> QED BY <1>5, <2>2, <2>3, <2>5, QuietIsStep
<1> QED BY <1>6, <1>7

\* An answer without films, be it an error or not.
Ends(c, x, status) ==
    /\ calls[c].phase # "free" /\ x.answer = {}
    /\ calls' = [calls EXCEPT ![c] = Answered(x, status)]
    /\ UNCHANGED <<now, lastCallTime>>
    /\ x.gate = calls[c].gate /\ x.start = calls[c].start
    /\ status = 404 => x.failed \/ x.asked \notin Titles
    /\ status = 200 => x.failed /\ x.handler = "search"

LEMMA EndIsStep ==
    ASSUME IInv, NEW c \in Calls, NEW x \in Call, NEW status \in {200, 400, 404, 409, 500},
           Ends(c, x, status)
    PROVE  QuietStep(c)
<1> DEFINE y == Answered(x, status)
<1>1. y \in Call
  BY AnsweredIsCall
<1>2. /\ y.gate = calls[c].gate /\ y.start = calls[c].start /\ y.phase = "answered"
      /\ y.handler = x.handler /\ y.status = status /\ y.answer = {} /\ y.asked = x.asked
      /\ y.failed = x.failed
  BY DEF Answered, Call, Ends
<1>3. calls' = [calls EXCEPT ![c] = y] /\ UNCHANGED <<now, lastCallTime>>
  BY DEF Ends
<1> HIDE DEF y
<1>4. Sound(y)
  BY <1>2 DEF Sound, Whole, Tried, Ends
<1> QED BY <1>1, <1>2, <1>3, <1>4, QuietIsStep

LEMMA GoesOnIsStep ==
    ASSUME IInv, NEW c \in Calls, GoesOn(c)
    PROVE  QuietStep(c) \/ GatedStep(c)
<1> DEFINE x == calls[c]
<1>1. x \in Call /\ Sound(x)
  BY DEF IInv, TypeOK, AllSound
<1>2. CASE OwnFound(c)
  <2>1. ToProvider(c, x) /\ UNCHANGED now /\ x.phase = "own"
    BY <1>2 DEF OwnFound
  <2> QED BY <1>1, <2>1, ToProviderIsStep DEF Sound
<1>3. CASE OwnFails(c)
  <2>1. /\ calls' = [calls EXCEPT ![c] = Answered(x, 500)] /\ UNCHANGED <<now, lastCallTime>>
        /\ x.phase = "own" /\ x.answer = {}
    BY <1>1, <1>3 DEF OwnFails, Sound
  <2>2. Ends(c, x, 500)
    BY <2>1 DEF Ends
  <2> QED BY <1>1, <2>2, EndIsStep
<1>4. CASE PageComes(c)
  BY <1>4, PageComesIsStep
<1>5. CASE PageFails(c)
  <2> DEFINE y == [x EXCEPT !.candidates = {}, !.failed = TRUE]
  <2>1. y \in Call /\ y.gate = x.gate /\ y.start = x.start /\ y.handler = x.handler
        /\ y.asked = x.asked /\ y.answer = x.answer /\ y.failed
    BY <1>1 DEF Call
  <2>2. calls' = [calls EXCEPT ![c] = Answered(y, 200)] /\ UNCHANGED <<now, lastCallTime>>
        /\ x.phase = "page" /\ x.answer = {} /\ x.handler = "search"
    BY <1>1, <1>5 DEF PageFails, Sound
  <2> HIDE DEF y
  <2>3. Ends(c, y, 200)
    BY <2>1, <2>2 DEF Ends
  <2> QED BY <2>1, <2>3, EndIsStep
<1>6. CASE DetailsCome(c)
  <2>1. x.phase = "details" /\ x.handler # "search" /\ x.gate = "open" /\ x.status = 0 /\ x.answer = {}
        /\ UNCHANGED <<now, lastCallTime>>
    BY <1>1, <1>6 DEF DetailsCome, Sound
  <2>2. CASE x.asked \notin Titles
    <3>1. calls' = [calls EXCEPT ![c] = Answered(x, 404)]
      BY <1>6, <2>2 DEF DetailsCome
    <3>2. Ends(c, x, 404)
      BY <2>1, <2>2, <3>1 DEF Ends
    <3> QED BY <1>1, <3>2, EndIsStep
  <2>3. CASE x.asked \in Titles /\ x.handler = "metadata"
    <3> DEFINE with == [x EXCEPT !.answer = {x.asked}]
               y == Answered(with, 200)
    <3>1. with \in Call
      BY <1>1, <2>3 DEF Call
    <3>2. y \in Call
      BY <3>1, AnsweredIsCall
    <3>3. /\ y.gate = x.gate /\ y.start = x.start /\ y.phase = "answered" /\ y.handler = x.handler
          /\ y.status = 200 /\ y.asked = x.asked
      BY <1>1 DEF Answered, Call
    <3>4. calls' = [calls EXCEPT ![c] = y]
      BY <1>6, <2>3 DEF DetailsCome
    <3> HIDE DEF y
    <3>5. Sound(y)
      BY <2>1, <2>3, <3>3 DEF Sound, Whole, Tried
    <3> QED BY <2>1, <3>2, <3>3, <3>4, <3>5, QuietIsStep
  <2>4. CASE x.asked \in Titles /\ x.handler # "metadata"
    <3> DEFINE y == [x EXCEPT !.phase = "create"]
    <3>1. y \in Call
      BY <1>1, PhaseIsCall DEF Phases
    <3>2. /\ y.gate = x.gate /\ y.start = x.start /\ y.phase = "create" /\ y.handler = x.handler
          /\ y.status = 0 /\ y.asked = x.asked /\ y.answer = {}
      BY <1>1, <2>1 DEF Call
    <3>3. calls' = [calls EXCEPT ![c] = y]
      BY <1>6, <2>4 DEF DetailsCome
    <3> HIDE DEF y
    <3>4. Sound(y)
      BY <2>1, <2>4, <3>2 DEF Sound, Whole, Tried
    <3> QED BY <2>1, <3>1, <3>2, <3>3, <3>4, QuietIsStep
  <2> QED BY <2>2, <2>3, <2>4
<1>7. CASE DetailsFail(c)
  <2> DEFINE y == [x EXCEPT !.failed = TRUE]
  <2>1. y \in Call /\ y.gate = x.gate /\ y.start = x.start /\ y.handler = x.handler
        /\ y.asked = x.asked /\ y.answer = x.answer /\ y.failed
    BY <1>1 DEF Call
  <2>2. calls' = [calls EXCEPT ![c] = Answered(y, 404)] /\ UNCHANGED <<now, lastCallTime>>
        /\ x.phase = "details" /\ x.answer = {}
    BY <1>1, <1>7 DEF DetailsFail, Sound
  <2> HIDE DEF y
  <2>3. Ends(c, y, 404)
    BY <2>1, <2>2 DEF Ends
  <2> QED BY <2>1, <2>3, EndIsStep
<1>8. CASE Create(c)
  <2>1. x.phase = "create" /\ x.handler # "search" /\ x.gate = "open" /\ x.asked \in Titles
        /\ UNCHANGED <<now, lastCallTime>>
    BY <1>1, <1>8 DEF Create, Sound
  <2> DEFINE with == [x EXCEPT !.answer = {x.asked}]
             y == Answered(with, 201)
  <2>2. with \in Call
    BY <1>1, <2>1 DEF Call
  <2>3. y \in Call
    BY <2>2, AnsweredIsCall
  <2>4. /\ y.gate = x.gate /\ y.start = x.start /\ y.phase = "answered" /\ y.handler = x.handler
        /\ y.status = 201 /\ y.asked = x.asked
    BY <1>1 DEF Answered, Call
  <2>5. calls' = [calls EXCEPT ![c] = y]
    BY <1>8 DEF Create
  <2> HIDE DEF y
  <2>6. Sound(y)
    BY <2>1, <2>4 DEF Sound, Whole, Tried
  <2> QED BY <2>1, <2>3, <2>4, <2>5, <2>6, QuietIsStep
<1>9. CASE CreateFails(c)
  <2>1. PICK status \in {400, 409, 500} : calls' = [calls EXCEPT ![c] = Answered(x, status)]
    BY <1>9 DEF CreateFails
  <2>2. x.phase = "create" /\ x.answer = {} /\ UNCHANGED <<now, lastCallTime>>
    BY <1>1, <1>9 DEF CreateFails, Sound
  <2>3. Ends(c, x, status)
    BY <2>1, <2>2 DEF Ends
  <2> QED BY <1>1, <2>3, EndIsStep
<1> QED BY <1>2, <1>3, <1>4, <1>5, <1>6, <1>7, <1>8, <1>9 DEF GoesOn

-----------------------------------------------------------------------------
(* The theorems *)

LEMMA InitInv == Init => IInv
  BY FreeIsCall DEF Init, IInv, TypeOK, AllSound, Noted, CallsApart, RefusedForAnother, Open, Closed

LEMMA TickInv == IInv /\ Tick => IInv'
<1> SUFFICES ASSUME IInv, Tick PROVE IInv'
  OBVIOUS
<1>1. now \in Nat /\ now' = now + 1 /\ lastCallTime' = lastCallTime /\ calls' = calls
      /\ lastCallTime \in Nat \cup {Never} /\ \A c \in Calls : calls[c].start \in Nat
  BY DEF IInv, Tick, TypeOK, Call
<1>2. Noted'
  BY <1>1 DEF IInv, Noted, Open, Closed, Never
<1> QED BY <1>1, <1>2 DEF IInv, TypeOK, AllSound, CallsApart, RefusedForAnother

LEMMA NextInv == IInv /\ [Next]_vars => IInv'
<1> SUFFICES ASSUME IInv, [Next]_vars PROVE IInv'
  OBVIOUS
<1>1. CASE Tick
  BY <1>1, TickInv
<1>2. ASSUME NEW c \in Calls, Asks(c) \/ GoesOn(c)
      PROVE  IInv'
  BY <1>2, AsksIsStep, GoesOnIsStep, QuietInv, GatedInv
<1>3. CASE UNCHANGED vars
  BY <1>3 DEF vars, IInv, TypeOK, AllSound, Noted, CallsApart, RefusedForAnother, Open, Closed
<1> QED BY <1>1, <1>2, <1>3 DEF Next

LEMMA InvHolds == Spec => []IInv
  BY InitInv, NextInv, PTL DEF Spec

\* Calls stay well formed, whatever is asked and answered (library.controller.ts,
\* movies-import.controller.ts).
THEOREM TypeCorrect == Spec => []TypeOK
<1>1. IInv => TypeOK
  BY DEF IInv
<1> QED BY <1>1, InvHolds, PTL

\* The limiter keeps the calls it lets through apart (api-rate-limiter.abstract.ts:36).
THEOREM LimiterKeepsApart == Spec => []CallsApart
<1>1. IInv => CallsApart
  BY DEF IInv
<1> QED BY <1>1, InvHolds, PTL

\* The limiter refuses a call only for another it has just let through
\* (api-rate-limiter.abstract.ts:7-15).
THEOREM LimiterRefusesForAnother == Spec => []RefusedForAnother
<1>1. IInv => RefusedForAnother
  BY DEF IInv
<1> QED BY <1>1, InvHolds, PTL

\* A search never answers with the films of some of its pages
\* (TMDB-movie-gateway-api-v3.class.ts:38-80).
THEOREM SearchIsWholeOrNothing == Spec => []WholeOrNothing
<1>1. IInv => WholeOrNothing
  BY DEF IInv, AllSound, Sound, WholeOrNothing
<1> QED BY <1>1, InvHolds, PTL

\* What TMDB knows is not found only when it was not asked, or its answer was lost
\* (movies-import.controller.ts:68).
THEOREM NotFoundIsUntried == Spec => []NotFoundUntried
<1>1. IInv => NotFoundUntried
  BY DEF IInv, AllSound, Sound, NotFoundUntried
<1> QED BY <1>1, InvHolds, PTL

=============================================================================
