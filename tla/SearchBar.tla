----------------------------- MODULE SearchBar -----------------------------
(***************************************************************************)
(* The search bar (shared/ui/search-bar) and the request it makes          *)
(* (library.service.ts).  Each key stroke hands the term to a debouncer    *)
(* of 500 ms; a term that differs from the one handed on before is asked   *)
(* of the server, and whatever answer comes next is shown.                 *)
(*                                                                         *)
(* Requests are not cancelled: the answers of two terms come in any order. *)
(* A term is a model value; a page of results is the term it answers.      *)
(***************************************************************************)
EXTENDS Naturals, FiniteSets

CONSTANTS Terms,        \* what can be typed
          Empty,        \* the empty term
          Nothing,      \* no term, no results
          MaxTyped      \* bound: changes of the input

VARIABLES typed,        \* how often the input was changed (for the bound)
          waiting,      \* the term the debouncer holds back, or Nothing
          lastTerm,     \* the last term distinctUntilChanged let through
          asked,        \* the searches under way: [no, term]
          results,      \* the term whose titles are listed, or Nothing
          message,      \* "none", "no movies" or "failed"
          isLoading,    \* the throbber
          crossed       \* history: a term was handled while a search was on

searchVars == <<typed, waiting, lastTerm, asked, results, message, isLoading, crossed>>

SearchTypeOK ==
  /\ typed \in 0..MaxTyped
  /\ waiting \in {Nothing, Empty} \cup Terms
  /\ lastTerm \in {Nothing, Empty} \cup Terms
  /\ asked \subseteq [no : 1..MaxTyped, term : Terms]
  /\ results \in {Nothing} \cup Terms
  /\ message \in {"none", "no movies", "failed"}
  /\ isLoading \in BOOLEAN
  /\ crossed \in BOOLEAN

SearchInit ==
  /\ typed = 0
  /\ waiting = Nothing
  /\ lastTerm = Nothing
  /\ asked = {}
  /\ results = Nothing
  /\ message = "none"
  /\ isLoading = FALSE
  /\ crossed = FALSE

(***************************************************************************)
(* Typing and the debouncer.                                               *)
(***************************************************************************)
\* onSearchTermChange: the debouncer starts again with the new term.
Type(t) ==
  /\ typed < MaxTyped
  /\ typed' = typed + 1
  /\ waiting' = t
  /\ UNCHANGED <<lastTerm, asked, results, message, isLoading, crossed>>

\* The same term as before is let go of without a search.
SameTerm ==
  /\ waiting # Nothing
  /\ waiting = lastTerm
  /\ waiting' = Nothing
  /\ UNCHANGED <<typed, lastTerm, asked, results, message, isLoading, crossed>>

\* What both a search and a clearing begin with.
HandleTerm ==
  /\ waiting \notin {Nothing, lastTerm}
  /\ lastTerm' = waiting
  /\ waiting' = Nothing
  /\ crossed' = (crossed \/ asked # {})

\* clearResults.
ClearResults ==
  /\ HandleTerm
  /\ waiting = Empty
  /\ message' = "none"
  /\ results' = Nothing
  /\ isLoading' = FALSE
  /\ UNCHANGED <<typed, asked>>

\* performSearch: what is listed stays listed until the answer.
PerformSearch ==
  /\ HandleTerm
  /\ waiting # Empty
  /\ isLoading' = TRUE
  /\ asked' = asked \cup {[no |-> typed, term |-> waiting]}
  /\ UNCHANGED <<typed, results, message>>

(***************************************************************************)
(* Answers and the choice of a title.                                      *)
(***************************************************************************)
\* handleSearchResult, with and without titles.
ShowResults(q) ==
  /\ q \in asked
  /\ asked' = asked \ {q}
  /\ isLoading' = FALSE
  /\ \/ results' = q.term /\ message' = "none"
     \/ results' = Nothing /\ message' = "no movies"
  /\ UNCHANGED <<typed, waiting, lastTerm, crossed>>

\* Mutant: the titles listed stay listed.
SearchFailsQuietly(q) ==
  /\ q \in asked
  /\ asked' = asked \ {q}
  /\ message' = "failed"
  /\ isLoading' = FALSE
  /\ UNCHANGED <<typed, waiting, lastTerm, results, crossed>>

\* handleSearchError.
SearchFails(q) ==
  /\ q \in asked
  /\ asked' = asked \ {q}
  /\ message' = "failed"
  /\ results' = Nothing
  /\ isLoading' = FALSE
  /\ UNCHANGED <<typed, waiting, lastTerm, crossed>>

\* Mutant: the list is closed with the empty term.
SelectMovieBlank ==
  /\ results # Nothing
  /\ results' = Empty
  /\ UNCHANGED <<typed, waiting, lastTerm, asked, message, isLoading, crossed>>

\* selectMovie: one of the listed titles is handed on, the list closes.
SelectMovie ==
  /\ results # Nothing
  /\ results' = Nothing
  /\ UNCHANGED <<typed, waiting, lastTerm, asked, message, isLoading, crossed>>

SearchNext ==
  \/ \E t \in Terms \cup {Empty} : Type(t)
  \/ SameTerm
  \/ ClearResults
  \/ PerformSearch
  \/ \E q \in asked : ShowResults(q) \/ SearchFails(q)
  \/ SelectMovie

(***************************************************************************)
(* Properties.                                                             *)
(***************************************************************************)
\* Unless a term was handled while an older search was still on, the titles
\* listed once nothing is under way answer the last term let through, never
\* an older one, and the throbber shows exactly while a search is on.  Every
\* way out of a search has to say so: the answer, the empty answer, the
\* failure and the clearing.
ListsWhatWasAsked ==
  ~crossed => /\ isLoading <=> asked # {}
              /\ asked = {} => results \in {Nothing, lastTerm}
=============================================================================
