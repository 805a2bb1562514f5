------------------------------ MODULE MoviesApi ------------------------------
(***************************************************************************)
(* What the controllers of movies do around MoviesService: a handler waits *)
(* for the change, emits an event and clears the cached list of movies, in *)
(* one turn.  MovieEventSubscriber writes the events to the audit log on   *)
(* its own, and GET /movies is answered from the cache if it can be.       *)
(*                                                                         *)
(* MovieCatalog has the changes themselves.  Here a change is the request  *)
(* that makes it, a list of movies is the set of changes it shows, and of  *)
(* a movie there is only whether it is still in the collection: most       *)
(* methods of MoviesService find the movie first, and some do not look at  *)
(* whether their write has found it too.                                   *)
(***************************************************************************)
EXTENDS Integers, FiniteSets

CONSTANTS
    Requests,      \* requests that change a movie
    Movies,        \* the movies that are there at first
    Readers,       \* clients that ask for all movies
    NoList,        \* nothing is cached
    TTL,           \* how long a list is cached
    MaxRead,       \* assumption: a list is read and cached within this time
    MaxTime,       \* bound of the model: the last instant
    MaxFaults      \* bound of the model: rejected awaits and crashes

Kinds == {"create", "import", "updatePoster", "updateBackdrop", "postVideo", "patchVideo",
          "update", "publish", "unpublish", "delete"}

Creating == {"create", "import"}

\* The kinds whose method finds the movie before it does anything, and those of them
\* that do not look at the result of their write.
Finding == {"updatePoster", "updateBackdrop", "postVideo", "patchVideo", "publish", "unpublish", "delete"}
Blind == {"updatePoster", "updateBackdrop", "patchVideo", "delete"}

ASSUME ListAssumption == NoList \notin [shows : SUBSET Requests, until : Nat, overtaken : SUBSET Requests]
ASSUME TimeAssumption == TTL \in Nat /\ MaxRead \in Nat /\ MaxTime \in Nat /\ MaxFaults \in Nat

VARIABLES
    now,           \* the clock, which is the Date.now() of one process
    movies,        \* which of Movies are still in the collection
    kind,          \* what each request asks for, once it is sent
    about,         \* the movie it is about, unless it makes one of its own
    step,          \* how far each request is
    doneAt,        \* when its change reached the database
    missed,        \* history: the requests whose write has found no movie
    before,        \* history: the requests answered before it was sent
    recording,     \* entries that subscribers are inserting
    log,           \* the audit log
    cache,         \* the cached list
    reader,        \* the GET each reader has sent last
    faults

request == <<kind, about, step, doneAt, missed, before>>
audit == <<recording, log>>
vars == <<now, movies, request, audit, cache, reader, faults>>

-----------------------------------------------------------------------------
Steps == {"unsent", "sent", "found", "changed", "answered", "interrupted", "failed"}
Entries == [request : Requests, createdAt : 0..MaxTime]
Lists == [shows : SUBSET Requests, until : 0..(MaxTime + TTL), overtaken : SUBSET Requests]
Gets == [step : {"idle", "reading", "read", "answered"}, at : 0..MaxTime,
         shows : SUBSET Requests, overtaken : SUBSET Requests]

TypeOK ==
    /\ now \in 0..MaxTime
    /\ movies \subseteq Movies /\ about \in [Requests -> Movies] /\ missed \subseteq Requests
    /\ kind \in [Requests -> Kinds] /\ step \in [Requests -> Steps]
    /\ doneAt \in [Requests -> 0..MaxTime]
    /\ before \in [Requests -> SUBSET Requests]
    /\ recording \subseteq Entries /\ log \subseteq Entries
    /\ cache \in Lists \cup {NoList}
    /\ reader \in [Readers -> Gets]
    /\ \A c \in Readers : reader[c].step \in {"reading", "read"} => now <= reader[c].at + MaxRead
    /\ faults \in 0..MaxFaults

Idle == [step |-> "idle", at |-> 0, shows |-> {}, overtaken |-> {}]
Answered == [Idle EXCEPT !.step = "answered"]

Init ==
    /\ now = 0 /\ movies = Movies /\ missed = {}
    /\ about \in [Requests -> Movies]
    /\ kind = [r \in Requests |-> "create"] /\ step = [r \in Requests |-> "unsent"]
    /\ doneAt = [r \in Requests |-> 0] /\ before = [r \in Requests |-> {}]
    /\ recording = {} /\ log = {}
    /\ cache = NoList
    /\ reader = [c \in Readers |-> Idle]
    /\ faults = 0

In(s) == {r \in Requests : step[r] = s}

\* The POST of a video changes nothing yet: it only begins the upload.
Changed ==
    {r \in Requests \ missed : step[r] \in {"changed", "answered", "interrupted"} /\ kind[r] # "postVideo"}

Fault == faults < MaxFaults /\ faults' = faults + 1

-----------------------------------------------------------------------------
(* Handlers *)

Send(r, k) ==
    /\ step[r] = "unsent"
    /\ kind' = [kind EXCEPT ![r] = k]
    /\ step' = [step EXCEPT ![r] = "sent"]
    /\ before' = [before EXCEPT ![r] = In("answered")]
    /\ UNCHANGED <<now, movies, about, doneAt, missed, audit, cache, reader, faults>>

\* findOneByUUID finds the movie.
Find(r) ==
    /\ step[r] = "sent" /\ kind[r] \in Finding /\ about[r] \in movies
    /\ step' = [step EXCEPT ![r] = "found"]
    /\ UNCHANGED <<now, movies, kind, about, doneAt, missed, before, audit, cache, reader, faults>>

Ready(r) == step[r] = IF kind[r] \in Finding THEN "found" ELSE "sent"

\* The change reaches the database; MoviesService still has to return.
Change(r) ==
    /\ Ready(r) /\ kind[r] # "postVideo"
    /\ kind[r] \in Creating \/ about[r] \in movies
    /\ movies' = IF kind[r] = "delete" THEN movies \ {about[r]} ELSE movies
    /\ step' = [step EXCEPT ![r] = "changed"]
    /\ doneAt' = [doneAt EXCEPT ![r] = now]
    /\ UNCHANGED <<now, kind, about, missed, before, audit, cache, reader, faults>>

\* The movie was deleted since it was found: the write changes nothing, and
\* MoviesService returns as if it had.
Miss(r) ==
    /\ step[r] = "found" /\ kind[r] \in Blind /\ about[r] \notin movies
    /\ step' = [step EXCEPT ![r] = "changed"]
    /\ missed' = missed \cup {r}
    /\ UNCHANGED <<now, movies, kind, about, doneAt, before, audit, cache, reader, faults>>

\* MoviesService throws before the change, since there is no movie (any more) or for
\* another reason: there is no change, no event, and nothing is cleared.
Refuse(r) ==
    /\ step[r] \in {"sent", "found"}
    /\ step' = [step EXCEPT ![r] = "failed"]
    /\ UNCHANGED <<now, movies, kind, about, doneAt, missed, before, audit, cache, reader, faults>>

\* MoviesService throws after the change.
Interrupt(r) ==
    /\ step[r] = "changed"
    /\ Fault
    /\ step' = [step EXCEPT ![r] = "interrupted"]
    /\ UNCHANGED <<now, movies, kind, about, doneAt, missed, before, audit, cache, reader>>

\* emit calls the subscriber, which takes the time of the entry before it waits.
Emit(r) == recording' = recording \cup {[request |-> r, createdAt |-> now]}

\* clearMoviesCache; overtaken is history: a list that was read by now is not
\* prevented from being cached.
Clear(r) ==
    /\ cache' = NoList
    /\ reader' = [c \in Readers |->
                    IF reader[c].step = "read" THEN [reader[c] EXCEPT !.overtaken = @ \cup {r}]
                    ELSE reader[c]]

Answer(r, k, from) ==
    /\ kind[r] = k /\ step[r] = from
    /\ step' = [step EXCEPT ![r] = "answered"]
    /\ UNCHANGED <<now, movies, kind, about, doneAt, missed, before, log, faults>>

EmitAndClear(r, k) == Answer(r, k, "changed") /\ Emit(r) /\ Clear(r)
EmitOnly(r, k, from) == Answer(r, k, from) /\ Emit(r) /\ UNCHANGED <<cache, reader>>

\* Mutant: the list is not cleared.
UnpublishKeepingList(r) == EmitOnly(r, "unpublish", "changed")

Create(r) == EmitAndClear(r, "create")
Import(r) == EmitAndClear(r, "import")
UpdatePoster(r) == EmitAndClear(r, "updatePoster")
UpdateBackdrop(r) == EmitOnly(r, "updateBackdrop", "changed")
PostVideo(r) == EmitOnly(r, "postVideo", "found")
PatchVideo(r) == Answer(r, "patchVideo", "changed") /\ UNCHANGED recording /\ Clear(r)
Update(r) == EmitAndClear(r, "update")
Publish(r) == EmitAndClear(r, "publish")
Unpublish(r) == EmitAndClear(r, "unpublish")
Delete(r) == EmitOnly(r, "delete", "changed")

-----------------------------------------------------------------------------
(* The audit log *)

\* Mutant: the database takes the time when it inserts.
RecordWithItsTime(e) ==
    /\ e \in recording
    /\ recording' = recording \ {e}
    /\ log' = log \cup {[e EXCEPT !.createdAt = now]}
    /\ UNCHANGED <<now, movies, request, cache, reader, faults>>

\* createLog; entries are listed in the order of createdAt.
Record(e) ==
    /\ e \in recording
    /\ recording' = recording \ {e}
    /\ log' = log \cup {e}
    /\ UNCHANGED <<now, movies, request, cache, reader, faults>>

\* The subscriber logs the error and forgets the entry.
RecordFails(e) ==
    /\ e \in recording
    /\ Fault
    /\ recording' = recording \ {e}
    /\ UNCHANGED <<now, movies, request, log, cache, reader>>

-----------------------------------------------------------------------------
(* GET /movies: CacheInterceptor around getAll *)

Cached == cache # NoList /\ now <= cache.until

Asks(c) == reader[c].step \in {"idle", "answered"}

AnswerFromCache(c) ==
    /\ Asks(c) /\ Cached
    /\ reader' = [reader EXCEPT ![c] = Answered]
    /\ UNCHANGED <<now, movies, request, audit, cache, faults>>

AskDatabase(c) ==
    /\ Asks(c) /\ ~Cached
    /\ reader' = [reader EXCEPT ![c] = [Idle EXCEPT !.step = "reading", !.at = now]]
    /\ UNCHANGED <<now, movies, request, audit, cache, faults>>

\* findAll: the database answers.
ReadAll(c) ==
    /\ reader[c].step = "reading"
    /\ reader' = [reader EXCEPT ![c].step = "read", ![c].shows = Changed]
    /\ UNCHANGED <<now, movies, request, audit, cache, faults>>

\* The list is cached and answered.  What is answered is what is cached then.
CacheList(c) ==
    /\ reader[c].step = "read"
    /\ cache' = [shows |-> reader[c].shows, until |-> now + TTL, overtaken |-> reader[c].overtaken]
    /\ reader' = [reader EXCEPT ![c] = Answered]
    /\ UNCHANGED <<now, movies, request, audit, faults>>

-----------------------------------------------------------------------------
Tick ==
    /\ now < MaxTime
    /\ \A c \in Readers : reader[c].step \in {"reading", "read"} => now < reader[c].at + MaxRead
    /\ now' = now + 1
    /\ UNCHANGED <<movies, request, audit, cache, reader, faults>>

\* The cache, the subscribers and the requests are in the process.
Crash ==
    /\ Fault
    /\ step' = [r \in Requests |-> CASE step[r] \in {"sent", "found"} -> "failed"
                                     [] step[r] = "changed" -> "interrupted"
                                     [] OTHER -> step[r]]
    /\ recording' = {}
    /\ cache' = NoList
    /\ reader' = [c \in Readers |-> Idle]
    /\ UNCHANGED <<now, movies, kind, about, doneAt, missed, before, log>>

-----------------------------------------------------------------------------
Handler(r) ==
    \/ Create(r) \/ Import(r) \/ UpdatePoster(r) \/ UpdateBackdrop(r) \/ PostVideo(r)
    \/ PatchVideo(r) \/ Update(r) \/ Publish(r) \/ Unpublish(r) \/ Delete(r)

Next ==
    \/ \E r \in Requests, k \in Kinds : Send(r, k)
    \/ \E r \in Requests : Find(r) \/ Change(r) \/ Miss(r) \/ Refuse(r) \/ Interrupt(r) \/ Handler(r)
    \/ \E e \in recording : Record(e) \/ RecordFails(e)
    \/ \E c \in Readers : AnswerFromCache(c) \/ AskDatabase(c) \/ ReadAll(c) \/ CacheList(c)
    \/ Tick \/ Crash

Spec == Init /\ [][Next]_vars

-----------------------------------------------------------------------------
(* Properties *)

\* An entry of the audit log is about a change that was made (the entry of an upload,
\* about one that was begun), unless the movie was deleted by a request that was not
\* answered yet when this one was sent: the new poster or backdrop of such a movie,
\* and its second deletion, are logged though nothing was changed.
DeletedMeanwhile(r) ==
    \E d \in Changed : kind[d] = "delete" /\ about[d] = about[r] /\ d \notin before[r]
EntriesAreTrue ==
    \A e \in recording \cup log :
        \/ kind[e.request] = "postVideo" \/ e.request \in Changed
        \/ kind[e.request] \in Blind /\ DeletedMeanwhile(e.request)

\* The log lists what one client did after the other in that order, however long the
\* insertions take.
LogInOrder ==
    \A e, f \in log : e.request \in before[f.request] => e.createdAt <= f.createdAt

\* What was answered is in the log or will be, unless an insertion failed or the
\* process died.  The PATCH that ends an upload is the one change without an entry.
ChangesAreLogged ==
    faults = 0 =>
        \A r \in In("answered") :
            kind[r] # "patchVideo" => \E e \in recording \cup log : e.request = r

\* The audit log tells what was done, in the order it was done, and all of it unless
\* something failed, although subscribers write it by themselves after the answer; it
\* tells more only of a movie that two requests worked on when one of them deleted it.
LogIsTrue == EntriesAreTrue /\ LogInOrder /\ ChangesAreLogged

\* A list that is answered shows every change that is older than the time a list may
\* be read and cached, also the changes whose handlers do not clear the list.
ListIsRecent ==
    Cached => \A r \in Changed : r \in cache.shows \/ now <= doneAt[r] + MaxRead + TTL

\* A change whose handler clears the list can only be missing in a list that was read
\* before it was cleared.  (Backdrops and deletions do not clear it.)
Clearing == Kinds \ {"updateBackdrop", "postVideo", "delete"}
MissingOnlyIfOvertaken ==
    Cached => \A r \in Changed \cap In("answered") :
                 kind[r] \in Clearing /\ r \notin cache.shows => r \in cache.overtaken

\* The list a client gets is recent, and short only of the changes that overtook its
\* reading or do not clear it.
ListIsRight == ListIsRecent /\ MissingOnlyIfOvertaken

=============================================================================
