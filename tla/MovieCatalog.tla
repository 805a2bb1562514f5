---------------------------- MODULE MovieCatalog ----------------------------
(***************************************************************************)
(* MoviesService and the handlers of MoviesController and                  *)
(* MoviesImportController that call it: requests of several clients served *)
(* at the same time by one process, each a sequence of awaited operations  *)
(* on the collection of movies (MongoDB), on the queues of the images      *)
(* module and on the videos module, which is VideoStore here.  Every       *)
(* action is one awaited operation with the code up to the next one.       *)
(*                                                                         *)
(* generateUniqueID returns new ids, so the ids of the movie, the image    *)
(* and the video that a request generates are modelled by the request.     *)
(***************************************************************************)

CONSTANTS
    Requests,     \* the requests of the clients, each sent once
    Names,        \* pairs of a name and a release date: what the hash is made of
    NoMovie,      \* there is no such movie
    Nothing,      \* null: no video, no backdrop
    Default,      \* MOVIES_POSTER_DEFAULT_ID, the poster of every movie made without one
    Manners,      \* the values of "alone": TRUE, FALSE or both
    Failing,      \* whether awaited operations may reject
    Kinds         \* the kinds of request the clients send

ASSUME CatalogAssumption ==
    /\ Nothing \notin Requests \cup {Default} /\ Default \notin Requests
    /\ Manners \subseteq BOOLEAN /\ Failing \in BOOLEAN
    /\ Kinds \subseteq {"create", "import", "rename", "poster", "backdrop", "video",
                        "publish", "unpublish", "delete"}

VARIABLES
    alone,        \* the clients never work on the same movie at the same time
    movies,       \* the collection: for each uuid a movie, or NoMovie
    request,      \* how far each request is, what it has read and was answered
    images,       \* ids that jobs were queued for, to make a poster or a backdrop
    dropped,      \* ids deleteOne of the images module was called with
    state, bytes, known, asked   \* the videos module: see VideoStore

Store == INSTANCE VideoStore WITH Videos <- Requests

videoVars == <<state, bytes, known, asked>>
vars == <<alone, movies, request, images, dropped, videoVars>>

-----------------------------------------------------------------------------
Movie == [name : Names, hash : Names, isPublished : BOOLEAN, poster : Requests \cup {Default},
          backdrop : Requests \cup {Nothing}, video : Requests \cup {Nothing}]

ASSUME NoMovieAssumption == NoMovie \notin Movie

Creating == {"create", "import"}
Steps == {"new", "check", "queue", "insert", "read", "drop", "store", "write", "remove", "done"}
Answers == {"none", "201", "200", "204", "404", "409", "500"}

\* movie: the id the request is about; name: the name it sends; copy: what
\* findOneByUUID has returned to it, with the changes it has made to it.
Request == [kind : Kinds \cup {"none"}, step : Steps, movie : Requests,
            name : Names \cup {Nothing}, copy : Movie \cup {NoMovie}, answer : Answers]

TypeOK ==
    /\ alone \in BOOLEAN
    /\ movies \in [Requests -> Movie \cup {NoMovie}]
    /\ request \in [Requests -> Request]
    /\ images \subseteq Requests
    /\ dropped \subseteq images \cup {Default}
    /\ Store!TypeOK

Unsent(r) == [kind |-> "none", step |-> "new", movie |-> r, name |-> Nothing,
              copy |-> NoMovie, answer |-> "none"]

Init ==
    /\ alone \in Manners
    /\ movies = [m \in Requests |-> NoMovie]
    /\ request = [r \in Requests |-> Unsent(r)]
    /\ images = {} /\ dropped = {}
    /\ Store!Init

Active == {r \in Requests : request[r].step \notin {"new", "done"}}
At(r, kinds, step) == request[r].kind \in kinds /\ request[r].step = step
Goes(r, step) == request' = [request EXCEPT ![r].step = step]
Ends(r, answer) ==
    request' = [request EXCEPT ![r].step = "done", ![r].answer = answer, ![r].copy = NoMovie]

\* The write of a movie that was read before: findOneAndUpdate with the whole of it.
Written(m, movie) == [movies EXCEPT ![m] = IF @ = NoMovie THEN NoMovie ELSE movie]

-----------------------------------------------------------------------------
(* A client sends a request, with a name or about a movie it has heard of *)

Created(m) == request[m].kind \in Creating /\ request[m].answer = "201"

Send(r, kind, m, name) ==
    /\ request[r].step = "new"
    /\ alone => \A q \in Active : request[q].movie # m
    /\ IF kind \in Creating THEN m = r ELSE Created(m)
    /\ request' = [request EXCEPT ![r] = [@ EXCEPT
            !.kind = kind, !.movie = m,
            !.name = IF kind \in Creating \cup {"rename"} THEN name ELSE Nothing,
            !.step = CASE kind \in Creating -> "check"
                       [] kind = "rename" -> "write"
                       [] OTHER -> "read"]]
    /\ UNCHANGED <<movies, images, dropped, videoVars>>

-----------------------------------------------------------------------------
(* createOneWithPoster and createOne *)

\* existsByHash
CheckHash(r) ==
    /\ At(r, Creating, "check")
    /\ IF \E m \in Requests : movies[m] # NoMovie /\ movies[m].hash = request[r].name
       THEN Ends(r, "409")
       ELSE Goes(r, IF request[r].kind = "create" THEN "queue" ELSE "insert")
    /\ UNCHANGED <<movies, images, dropped, videoVars>>

\* addCreatePosterJob of createOneWithPoster
QueueFirstPoster(r) ==
    /\ At(r, {"create"}, "queue")
    /\ images' = images \cup {r}
    /\ Goes(r, "insert")
    /\ UNCHANGED <<movies, dropped, videoVars>>

\* Mutant: the index on the hash is not unique.
InsertMovieUnindexed(r) ==
    /\ At(r, Creating, "insert")
    /\ Ends(r, "201")
    /\ movies' = [movies EXCEPT ![r] =
            [name |-> request[r].name, hash |-> request[r].name, isPublished |-> FALSE,
             poster |-> IF request[r].kind = "create" THEN r ELSE Default,
             backdrop |-> Nothing, video |-> Nothing]]
    /\ UNCHANGED <<images, dropped, videoVars>>

\* createOne of the repository; the index on the hash is unique, and its error
\* is not an HttpException.
InsertMovie(r) ==
    /\ At(r, Creating, "insert")
    /\ IF \E m \in Requests : movies[m] # NoMovie /\ movies[m].hash = request[r].name
       THEN Ends(r, "500") /\ UNCHANGED movies
       ELSE /\ Ends(r, "201")
            /\ movies' = [movies EXCEPT ![r] =
                 [name |-> request[r].name, hash |-> request[r].name, isPublished |-> FALSE,
                  poster |-> IF request[r].kind = "create" THEN r ELSE Default,
                  backdrop |-> Nothing, video |-> Nothing]]
    /\ UNCHANGED <<images, dropped, videoVars>>

-----------------------------------------------------------------------------
(* The handlers that change a movie *)

\* updateOne: one partial update; the hash stays what it was.
Rename(r) ==
    LET m == request[r].movie
    IN  /\ At(r, {"rename"}, "write")
        /\ IF movies[m] = NoMovie
           THEN Ends(r, "404") /\ UNCHANGED movies
           ELSE Ends(r, "200") /\ movies' = [movies EXCEPT ![m].name = request[r].name]
        /\ UNCHANGED <<images, dropped, videoVars>>

HasVideo(r) == movies[request[r].movie].video # Nothing

\* The deletion of the images a movie has, the default poster too.
DroppedWith(movie) == dropped \cup ({movie.poster, movie.backdrop} \ {Nothing})

\* findOneByUUID: the movie is copied, and the request goes on if there is one.
Reads(r, kinds, step) ==
    LET movie == movies[request[r].movie]
    IN  /\ At(r, kinds, "read")
        /\ IF movie = NoMovie
           THEN Ends(r, "404")
           ELSE request' = [request EXCEPT ![r].step = step, ![r].copy = movie]
        /\ UNCHANGED <<movies, images, videoVars>>

\* updatePosterForOne, updateBackdropForOne
ReadForImage(r) == Reads(r, {"poster", "backdrop"}, "queue") /\ UNCHANGED dropped

\* updateVideoForOne: the video the movie has is deleted first.
ReadForVideo(r) ==
    Reads(r, {"video"}, IF HasVideo(r) THEN "drop" ELSE "store") /\ UNCHANGED dropped

\* togglePublishedForOne
ReadToPublish(r) == Reads(r, {"publish", "unpublish"}, "write") /\ UNCHANGED dropped

\* deleteOne.  The deletion of the images is started, not awaited, before that of
\* the movie itself: here, or in AskDeletion if there is a video to delete first.
ReadToDelete(r) ==
    LET movie == movies[request[r].movie]
        last  == movie # NoMovie /\ ~HasVideo(r)
    IN  /\ Reads(r, {"delete"}, IF last THEN "remove" ELSE "drop")
        /\ dropped' = IF last THEN DroppedWith(movie) ELSE dropped

\* Mutant: the backdrop is written where the poster belongs.
QueueImageSwapped(r) ==
    /\ At(r, {"poster", "backdrop"}, "queue")
    /\ images' = images \cup {r}
    /\ request' = [request EXCEPT ![r].step = "write", ![r].copy.poster = r]
    /\ UNCHANGED <<movies, dropped, videoVars>>

\* Mutant: the old image is deleted before the movie has the new one.
QueueImageReplacing(r) ==
    /\ At(r, {"poster", "backdrop"}, "queue")
    /\ images' = images \cup {r}
    /\ dropped' = dropped \cup ({request[r].copy[request[r].kind]} \ {Nothing})
    /\ request' = [request EXCEPT ![r].step = "write", ![r].copy[request[r].kind] = r]
    /\ UNCHANGED <<movies, videoVars>>

\* addCreatePosterJob, addCreateBackdropJob
QueueImage(r) ==
    /\ At(r, {"poster", "backdrop"}, "queue")
    /\ images' = images \cup {r}
    /\ request' = [request EXCEPT ![r].step = "write", ![r].copy[request[r].kind] = r]
    /\ UNCHANGED <<movies, dropped, videoVars>>

\* Mutant: a video that is replaced is left where it is.
AskDeletionOnRemoval(r) ==
    /\ At(r, {"video", "delete"}, "drop")
    /\ asked' = IF request[r].kind = "video" THEN asked ELSE asked \cup {request[r].copy.video}
    /\ IF request[r].kind = "video"
       THEN Goes(r, "store") /\ UNCHANGED dropped
       ELSE Goes(r, "remove") /\ dropped' = DroppedWith(request[r].copy)
    /\ UNCHANGED <<movies, images, state, bytes, known>>

\* addDeleteVideoJob for the video the movie had when it was read; its errors are
\* swallowed.
AskDeletion(r) ==
    /\ At(r, {"video", "delete"}, "drop")
    /\ asked' = asked \cup {request[r].copy.video}
    /\ IF request[r].kind = "video"
       THEN Goes(r, "store") /\ UNCHANGED dropped
       ELSE Goes(r, "remove") /\ dropped' = DroppedWith(request[r].copy)
    /\ UNCHANGED <<movies, images, state, bytes, known>>

\* createOneFromFile
StoreVideo(r) ==
    /\ At(r, {"video"}, "store")
    /\ Store!Create(r)
    /\ request' = [request EXCEPT ![r].step = "write", ![r].copy.video = r]
    /\ UNCHANGED <<movies, images, dropped>>

\* Mutant: the update inserts a movie it does not find.
WriteBackUpserting(r) ==
    /\ At(r, {"poster", "backdrop", "video"}, "write")
    /\ movies' = [movies EXCEPT ![request[r].movie] = request[r].copy]
    /\ Ends(r, "200")
    /\ UNCHANGED <<images, dropped, videoVars>>

\* updateOneByUUID with the whole movie, whose result is not looked at.
WriteBack(r) ==
    /\ At(r, {"poster", "backdrop", "video"}, "write")
    /\ movies' = Written(request[r].movie, request[r].copy)
    /\ Ends(r, "200")
    /\ UNCHANGED <<images, dropped, videoVars>>

\* The same in togglePublishedForOne, which fails if there is no movie any more.
WritePublished(r) ==
    LET kind == request[r].kind
        m    == request[r].movie
    IN  /\ At(r, {"publish", "unpublish"}, "write")
        /\ movies' = Written(m, [request[r].copy EXCEPT !.isPublished = kind = "publish"])
        /\ Ends(r, IF movies[m] = NoMovie THEN "500" ELSE "200")
        /\ UNCHANGED <<images, dropped, videoVars>>

\* deleteOneByUUID, whose result is not looked at.
RemoveMovie(r) ==
    /\ At(r, {"delete"}, "remove")
    /\ movies' = [movies EXCEPT ![request[r].movie] = NoMovie]
    /\ Ends(r, "204")
    /\ UNCHANGED <<images, dropped, videoVars>>

\* The awaited operation rejects, or the process dies: what the request has
\* done so far stays, a deletion of images that was started too.
AwaitThrows(r) ==
    /\ Failing /\ r \in Active
    /\ Ends(r, "500")
    /\ UNCHANGED <<movies, images, dropped, videoVars>>

\* The workers of the videos module.
VideoWork(v) == Store!Background(v) /\ UNCHANGED <<movies, request, images, dropped>>

Step == \E r \in Requests :
    \/ \E kind \in Kinds, m \in Requests, name \in Names : Send(r, kind, m, name)
    \/ CheckHash(r) \/ QueueFirstPoster(r) \/ InsertMovie(r)
    \/ Rename(r) \/ ReadForImage(r) \/ ReadForVideo(r) \/ ReadToPublish(r) \/ ReadToDelete(r)
    \/ QueueImage(r) \/ AskDeletion(r) \/ StoreVideo(r)
    \/ WriteBack(r) \/ WritePublished(r) \/ RemoveMovie(r) \/ AwaitThrows(r)
    \/ VideoWork(r)

Next == Step /\ UNCHANGED alone

Spec == Init /\ [][Next]_vars

-----------------------------------------------------------------------------
(* Properties *)

Live(m) == movies[m] # NoMovie
Busy(m) == \E r \in Active : request[r].movie = m
HasFailed(m) == \E r \in Requests : request[r].movie = m /\ request[r].answer = "500"

\* However the creations of several clients interleave, no two movies have the
\* same hash (movie.schema.ts:15): the check of createOne alone would not do.
UniqueHash ==
    \A m, n \in Requests : Live(m) /\ Live(n) /\ movies[m].hash = movies[n].hash => m = n

\* No late write of a request that has read a movie before its deletion
\* brings the movie back (movies.service.ts:153, 180, 214, 315).
GoneForGood == [][\A m \in Requests : Created(m) /\ ~Live(m) => ~Live(m)']_vars

\* The images of a movie are queued to be made, and none is being deleted while
\* other requests write back copies that name it, unless somebody deletes that
\* very movie: then they go before the movie, which stays without them if the
\* last await of deleteOne fails (movies.service.ts:342-354).  The default
\* poster is nobody's: whoever deletes a movie that has it deletes it for all.
Deleting(m) ==
    \E r \in Requests :
        /\ request[r].kind = "delete" /\ request[r].movie = m
        /\ request[r].step = "remove" \/ request[r].answer = "500"
ImagesKept ==
    \A m \in Requests : Live(m) =>
        LET own == {movies[m].poster, movies[m].backdrop} \ {Nothing, Default}
        IN  own \subseteq images /\ (own \cap dropped = {} \/ Deleting(m))

\* The videos module is used as VideoStore allows: a video is asked to be
\* deleted only after createOneFromFile has returned it.
UsesVideoStore == Store!Spec

\* Where nobody else works on the movie, a request changes the part of a movie
\* it is about and no other, although it writes the whole of it
\* (movies.service.ts:153, 180, 214, 315).
PartOf(kind) ==
    CASE kind \in {"publish", "unpublish"} -> "isPublished" [] kind = "rename" -> "name"
      [] OTHER -> kind
OwnPart ==
    \A r, m \in Requests :
        request[r].step = "write" /\ request'[r].answer = "200" /\ Live(m) =>
            /\ Live(m)'
            /\ \A part \in DOMAIN movies[m] :
                  movies'[m][part] # movies[m][part] =>
                      m = request[r].movie /\ part = PartOf(request[r].kind)
OwnPartChanged == [][alone => OwnPart]_vars

\* Where nobody else works on the movie, every video that was stored is the
\* video of a movie or is being deleted, unless a request failed half way.
NoOrphanVideo ==
    \A v \in known :
        LET m == request[v].movie
        IN  \/ Live(m) /\ movies[m].video = v
            \/ v \in asked \/ Busy(m) \/ HasFailed(m)

\* Where nobody else works on the movie, its video has a record, to be streamed
\* when it is READY, unless a request failed half way.
VideoServed ==
    \A m \in Requests :
        Live(m) /\ movies[m].video # Nothing =>
            state[movies[m].video] # "ABSENT" \/ Busy(m) \/ HasFailed(m)

\* Where nobody else works on the movie and no request failed half way, movies and
\* videos go together (movies.service.ts:198-216, 330-340).
VideosAreOfMovies == alone => NoOrphanVideo /\ VideoServed

\* api-docs.decorators.ts:180 "Changed movie state to published": a published
\* movie stays so until somebody unpublishes it.
PublishSticks ==
    [][\A m \in Requests :
        Live(m) /\ movies[m].isPublished /\ Live(m)' /\ ~movies'[m].isPublished =>
            \E r \in Requests : request[r].movie = m /\ At(r, {"unpublish"}, "write")]_vars

=============================================================================
