-------------------------- MODULE MovieCatalogProofs --------------------------
(***************************************************************************)
(* What is proved of MovieCatalog for every number of requests and names,  *)
(* and for operations that fail: first of clients that share movies, then  *)
(* of clients that work on a movie one at a time.                          *)
(***************************************************************************)
EXTENDS MovieCatalog, TLAPS

-----------------------------------------------------------------------------
(* The inductive invariant *)

\* The images and the video of a movie, or of a copy of it, were made for it, but
\* for the default poster.
PartsOf(m, movie) ==
    /\ \A i \in {movie.poster, movie.backdrop} \ {Nothing, Default} :
          i \in images /\ request[i].movie = m
    /\ movie.video \in known \cup {Nothing}

\* A creation is about a movie of its own and any other request about one that
\* was created.
AboutMovie(r) ==
    /\ request[r].kind \in Creating \cup {"none"} => request[r].movie = r /\ request[r].copy = NoMovie
    /\ request[r].kind \notin Creating \cup {"none"} => Created(request[r].movie)
    /\ request[r].kind \in Creating \cup {"rename"} => request[r].name \in Names

Progress(r) ==
    /\ request[r].step = "new" => request[r].kind = "none" /\ r \notin images
    /\ request[r].answer = "201" => request[r].step = "done" /\ request[r].kind \in Creating
    /\ request[r].answer = "500" => request[r].step = "done"
    /\ request[r].step \in {"check", "insert"} => request[r].kind \in Creating
    /\ At(r, {"create"}, "insert") => r \in images
    /\ r \in known => request[r].kind = "video" /\ request[r].step \in {"write", "done"}

\* What a handler has read: it is there when the handler uses it, its parts are
\* those of the movie, and its hash is the one the movie has, if it is not gone.
CopyOK(r) ==
    LET copy == request[r].copy
        m    == request[r].movie
    IN  /\ At(r, {"poster", "backdrop"}, "queue") \/ request[r].step \in {"drop", "store", "remove"}
              \/ At(r, {"poster", "backdrop", "video", "publish", "unpublish"}, "write")
           => copy # NoMovie
        /\ request[r].step = "drop" => copy.video # Nothing
        /\ copy # NoMovie => PartsOf(m, copy) /\ (Live(m) => copy.hash = movies[m].hash)

RequestsOK == \A r \in Requests : AboutMovie(r) /\ Progress(r) /\ CopyOK(r)

MoviesOK == \A m \in Requests : Live(m) => Created(m) /\ PartsOf(m, movies[m])

\* Images are dropped with their movie, or by a deletion of it that is under way
\* or has failed.
DroppedOf(m) == Created(m) /\ (~Live(m) \/ Deleting(m))
DroppedGone == \A i \in dropped \ {Default} : DroppedOf(request[i].movie)

CatalogInv == TypeOK /\ RequestsOK /\ MoviesOK /\ DroppedGone /\ UniqueHash

-----------------------------------------------------------------------------
(* Types *)

RequestVar == request \in [Requests -> Request]

\* The record of r changes and those of the other requests do not.
Becomes(r, record) == request' = [request EXCEPT ![r] = record]

LEMMA BecomesType ==
    ASSUME RequestVar, NEW r \in Requests, NEW record \in Request, Becomes(r, record)
    PROVE  /\ RequestVar'
           /\ \A q \in Requests \ {r} : request'[q] = request[q]
           /\ request'[r] = record
  BY DEF RequestVar, Becomes

LEMMA GoesType ==
    ASSUME RequestVar, NEW r \in Requests, NEW step \in Steps, Goes(r, step)
    PROVE  /\ RequestVar'
           /\ \A q \in Requests \ {r} : request'[q] = request[q]
           /\ request'[r] = [request[r] EXCEPT !.step = step]
  BY DEF RequestVar, Goes, Request

LEMMA EndsType ==
    ASSUME RequestVar, NEW r \in Requests, NEW answer \in Answers, Ends(r, answer)
    PROVE  /\ RequestVar'
           /\ \A q \in Requests \ {r} : request'[q] = request[q]
           /\ request'[r].step = "done" /\ request'[r].answer = answer
           /\ request'[r].copy = NoMovie /\ request'[r].movie = request[r].movie
           /\ request'[r].kind = request[r].kind /\ request'[r].name = request[r].name
  <1> DEFINE record == [request[r] EXCEPT !.step = "done", !.answer = answer, !.copy = NoMovie]
  <1>1. Becomes(r, record)
    BY DEF Ends, Becomes, RequestVar
  <1>2. request[r] \in Request
    BY DEF RequestVar
  <1>3. record \in Request
    BY <1>2 DEF Request, Steps
  <1>4. /\ record.step = "done" /\ record.answer = answer
        /\ record.copy = NoMovie /\ record.movie = request[r].movie
        /\ record.kind = request[r].kind /\ record.name = request[r].name
    BY <1>2 DEF Request
  <1> HIDE DEF record
  <1> QED
    BY <1>1, <1>3, <1>4, BecomesType

\* What a request does, and the workers do about the video it has stored.
Work(r) ==
    \/ \E kind \in Kinds, m \in Requests, name \in Names : Send(r, kind, m, name)
    \/ CheckHash(r) \/ QueueFirstPoster(r) \/ InsertMovie(r)
    \/ Rename(r) \/ ReadForImage(r) \/ ReadForVideo(r) \/ ReadToPublish(r) \/ ReadToDelete(r)
    \/ QueueImage(r) \/ AskDeletion(r) \/ StoreVideo(r)
    \/ WriteBack(r) \/ WritePublished(r) \/ RemoveMovie(r) \/ AwaitThrows(r)
    \/ VideoWork(r)

MoviesVar == movies \in [Requests -> Movie \cup {NoMovie}]

\* What findOneByUUID returns is kept, and the request goes on or ends.
LEMMA ReadsType ==
    ASSUME RequestVar, MoviesVar, NEW r \in Requests, NEW kinds, NEW step \in Steps,
           Reads(r, kinds, step), request[r].movie \in Requests
    PROVE  /\ RequestVar'
           /\ \A q \in Requests \ {r} : request'[q] = request[q]
           /\ request'[r].movie = request[r].movie
           /\ request'[r].kind = request[r].kind /\ request'[r].name = request[r].name
           /\ \/ /\ ~Live(request[r].movie)
                 /\ request'[r].step = "done" /\ request'[r].answer = "404"
                 /\ request'[r].copy = NoMovie
              \/ /\ Live(request[r].movie)
                 /\ request'[r].step = step /\ request'[r].answer = request[r].answer
                 /\ request'[r].copy = movies[request[r].movie]
  <1> DEFINE movie  == movies[request[r].movie]
             record == [request[r] EXCEPT !.step = step, !.copy = movie]
  <1>1. CASE ~Live(request[r].movie)
    <2>1. Ends(r, "404")
      BY <1>1 DEF Reads, Live
    <2> QED
      BY <1>1, <2>1, EndsType DEF Answers
  <1>2. CASE Live(request[r].movie)
    <2>1. request' = [request EXCEPT ![r].step = step, ![r].copy = movie]
      BY <1>2 DEF Reads, Live
    <2>2. Becomes(r, record)
      BY <2>1 DEF Becomes, RequestVar
    <2>3. request[r] \in Request
      BY DEF RequestVar
    <2>4. movie \in Movie \cup {NoMovie}
      BY DEF MoviesVar
    <2>5. record \in Request
      BY <2>3, <2>4 DEF Request
    <2>6. /\ record.step = step /\ record.answer = request[r].answer
          /\ record.copy = movie /\ record.movie = request[r].movie
          /\ record.kind = request[r].kind /\ record.name = request[r].name
      BY <2>3 DEF Request
    <2> HIDE DEF record
    <2> QED
      BY <1>2, <2>2, <2>5, <2>6, BecomesType
  <1> QED
    BY <1>1, <1>2

\* The same for a handler that has changed part of its copy and goes on to write it.
LEMMA CopiesType ==
    ASSUME RequestVar, NEW r \in Requests, request[r].copy \in Movie,
           NEW part \in {"poster", "backdrop", "video"},
           request' = [request EXCEPT ![r].step = "write", ![r].copy[part] = r]
    PROVE  /\ RequestVar'
           /\ \A q \in Requests \ {r} : request'[q] = request[q]
           /\ request'[r].movie = request[r].movie
           /\ request'[r].kind = request[r].kind /\ request'[r].name = request[r].name
           /\ request'[r].step = "write" /\ request'[r].answer = request[r].answer
           /\ request'[r].copy = [request[r].copy EXCEPT ![part] = r]
           /\ request'[r].copy \in Movie
  <1> DEFINE copy == [request[r].copy EXCEPT ![part] = r]
             record == [request[r] EXCEPT !.step = "write", !.copy = copy]
  <1>1. request[r] \in Request
    BY DEF RequestVar
  <1>2. copy \in Movie
    BY DEF Movie
  <1>3. record \in Request
    <2> HIDE DEF copy
    <2> QED
      BY <1>1, <1>2 DEF Request, Steps
  <1>4. Becomes(r, record)
    BY <1>1 DEF Becomes, RequestVar, Request
  <1>5. /\ record.step = "write" /\ record.answer = request[r].answer
        /\ record.copy = copy /\ record.movie = request[r].movie
        /\ record.kind = request[r].kind /\ record.name = request[r].name
    BY <1>1 DEF Request
  <1> HIDE DEF record
  <1> QED
    BY <1>2, <1>3, <1>4, <1>5, BecomesType

-----------------------------------------------------------------------------
(* What a step of one request leaves to the others *)

RequestOK(r) == AboutMovie(r) /\ Progress(r) /\ CopyOK(r)

HashKept ==
    \A m \in Requests : Created(m) /\ Live(m)' => Live(m) /\ movies'[m].hash = movies[m].hash

Keeps(r) ==
    /\ \A q \in Requests \ {r} :
          request'[q] = request[q] /\ (q \in images' => q \in images) /\ (q \in known' => q \in known)
    /\ \A m \in Requests : Created(m) => Created(m)'
    /\ \A i \in images : i \in images' /\ request'[i].movie = request[i].movie
    /\ known \subseteq known' /\ images' \subseteq images \cup {r}
    /\ HashKept

LEMMA KeepsOf ==
    ASSUME CatalogInv, NEW r \in Requests, request[r].step # "done",
           \A q \in Requests \ {r} : request'[q] = request[q],
           request'[r].movie = request[r].movie \/ request[r].step = "new",
           images' = images \/ images' = images \cup {r},
           known' = known \/ known' = known \cup {r},
           HashKept
    PROVE  Keeps(r)
  <1>1. Progress(r) /\ images \subseteq Requests
    BY DEF CatalogInv, RequestsOK, TypeOK
  <1>2. ~Created(r) /\ (request[r].step = "new" => r \notin images)
    BY <1>1 DEF Progress, Created
  <1>3. ASSUME NEW m \in Requests, Created(m) PROVE Created(m)'
    BY <1>2, <1>3 DEF Created
  <1>4. ASSUME NEW i \in images PROVE i \in images' /\ request'[i].movie = request[i].movie
    BY <1>1, <1>2
  <1> QED
    BY <1>3, <1>4 DEF Keeps

LEMMA HashKeptUnchanged == ASSUME UNCHANGED movies PROVE HashKept
  BY DEF HashKept, Live

LEMMA OthersOK ==
    ASSUME CatalogInv, NEW r \in Requests, Keeps(r), NEW q \in Requests \ {r}
    PROVE  RequestOK(q)'
  <1>1. RequestOK(q) /\ request[q].movie \in Requests
    BY DEF CatalogInv, RequestsOK, RequestOK, TypeOK, Request
  <1>2. request'[q] = request[q]
    BY DEF Keeps
  <1>3. AboutMovie(q)'
    BY <1>1, <1>2 DEF RequestOK, AboutMovie, Keeps
  <1>4. Progress(q)'
    <2>1. /\ q \in images => q \in images'
          /\ q \in images' => q \in images
          /\ q \in known' => q \in known
      BY DEF Keeps
    <2> QED
      BY <1>1, <1>2, <2>1 DEF RequestOK, Progress, At
  <1>5. CopyOK(q)'
    <2>1. request[q].copy # NoMovie => Created(request[q].movie)
      BY <1>1 DEF RequestOK, AboutMovie
    <2>2. \A m, movie : PartsOf(m, movie) =>
             /\ \A i \in {movie.poster, movie.backdrop} \ {Nothing, Default} :
                   i \in images' /\ request'[i].movie = m
             /\ movie.video \in known' \cup {Nothing}
      BY DEF PartsOf, Keeps
    <2>3. request[q].copy # NoMovie /\ Live(request[q].movie)' =>
             Live(request[q].movie) /\ movies'[request[q].movie].hash = movies[request[q].movie].hash
      BY <1>1, <2>1 DEF Keeps, HashKept
    <2>4. CopyOK(q)
      BY <1>1 DEF RequestOK
    <2>5. request[q].copy # NoMovie =>
             PartsOf(request[q].movie, request[q].copy)'
      <3>1. request[q].copy # NoMovie => PartsOf(request[q].movie, request[q].copy)
        BY <2>4 DEF CopyOK
      <3>2. request[q].copy # NoMovie =>
             /\ \A i \in {request[q].copy.poster, request[q].copy.backdrop} \ {Nothing, Default} :
                   i \in images' /\ request'[i].movie = request[q].movie
             /\ request[q].copy.video \in known' \cup {Nothing}
        BY <2>2, <3>1
      <3> QED
        BY <1>2, <3>2 DEF PartsOf
    <2> QED
      BY <1>2, <2>3, <2>4, <2>5 DEF CopyOK, At
  <1> QED
    BY <1>3, <1>4, <1>5 DEF RequestOK

-----------------------------------------------------------------------------
(* The request whose step it is *)

After(r) == RequestVar' /\ MoviesVar' /\ Keeps(r) /\ RequestOK(r)'

LEMMA Before ==
    ASSUME CatalogInv, NEW r \in Requests
    PROVE  /\ RequestVar /\ MoviesVar /\ RequestOK(r)
           /\ request[r] \in Request /\ request[r].movie \in Requests
           /\ request[r].copy \in Movie \cup {NoMovie}
           /\ images \subseteq Requests /\ dropped \subseteq images \cup {Default}
           /\ known \subseteq Requests /\ asked \subseteq known
  BY DEF CatalogInv, RequestsOK, RequestOK, TypeOK, RequestVar, MoviesVar, Request, Store!TypeOK

\* A request that ends has nothing left to keep, but what it has created.
LEMMA EndedOK ==
    ASSUME CatalogInv, NEW r \in Requests, NEW answer \in Answers, Ends(r, answer),
           request[r].step \notin {"new", "done"},
           r \in known' => r \in known,
           answer = "201" => request[r].kind \in Creating,
           HashKept, images' = images, known' = known
    PROVE  RequestVar' /\ Keeps(r) /\ RequestOK(r)'
  <1>1. RequestVar /\ RequestOK(r)
    BY Before
  <1>2. /\ RequestVar'
        /\ \A q \in Requests \ {r} : request'[q] = request[q]
        /\ request'[r].step = "done" /\ request'[r].answer = answer
        /\ request'[r].copy = NoMovie /\ request'[r].movie = request[r].movie
        /\ request'[r].kind = request[r].kind /\ request'[r].name = request[r].name
    BY <1>1, EndsType
  <1>3. Keeps(r)
    BY <1>2, KeepsOf
  <1>4. AboutMovie(r)'
    BY <1>1, <1>2, <1>3, Before DEF RequestOK, AboutMovie, Keeps
  <1>5. Progress(r)'
    BY <1>1, <1>2 DEF RequestOK, Progress, At
  <1>6. CopyOK(r)'
    BY <1>2 DEF CopyOK, At
  <1> QED
    BY <1>2, <1>3, <1>4, <1>5, <1>6 DEF RequestOK

\* What a request is when it has been sent.
SentStep(kind) ==
    CASE kind \in Creating -> "check" [] kind = "rename" -> "write" [] OTHER -> "read"
SentName(kind, name) == IF kind \in Creating \cup {"rename"} THEN name ELSE Nothing

LEMMA SendType ==
    ASSUME RequestVar, NEW r \in Requests, NEW kind \in Kinds, NEW m \in Requests,
           NEW name \in Names, Send(r, kind, m, name)
    PROVE  /\ RequestVar'
           /\ \A q \in Requests \ {r} : request'[q] = request[q]
           /\ request'[r].kind = kind /\ request'[r].movie = m
           /\ request'[r].name = SentName(kind, name) /\ request'[r].step = SentStep(kind)
           /\ request'[r].copy = request[r].copy /\ request'[r].answer = request[r].answer
  <1> DEFINE record == [request[r] EXCEPT !.kind = kind, !.movie = m,
                                         !.name = SentName(kind, name), !.step = SentStep(kind)]
  <1>1. request[r] \in Request
    BY DEF RequestVar
  <1>2. SentStep(kind) \in Steps /\ SentName(kind, name) \in Names \cup {Nothing}
    BY DEF Steps, SentStep, SentName
  <1>3. record \in Request
    BY <1>1, <1>2 DEF Request
  <1>4. Becomes(r, record)
    BY <1>1 DEF Send, Becomes, RequestVar, SentStep, SentName
  <1>5. /\ record.kind = kind /\ record.movie = m
        /\ record.name = SentName(kind, name) /\ record.step = SentStep(kind)
        /\ record.copy = request[r].copy /\ record.answer = request[r].answer
    BY <1>1 DEF Request
  <1> HIDE DEF record
  <1> QED
    BY <1>3, <1>4, <1>5, BecomesType

LEMMA SendStep ==
    ASSUME CatalogInv, NEW r \in Requests, NEW kind \in Kinds, NEW m \in Requests,
           NEW name \in Names, Send(r, kind, m, name)
    PROVE  After(r)
  <1>1. RequestVar /\ MoviesVar /\ RequestOK(r)
    BY Before
  <1>2. /\ RequestVar'
        /\ \A q \in Requests \ {r} : request'[q] = request[q]
        /\ request'[r].kind = kind /\ request'[r].movie = m
        /\ request'[r].name = SentName(kind, name) /\ request'[r].step = SentStep(kind)
        /\ request'[r].copy = request[r].copy /\ request'[r].answer = request[r].answer
    BY <1>1, SendType
  <1>3. request[r].step = "new" /\ UNCHANGED <<movies, images, dropped, videoVars>>
    BY DEF Send
  <1>4. request[r].kind = "none" /\ request[r].copy = NoMovie /\ r \notin images /\ r \notin known
        /\ request[r].answer # "201" /\ request[r].answer # "500"
    BY <1>1, <1>3 DEF RequestOK, Progress, AboutMovie
  <1>5. Keeps(r) /\ MoviesVar'
    BY <1>1, <1>2, <1>3, KeepsOf, HashKeptUnchanged DEF MoviesVar, videoVars
  <1>6. kind # "none" /\ (kind \in Creating => m = r) /\ (kind \notin Creating => Created(m))
    BY CatalogAssumption DEF Send
  <1>7. AboutMovie(r)'
    BY <1>2, <1>4, <1>5, <1>6 DEF AboutMovie, Keeps, SentName
  <1>8. Progress(r)'
    BY <1>2, <1>3, <1>4, <1>6 DEF Progress, At, Creating, videoVars, SentStep
  <1>9. CopyOK(r)'
    BY <1>2, <1>4 DEF CopyOK, At, Creating, SentStep
  <1> QED
    BY <1>2, <1>5, <1>7, <1>8, <1>9 DEF After, RequestOK

LEMMA CheckHashStep ==
    ASSUME CatalogInv, NEW r \in Requests, CheckHash(r)
    PROVE  After(r)
  <1>1. /\ request[r] \in Request /\ RequestVar /\ MoviesVar /\ RequestOK(r)
        /\ request[r].movie \in Requests
        /\ At(r, Creating, "check") /\ UNCHANGED <<movies, images, dropped, videoVars>>
    BY Before DEF CheckHash
  <1>2. MoviesVar' /\ HashKept
    BY <1>1, HashKeptUnchanged DEF MoviesVar
  <1>3. CASE Ends(r, "409")
    BY <1>1, <1>2, <1>3, EndedOK DEF After, Answers, At, videoVars
  <1>4. ASSUME NEW step \in {"queue", "insert"}, Goes(r, step),
               step = "queue" <=> request[r].kind = "create"
        PROVE  After(r)
    <2>1. /\ RequestVar'
          /\ \A q \in Requests \ {r} : request'[q] = request[q]
          /\ request'[r] = [request[r] EXCEPT !.step = step]
      BY <1>1, <1>4, GoesType DEF Steps
    <2>2. /\ request'[r].step = step /\ request'[r].kind = request[r].kind
          /\ request'[r].movie = request[r].movie /\ request'[r].name = request[r].name
          /\ request'[r].copy = request[r].copy /\ request'[r].answer = request[r].answer
      BY <1>1, <2>1 DEF Request
    <2>3. Keeps(r)
      BY <1>1, <1>2, <2>1, <2>2, KeepsOf DEF At, videoVars
    <2>4. AboutMovie(r)'
      BY <1>1, <2>2, <2>3 DEF AboutMovie, Keeps, RequestOK
    <2>5. Progress(r)'
      BY <1>1, <1>4, <2>2 DEF Progress, At, Creating, videoVars, RequestOK
    <2>6. /\ request'[r].copy = NoMovie /\ request'[r].step \in {"queue", "insert"}
          /\ request'[r].kind \notin {"poster", "backdrop"}
      BY <1>1, <1>4, <2>2 DEF At, Creating, RequestOK, AboutMovie
    <2>7. CopyOK(r)'
      BY <2>6 DEF CopyOK, At
    <2> QED
      BY <1>2, <2>1, <2>3, <2>4, <2>5, <2>7 DEF After, RequestOK
  <1> QED
    BY <1>1, <1>3, <1>4 DEF CheckHash, At, Creating

LEMMA QueueFirstPosterStep ==
    ASSUME CatalogInv, NEW r \in Requests, QueueFirstPoster(r)
    PROVE  After(r)
  <1>1. /\ request[r] \in Request /\ RequestVar /\ MoviesVar /\ RequestOK(r)
        /\ request[r].movie \in Requests
        /\ At(r, {"create"}, "queue") /\ UNCHANGED <<movies, dropped, videoVars>>
        /\ images' = images \cup {r} /\ Goes(r, "insert")
    BY Before DEF QueueFirstPoster
  <1>2. MoviesVar' /\ HashKept
    BY <1>1, HashKeptUnchanged DEF MoviesVar
  <1>3. /\ RequestVar'
        /\ \A q \in Requests \ {r} : request'[q] = request[q]
        /\ request'[r] = [request[r] EXCEPT !.step = "insert"]
    BY <1>1, GoesType DEF Steps
  <1>4. /\ request'[r].step = "insert" /\ request'[r].kind = request[r].kind
        /\ request'[r].movie = request[r].movie /\ request'[r].name = request[r].name
        /\ request'[r].copy = request[r].copy /\ request'[r].answer = request[r].answer
    BY <1>1, <1>3 DEF Request
  <1>5. Keeps(r)
    BY <1>1, <1>2, <1>3, <1>4, KeepsOf DEF At, videoVars
  <1>6. AboutMovie(r)'
    BY <1>1, <1>4, <1>5 DEF AboutMovie, Keeps, RequestOK
  <1>7. Progress(r)'
    BY <1>1, <1>4 DEF Progress, At, Creating, videoVars, RequestOK
  <1>8. request'[r].copy = NoMovie
    BY <1>1, <1>4 DEF At, Creating, RequestOK, AboutMovie
  <1>9. CopyOK(r)'
    BY <1>4, <1>8 DEF CopyOK, At
  <1> QED
    BY <1>2, <1>3, <1>5, <1>6, <1>7, <1>9 DEF After, RequestOK

LEMMA ReadsStep ==
    ASSUME CatalogInv, NEW r \in Requests,
           NEW kinds \in {{"poster", "backdrop"}, {"video"}, {"publish", "unpublish"}, {"delete"}},
           NEW step \in {"queue", "drop", "store", "write", "remove"}, Reads(r, kinds, step),
           step = "drop" => HasVideo(r)
    PROVE  After(r)
  <1>1. /\ request[r] \in Request /\ RequestVar /\ MoviesVar /\ RequestOK(r)
        /\ request[r].movie \in Requests
        /\ At(r, kinds, "read") /\ UNCHANGED <<movies, images, videoVars>>
    BY Before DEF Reads
  <1>2. MoviesVar' /\ HashKept
    BY <1>1, HashKeptUnchanged DEF MoviesVar
  <1>3. /\ RequestVar'
        /\ \A q \in Requests \ {r} : request'[q] = request[q]
        /\ request'[r].movie = request[r].movie
        /\ request'[r].kind = request[r].kind /\ request'[r].name = request[r].name
    BY <1>1, ReadsType DEF Steps
  <1>4. Keeps(r)
    BY <1>1, <1>2, <1>3, KeepsOf DEF At, videoVars
  <1>5. request[r].kind \notin Creating \cup {"none"}
    BY <1>1, CatalogAssumption DEF At, Creating
  <1>6. AboutMovie(r)'
    BY <1>1, <1>3, <1>4, <1>5 DEF AboutMovie, Keeps, RequestOK
  <1>7. request[r].answer # "201"
    BY <1>1, <1>5 DEF RequestOK, Progress
  <1>8. CASE ~Live(request[r].movie)
    <2>1. request'[r].step = "done" /\ request'[r].answer = "404" /\ request'[r].copy = NoMovie
      BY <1>1, <1>8, ReadsType DEF Steps
    <2>2. Progress(r)'
      BY <1>1, <1>3, <1>5, <2>1 DEF Progress, At, RequestOK, videoVars
    <2>3. CopyOK(r)'
      BY <2>1 DEF CopyOK, At
    <2> QED
      BY <1>2, <1>3, <1>4, <1>6, <2>2, <2>3 DEF After, RequestOK
  <1>9. CASE Live(request[r].movie)
    <2>1. request'[r].step = step /\ request'[r].answer = request[r].answer
            /\ request'[r].copy = movies[request[r].movie]
      BY <1>1, <1>9, ReadsType DEF Steps
    <2>2. Progress(r)'
      BY <1>1, <1>3, <1>5, <1>7, <2>1 DEF Progress, At, RequestOK, videoVars, Creating
    <2>3. PartsOf(request[r].movie, movies[request[r].movie])
      BY <1>1, <1>9 DEF CatalogInv, MoviesOK
    <2>4. /\ PartsOf(request[r].movie, request[r].copy)'
          /\ request'[r].copy = movies'[request'[r].movie]
          /\ request'[r].copy # NoMovie
      BY <1>1, <1>3, <1>4, <1>9, <2>1, <2>3 DEF PartsOf, Keeps, Live
    <2>5. step = "drop" => request'[r].copy.video # Nothing
      BY <2>1 DEF HasVideo
    <2>6. CopyOK(r)'
      BY <1>3, <2>1, <2>4, <2>5 DEF CopyOK, At
    <2> QED
      BY <1>2, <1>3, <1>4, <1>6, <2>2, <2>6 DEF After, RequestOK
  <1> QED
    BY <1>8, <1>9

\* The movie that a creation inserts.
NewMovie(r) ==
    [name |-> request[r].name, hash |-> request[r].name, isPublished |-> FALSE,
     poster |-> IF request[r].kind = "create" THEN r ELSE Default,
     backdrop |-> Nothing, video |-> Nothing]

LEMMA InsertMovieStep ==
    ASSUME CatalogInv, NEW r \in Requests, InsertMovie(r)
    PROVE  After(r)
  <1>1. /\ request[r] \in Request /\ RequestVar /\ MoviesVar /\ RequestOK(r)
        /\ At(r, Creating, "insert") /\ UNCHANGED <<images, dropped, videoVars>>
    BY Before DEF InsertMovie
  <1>2. CASE Ends(r, "500") /\ UNCHANGED movies
    <2>1. MoviesVar' /\ HashKept
      BY <1>1, <1>2, HashKeptUnchanged DEF MoviesVar
    <2> QED
      BY <1>1, <1>2, <2>1, EndedOK DEF After, Answers, At, videoVars
  <1>3. CASE Ends(r, "201") /\ movies' = [movies EXCEPT ![r] = NewMovie(r)]
    <2>1. request[r].name \in Names
      BY <1>1 DEF RequestOK, AboutMovie, At
    <2>2. NewMovie(r) \in Movie
      BY <2>1 DEF NewMovie, Movie
    <2>3. MoviesVar'
      BY <1>1, <1>3, <2>2 DEF MoviesVar
    <2>4. ~Created(r)
      BY <1>1 DEF Created, RequestOK, Progress, At
    <2>5. HashKept
      BY <1>1, <1>3, <2>4 DEF HashKept, Live, MoviesVar
    <2> QED
      BY <1>1, <1>3, <2>3, <2>5, EndedOK DEF After, Answers, At, videoVars
  <1> QED
    BY <1>2, <1>3 DEF InsertMovie, NewMovie

LEMMA RenameStep ==
    ASSUME CatalogInv, NEW r \in Requests, Rename(r)
    PROVE  After(r)
  <1>1. /\ request[r] \in Request /\ RequestVar /\ MoviesVar /\ RequestOK(r)
        /\ request[r].movie \in Requests
        /\ At(r, {"rename"}, "write") /\ UNCHANGED <<images, dropped, videoVars>>
    BY Before DEF Rename
  <1> DEFINE m == request[r].movie
  <1>2. CASE Ends(r, "404") /\ UNCHANGED movies
    <2>1. MoviesVar' /\ HashKept
      BY <1>1, <1>2, HashKeptUnchanged DEF MoviesVar
    <2> QED
      BY <1>1, <1>2, <2>1, EndedOK DEF After, Answers, At, videoVars
  <1>3. CASE Ends(r, "200") /\ Live(m) /\ movies' = [movies EXCEPT ![m].name = request[r].name]
    <2>1. request[r].name \in Names
      BY <1>1 DEF RequestOK, AboutMovie, At
    <2>2. movies[m] \in Movie
      BY <1>1, <1>3 DEF MoviesVar, Live
    <2>3. /\ movies' = [movies EXCEPT ![m] = [movies[m] EXCEPT !.name = request[r].name]]
          /\ [movies[m] EXCEPT !.name = request[r].name] \in Movie
          /\ [movies[m] EXCEPT !.name = request[r].name].hash = movies[m].hash
      BY <1>1, <1>3, <2>1, <2>2 DEF MoviesVar, Movie
    <2>4. MoviesVar'
      BY <1>1, <2>3 DEF MoviesVar
    <2>5. HashKept
      BY <1>1, <1>3, <2>3 DEF HashKept, Live, MoviesVar
    <2> QED
      BY <1>1, <1>3, <2>4, <2>5, EndedOK DEF After, Answers, At, videoVars
  <1> QED
    BY <1>2, <1>3 DEF Rename, Live

\* A write of a whole movie with the hash that the movie has, if there is one.
LEMMA WrittenOK ==
    ASSUME MoviesVar, NEW m \in Requests, NEW movie \in Movie,
           Live(m) => movie.hash = movies[m].hash,
           movies' = Written(m, movie)
    PROVE  MoviesVar' /\ HashKept
  BY DEF MoviesVar, HashKept, Live, Written

LEMMA WriteBackStep ==
    ASSUME CatalogInv, NEW r \in Requests, WriteBack(r)
    PROVE  After(r)
  <1>1. /\ request[r] \in Request /\ RequestVar /\ MoviesVar /\ RequestOK(r)
        /\ request[r].movie \in Requests /\ request[r].copy \in Movie \cup {NoMovie}
        /\ At(r, {"poster", "backdrop", "video"}, "write")
        /\ Ends(r, "200") /\ UNCHANGED <<images, dropped, videoVars>>
        /\ movies' = Written(request[r].movie, request[r].copy)
    BY Before DEF WriteBack
  <1>2. /\ request[r].copy \in Movie
        /\ Live(request[r].movie) => request[r].copy.hash = movies[request[r].movie].hash
    BY <1>1 DEF RequestOK, CopyOK, At
  <1>3. MoviesVar' /\ HashKept
    BY <1>1, <1>2, WrittenOK
  <1> QED
    BY <1>1, <1>3, EndedOK DEF After, Answers, At, videoVars

LEMMA WritePublishedStep ==
    ASSUME CatalogInv, NEW r \in Requests, WritePublished(r)
    PROVE  After(r)
  <1> DEFINE movie == [request[r].copy EXCEPT !.isPublished = request[r].kind = "publish"]
  <1>1. /\ request[r] \in Request /\ RequestVar /\ MoviesVar /\ RequestOK(r)
        /\ request[r].movie \in Requests /\ request[r].copy \in Movie \cup {NoMovie}
        /\ At(r, {"publish", "unpublish"}, "write")
        /\ UNCHANGED <<images, dropped, videoVars>>
        /\ movies' = Written(request[r].movie, movie)
    BY Before DEF WritePublished
  <1>2. \E answer \in {"500", "200"} : Ends(r, answer)
    BY DEF WritePublished
  <1>3. /\ request[r].copy \in Movie
        /\ Live(request[r].movie) => request[r].copy.hash = movies[request[r].movie].hash
    BY <1>1 DEF RequestOK, CopyOK, At
  <1>4. movie \in Movie /\ movie.hash = request[r].copy.hash
    BY <1>3 DEF Movie
  <1> HIDE DEF movie
  <1>5. MoviesVar' /\ HashKept
    BY <1>1, <1>3, <1>4, WrittenOK
  <1> QED
    BY <1>1, <1>2, <1>5, EndedOK DEF After, Answers, At, videoVars

LEMMA RemoveMovieStep ==
    ASSUME CatalogInv, NEW r \in Requests, RemoveMovie(r)
    PROVE  After(r)
  <1>1. /\ request[r] \in Request /\ RequestVar /\ MoviesVar /\ RequestOK(r)
        /\ At(r, {"delete"}, "remove") /\ Ends(r, "204") /\ UNCHANGED <<images, videoVars>>
        /\ movies' = [movies EXCEPT ![request[r].movie] = NoMovie]
    BY Before DEF RemoveMovie
  <1>2. MoviesVar' /\ HashKept
    BY <1>1 DEF MoviesVar, HashKept, Live
  <1> QED
    BY <1>1, <1>2, EndedOK DEF After, Answers, At, videoVars

LEMMA AwaitThrowsStep ==
    ASSUME CatalogInv, NEW r \in Requests, AwaitThrows(r)
    PROVE  After(r)
  <1>1. /\ MoviesVar /\ request[r].step \notin {"new", "done"}
        /\ Ends(r, "500") /\ UNCHANGED <<movies, images, dropped, videoVars>>
    BY Before DEF AwaitThrows, Active
  <1>2. MoviesVar' /\ HashKept
    BY <1>1, HashKeptUnchanged DEF MoviesVar
  <1> QED
    BY <1>1, <1>2, EndedOK DEF After, Answers, videoVars

LEMMA QueueImageStep ==
    ASSUME CatalogInv, NEW r \in Requests, QueueImage(r)
    PROVE  After(r)
  <1> DEFINE part == request[r].kind
  <1>1. /\ request[r] \in Request /\ RequestVar /\ MoviesVar /\ RequestOK(r)
        /\ request[r].movie \in Requests /\ request[r].copy \in Movie \cup {NoMovie}
        /\ At(r, {"poster", "backdrop"}, "queue") /\ UNCHANGED <<movies, dropped, videoVars>>
        /\ images' = images \cup {r}
        /\ request' = [request EXCEPT ![r].step = "write", ![r].copy[part] = r]
    BY Before DEF QueueImage
  <1>2. MoviesVar' /\ HashKept
    BY <1>1, HashKeptUnchanged DEF MoviesVar
  <1>3. request[r].copy \in Movie /\ part \in {"poster", "backdrop"}
    BY <1>1 DEF RequestOK, CopyOK, At
  <1> HIDE DEF part
  <1>4. /\ RequestVar'
        /\ \A q \in Requests \ {r} : request'[q] = request[q]
        /\ request'[r].movie = request[r].movie
        /\ request'[r].kind = request[r].kind /\ request'[r].name = request[r].name
        /\ request'[r].step = "write" /\ request'[r].answer = request[r].answer
        /\ request'[r].copy = [request[r].copy EXCEPT ![part] = r]
        /\ request'[r].copy \in Movie
    BY <1>1, <1>3, CopiesType
  <1>5. Keeps(r)
    BY <1>1, <1>2, <1>4, KeepsOf DEF At, videoVars
  <1>6. AboutMovie(r)'
    BY <1>1, <1>4, <1>5 DEF AboutMovie, Keeps, RequestOK, At, Creating
  <1>7. Progress(r)'
    BY <1>1, <1>4 DEF Progress, At, videoVars, RequestOK, Creating
  <1>8. /\ request'[r].copy.hash = request[r].copy.hash
        /\ request'[r].copy.video = request[r].copy.video
        /\ request'[r].copy.poster \in {r, request[r].copy.poster}
        /\ request'[r].copy.backdrop \in {r, request[r].copy.backdrop}
    BY <1>3, <1>4 DEF Movie
  <1>9. /\ PartsOf(request[r].movie, request[r].copy)
        /\ Live(request[r].movie) => request[r].copy.hash = movies[request[r].movie].hash
    BY <1>1, <1>3, NoMovieAssumption DEF RequestOK, CopyOK
  <1>10. PartsOf(request[r].movie, request[r].copy)'
    <2>1. \A i \in {request[r].copy.poster, request[r].copy.backdrop} \ {Nothing, Default} :
             i \in images' /\ request'[i].movie = request[r].movie
      BY <1>5, <1>9 DEF PartsOf, Keeps
    <2>2. r \in images' /\ request'[r].movie = request[r].movie
      BY <1>1, <1>4
    <2>3. request'[r].copy.video \in known' \cup {Nothing}
      BY <1>1, <1>8, <1>9 DEF PartsOf, videoVars
    <2>4. \A i \in {request'[r].copy.poster, request'[r].copy.backdrop} \ {Nothing, Default} :
             i \in images' /\ request'[i].movie = request[r].movie
      BY <1>8, <2>1, <2>2
    <2> QED
      BY <1>4, <2>3, <2>4 DEF PartsOf
  <1>11. CopyOK(r)'
    BY <1>1, <1>3, <1>4, <1>8, <1>9, <1>10, NoMovieAssumption DEF CopyOK, At, Live
  <1> QED
    BY <1>2, <1>4, <1>5, <1>6, <1>7, <1>11 DEF After, RequestOK

LEMMA StoreVideoStep ==
    ASSUME CatalogInv, NEW r \in Requests, StoreVideo(r)
    PROVE  After(r) /\ r \notin known
  <1>1. /\ request[r] \in Request /\ RequestVar /\ MoviesVar /\ RequestOK(r)
        /\ request[r].movie \in Requests /\ request[r].copy \in Movie \cup {NoMovie}
        /\ At(r, {"video"}, "store") /\ UNCHANGED <<movies, images, dropped>>
        /\ known' = known \cup {r}
        /\ request' = [request EXCEPT ![r].step = "write", ![r].copy.video = r]
    BY Before DEF StoreVideo, Store!Create
  <1>2. MoviesVar' /\ HashKept
    BY <1>1, HashKeptUnchanged DEF MoviesVar
  <1>3. request[r].copy \in Movie
    BY <1>1 DEF RequestOK, CopyOK, At
  <1>4. /\ RequestVar'
        /\ \A q \in Requests \ {r} : request'[q] = request[q]
        /\ request'[r].movie = request[r].movie
        /\ request'[r].kind = request[r].kind /\ request'[r].name = request[r].name
        /\ request'[r].step = "write" /\ request'[r].answer = request[r].answer
        /\ request'[r].copy = [request[r].copy EXCEPT !["video"] = r]
        /\ request'[r].copy \in Movie
    BY <1>1, <1>3, CopiesType
  <1>5. Keeps(r)
    BY <1>1, <1>2, <1>4, KeepsOf DEF At
  <1>6. AboutMovie(r)'
    BY <1>1, <1>4, <1>5 DEF AboutMovie, Keeps, RequestOK, At, Creating
  <1>7. Progress(r)' /\ r \notin known
    BY <1>1, <1>4 DEF Progress, At, RequestOK, Creating
  <1>8. /\ request'[r].copy.hash = request[r].copy.hash
        /\ request'[r].copy.video = r
        /\ request'[r].copy.poster = request[r].copy.poster
        /\ request'[r].copy.backdrop = request[r].copy.backdrop
    BY <1>3, <1>4 DEF Movie
  <1>9. /\ PartsOf(request[r].movie, request[r].copy)
        /\ Live(request[r].movie) => request[r].copy.hash = movies[request[r].movie].hash
    BY <1>1, <1>3, NoMovieAssumption DEF RequestOK, CopyOK
  <1>10. PartsOf(request[r].movie, request[r].copy)'
    <2>1. \A i \in {request[r].copy.poster, request[r].copy.backdrop} \ {Nothing, Default} :
             i \in images' /\ request'[i].movie = request[r].movie
      BY <1>5, <1>9 DEF PartsOf, Keeps
    <2>2. request'[r].copy.video \in known'
      BY <1>1, <1>8
    <2> QED
      BY <1>4, <1>8, <2>1, <2>2 DEF PartsOf
  <1>11. CopyOK(r)'
    BY <1>1, <1>3, <1>4, <1>8, <1>9, <1>10, NoMovieAssumption DEF CopyOK, At, Live
  <1> QED
    BY <1>2, <1>4, <1>5, <1>6, <1>7, <1>11 DEF After, RequestOK

LEMMA AskDeletionStep ==
    ASSUME CatalogInv, NEW r \in Requests, AskDeletion(r)
    PROVE  After(r) /\ request[r].copy.video \in known
  <1>1. /\ request[r] \in Request /\ RequestVar /\ MoviesVar /\ RequestOK(r)
        /\ request[r].movie \in Requests /\ request[r].copy \in Movie \cup {NoMovie}
        /\ At(r, {"video", "delete"}, "drop")
        /\ UNCHANGED <<movies, images, state, bytes, known>>
        /\ \E step \in {"store", "remove"} : Goes(r, step)
    BY Before DEF AskDeletion
  <1>2. MoviesVar' /\ HashKept
    BY <1>1, HashKeptUnchanged DEF MoviesVar
  <1>3. /\ RequestVar'
        /\ \A q \in Requests \ {r} : request'[q] = request[q]
        /\ \E step \in {"store", "remove"} : request'[r] = [request[r] EXCEPT !.step = step]
    BY <1>1, GoesType DEF Steps
  <1>4. /\ request'[r].step \in {"store", "remove"} /\ request'[r].kind = request[r].kind
        /\ request'[r].movie = request[r].movie /\ request'[r].name = request[r].name
        /\ request'[r].copy = request[r].copy /\ request'[r].answer = request[r].answer
    BY <1>1, <1>3 DEF Request
  <1>5. Keeps(r)
    BY <1>1, <1>2, <1>3, <1>4, KeepsOf DEF At
  <1>6. AboutMovie(r)'
    BY <1>1, <1>4, <1>5 DEF AboutMovie, Keeps, RequestOK
  <1>7. Progress(r)'
    BY <1>1, <1>4 DEF Progress, At, RequestOK
  <1>8. /\ request[r].copy # NoMovie /\ request[r].copy.video # Nothing
        /\ PartsOf(request[r].movie, request[r].copy)
        /\ Live(request[r].movie) => request[r].copy.hash = movies[request[r].movie].hash
    BY <1>1 DEF RequestOK, CopyOK, At
  <1>9. PartsOf(request[r].movie, request[r].copy)'
    BY <1>1, <1>4, <1>5, <1>8 DEF PartsOf, Keeps
  <1>10. CopyOK(r)'
    BY <1>1, <1>4, <1>8, <1>9 DEF CopyOK, At, Live
  <1>11. request[r].copy.video \in known
    BY <1>8 DEF PartsOf
  <1> QED
    BY <1>2, <1>3, <1>5, <1>6, <1>7, <1>10, <1>11 DEF After, RequestOK

\* The workers change neither what was created nor what was asked for.
LEMMA BackgroundKeeps ==
    ASSUME NEW v \in Requests, Store!Background(v)
    PROVE  UNCHANGED <<known, asked>>
  BY DEF Store!Background, Store!Begin, Store!Store, Store!Finish, Store!Erase, Store!Drop

-----------------------------------------------------------------------------
(* The invariant *)

LEMMA WorkAfter ==
    ASSUME CatalogInv, NEW r \in Requests, Work(r)
    PROVE  \/ After(r)
           \/ UNCHANGED <<movies, request, images, dropped, known, asked>>
  <1>1. ASSUME NEW kind \in Kinds, NEW m \in Requests, NEW name \in Names, Send(r, kind, m, name)
        PROVE  After(r)
    BY <1>1, SendStep
  <1>2. CASE CheckHash(r)
    BY <1>2, CheckHashStep
  <1>3. CASE QueueFirstPoster(r)
    BY <1>3, QueueFirstPosterStep
  <1>4. CASE InsertMovie(r)
    BY <1>4, InsertMovieStep
  <1>5. CASE Rename(r)
    BY <1>5, RenameStep
  <1>6. CASE ReadForImage(r) \/ ReadForVideo(r) \/ ReadToPublish(r) \/ ReadToDelete(r)
    <2>1. \E kinds \in {{"poster", "backdrop"}, {"video"}, {"publish", "unpublish"}, {"delete"}},
             step \in {"queue", "drop", "store", "write", "remove"} :
                Reads(r, kinds, step) /\ (step = "drop" => HasVideo(r))
      <3>1. CASE ReadForImage(r)
        BY <3>1 DEF ReadForImage
      <3>2. CASE ReadForVideo(r)
        BY <3>2 DEF ReadForVideo
      <3>3. CASE ReadToPublish(r)
        BY <3>3 DEF ReadToPublish
      <3>4. CASE ReadToDelete(r) /\ ~HasVideo(r)
        BY <3>4 DEF ReadToDelete, Reads
      <3>5. CASE ReadToDelete(r) /\ HasVideo(r)
        BY <3>5 DEF ReadToDelete
      <3> QED
        BY <1>6, <3>1, <3>2, <3>3, <3>4, <3>5
    <2> QED
      BY <2>1, ReadsStep
  <1>7. CASE QueueImage(r)
    BY <1>7, QueueImageStep
  <1>8. CASE AskDeletion(r)
    BY <1>8, AskDeletionStep
  <1>9. CASE StoreVideo(r)
    BY <1>9, StoreVideoStep
  <1>10. CASE WriteBack(r)
    BY <1>10, WriteBackStep
  <1>11. CASE WritePublished(r)
    BY <1>11, WritePublishedStep
  <1>12. CASE RemoveMovie(r)
    BY <1>12, RemoveMovieStep
  <1>13. CASE AwaitThrows(r)
    BY <1>13, AwaitThrowsStep
  <1>14. CASE VideoWork(r)
    BY <1>14, BackgroundKeeps DEF VideoWork
  <1> QED
    BY <1>1, <1>2, <1>3, <1>4, <1>5, <1>6, <1>7, <1>8, <1>9, <1>10, <1>11, <1>12, <1>13, <1>14
       DEF Work

\* A step that leaves every movie, or gives it parts of its own.
LEMMA MoviesFrom ==
    ASSUME CatalogInv, NEW r \in Requests, Keeps(r),
           \A m \in Requests : Live(m)' => Created(m) /\ PartsOf(m, movies'[m])
    PROVE  MoviesOK' /\ UniqueHash'
  <1>1. ASSUME NEW m \in Requests, Live(m)'
        PROVE  Created(m)' /\ PartsOf(m, movies[m])'
    <2>1. Created(m) /\ PartsOf(m, movies'[m])
      BY <1>1
    <2> QED
      BY <2>1 DEF PartsOf, Keeps
  <1>2. ASSUME NEW m \in Requests, NEW n \in Requests, Live(m)', Live(n)',
               movies'[m].hash = movies'[n].hash
        PROVE  m = n
    <2>1. Created(m) /\ Created(n)
      BY <1>2
    <2>2. Live(m) /\ Live(n) /\ movies[m].hash = movies[n].hash
      BY <1>2, <2>1 DEF Keeps, HashKept
    <2> QED
      BY <2>2 DEF CatalogInv, UniqueHash
  <1> QED
    BY <1>1, <1>2 DEF MoviesOK, UniqueHash, Live

LEMMA MoviesStay ==
    ASSUME CatalogInv, NEW r \in Requests, Keeps(r), UNCHANGED movies
    PROVE  MoviesOK' /\ UniqueHash'
  <1>1. \A m \in Requests : Live(m)' => Created(m) /\ PartsOf(m, movies'[m])
    BY DEF CatalogInv, MoviesOK, Live
  <1> QED
    BY <1>1, MoviesFrom

LEMMA InsertedMovies ==
    ASSUME CatalogInv, NEW r \in Requests, InsertMovie(r)
    PROVE  MoviesOK' /\ UniqueHash'
  <1>1. Keeps(r) /\ RequestOK(r)'
    BY InsertMovieStep DEF After
  <1>2. CASE UNCHANGED movies
    BY <1>1, <1>2, MoviesStay
  <1>3. CASE /\ Ends(r, "201") /\ movies' = [movies EXCEPT ![r] = NewMovie(r)]
             /\ \A m \in Requests : ~(Live(m) /\ movies[m].hash = request[r].name)
    <2>1. /\ RequestVar /\ MoviesVar /\ RequestOK(r) /\ At(r, Creating, "insert")
          /\ UNCHANGED <<images, videoVars>>
      BY Before DEF InsertMovie
    <2>2. /\ movies'[r] = NewMovie(r)
          /\ \A m \in Requests \ {r} : movies'[m] = movies[m]
      BY <1>3, <2>1 DEF MoviesVar
    <2>3. /\ NewMovie(r).hash = request[r].name
          /\ NewMovie(r).poster \in {r, Default} /\ NewMovie(r).backdrop = Nothing
          /\ NewMovie(r).video = Nothing
          /\ NewMovie(r).poster = r => r \in images \/ r = Default
      BY <2>1 DEF NewMovie, RequestOK, Progress, At
    <2>4. request'[r].answer = "201" /\ request'[r].kind = request[r].kind
          /\ request'[r].movie = request[r].movie /\ request[r].movie = r
      BY <1>3, <2>1, EndsType DEF Answers, RequestOK, AboutMovie, At
    <2>5. Created(r)' /\ PartsOf(r, movies[r])'
      BY <2>1, <2>2, <2>3, <2>4 DEF Created, PartsOf, At
    <2>6. ASSUME NEW m \in Requests \ {r}, Live(m)'
          PROVE  Live(m) /\ Created(m)' /\ PartsOf(m, movies[m])'
      <3>1. Live(m) /\ Created(m) /\ PartsOf(m, movies[m])
        BY <2>2, <2>6 DEF CatalogInv, MoviesOK, Live
      <3>2. movies'[m] = movies[m] /\ Created(m)'
        BY <1>1, <2>2, <3>1 DEF Keeps
      <3> QED
        BY <1>1, <3>1, <3>2 DEF PartsOf, Keeps
    <2>7. MoviesOK'
      BY <2>5, <2>6 DEF MoviesOK
    <2>8. UniqueHash'
      BY <1>3, <2>2, <2>3, <2>6 DEF UniqueHash, CatalogInv
    <2> QED
      BY <2>7, <2>8
  <1> QED
    BY <1>2, <1>3 DEF InsertMovie, NewMovie, Live

LEMMA RenamedMovies ==
    ASSUME CatalogInv, NEW r \in Requests, Rename(r)
    PROVE  MoviesOK' /\ UniqueHash'
  <1> DEFINE m == request[r].movie
  <1>1. Keeps(r) /\ MoviesVar
    BY Before, RenameStep DEF After
  <1>2. CASE UNCHANGED movies
    BY <1>1, <1>2, MoviesStay
  <1>3. CASE Live(m) /\ movies' = [movies EXCEPT ![m].name = request[r].name]
    <2>1. m \in Requests
      BY Before
    <2>2. movies[m] \in Movie
      BY <1>1, <1>3, <2>1 DEF MoviesVar, Live
    <2>3. /\ \A n \in Requests \ {m} : movies'[n] = movies[n]
          /\ movies'[m] = [movies[m] EXCEPT !.name = request[r].name]
      BY <1>1, <1>3, <2>1 DEF MoviesVar
    <2>4. /\ movies'[m].poster = movies[m].poster /\ movies'[m].backdrop = movies[m].backdrop
          /\ movies'[m].video = movies[m].video
      BY <2>2, <2>3 DEF Movie
    <2>5. Created(m) /\ PartsOf(m, movies[m])
      BY <1>3, <2>1 DEF CatalogInv, MoviesOK
    <2>6. PartsOf(m, movies'[m])
      BY <2>4, <2>5 DEF PartsOf
    <2>7. \A n \in Requests : Live(n)' => Created(n) /\ PartsOf(n, movies'[n])
      BY <2>3, <2>5, <2>6 DEF CatalogInv, MoviesOK, Live
    <2> QED
      BY <1>1, <2>7, MoviesFrom
  <1> QED
    BY <1>2, <1>3 DEF Rename, Live

LEMMA WrittenMovies ==
    ASSUME CatalogInv, NEW r \in Requests, Keeps(r), NEW movie \in Movie,
           movies' = Written(request[r].movie, movie),
           PartsOf(request[r].movie, movie)
    PROVE  MoviesOK' /\ UniqueHash'
  <1>1. MoviesVar /\ request[r].movie \in Requests
    BY Before
  <1>2. ASSUME NEW m \in Requests, Live(m)'
        PROVE  Created(m) /\ PartsOf(m, movies'[m])
    <2>1. Live(m) /\ movies'[m] = IF m = request[r].movie THEN movie ELSE movies[m]
      BY <1>1, <1>2 DEF Written, Live, MoviesVar
    <2> QED
      BY <2>1 DEF CatalogInv, MoviesOK
  <1> QED
    BY <1>2, MoviesFrom

LEMMA WorkMovies ==
    ASSUME CatalogInv, NEW r \in Requests, Work(r), After(r)
    PROVE  MoviesOK' /\ UniqueHash'
  <1>1. Keeps(r) /\ RequestOK(r) /\ request[r].copy \in Movie \cup {NoMovie}
    BY Before DEF After
  <1>2. CASE UNCHANGED movies
    BY <1>1, <1>2, MoviesStay
  <1>3. CASE InsertMovie(r)
    BY <1>3, InsertedMovies
  <1>4. CASE Rename(r)
    BY <1>4, RenamedMovies
  <1>5. CASE WriteBack(r)
    <2>1. request[r].copy \in Movie /\ PartsOf(request[r].movie, request[r].copy)
      BY <1>1, <1>5 DEF WriteBack, RequestOK, CopyOK, At
    <2> QED
      BY <1>1, <1>5, <2>1, WrittenMovies DEF WriteBack
  <1>6. CASE WritePublished(r)
    <2> DEFINE movie == [request[r].copy EXCEPT !.isPublished = request[r].kind = "publish"]
    <2>1. request[r].copy \in Movie /\ PartsOf(request[r].movie, request[r].copy)
      BY <1>1, <1>6 DEF WritePublished, RequestOK, CopyOK, At
    <2>2. /\ movie \in Movie /\ movie.poster = request[r].copy.poster
          /\ movie.backdrop = request[r].copy.backdrop /\ movie.video = request[r].copy.video
      BY <2>1 DEF Movie
    <2>3. movies' = Written(request[r].movie, movie)
      BY <1>6 DEF WritePublished
    <2> HIDE DEF movie
    <2>4. PartsOf(request[r].movie, movie)
      BY <2>1, <2>2 DEF PartsOf
    <2> QED
      BY <1>1, <2>2, <2>3, <2>4, WrittenMovies
  <1>7. CASE RemoveMovie(r)
    <2>1. \A m \in Requests : Live(m)' => Live(m) /\ movies'[m] = movies[m]
      BY <1>7, Before DEF RemoveMovie, Live, MoviesVar
    <2>2. \A m \in Requests : Live(m)' => Created(m) /\ PartsOf(m, movies'[m])
      BY <2>1 DEF CatalogInv, MoviesOK
    <2> QED
      BY <1>1, <2>2, MoviesFrom
  <1> QED
    BY <1>2, <1>3, <1>4, <1>5, <1>6, <1>7
       DEF Work, Send, CheckHash, QueueFirstPoster, ReadForImage, ReadForVideo, ReadToPublish,
           ReadToDelete, Reads, QueueImage, AskDeletion, StoreVideo, AwaitThrows, VideoWork

\* A deletion that is under way ends with the movie gone, or failed.
LEMMA DeletingStays ==
    ASSUME CatalogInv, NEW r \in Requests, Work(r), After(r), NEW m \in Requests, Deleting(m)
    PROVE  Deleting(m)' \/ movies'[m] = NoMovie
  <1>1. Keeps(r) /\ RequestVar /\ RequestOK(r) /\ MoviesVar
    BY Before DEF After
  <1>2. PICK q \in Requests :
           /\ request[q].kind = "delete" /\ request[q].movie = m
           /\ request[q].step = "remove" \/ request[q].answer = "500"
    BY DEF Deleting
  <1>3. CASE request'[q] = request[q]
    BY <1>2, <1>3 DEF Deleting
  <1>4. CASE request'[q] # request[q]
    <2>1. q = r
      BY <1>1, <1>4 DEF Keeps
    <2>2. request[r].step = "remove" \/ request[r].step = "done"
      BY <1>1, <1>2, <2>1 DEF RequestOK, Progress
    <2>3. RemoveMovie(r) \/ AwaitThrows(r)
      BY <1>2, <1>4, <2>1, <2>2
         DEF Work, Send, CheckHash, QueueFirstPoster, InsertMovie, Rename, ReadForImage,
             ReadForVideo, ReadToPublish, ReadToDelete, Reads, QueueImage, AskDeletion,
             StoreVideo, WriteBack, WritePublished, VideoWork, At, Creating
    <2>4. CASE RemoveMovie(r)
      BY <1>1, <1>2, <2>1, <2>4 DEF RemoveMovie, MoviesVar
    <2>5. CASE AwaitThrows(r)
      <3>1. Ends(r, "500")
        BY <2>5 DEF AwaitThrows
      <3>2. request'[r].answer = "500" /\ request'[r].kind = "delete" /\ request'[r].movie = m
        BY <1>1, <1>2, <2>1, <3>1, EndsType DEF Answers
      <3> QED
        BY <3>2 DEF Deleting
    <2> QED
      BY <2>3, <2>4, <2>5
  <1> QED
    BY <1>3, <1>4

\* The images that a deletion starts to delete are those of its movie.
LEMMA DropsOwn ==
    ASSUME CatalogInv, NEW r \in Requests, After(r), NEW movie \in Movie,
           dropped' = DroppedWith(movie), request[r].kind = "delete",
           request'[r].kind = "delete", request'[r].step = "remove",
           request'[r].movie = request[r].movie, PartsOf(request[r].movie, movie)
    PROVE  \A i \in dropped' \ dropped :
              i \in images' \cup {Default} /\ (i # Default => DroppedOf(request[i].movie)')
  <1> DEFINE m == request[r].movie
  <1>1. Keeps(r) /\ RequestOK(r) /\ m \in Requests
    BY Before DEF After
  <1>2. Created(m)
    BY <1>1 DEF RequestOK, AboutMovie, Creating
  <1>3. ASSUME NEW i \in dropped' \ dropped, i # Default
        PROVE  i \in images' /\ DroppedOf(request[i].movie)'
    <2>1. i \in images /\ request[i].movie = m
      BY <1>3 DEF DroppedWith, PartsOf
    <2>2. i \in images' /\ request'[i].movie = m
      BY <1>1, <2>1 DEF Keeps
    <2>3. request'[m].kind \in Creating /\ request'[m].answer = "201"
      BY <1>1, <1>2 DEF Keeps, Created
    <2>4. \E q \in Requests :
             /\ request'[q].kind = "delete" /\ request'[q].movie = m
             /\ request'[q].step = "remove" \/ request'[q].answer = "500"
      OBVIOUS
    <2> QED
      BY <2>2, <2>3, <2>4 DEF DroppedOf, Created, Deleting
  <1> QED
    BY <1>3

LEMMA DroppedStep ==
    ASSUME CatalogInv, NEW r \in Requests, Work(r), After(r)
    PROVE  DroppedGone' /\ dropped' \subseteq images' \cup {Default}
  <1>1. /\ Keeps(r) /\ RequestOK(r) /\ MoviesVar /\ RequestVar /\ request[r].movie \in Requests
        /\ dropped \subseteq images \cup {Default} /\ images \subseteq Requests
        /\ request[r].copy \in Movie \cup {NoMovie} /\ request[r] \in Request
    BY Before DEF After
  <1>2. ASSUME NEW i \in dropped
        PROVE  i \in images' \cup {Default} /\ (i # Default => DroppedOf(request[i].movie)')
    <2>1. CASE i # Default
      <3>1. i \in images /\ request[i].movie \in Requests /\ DroppedOf(request[i].movie)
        BY <1>1, <2>1, Before DEF CatalogInv, DroppedGone
      <3>2. PICK m \in Requests : m = request[i].movie
        BY <3>1
      <3>3. i \in images' /\ request'[i].movie = m
        BY <1>1, <3>1, <3>2 DEF Keeps
      <3>4. request'[m].kind \in Creating /\ request'[m].answer = "201"
        BY <1>1, <3>1, <3>2 DEF Keeps, DroppedOf, Created
      <3>5. ~Live(m) => movies'[m] = NoMovie
        BY <1>1, <3>1, <3>2 DEF Keeps, HashKept, DroppedOf, Live
      <3>6. Deleting(m) => Deleting(m)' \/ movies'[m] = NoMovie
        BY DeletingStays
      <3>7. Deleting(m)' \/ movies'[m] = NoMovie
        BY <3>1, <3>2, <3>5, <3>6 DEF DroppedOf
      <3>8. DroppedOf(m)'
        BY <3>4, <3>7 DEF DroppedOf, Created, Live
      <3> QED
        BY <3>3, <3>8 DEF DroppedOf, Created, Live, Deleting
    <2> QED
      BY <2>1
  <1>3. CASE dropped' = dropped
    BY <1>2, <1>3 DEF DroppedGone
  <1>4. ASSUME NEW movie \in Movie, dropped' = DroppedWith(movie), request[r].kind = "delete",
               request'[r].kind = "delete", request'[r].step = "remove",
               request'[r].movie = request[r].movie, PartsOf(request[r].movie, movie)
        PROVE  DroppedGone' /\ dropped' \subseteq images' \cup {Default}
    BY <1>2, <1>4, DropsOwn DEF DroppedGone
  <1>5. CASE ReadToDelete(r) /\ dropped' # dropped
    <2> DEFINE movie == movies[request[r].movie]
    <2>1. /\ movie # NoMovie /\ dropped' = DroppedWith(movie)
          /\ Reads(r, {"delete"}, "remove")
      BY <1>5 DEF ReadToDelete
    <2>2. /\ request'[r].kind = request[r].kind /\ request'[r].step = "remove"
          /\ request'[r].movie = request[r].movie
      BY <1>1, <2>1, ReadsType DEF Steps, Live
    <2>3. request[r].kind = "delete"
      BY <2>1 DEF Reads, At
    <2>4. movie \in Movie /\ PartsOf(request[r].movie, movie)
      BY <1>1, <2>1 DEF CatalogInv, MoviesOK, MoviesVar, Live
    <2> HIDE DEF movie
    <2> QED
      BY <1>4, <2>1, <2>2, <2>3, <2>4
  <1>6. CASE AskDeletion(r) /\ dropped' # dropped
    <2>1. /\ request[r].kind = "delete" /\ request[r].step = "drop"
          /\ Goes(r, "remove") /\ dropped' = DroppedWith(request[r].copy)
      BY <1>6 DEF AskDeletion, At
    <2>2. request'[r] = [request[r] EXCEPT !.step = "remove"]
      BY <1>1, <2>1, GoesType DEF Steps
    <2>3. /\ request'[r].kind = "delete" /\ request'[r].step = "remove"
          /\ request'[r].movie = request[r].movie
      BY <1>1, <2>1, <2>2 DEF Request
    <2>4. request[r].copy \in Movie /\ PartsOf(request[r].movie, request[r].copy)
      BY <1>1, <2>1 DEF RequestOK, CopyOK
    <2> QED
      BY <1>4, <2>1, <2>3, <2>4
  <1> QED
    BY <1>3, <1>5, <1>6
       DEF Work, Send, CheckHash, QueueFirstPoster, InsertMovie, Rename, ReadForImage,
           ReadForVideo, ReadToPublish, QueueImage, StoreVideo,
           WriteBack, WritePublished, RemoveMovie, AwaitThrows, VideoWork

\* What a step does to the videos module is a step of VideoStore, or none.
LEMMA VideoSteps ==
    ASSUME CatalogInv, NEW r \in Requests, Work(r)
    PROVE  Store!Next \/ UNCHANGED Store!storeVars
  <1>1. CASE StoreVideo(r)
    BY <1>1 DEF StoreVideo, Store!Next
  <1>2. CASE VideoWork(r)
    BY <1>2 DEF VideoWork, Store!Next
  <1>3. CASE AskDeletion(r)
    <2>1. request[r].copy.video \in known /\ known \subseteq Requests
      BY <1>3, AskDeletionStep, Before
    <2>2. Store!AskDeletion(request[r].copy.video)
      BY <1>3, <2>1 DEF AskDeletion, Store!AskDeletion
    <2> QED
      BY <2>1, <2>2 DEF Store!Next
  <1>4. CASE UNCHANGED videoVars
    BY <1>4 DEF videoVars, Store!storeVars
  <1> QED
    BY <1>1, <1>2, <1>3, <1>4
       DEF Work, Send, CheckHash, QueueFirstPoster, InsertMovie, Rename, ReadForImage,
           ReadForVideo, ReadToPublish, ReadToDelete, Reads, QueueImage, RemoveMovie,
           WriteBack, WritePublished, AwaitThrows

LEMMA StoreTypeStep ==
    ASSUME Store!TypeOK, Store!Next \/ UNCHANGED Store!storeVars
    PROVE  Store!TypeOK'
  BY DEF Store!TypeOK, Store!Next, Store!Create, Store!AskDeletion, Store!Background,
         Store!Begin, Store!Store, Store!Finish, Store!Erase, Store!Drop, Store!storeVars,
         Store!VideoStates, Store!Bytes

LEMMA InvStep ==
    ASSUME CatalogInv, [Next]_vars
    PROVE  CatalogInv'
  <1>1. CASE UNCHANGED vars
    BY <1>1 DEF vars, videoVars, CatalogInv, TypeOK, Store!TypeOK, RequestsOK, AboutMovie,
                Progress, CopyOK, PartsOf, MoviesOK, DroppedGone, DroppedOf, Deleting, UniqueHash, Live,
                Created, At
  <1>2. ASSUME NEW r \in Requests, Work(r), After(r), UNCHANGED alone
        PROVE  CatalogInv'
    <2>1. Keeps(r) /\ RequestVar' /\ MoviesVar' /\ RequestOK(r)'
      BY <1>2 DEF After
    <2>2. RequestsOK'
      BY <2>1, OthersOK DEF RequestsOK, RequestOK
    <2>3. MoviesOK' /\ UniqueHash' /\ DroppedGone' /\ dropped' \subseteq images' \cup {Default}
      BY <1>2, WorkMovies, DroppedStep
    <2>4. Store!TypeOK'
      BY <1>2, VideoSteps, StoreTypeStep DEF CatalogInv, TypeOK
    <2>5. images' \subseteq Requests
      BY <2>1, Before DEF Keeps
    <2>6. alone' \in BOOLEAN
      BY <1>2 DEF CatalogInv, TypeOK
    <2>7. TypeOK'
      BY <2>1, <2>3, <2>4, <2>5, <2>6 DEF TypeOK, RequestVar, MoviesVar
    <2> QED
      BY <2>2, <2>3, <2>7 DEF CatalogInv
  <1>3. ASSUME NEW r \in Requests, Work(r),
               UNCHANGED <<alone, movies, request, images, dropped, known, asked>>
        PROVE  CatalogInv'
    <2>1. Store!TypeOK'
      BY <1>3, VideoSteps, StoreTypeStep DEF CatalogInv, TypeOK
    <2> QED
      BY <1>3, <2>1 DEF CatalogInv, TypeOK, RequestsOK, AboutMovie,
                Progress, CopyOK, PartsOf, MoviesOK, DroppedGone, DroppedOf, Deleting, UniqueHash, Live,
                Created, At
  <1>4. ASSUME Next PROVE UNCHANGED alone /\ \E r \in Requests : Work(r)
    BY <1>4 DEF Next, Step, Work
  <1> QED
    BY <1>1, <1>2, <1>3, <1>4, WorkAfter

LEMMA InvInit == ASSUME Init PROVE CatalogInv
  <1>1. TypeOK
    BY CatalogAssumption
       DEF Init, Unsent, TypeOK, Request, Steps, Answers, Store!Init, Store!TypeOK,
           Store!VideoStates, Store!Bytes
  <1>2. RequestsOK
    BY DEF Init, Unsent, Store!Init, RequestsOK, AboutMovie, Progress, CopyOK, At, Creating
  <1>3. MoviesOK /\ DroppedGone /\ UniqueHash
    BY DEF Init, MoviesOK, DroppedGone, UniqueHash, Live
  <1> QED
    BY <1>1, <1>2, <1>3 DEF CatalogInv

\* CatalogInv holds of every state that MovieCatalog reaches.
THEOREM CatalogInvariant == Spec => []CatalogInv
  BY InvInit, InvStep, PTL DEF Spec

-----------------------------------------------------------------------------
(* Theorems *)

\* Every state has its types; in particular only images that were queued to be
\* made, and the default poster, are deleted, and only videos that were stored
\* (movies.service.ts:336-352).
THEOREM TypeCorrect == Spec => []TypeOK
  <1>1. CatalogInv => TypeOK
    BY DEF CatalogInv
  <1> QED
    BY <1>1, CatalogInvariant, PTL

\* No two movies have the same hash (movie.schema.ts:15), however many clients
\* create movies and whichever operations fail.
THEOREM HashesUnique == Spec => []UniqueHash
  <1>1. CatalogInv => UniqueHash
    BY DEF CatalogInv
  <1> QED
    BY <1>1, CatalogInvariant, PTL

\* The images that a movie has, written back by a request that read the movie
\* long before or not, were queued to be made, and deleteOne does not remove
\* them while the movie is there, unless that movie is what it deletes: the
\* images go first, and stay gone if the movie cannot be removed then
\* (movies.service.ts:342-354).
THEOREM ImagesOfMoviesKept == Spec => []ImagesKept
  <1>1. CatalogInv => ImagesKept
    <2> SUFFICES ASSUME CatalogInv, NEW m \in Requests, Live(m),
                        NEW i \in {movies[m].poster, movies[m].backdrop} \ {Nothing, Default}
                 PROVE  i \in images /\ (i \in dropped => Deleting(m))
      BY DEF ImagesKept
    <2>1. i \in images /\ request[i].movie = m
      BY DEF CatalogInv, MoviesOK, PartsOf
    <2> QED
      BY <2>1 DEF CatalogInv, DroppedGone, DroppedOf
  <1> QED
    BY <1>1, CatalogInvariant, PTL

\* A movie that was deleted never comes back: no request that has read it
\* before writes it again (movies.service.ts:153, 180, 214, 315).
THEOREM MoviesGoneForGood == Spec => GoneForGood
  <1>1. ASSUME CatalogInv, [Next]_vars
        PROVE  [\A m \in Requests : Created(m) /\ ~Live(m) => ~Live(m)']_vars
    <2>1. CASE UNCHANGED vars
      BY <2>1
    <2>2. ASSUME NEW r \in Requests, Work(r)
          PROVE  \A m \in Requests : Created(m) /\ ~Live(m) => ~Live(m)'
      <3>1. After(r) \/ UNCHANGED movies
        BY <1>1, <2>2, WorkAfter
      <3>2. HashKept
        BY <3>1, HashKeptUnchanged DEF After, Keeps
      <3> QED
        BY <3>2 DEF HashKept
    <2>3. ASSUME Next PROVE \E r \in Requests : Work(r)
      BY <2>3 DEF Next, Step, Work
    <2> QED
      BY <1>1, <2>1, <2>2, <2>3
  <1> QED
    BY <1>1, CatalogInvariant, PTL DEF Spec, GoneForGood

\* The catalogue uses the videos module as VideoStore allows, which
\* VideoPipeline implements: a video is asked to be deleted only after
\* createOneFromFile has returned it, and no id is stored twice.
THEOREM CatalogUsesVideoStore == Spec => UsesVideoStore
  <1>1. Init => Store!Init
    BY DEF Init
  <1>2. ASSUME CatalogInv, [Next]_vars
        PROVE  [Store!Next]_(Store!storeVars)
    <2>1. CASE UNCHANGED vars
      BY <2>1 DEF vars, videoVars, Store!storeVars
    <2>2. ASSUME Next PROVE \E r \in Requests : Work(r)
      BY <2>2 DEF Next, Step, Work
    <2> QED
      BY <1>2, <2>1, <2>2, VideoSteps
  <1> QED
    BY <1>1, <1>2, CatalogInvariant, PTL DEF Spec, UsesVideoStore, Store!Spec

-----------------------------------------------------------------------------
(* Clients who work on a movie one at a time *)

OneAtATime ==
    \A q, r \in Active : request[q].movie = request[r].movie => q = r

\* The request has a movie whose old video it has asked to be deleted, if there was one.
Replacing(r) == request[r].step \in {"store", "remove"} \/ At(r, {"video"}, "write")

\* What a request has read is still so when it writes, but for what it has changed itself.
Fresh(r) ==
    LET m    == request[r].movie
        copy == request[r].copy
        kind == request[r].kind
    IN  /\ request[r].step # "done" => request[r].answer = "none"
        /\ request[r].step = "done" => copy = NoMovie
        /\ request[r].step = "queue" => kind \in {"create", "poster", "backdrop"}
        /\ request[r].step = "drop" => kind \in {"video", "delete"}
        /\ request[r].step = "store" => kind = "video"
        /\ request[r].step = "remove" => kind = "delete"
        /\ request[r].step = "write" =>
              kind \in {"rename", "poster", "backdrop", "video", "publish", "unpublish"}
        /\ copy # NoMovie =>
              /\ Live(m)
              /\ copy = IF At(r, {"poster", "backdrop", "video"}, "write")
                        THEN [movies[m] EXCEPT ![kind] = r] ELSE movies[m]
        /\ Replacing(r) => movies[m].video \in asked \cup {Nothing}

\* The video of a movie was stored by a request that is done, and its deletion is
\* asked for only by one that will replace it.
VideoOfMovie(m) ==
    Live(m) /\ movies[m].video # Nothing =>
        LET v == movies[m].video
        IN  /\ request[v].movie = m /\ request[v].step = "done"
            /\ v \in asked =>
                  HasFailed(m) \/ \E q \in Requests : request[q].movie = m /\ Replacing(q)

\* A video that was stored has its record until it is deleted, and its movie has it
\* once the request is done.
StoredVideo(v) ==
    LET m == request[v].movie
    IN  /\ v \in asked \/ state[v] # "ABSENT"
        /\ v \in asked => request[v].step = "done"
        /\ request[v].step = "done" =>
              v \in asked \/ HasFailed(m) \/ (Live(m) /\ movies[m].video = v)

AloneInv ==
    alone => /\ OneAtATime
             /\ \A r \in Requests : Fresh(r) /\ VideoOfMovie(r)
             /\ \A v \in known : StoredVideo(v)

\* What a failed request leaves is not taken away.
LEMMA FailedStays ==
    ASSUME NEW r \in Requests, NEW m,
           \A q \in Requests \ {r} : request'[q] = request[q],
           request[r].answer # "500", HasFailed(m)
    PROVE  HasFailed(m)'
  BY DEF HasFailed

\* A step of r, which is about m: what has to hold of r and m for the rest to hold.
OwnStep(r, m) ==
    /\ Keeps(r) /\ request[r].step # "done"
    /\ request'[r].movie = m /\ (request[r].movie = m \/ request[r].step = "new")
    /\ \A q \in Active \ {r} : request[q].movie # m
    /\ \A n \in Requests \ {m} : movies'[n] = movies[n]
    /\ known' \subseteq known \cup {r}
    /\ \/ asked' = asked
       \/ Live(m) /\ movies[m].video # Nothing /\ asked' = asked \cup {movies[m].video}
    /\ \A v \in known : state'[v] = state[v]
    /\ Live(m) /\ movies[m].video # Nothing =>
          \/ HasFailed(m)' \/ movies[m].video \in asked'
          \/ Live(m)' /\ movies'[m].video = movies[m].video

LEMMA AloneStep ==
    ASSUME CatalogInv, AloneInv, alone, NEW r \in Requests, NEW m \in Requests, OwnStep(r, m),
           Fresh(r)', VideoOfMovie(m)', r \in known' => StoredVideo(r)'
    PROVE  AloneInv'
  <1>1. /\ OneAtATime /\ \A q \in Requests : Fresh(q) /\ VideoOfMovie(q)
        /\ \A v \in known : StoredVideo(v)
    BY DEF AloneInv
  <1>2. /\ \A q \in Requests \ {r} : request'[q] = request[q]
        /\ request[r].answer = "none" /\ request[r].step # "done"
        /\ asked \subseteq asked'
    BY <1>1 DEF OwnStep, Keeps, Fresh
  <1>3. \A n : HasFailed(n) => HasFailed(n)'
    BY <1>2, FailedStays
  <1>4. OneAtATime'
    <2>1. \A q \in Active' : q # r => q \in Active /\ request[q].movie # m
      BY <1>2 DEF OwnStep, Active
    <2> QED
      BY <1>1, <1>2, <2>1 DEF OneAtATime, OwnStep, Active
  <1>5. ASSUME NEW q \in Requests \ {r} PROVE Fresh(q)'
    <2>1. Fresh(q) /\ request'[q] = request[q] /\ request[q].movie \in Requests
          /\ (request[q].step = "new" => request[q].copy = NoMovie)
      BY <1>1, <1>2, Before DEF RequestOK, AboutMovie, Progress
    <2>2. CASE q \in Active
      <3>1. movies'[request[q].movie] = movies[request[q].movie]
        BY <2>1, <2>2 DEF OwnStep
      <3> QED
        BY <1>2, <2>1, <3>1 DEF Fresh, At, Replacing, Live
    <2>3. CASE q \notin Active
      BY <2>1, <2>3 DEF Fresh, At, Replacing, Active
    <2> QED
      BY <2>2, <2>3
  <1>6. ASSUME NEW n \in Requests, n # m PROVE VideoOfMovie(n)'
    <2> SUFFICES ASSUME Live(n)', movies'[n].video # Nothing
                 PROVE  LET v == movies'[n].video
                        IN  /\ request'[v].movie = n /\ request'[v].step = "done"
                            /\ v \in asked' => \/ HasFailed(n)'
                                             \/ \E q \in Requests : request'[q].movie = n /\ Replacing(q)'
      BY DEF VideoOfMovie
    <2> DEFINE v == movies[n].video
    <2>1. movies'[n] = movies[n] /\ Live(n) /\ v # Nothing
      BY <1>6 DEF OwnStep, Live
    <2>2. /\ request[v].movie = n /\ request[v].step = "done"
          /\ v \in asked => HasFailed(n) \/ \E q \in Requests : request[q].movie = n /\ Replacing(q)
      BY <1>1, <2>1 DEF VideoOfMovie
    <2>3. v \in Requests
      BY <2>1, Before DEF CatalogInv, MoviesOK, PartsOf
    <2>4. request'[v] = request[v]
      BY <1>2, <2>2, <2>3
    <2>5. v \in asked' => v \in asked
      <3>1. ASSUME Live(m), movies[m].video # Nothing, v = movies[m].video PROVE FALSE
        BY <1>1, <1>6, <2>2, <3>1 DEF VideoOfMovie
      <3> QED
        BY <3>1 DEF OwnStep
    <2>6. ASSUME NEW q \in Requests, request[q].movie = n, Replacing(q), v \in asked
          PROVE  request'[q].movie = n /\ Replacing(q)'
      <3>1. q # r
        <4>1. CASE request[r].step = "new"
          BY <2>6, <4>1 DEF Replacing, At
        <4>2. CASE request[r].step # "new"
          BY <1>6, <2>6, <4>2 DEF OwnStep
        <4> QED
          BY <4>1, <4>2
      <3> QED
        BY <1>2, <2>6, <3>1 DEF Replacing, At
    <2> QED
      BY <1>3, <2>1, <2>2, <2>4, <2>5, <2>6
  <1>7. ASSUME NEW v \in known' PROVE StoredVideo(v)'
    <2>1. CASE v = r
      BY <2>1
    <2>2. CASE v # r
      <3>1. v \in known /\ StoredVideo(v) /\ request'[v] = request[v] /\ v \in Requests
        BY <1>1, <1>2, <2>2, Before DEF OwnStep
      <3>2. v \in asked' \/ state'[v] # "ABSENT"
        BY <1>2, <3>1 DEF StoredVideo, OwnStep
      <3>3. v \in asked' => request'[v].step = "done"
        BY <1>1, <3>1 DEF StoredVideo, OwnStep, VideoOfMovie
      <3>4. request'[v].step = "done" => \/ v \in asked' \/ HasFailed(request[v].movie)'
                                        \/ /\ Live(request[v].movie)'
                                           /\ movies'[request[v].movie].video = v
        <4>1. request[v].movie \in Requests /\ v # Nothing
          BY <3>1, Before, CatalogAssumption
        <4> QED
          BY <1>2, <1>3, <3>1, <4>1 DEF StoredVideo, OwnStep, Live
      <3> QED
        BY <3>1, <3>2, <3>3, <3>4 DEF StoredVideo
    <2> QED
      BY <2>1, <2>2
  <1> QED
    BY <1>4, <1>5, <1>6, <1>7 DEF AloneInv

\* A step that asks for no deletion, and after which the movie has the video it had or
\* none: whose video is being deleted is still about to lose it.
LEMMA OwnVideo ==
    ASSUME CatalogInv, AloneInv, alone, NEW r \in Requests, NEW m \in Requests, OwnStep(r, m),
           asked' = asked,
           Live(m)' /\ movies'[m].video # Nothing =>
              Live(m) /\ movies'[m].video = movies[m].video,
           Replacing(r) => Replacing(r)' \/ HasFailed(m)' \/ ~Live(m)'
    PROVE  VideoOfMovie(m)'
  <1> SUFFICES ASSUME Live(m)', movies'[m].video # Nothing
               PROVE  LET v == movies'[m].video
                      IN  /\ request'[v].movie = m /\ request'[v].step = "done"
                          /\ v \in asked' => \/ HasFailed(m)'
                                           \/ \E q \in Requests : request'[q].movie = m /\ Replacing(q)'
    BY DEF VideoOfMovie
  <1> DEFINE v == movies[m].video
  <1>1. /\ \A q \in Requests \ {r} : request'[q] = request[q]
        /\ request[r].answer = "none" /\ request[r].step # "done" /\ VideoOfMovie(m)
    BY DEF OwnStep, Keeps, Fresh, AloneInv
  <1>2. /\ movies'[m].video = v /\ Live(m) /\ v # Nothing
        /\ request[v].movie = m /\ request[v].step = "done"
        /\ v \in asked => HasFailed(m) \/ \E q \in Requests : request[q].movie = m /\ Replacing(q)
    BY <1>1 DEF VideoOfMovie
  <1>3. v \in Requests
    BY <1>2, Before DEF CatalogInv, MoviesOK, PartsOf
  <1>4. request'[v] = request[v]
    BY <1>1, <1>2, <1>3
  <1>5. ASSUME NEW q \in Requests, request[q].movie = m, Replacing(q)
        PROVE  q = r /\ request'[r].movie = m
    BY <1>5 DEF OwnStep, Active, Replacing, At
  <1>6. HasFailed(m) => HasFailed(m)'
    BY <1>1, FailedStays
  <1> QED
    BY <1>2, <1>4, <1>5, <1>6

LEMMA OwnAlone ==
    ASSUME AloneInv, alone, NEW r \in Active
    PROVE  \A q \in Active \ {r} : request[q].movie # request[r].movie
  BY DEF AloneInv, OneAtATime

\* A step that changes neither movies nor videos.
LEMMA QuietAlone ==
    ASSUME CatalogInv, AloneInv, alone, NEW r \in Active, After(r),
           UNCHANGED <<movies, videoVars>>, request'[r].movie = request[r].movie, Fresh(r)',
           Replacing(r) => Replacing(r)' \/ request'[r].answer = "500",
           r \in known => request'[r].answer = "500"
    PROVE  AloneInv'
  <1>1. r \in Requests /\ request[r].step \notin {"new", "done"} /\ Keeps(r)
        /\ UNCHANGED <<state, known, asked>>
    BY DEF Active, After, videoVars
  <1>2. PICK m \in Requests : m = request[r].movie
    BY <1>1, Before
  <1>3. OwnStep(r, m)
    BY <1>1, <1>2, OwnAlone DEF OwnStep, Live
  <1>4. request'[r].answer = "500" => HasFailed(m)'
    BY <1>1, <1>2 DEF HasFailed
  <1>5. VideoOfMovie(m)'
    BY <1>1, <1>3, <1>4, OwnVideo DEF Live
  <1>6. ASSUME r \in known' PROVE StoredVideo(r)'
    <2>1. r \in known /\ StoredVideo(r) /\ HasFailed(m)'
      BY <1>1, <1>4, <1>6 DEF AloneInv
    <2>2. r \notin asked
      BY <1>1, <2>1 DEF StoredVideo
    <2> QED
      BY <1>1, <1>2, <2>1, <2>2 DEF StoredVideo
  <1> QED
    BY <1>1, <1>3, <1>5, <1>6, AloneStep

\* A request that ends, having changed the movie, made it or removed it.
LEMMA EndsAlone ==
    ASSUME CatalogInv, AloneInv, alone, NEW r \in Active, NEW answer \in Answers, After(r),
           Ends(r, answer), UNCHANGED videoVars, r \notin known,
           NEW m \in Requests, m = request[r].movie,
           \A n \in Requests \ {m} : movies'[n] = movies[n],
           Live(m)' /\ movies'[m].video # Nothing =>
              Live(m) /\ movies'[m].video = movies[m].video,
           Live(m) => Replacing(r) \/ (Live(m)' /\ movies'[m].video = movies[m].video),
           Replacing(r) => ~Live(m)'
    PROVE  AloneInv'
  <1>1. r \in Requests /\ request[r].step \notin {"new", "done"} /\ Keeps(r)
        /\ UNCHANGED <<state, known, asked>> /\ RequestVar /\ Fresh(r)
    BY Before DEF Active, After, videoVars, AloneInv
  <1>2. request'[r].step = "done" /\ request'[r].copy = NoMovie /\ request'[r].movie = m
    BY <1>1, EndsType
  <1>3. Fresh(r)'
    BY <1>2 DEF Fresh, Replacing, At
  <1>4. Replacing(r) => movies[m].video \in asked \cup {Nothing}
    BY <1>1 DEF Fresh
  <1>5. OwnStep(r, m)
    BY <1>1, <1>2, <1>4, OwnAlone DEF OwnStep
  <1>6. VideoOfMovie(m)'
    BY <1>1, <1>5, OwnVideo
  <1> QED
    BY <1>1, <1>3, <1>5, <1>6, AloneStep

LEMMA SendAlone ==
    ASSUME CatalogInv, AloneInv, alone, NEW r \in Requests, NEW kind \in Kinds,
           NEW m \in Requests, NEW name \in Names, Send(r, kind, m, name)
    PROVE  AloneInv'
  <1>1. /\ request[r].step = "new" /\ UNCHANGED <<movies, images, dropped, videoVars>>
        /\ \A q \in Active : request[q].movie # m
    BY DEF Send
  <1>2. RequestVar /\ RequestOK(r) /\ Fresh(r)
    BY Before DEF AloneInv
  <1>3. /\ request'[r].kind = kind /\ request'[r].movie = m /\ request'[r].step = SentStep(kind)
        /\ request'[r].copy = request[r].copy /\ request'[r].answer = request[r].answer
    BY <1>2, SendType
  <1>4. request[r].copy = NoMovie /\ request[r].answer = "none" /\ r \notin known
    BY <1>1, <1>2 DEF RequestOK, Progress, AboutMovie, Fresh
  <1>5. Fresh(r)'
    BY <1>3, <1>4 DEF Fresh, Replacing, At, SentStep
  <1>6. OwnStep(r, m)
    BY <1>1, <1>3, <1>4, SendStep DEF OwnStep, After, videoVars, Live
  <1>7. ~Replacing(r) /\ UNCHANGED <<known, asked>>
    BY <1>1 DEF Replacing, At, videoVars
  <1>8. VideoOfMovie(m)'
    BY <1>1, <1>6, <1>7, OwnVideo DEF Live
  <1> QED
    BY <1>4, <1>5, <1>6, <1>7, <1>8, AloneStep

\* A request that ends has nothing to write any more.
LEMMA EndedFresh ==
    ASSUME RequestVar, NEW r \in Requests, NEW answer \in Answers, Ends(r, answer)
    PROVE  Fresh(r)'
  BY EndsType DEF Fresh, Replacing, At

LEMMA CheckHashAlone ==
    ASSUME CatalogInv, AloneInv, alone, NEW r \in Requests, CheckHash(r)
    PROVE  AloneInv'
  <1>1. /\ RequestVar /\ RequestOK(r) /\ Fresh(r) /\ request[r] \in Request /\ After(r)
        /\ At(r, Creating, "check") /\ UNCHANGED <<movies, videoVars>>
    BY Before, CheckHashStep DEF CheckHash, AloneInv
  <1>2. r \in Active /\ ~Replacing(r) /\ r \notin known /\ request[r].copy = NoMovie
    BY <1>1 DEF Active, At, Replacing, Creating, RequestOK, Progress, AboutMovie
  <1>3. CASE Ends(r, "409")
    BY <1>1, <1>2, <1>3, EndedFresh, EndsType, QuietAlone DEF Answers
  <1>4. ASSUME NEW step \in {"queue", "insert"}, Goes(r, step),
               step = "queue" <=> request[r].kind = "create"
        PROVE  AloneInv'
    <2>1. request'[r] = [request[r] EXCEPT !.step = step]
      BY <1>1, <1>4, GoesType DEF Steps
    <2>2. /\ request'[r].step = step /\ request'[r].kind = request[r].kind
          /\ request'[r].movie = request[r].movie /\ request'[r].copy = NoMovie
          /\ request'[r].answer = request[r].answer
      BY <1>1, <1>2, <2>1 DEF Request
    <2>3. Fresh(r)'
      BY <1>1, <1>4, <2>2 DEF Fresh, Replacing, At
    <2> QED
      BY <1>1, <1>2, <2>2, <2>3, QuietAlone
  <1> QED
    BY <1>1, <1>3, <1>4 DEF CheckHash, At, Creating

LEMMA QueueFirstPosterAlone ==
    ASSUME CatalogInv, AloneInv, alone, NEW r \in Requests, QueueFirstPoster(r)
    PROVE  AloneInv'
  <1>1. /\ RequestVar /\ RequestOK(r) /\ Fresh(r) /\ request[r] \in Request /\ After(r)
        /\ At(r, {"create"}, "queue") /\ UNCHANGED <<movies, videoVars>> /\ Goes(r, "insert")
    BY Before, QueueFirstPosterStep DEF QueueFirstPoster, AloneInv
  <1>2. r \in Active /\ ~Replacing(r) /\ r \notin known /\ request[r].copy = NoMovie
    BY <1>1 DEF Active, At, Replacing, Creating, RequestOK, Progress, AboutMovie
  <1>3. request'[r] = [request[r] EXCEPT !.step = "insert"]
    BY <1>1, GoesType DEF Steps
  <1>4. /\ request'[r].step = "insert" /\ request'[r].kind = request[r].kind
        /\ request'[r].movie = request[r].movie /\ request'[r].copy = NoMovie
        /\ request'[r].answer = request[r].answer
    BY <1>1, <1>2, <1>3 DEF Request
  <1>5. Fresh(r)'
    BY <1>1, <1>4 DEF Fresh, Replacing, At
  <1> QED
    BY <1>1, <1>2, <1>4, <1>5, QuietAlone

\* A movie that was read: nobody else works on it, so what was read stays true.
LEMMA ReadsAlone ==
    ASSUME CatalogInv, AloneInv, alone, NEW r \in Requests,
           NEW kinds \in {{"poster", "backdrop"}, {"video"}, {"publish", "unpublish"}, {"delete"}},
           NEW step \in {"queue", "drop", "store", "write", "remove"}, Reads(r, kinds, step),
           step = "drop" => HasVideo(r),
           step \in {"store", "remove"} => ~HasVideo(r),
           step = "queue" => kinds = {"poster", "backdrop"},
           step = "drop" => kinds \in {{"video"}, {"delete"}},
           step = "store" => kinds = {"video"},
           step = "remove" => kinds = {"delete"},
           step = "write" => kinds = {"publish", "unpublish"}
    PROVE  AloneInv'
  <1>1. /\ RequestVar /\ MoviesVar /\ RequestOK(r) /\ Fresh(r) /\ request[r].movie \in Requests
        /\ After(r) /\ At(r, kinds, "read") /\ UNCHANGED <<movies, videoVars>>
    BY Before, ReadsStep DEF Reads, AloneInv
  <1>2. r \in Active /\ ~Replacing(r) /\ r \notin known
    BY <1>1 DEF Active, At, Replacing, RequestOK, Progress
  <1>3. request'[r].movie = request[r].movie /\ request'[r].kind = request[r].kind
    BY <1>1, ReadsType DEF Steps
  <1>4. CASE ~Live(request[r].movie)
    <2>1. request'[r].step = "done" /\ request'[r].copy = NoMovie
      BY <1>1, <1>4, ReadsType DEF Steps
    <2>2. Fresh(r)'
      BY <2>1 DEF Fresh, Replacing, At
    <2> QED
      BY <1>1, <1>2, <1>3, <2>2, QuietAlone
  <1>5. CASE Live(request[r].movie)
    <2>1. /\ request'[r].step = step /\ request'[r].answer = request[r].answer
          /\ request'[r].copy = movies[request[r].movie]
      BY <1>1, <1>5, ReadsType DEF Steps
    <2>2. request'[r].copy = movies'[request'[r].movie] /\ Live(request[r].movie)'
      BY <1>1, <1>3, <1>5, <2>1 DEF Live
    <2>3. request'[r].kind \in kinds /\ request'[r].answer = "none"
      BY <1>1, <1>3, <2>1 DEF At, Fresh
    <2>4. Replacing(r)' => movies'[request'[r].movie].video = Nothing
      BY <1>1, <1>3, <2>1, <2>3 DEF Replacing, At, HasVideo
    <2>5. ~At(r, {"poster", "backdrop", "video"}, "write")'
      BY <2>1, <2>3 DEF At
    <2>6. Fresh(r)'
      BY <1>3, <2>1, <2>2, <2>3, <2>4, <2>5 DEF Fresh, Live
    <2> QED
      BY <1>1, <1>2, <1>3, <2>6, QuietAlone
  <1> QED
    BY <1>4, <1>5

LEMMA ReadingAlone ==
    ASSUME CatalogInv, AloneInv, alone, NEW r \in Requests,
           ReadForImage(r) \/ ReadForVideo(r) \/ ReadToPublish(r) \/ ReadToDelete(r)
    PROVE  AloneInv'
  <1>1. CASE ReadForImage(r)
    BY <1>1, ReadsAlone DEF ReadForImage
  <1>2. CASE ReadForVideo(r)
    BY <1>2, ReadsAlone DEF ReadForVideo
  <1>3. CASE ReadToPublish(r)
    BY <1>3, ReadsAlone DEF ReadToPublish
  <1>4. CASE ReadToDelete(r)
    <2>1. Reads(r, {"delete"}, IF Live(request[r].movie) /\ ~HasVideo(r) THEN "remove" ELSE "drop")
      BY <1>4 DEF ReadToDelete, Live
    <2>2. Reads(r, {"delete"}, IF HasVideo(r) THEN "drop" ELSE "remove")
      BY <2>1 DEF Reads, Live
    <2> QED
      BY <2>2, ReadsAlone
  <1> QED
    BY <1>1, <1>2, <1>3, <1>4

LEMMA QueueImageAlone ==
    ASSUME CatalogInv, AloneInv, alone, NEW r \in Requests, QueueImage(r)
    PROVE  AloneInv'
  <1> DEFINE part == request[r].kind
  <1>1. /\ RequestVar /\ RequestOK(r) /\ Fresh(r) /\ After(r)
        /\ request[r].copy \in Movie \cup {NoMovie}
        /\ At(r, {"poster", "backdrop"}, "queue") /\ UNCHANGED <<movies, videoVars>>
        /\ request' = [request EXCEPT ![r].step = "write", ![r].copy[part] = r]
    BY Before, QueueImageStep DEF QueueImage, AloneInv
  <1>2. r \in Active /\ ~Replacing(r) /\ r \notin known
    BY <1>1 DEF Active, At, Replacing, RequestOK, Progress
  <1>3. request[r].copy \in Movie /\ part \in {"poster", "backdrop"}
    BY <1>1 DEF RequestOK, CopyOK, At
  <1> HIDE DEF part
  <1>4. /\ request'[r].movie = request[r].movie /\ request'[r].kind = request[r].kind
        /\ request'[r].step = "write" /\ request'[r].answer = request[r].answer
        /\ request'[r].copy = [request[r].copy EXCEPT ![part] = r]
    BY <1>1, <1>3, CopiesType
  <1>5. /\ Live(request[r].movie) /\ request[r].copy = movies[request[r].movie]
        /\ request[r].answer = "none"
    BY <1>1, <1>3, NoMovieAssumption DEF Fresh, At
  <1>6. request'[r].kind = part /\ ~Replacing(r)'
    BY <1>3, <1>4 DEF part, Replacing, At
  <1>7. Fresh(r)'
    BY <1>1, <1>3, <1>4, <1>5, <1>6 DEF Fresh, At, Live
  <1> QED
    BY <1>1, <1>2, <1>4, <1>7, QuietAlone

LEMMA AwaitThrowsAlone ==
    ASSUME CatalogInv, AloneInv, alone, NEW r \in Requests, AwaitThrows(r)
    PROVE  AloneInv'
  <1>1. /\ RequestVar /\ After(r) /\ r \in Active /\ Ends(r, "500")
        /\ UNCHANGED <<movies, videoVars>>
    BY Before, AwaitThrowsStep DEF AwaitThrows
  <1>2. /\ request'[r].answer = "500" /\ request'[r].movie = request[r].movie /\ Fresh(r)'
    BY <1>1, EndsType, EndedFresh DEF Answers
  <1> QED
    BY <1>1, <1>2, QuietAlone

LEMMA AskDeletionAlone ==
    ASSUME CatalogInv, AloneInv, alone, NEW r \in Requests, AskDeletion(r)
    PROVE  AloneInv'
  <1>1. /\ RequestVar /\ RequestOK(r) /\ Fresh(r) /\ request[r] \in Request /\ After(r)
        /\ At(r, {"video", "delete"}, "drop") /\ UNCHANGED <<movies, state, known>>
        /\ asked' = asked \cup {request[r].copy.video}
    BY Before, AskDeletionStep DEF AskDeletion, AloneInv
  <1>2. PICK m \in Requests : m = request[r].movie
    BY Before
  <1>3. r \in Active /\ r \notin known /\ request[r].copy # NoMovie /\ request[r].copy.video # Nothing
    BY <1>1 DEF Active, At, RequestOK, Progress, CopyOK
  <1>4. Live(m) /\ request[r].copy = movies[m] /\ request[r].answer = "none"
    BY <1>1, <1>2, <1>3 DEF Fresh, At
  <1>5. PICK step \in {"store", "remove"} :
           /\ request'[r] = [request[r] EXCEPT !.step = step]
           /\ step = "store" => request[r].kind = "video"
           /\ step = "remove" => request[r].kind = "delete"
    <2>1. CASE request[r].kind = "video"
      BY <1>1, <2>1, GoesType DEF AskDeletion, Steps
    <2>2. CASE request[r].kind = "delete"
      BY <1>1, <2>2, GoesType DEF AskDeletion, Steps
    <2> QED
      BY <1>1, <2>1, <2>2 DEF At
  <1>6. /\ request'[r].step = step /\ request'[r].kind = request[r].kind /\ request'[r].movie = m
        /\ request'[r].copy = movies[m] /\ request'[r].answer = "none"
    BY <1>1, <1>2, <1>4, <1>5 DEF Request
  <1>7. Fresh(r)' /\ Replacing(r)'
    BY <1>1, <1>3, <1>4, <1>5, <1>6 DEF Fresh, Replacing, At, Live
  <1>8. OwnStep(r, m)
    BY <1>1, <1>2, <1>3, <1>4, <1>6, OwnAlone DEF OwnStep, After, Active
  <1>9. VideoOfMovie(m)'
    <2> DEFINE v == movies[m].video
    <2>1. request[v].movie = m /\ request[v].step = "done" /\ v \in Requests
      BY <1>3, <1>4, Before DEF AloneInv, VideoOfMovie, CatalogInv, MoviesOK, PartsOf
    <2>2. request'[v] = request[v]
      BY <1>1, <1>3, <2>1 DEF After, Keeps, Active
    <2> QED
      BY <1>1, <1>6, <1>7, <2>1, <2>2 DEF VideoOfMovie
  <1> QED
    BY <1>1, <1>3, <1>7, <1>8, <1>9, AloneStep

LEMMA StoreVideoAlone ==
    ASSUME CatalogInv, AloneInv, alone, NEW r \in Requests, StoreVideo(r)
    PROVE  AloneInv'
  <1>1. /\ RequestVar /\ RequestOK(r) /\ Fresh(r) /\ After(r) /\ r \notin known
        /\ request[r].copy \in Movie \cup {NoMovie} /\ asked \subseteq known /\ known \subseteq Requests
        /\ At(r, {"video"}, "store") /\ UNCHANGED <<movies, asked>>
        /\ known' = known \cup {r} /\ state' = [state EXCEPT ![r] = "NOT_READY"]
        /\ request' = [request EXCEPT ![r].step = "write", ![r].copy.video = r]
    BY Before, StoreVideoStep DEF StoreVideo, Store!Create, AloneInv
  <1>2. PICK m \in Requests : m = request[r].movie
    BY Before
  <1>3. r \in Active /\ Replacing(r) /\ request[r].copy \in Movie
    BY <1>1 DEF Active, At, Replacing, RequestOK, CopyOK
  <1>4. /\ request'[r].movie = m /\ request'[r].kind = request[r].kind
        /\ request'[r].step = "write" /\ request'[r].answer = request[r].answer
        /\ request'[r].copy = [request[r].copy EXCEPT !["video"] = r]
    BY <1>1, <1>2, <1>3, CopiesType
  <1>5. /\ Live(m) /\ request[r].copy = movies[m] /\ request[r].answer = "none"
        /\ request[r].kind = "video" /\ movies[m].video \in asked \cup {Nothing}
    BY <1>1, <1>2, <1>3, NoMovieAssumption DEF Fresh, At
  <1>6. Fresh(r)' /\ Replacing(r)'
    BY <1>1, <1>4, <1>5 DEF Fresh, Replacing, At, Live
  <1>7. state \in [Requests -> Store!VideoStates \cup {"ABSENT"}]
    BY DEF CatalogInv, TypeOK, Store!TypeOK
  <1>8. OwnStep(r, m)
    BY <1>1, <1>2, <1>3, <1>4, <1>7, OwnAlone DEF OwnStep, After, Active, Live
  <1>9. VideoOfMovie(m)'
    BY <1>1, <1>6, <1>8, OwnVideo DEF Live
  <1>10. StoredVideo(r)'
    BY <1>1, <1>4, <1>7 DEF StoredVideo
  <1> QED
    BY <1>6, <1>8, <1>9, <1>10, AloneStep

LEMMA InsertMovieAlone ==
    ASSUME CatalogInv, AloneInv, alone, NEW r \in Requests, InsertMovie(r)
    PROVE  AloneInv'
  <1>1. /\ RequestOK(r) /\ MoviesVar /\ After(r) /\ At(r, Creating, "insert") /\ UNCHANGED videoVars
        /\ request[r].movie = r
    BY Before, InsertMovieStep DEF InsertMovie, RequestOK, AboutMovie, At
  <1>2. r \in Active /\ ~Replacing(r) /\ r \notin known /\ ~Created(r)
    BY <1>1 DEF Active, At, Replacing, RequestOK, Progress, Creating, Created
  <1>3. ~Live(r)
    BY <1>2 DEF CatalogInv, MoviesOK
  <1>4. CASE Ends(r, "500") /\ UNCHANGED movies
    BY <1>1, <1>2, <1>3, <1>4, EndsAlone DEF Answers, Live
  <1>5. CASE Ends(r, "201") /\ movies' = [movies EXCEPT ![r] = NewMovie(r)]
    <2>1. movies'[r].video = Nothing /\ \A n \in Requests \ {r} : movies'[n] = movies[n]
      BY <1>1, <1>5 DEF MoviesVar, NewMovie
    <2> QED
      BY <1>1, <1>2, <1>3, <1>5, <2>1, EndsAlone DEF Answers
  <1> QED
    BY <1>4, <1>5 DEF InsertMovie, NewMovie

LEMMA RenameAlone ==
    ASSUME CatalogInv, AloneInv, alone, NEW r \in Requests, Rename(r)
    PROVE  AloneInv'
  <1>1. /\ RequestOK(r) /\ MoviesVar /\ After(r) /\ At(r, {"rename"}, "write") /\ UNCHANGED videoVars
    BY Before, RenameStep DEF Rename
  <1>2. r \in Active /\ ~Replacing(r) /\ r \notin known
    BY <1>1 DEF Active, At, Replacing, RequestOK, Progress
  <1>3. PICK m \in Requests : m = request[r].movie
    BY Before
  <1>4. CASE Ends(r, "404") /\ UNCHANGED movies
    BY <1>1, <1>2, <1>3, <1>4, EndsAlone DEF Answers, Live
  <1>5. CASE Ends(r, "200") /\ Live(m) /\ movies' = [movies EXCEPT ![m].name = request[r].name]
    <2>1. movies[m] \in Movie
      BY <1>1, <1>5 DEF MoviesVar, Live
    <2>2. /\ movies'[m] = [movies[m] EXCEPT !.name = request[r].name]
          /\ \A n \in Requests \ {m} : movies'[n] = movies[n]
      BY <1>1, <1>5 DEF MoviesVar
    <2>3. movies'[m].video = movies[m].video /\ movies'[m] \in Movie
      <3>1. request[r].name \in Names
        BY <1>1 DEF RequestOK, AboutMovie, At
      <3> QED
        BY <2>1, <2>2, <3>1 DEF Movie
    <2>4. Live(m)'
      BY <2>3, NoMovieAssumption DEF Live
    <2> QED
      BY <1>1, <1>2, <1>3, <1>5, <2>2, <2>3, <2>4, EndsAlone DEF Answers
  <1> QED
    BY <1>3, <1>4, <1>5 DEF Rename, Live

\* What a request that writes a whole movie writes: the movie, but for its own part.
LEMMA WhatIsWritten ==
    ASSUME CatalogInv, AloneInv, alone, NEW r \in Requests, WriteBack(r),
           NEW m \in Requests, m = request[r].movie
    PROVE  /\ Live(m) /\ movies[m] \in Movie /\ request[r].kind \in {"poster", "backdrop", "video"}
           /\ movies' = [movies EXCEPT ![m] = [movies[m] EXCEPT ![request[r].kind] = r]]
           /\ [movies[m] EXCEPT ![request[r].kind] = r] \in Movie
  <1>1. /\ MoviesVar /\ RequestOK(r) /\ Fresh(r) /\ At(r, {"poster", "backdrop", "video"}, "write")
        /\ movies' = Written(m, request[r].copy) /\ request[r].copy \in Movie \cup {NoMovie}
    BY Before DEF WriteBack, AloneInv
  <1>2. request[r].copy # NoMovie
    BY <1>1 DEF RequestOK, CopyOK, At
  <1>3. Live(m) /\ request[r].copy = [movies[m] EXCEPT ![request[r].kind] = r]
    BY <1>1, <1>2 DEF Fresh
  <1>4. movies' = [movies EXCEPT ![m] = request[r].copy]
    BY <1>1, <1>3 DEF Written, Live, MoviesVar
  <1> QED
    BY <1>1, <1>2, <1>3, <1>4 DEF MoviesVar, Live, At

LEMMA WriteBackAlone ==
    ASSUME CatalogInv, AloneInv, alone, NEW r \in Requests, WriteBack(r)
    PROVE  AloneInv'
  <1>1. /\ RequestVar /\ RequestOK(r) /\ MoviesVar /\ Fresh(r) /\ After(r) /\ Ends(r, "200")
        /\ At(r, {"poster", "backdrop", "video"}, "write") /\ UNCHANGED videoVars
        /\ asked \subseteq known
    BY Before, WriteBackStep DEF WriteBack, AloneInv
  <1>2. PICK m \in Requests : m = request[r].movie
    BY Before
  <1>3. /\ Live(m) /\ movies[m] \in Movie /\ request[r].kind \in {"poster", "backdrop", "video"}
        /\ movies' = [movies EXCEPT ![m] = [movies[m] EXCEPT ![request[r].kind] = r]]
        /\ [movies[m] EXCEPT ![request[r].kind] = r] \in Movie
    BY <1>2, WhatIsWritten
  <1>4. /\ movies'[m] = [movies[m] EXCEPT ![request[r].kind] = r] /\ Live(m)'
        /\ \A n \in Requests \ {m} : movies'[n] = movies[n]
    BY <1>1, <1>3, NoMovieAssumption DEF MoviesVar, Live
  <1>5. r \in Active
    BY <1>1 DEF Active, At
  <1>6. CASE request[r].kind # "video"
    <2>1. r \notin known /\ ~Replacing(r)
      BY <1>1, <1>6 DEF RequestOK, Progress, Replacing, At
    <2>2. movies'[m].video = movies[m].video
      BY <1>3, <1>4, <1>6 DEF Movie
    <2> QED
      BY <1>1, <1>2, <1>3, <1>4, <1>5, <2>1, <2>2, EndsAlone DEF Answers
  <1>7. CASE request[r].kind = "video"
    <2>1. movies'[m].video = r
      BY <1>3, <1>4, <1>7 DEF Movie
    <2>2. request'[r].step = "done" /\ request'[r].movie = m
      BY <1>1, <1>2, EndsType DEF Answers
    <2>3. movies[m].video \in asked \cup {Nothing}
      BY <1>1, <1>2, <1>7 DEF Fresh, Replacing, At
    <2>4. r \notin asked /\ (r \in known => state[r] # "ABSENT")
      BY <1>1 DEF AloneInv, StoredVideo, At
    <2>5. Fresh(r)'
      BY <1>1, EndedFresh DEF Answers
    <2>6. UNCHANGED <<state, known, asked>>
      BY <1>1 DEF videoVars
    <2>7. OwnStep(r, m)
      BY <1>1, <1>2, <1>4, <1>5, <2>2, <2>3, <2>6, OwnAlone DEF OwnStep, After, Active
    <2>8. VideoOfMovie(m)'
      BY <2>1, <2>2, <2>4, <2>6 DEF VideoOfMovie
    <2>9. r \in known' => StoredVideo(r)'
      BY <1>4, <2>1, <2>2, <2>4, <2>6 DEF StoredVideo
    <2> QED
      BY <2>5, <2>7, <2>8, <2>9, AloneStep
  <1> QED
    BY <1>6, <1>7

\* The same for a request that publishes.
LEMMA WhatIsPublished ==
    ASSUME CatalogInv, AloneInv, alone, NEW r \in Requests, WritePublished(r),
           NEW m \in Requests, m = request[r].movie
    PROVE  /\ Live(m) /\ movies[m] \in Movie /\ request[r].kind \in {"publish", "unpublish"}
           /\ Ends(r, "200")
           /\ \E is \in BOOLEAN : /\ movies' = [movies EXCEPT ![m] = [movies[m] EXCEPT !.isPublished = is]]
                                /\ [movies[m] EXCEPT !.isPublished = is] \in Movie
  <1>1. /\ MoviesVar /\ RequestOK(r) /\ Fresh(r) /\ At(r, {"publish", "unpublish"}, "write")
        /\ request[r].copy \in Movie \cup {NoMovie}
    BY Before DEF WritePublished, AloneInv
  <1>2. request[r].copy # NoMovie
    BY <1>1 DEF RequestOK, CopyOK, At
  <1>3. ~At(r, {"poster", "backdrop", "video"}, "write")
    BY <1>1 DEF At
  <1>4. Live(m) /\ request[r].copy = movies[m]
    BY <1>1, <1>2, <1>3 DEF Fresh
  <1>5. PICK is \in BOOLEAN : is = (request[r].kind = "publish")
    OBVIOUS
  <1>6. movies' = Written(m, [movies[m] EXCEPT !.isPublished = is])
    BY <1>4, <1>5 DEF WritePublished
  <1>7. movies' = [movies EXCEPT ![m] = [movies[m] EXCEPT !.isPublished = is]]
    BY <1>1, <1>4, <1>6 DEF Written, Live, MoviesVar
  <1>8. movies[m] \in Movie /\ [movies[m] EXCEPT !.isPublished = is] \in Movie
    <2>1. movies[m] \in Movie
      BY <1>1, <1>4 DEF MoviesVar, Live
    <2> QED
      BY <2>1 DEF Movie
  <1>9. Ends(r, "200")
    BY <1>4 DEF WritePublished, Live
  <1> QED
    BY <1>1, <1>4, <1>7, <1>8, <1>9 DEF At

LEMMA WritePublishedAlone ==
    ASSUME CatalogInv, AloneInv, alone, NEW r \in Requests, WritePublished(r)
    PROVE  AloneInv'
  <1>1. /\ RequestOK(r) /\ MoviesVar /\ After(r) /\ At(r, {"publish", "unpublish"}, "write")
        /\ UNCHANGED videoVars
    BY Before, WritePublishedStep DEF WritePublished
  <1>2. PICK m \in Requests : m = request[r].movie
    BY Before
  <1>3. PICK is \in BOOLEAN :
           /\ Live(m) /\ movies[m] \in Movie /\ Ends(r, "200")
           /\ movies' = [movies EXCEPT ![m] = [movies[m] EXCEPT !.isPublished = is]]
           /\ [movies[m] EXCEPT !.isPublished = is] \in Movie
    BY <1>2, WhatIsPublished
  <1>4. r \in Active /\ ~Replacing(r) /\ r \notin known
    BY <1>1 DEF Active, At, Replacing, RequestOK, Progress
  <1>5. /\ movies'[m] = [movies[m] EXCEPT !.isPublished = is] /\ Live(m)'
        /\ \A n \in Requests \ {m} : movies'[n] = movies[n]
    BY <1>1, <1>3, NoMovieAssumption DEF MoviesVar, Live
  <1>6. movies'[m].video = movies[m].video
    BY <1>3, <1>5 DEF Movie
  <1> QED
    BY <1>1, <1>2, <1>3, <1>4, <1>5, <1>6, EndsAlone DEF Answers

LEMMA RemoveMovieAlone ==
    ASSUME CatalogInv, AloneInv, alone, NEW r \in Requests, RemoveMovie(r)
    PROVE  AloneInv'
  <1>1. /\ RequestOK(r) /\ MoviesVar /\ After(r) /\ At(r, {"delete"}, "remove") /\ Ends(r, "204")
        /\ movies' = [movies EXCEPT ![request[r].movie] = NoMovie] /\ UNCHANGED videoVars
    BY Before, RemoveMovieStep DEF RemoveMovie
  <1>2. PICK m \in Requests : m = request[r].movie
    BY Before
  <1>3. r \in Active /\ Replacing(r) /\ r \notin known
    BY <1>1 DEF Active, At, Replacing, RequestOK, Progress
  <1>4. ~Live(m)' /\ \A n \in Requests \ {m} : movies'[n] = movies[n]
    BY <1>1, <1>2 DEF MoviesVar, Live
  <1> QED
    BY <1>1, <1>2, <1>3, <1>4, EndsAlone DEF Answers

\* The workers take away the record of a video only if its deletion was asked for.
LEMMA VideoWorkAlone ==
    ASSUME CatalogInv, AloneInv, alone, NEW v \in Requests, VideoWork(v)
    PROVE  AloneInv'
  <1>1. UNCHANGED <<movies, request, images, dropped, known, asked>>
    BY BackgroundKeeps DEF VideoWork
  <1>2. ASSUME NEW w \in known PROVE w \in asked \/ state'[w] # "ABSENT"
    <2>1. w \in Requests /\ (w \in asked \/ state[w] # "ABSENT")
      BY Before DEF AloneInv, StoredVideo
    <2>2. state \in [Requests -> Store!VideoStates \cup {"ABSENT"}]
      BY DEF CatalogInv, TypeOK, Store!TypeOK
    <2> QED
      BY <2>1, <2>2 DEF VideoWork, Store!Background, Store!Begin, Store!Store, Store!Finish,
                        Store!Erase, Store!Drop
  <1>3. OneAtATime'
    BY <1>1 DEF AloneInv, OneAtATime, Active
  <1>4. ASSUME NEW r \in Requests PROVE Fresh(r)' /\ VideoOfMovie(r)'
    BY <1>1 DEF AloneInv, Fresh, VideoOfMovie, Replacing, At, Live, HasFailed
  <1>5. ASSUME NEW w \in known' PROVE StoredVideo(w)'
    BY <1>1, <1>2 DEF AloneInv, StoredVideo, HasFailed, Live
  <1> QED
    BY <1>3, <1>4, <1>5 DEF AloneInv

LEMMA WorkAlone ==
    ASSUME CatalogInv, AloneInv, alone, NEW r \in Requests, Work(r)
    PROVE  AloneInv'
  BY SendAlone, CheckHashAlone, QueueFirstPosterAlone, InsertMovieAlone, RenameAlone,
     ReadingAlone, QueueImageAlone, AskDeletionAlone, StoreVideoAlone, WriteBackAlone,
     WritePublishedAlone, RemoveMovieAlone, AwaitThrowsAlone, VideoWorkAlone
     DEF Work

LEMMA AloneInit == ASSUME Init PROVE AloneInv
  <1>1. Active = {} /\ known = {}
    BY DEF Init, Unsent, Active, Store!Init
  <1>2. ASSUME NEW r \in Requests PROVE Fresh(r) /\ VideoOfMovie(r)
    BY DEF Init, Unsent, Fresh, Replacing, At, VideoOfMovie, Live
  <1> QED
    BY <1>1, <1>2 DEF AloneInv, OneAtATime

LEMMA AloneNext ==
    ASSUME CatalogInv, AloneInv, [Next]_vars
    PROVE  AloneInv'
  <1>1. CASE UNCHANGED vars
    <2>1. UNCHANGED <<alone, movies, request, state, known, asked>>
      BY <1>1 DEF vars, videoVars
    <2>2. OneAtATime' <=> OneAtATime
      BY <2>1 DEF OneAtATime, Active
    <2>3. \A r \in Requests : (Fresh(r) => Fresh(r)') /\ (VideoOfMovie(r) => VideoOfMovie(r)')
      BY <2>1 DEF Fresh, VideoOfMovie, Replacing, At, Live, HasFailed
    <2>4. \A v \in known : StoredVideo(v) => StoredVideo(v)'
      BY <2>1 DEF StoredVideo, HasFailed, Live
    <2> QED
      BY <2>1, <2>2, <2>3, <2>4 DEF AloneInv
  <1>2. CASE Next /\ alone
    <2>1. PICK r \in Requests : Work(r)
      BY <1>2 DEF Next, Step, Work
    <2> QED
      BY <1>2, <2>1, WorkAlone
  <1>3. CASE Next /\ ~alone
    BY <1>3 DEF Next, AloneInv
  <1> QED
    BY <1>1, <1>2, <1>3

\* AloneInv holds as well of every state that MovieCatalog reaches.
THEOREM AloneInvariant == Spec => []AloneInv
  BY CatalogInvariant, AloneInit, AloneNext, PTL DEF Spec

\* Where nobody else works on a movie, every video that was stored is the video of a
\* movie or is being deleted, and every movie that has a video can be streamed from,
\* unless a request has failed half way (movies.service.ts:198-216, 330-340).
THEOREM VideosOfMovies == Spec => []VideosAreOfMovies
  <1>1. ASSUME CatalogInv, AloneInv, alone, NEW v \in known
        PROVE  LET m == request[v].movie
               IN  \/ Live(m) /\ movies[m].video = v
                   \/ v \in asked \/ Busy(m) \/ HasFailed(m)
    <2>1. v \in Requests /\ StoredVideo(v) /\ RequestOK(v)
      <3>1. v \in Requests
        BY <1>1 DEF CatalogInv, TypeOK, Store!TypeOK
      <3> QED
        BY <1>1, <3>1, Before DEF AloneInv
    <2>2. CASE request[v].step = "done"
      BY <2>1, <2>2 DEF StoredVideo
    <2>3. CASE request[v].step # "done"
      BY <2>1, <2>3 DEF RequestOK, Progress, Busy, Active
    <2> QED
      BY <2>2, <2>3
  <1>2. ASSUME CatalogInv, AloneInv, alone, NEW m \in Requests, Live(m), movies[m].video # Nothing
        PROVE  state[movies[m].video] # "ABSENT" \/ Busy(m) \/ HasFailed(m)
    <2> DEFINE v == movies[m].video
    <2>1. v \in known
      BY <1>2 DEF CatalogInv, MoviesOK, PartsOf
    <2>2. v \in asked \/ state[v] # "ABSENT"
      BY <1>2, <2>1 DEF AloneInv, StoredVideo
    <2>3. v \in asked => HasFailed(m) \/ \E q \in Requests : request[q].movie = m /\ Replacing(q)
      BY <1>2 DEF AloneInv, VideoOfMovie
    <2>4. \A q \in Requests : Replacing(q) => q \in Active
      BY DEF Replacing, At, Active
    <2> QED
      <3>1. CASE v \in asked
        BY <2>3, <2>4, <3>1 DEF Busy
      <3> QED
        BY <2>2, <3>1
  <1>3. CatalogInv /\ AloneInv => VideosAreOfMovies
    BY <1>1, <1>2 DEF VideosAreOfMovies, NoOrphanVideo, VideoServed
  <1> QED
    BY <1>3, CatalogInvariant, AloneInvariant, PTL

\* Where nobody else works on a movie, a request changes the part it is about and no
\* other, although most write back the whole of what they have read
\* (movies.service.ts:153, 180, 214, 315).
THEOREM OwnPartsChanged == Spec => OwnPartChanged
  <1>1. ASSUME CatalogInv, AloneInv, alone, NEW q \in Requests, Work(q),
               NEW r \in Requests, NEW m \in Requests, request[r].step = "write",
               request'[r].answer = "200", Live(m)
        PROVE  /\ Live(m)'
               /\ \A part \in DOMAIN movies[m] :
                     movies'[m][part] # movies[m][part] =>
                        m = request[r].movie /\ part = PartOf(request[r].kind)
    <2>1. Fresh(r) /\ RequestOK(r) /\ RequestVar /\ MoviesVar
      BY <1>1, Before DEF AloneInv
    <2>2. request'[r] # request[r]
      BY <1>1, <2>1 DEF Fresh
    <2>3. q = r
      BY <1>1, <2>2, WorkAfter DEF After, Keeps
    <2>4. ~AwaitThrows(r) /\ ~VideoWork(r)
      BY <1>1, <2>1, <2>2, EndsType DEF AwaitThrows, VideoWork, Answers
    <2>5. Rename(r) \/ WriteBack(r) \/ WritePublished(r)
      BY <1>1, <2>3, <2>4
         DEF Work, Send, CheckHash, QueueFirstPoster, InsertMovie, ReadForImage, ReadForVideo,
             ReadToPublish, ReadToDelete, Reads, QueueImage, AskDeletion, StoreVideo,
             RemoveMovie, At
    <2>6. PICK n \in Requests : n = request[r].movie
      BY <1>1, Before
    <2>7. CASE Rename(r)
      <3>1. Live(n) /\ movies' = [movies EXCEPT ![n].name = request[r].name]
        BY <1>1, <2>1, <2>6, <2>7, EndsType DEF Rename, Live, Answers
      <3>2. movies[n] \in Movie
        BY <2>1, <3>1 DEF MoviesVar, Live
      <3>3. /\ movies'[n] = [movies[n] EXCEPT !.name = request[r].name]
            /\ \A k \in Requests \ {n} : movies'[k] = movies[k]
        BY <2>1, <3>1 DEF MoviesVar
      <3>4. request[r].name \in Names /\ PartOf(request[r].kind) = "name"
        BY <2>1, <2>7 DEF Rename, At, RequestOK, AboutMovie, PartOf
      <3>5. movies'[n] \in Movie /\ \A part \in DOMAIN movies[n] :
               part # "name" => movies'[n][part] = movies[n][part]
        BY <3>2, <3>3, <3>4 DEF Movie
      <3> QED
        BY <1>1, <2>6, <3>3, <3>4, <3>5, NoMovieAssumption DEF Live
    <2>8. CASE WriteBack(r)
      <3> DEFINE kind == request[r].kind
      <3>1. /\ Live(n) /\ movies[n] \in Movie /\ kind \in {"poster", "backdrop", "video"}
            /\ movies' = [movies EXCEPT ![n] = [movies[n] EXCEPT ![kind] = r]]
            /\ [movies[n] EXCEPT ![kind] = r] \in Movie
        BY <1>1, <2>6, <2>8, WhatIsWritten
      <3>2. PartOf(kind) = kind
        BY <3>1 DEF PartOf
      <3> HIDE DEF kind
      <3>3. /\ movies'[n] = [movies[n] EXCEPT ![kind] = r]
            /\ \A k \in Requests \ {n} : movies'[k] = movies[k]
        BY <2>1, <3>1 DEF MoviesVar
      <3>4. \A part \in DOMAIN movies[n] : part # kind => movies'[n][part] = movies[n][part]
        BY <3>1, <3>3 DEF Movie
      <3> QED
        BY <1>1, <2>6, <3>1, <3>2, <3>3, <3>4, NoMovieAssumption DEF Live, kind
    <2>9. CASE WritePublished(r)
      <3>1. PICK is \in BOOLEAN :
               /\ Live(n) /\ movies[n] \in Movie /\ request[r].kind \in {"publish", "unpublish"}
               /\ movies' = [movies EXCEPT ![n] = [movies[n] EXCEPT !.isPublished = is]]
               /\ [movies[n] EXCEPT !.isPublished = is] \in Movie
        BY <1>1, <2>6, <2>9, WhatIsPublished
      <3>2. PartOf(request[r].kind) = "isPublished"
        BY <3>1 DEF PartOf
      <3>3. /\ movies'[n] = [movies[n] EXCEPT !.isPublished = is]
            /\ \A k \in Requests \ {n} : movies'[k] = movies[k]
        BY <2>1, <3>1 DEF MoviesVar
      <3>4. \A part \in DOMAIN movies[n] : part # "isPublished" => movies'[n][part] = movies[n][part]
        BY <3>1, <3>3 DEF Movie
      <3> QED
        BY <1>1, <2>6, <3>1, <3>2, <3>3, <3>4, NoMovieAssumption DEF Live
    <2> QED
      BY <2>5, <2>7, <2>8, <2>9
  <1>2. CatalogInv /\ AloneInv /\ [Next]_vars => [alone => OwnPart]_vars
    <2> SUFFICES ASSUME CatalogInv, AloneInv, Next, alone PROVE OwnPart
      OBVIOUS
    <2>1. PICK q \in Requests : Work(q)
      BY DEF Next, Step, Work
    <2> QED
      BY <1>1, <2>1 DEF OwnPart
  <1> QED
    BY <1>2, CatalogInvariant, AloneInvariant, PTL DEF Spec, OwnPartChanged

=============================================================================
