------------------------------ MODULE TusUpload ------------------------------
(***************************************************************************)
(* The resumable upload of a video: the client of the frontend             *)
(* (video.service.ts, a tus-js-client with retries), the tus server with   *)
(* FileStorageDataStore, and the handlers of MoviesController, the last of *)
(* which makes a video of a finished upload.                               *)
(*                                                                         *)
(* One client uploads one file.  Uploads share nothing: ids are random,    *)
(* and what clients of one movie do to each other is in MovieCatalog.  The *)
(* connection may be lost at any time; the server then goes on with what   *)
(* it has, while the client asks how far it got.  The tus server works on  *)
(* one request of an upload at a time; if another has waited for three     *)
(* seconds, the first is aborted.                                          *)
(***************************************************************************)
EXTENDS Integers, Sequences, FiniteSets

CONSTANTS
    Uploads,       \* the ids the tus server may generate
    NoUpload,      \* no id
    MaxLength,     \* bound of the model: bytes of the file
    Chunk,         \* chunkSize: most bytes of one PATCH
    Retries,       \* length of retryDelays
    FaultKinds,    \* what may happen: "cut" (the connection is lost), "crash" (the
                   \* server ends), "throw" (an await rejects), "abort" (see above),
                   \* "delete" (somebody deletes the movie)
    MaxFaults      \* bound of the model: number of faults

ASSUME UploadAssumption == NoUpload \notin Uploads
ASSUME LengthAssumption == MaxLength \in Nat /\ Chunk \in Nat \ {0} /\ Retries \in Nat
ASSUME FaultAssumption ==
    FaultKinds \subseteq {"cut", "crash", "throw", "abort", "delete"} /\ MaxFaults \in Nat

VARIABLES
    length,            \* bytes of the client's file
    acceptable,        \* whether its type is allowed and its size is not too large
    phase,             \* what the client does
    upload,            \* the id of the upload, as far as the client knows
    offset,            \* how much the client believes has arrived
    attempt,           \* retries since there was progress
    retryFrom,         \* the offset at the last retry
    movie,             \* whether the movie exists
    contents,          \* the file of each upload: its bytes, the i-th one as i
    known,             \* uploads with a file and a record in the config store
    posts,             \* uploads whose POST is served: no, live, lost
    lock,              \* the PATCH that is served for an upload: free, live, lost
    at, end,           \* the bytes it has written up to, and those it will write up to
    late,              \* PATCHes given up by the client that have not arrived
    completed,         \* history: uploads that were reported to be finished
    updating,          \* uploads that updateVideoForOne works on
    videos,            \* uploads that a video was made of
    faults, hit        \* how many faults have happened, and of which kinds

Store == INSTANCE UploadStore

client == <<phase, upload, offset, attempt, retryFrom>>
storage == <<contents, known>>
patches == <<lock, at, end, late>>
outcome == <<completed, updating, videos>>
given == <<length, acceptable>>
vars == <<given, client, movie, storage, posts, patches, outcome, faults, hit>>

-----------------------------------------------------------------------------
Phases == {"creating", "heading", "patching", "waiting", "done", "failed"}
Late == [upload : Uploads, from : 0..MaxLength, to : 0..MaxLength]

TypeOK ==
    /\ length \in 0..MaxLength /\ acceptable \in BOOLEAN
    /\ phase \in Phases
    /\ upload \in known \cup {NoUpload}
    /\ phase \in {"heading", "patching"} => upload # NoUpload
    /\ offset \in 0..length /\ retryFrom \in 0..length
    /\ attempt \in 0..Retries
    /\ movie \in BOOLEAN
    /\ contents \in [Uploads -> Seq(1..MaxLength)]
    /\ known \subseteq Uploads
    /\ posts \in [Uploads -> {"no", "live", "lost"}]
    /\ lock \in [Uploads -> {"free", "live", "lost"}]
    /\ at \in [Uploads -> 0..MaxLength] /\ end \in [Uploads -> 0..MaxLength]
    /\ \A u \in Uploads : lock[u] # "free" => at[u] <= end[u] /\ end[u] <= length
    /\ late \subseteq Late
    /\ completed \subseteq known /\ updating \subseteq completed /\ videos \subseteq completed
    /\ faults \in 0..MaxFaults /\ hit \subseteq FaultKinds

Init ==
    /\ length \in 0..MaxLength /\ acceptable \in BOOLEAN
    /\ phase = "creating" /\ upload = NoUpload
    /\ offset = 0 /\ attempt = 0 /\ retryFrom = 0
    /\ movie = TRUE
    /\ contents = [u \in Uploads |-> << >>] /\ known = {}
    /\ posts = [u \in Uploads |-> "no"]
    /\ lock = [u \in Uploads |-> "free"]
    /\ at = [u \in Uploads |-> 0] /\ end = [u \in Uploads |-> 0] /\ late = {}
    /\ completed = {} /\ updating = {} /\ videos = {}
    /\ faults = 0 /\ hit = {}

Fault(kind) ==
    /\ kind \in FaultKinds /\ faults < MaxFaults
    /\ faults' = faults + 1 /\ hit' = hit \cup {kind}

NoFault == UNCHANGED <<faults, hit>>

-----------------------------------------------------------------------------
(* The client *)

\* A request has failed in a way that is retried: not with a status 4xx, other
\* than 409.  Progress since the last retry gives all retries back.
RetryOrFail ==
    LET tries == IF offset > retryFrom THEN 0 ELSE attempt
    IN  IF tries < Retries
        THEN phase' = "waiting" /\ attempt' = tries + 1 /\ retryFrom' = offset
        ELSE phase' = "failed" /\ attempt' = tries /\ UNCHANGED retryFrom

RequestFails == RetryOrFail /\ UNCHANGED <<upload, offset>>

\* start, after the delay: with an upload, ask how far it got.
Resume ==
    /\ phase = "waiting"
    /\ phase' = IF upload = NoUpload THEN "creating" ELSE "heading"
    /\ UNCHANGED <<given, upload, offset, attempt, retryFrom, movie, storage, posts, patches,
                   outcome, faults, hit>>

Reached(n) == IF n = length THEN "done" ELSE "patching"

-----------------------------------------------------------------------------
(* POST: handleTusPostToInitUploadVideo *)

\* findOne throws, or validateUploadMimeTypeOrThrowTusError, or the tus server
\* because of maxSize: statuses 4xx, which are not retried.
PostRefused ==
    /\ phase = "creating" /\ ~(movie /\ acceptable) /\ \A u \in Uploads : posts[u] # "live"
    /\ phase' = "failed"
    /\ UNCHANGED <<given, upload, offset, attempt, retryFrom, movie, storage, posts, patches,
                   outcome, faults, hit>>

\* create: the empty file.  The id is new.
CreateFile(u) ==
    /\ phase = "creating" /\ movie /\ acceptable /\ \A v \in Uploads : posts[v] # "live"
    /\ u \notin known /\ posts[u] = "no"
    /\ posts' = [posts EXCEPT ![u] = "live"]
    /\ UNCHANGED <<given, client, movie, storage, patches, outcome, faults, hit>>

\* create: the record, then the answer.  A file of no bytes is finished for the
\* client; the handler does not look at what handleUpload returns.
SaveConfig(u) ==
    /\ posts[u] # "no"
    /\ known' = known \cup {u}
    /\ posts' = [posts EXCEPT ![u] = "no"]
    /\ IF posts[u] = "live"
       THEN upload' = u /\ offset' = 0 /\ phase' = Reached(0) /\ UNCHANGED <<attempt, retryFrom>>
       ELSE UNCHANGED client
    /\ UNCHANGED <<given, movie, contents, patches, outcome, faults, hit>>

PostFails(u) ==
    /\ posts[u] # "no"
    /\ Fault("throw")
    /\ posts' = [posts EXCEPT ![u] = "no"]
    /\ IF posts[u] = "live" THEN RequestFails ELSE UNCHANGED client
    /\ UNCHANGED <<given, movie, storage, patches, outcome>>

-----------------------------------------------------------------------------
(* HEAD: handleTusHeadToUploadVideo *)

\* getUpload: the offset is the size of the file.
Size(u) == Len(contents[u])

AskOffset ==
    /\ phase = "heading" /\ movie /\ lock[upload] = "free"
    /\ offset' = Size(upload)
    /\ phase' = Reached(Size(upload))
    /\ UNCHANGED <<given, upload, attempt, retryFrom, movie, storage, posts, patches, outcome,
                   faults, hit>>

\* findOne throws 404: the client starts all over with a POST.
HeadRefused ==
    /\ phase = "heading" /\ ~movie
    /\ phase' = "creating" /\ upload' = NoUpload
    /\ UNCHANGED <<given, offset, attempt, retryFrom, movie, storage, posts, patches, outcome,
                   faults, hit>>

\* findOne rejects, or getUpload does: any answer but 2xx and 423 to a HEAD makes the
\* client start all over.
HeadFails ==
    /\ phase = "heading"
    /\ Fault("throw")
    /\ phase' = "creating" /\ upload' = NoUpload
    /\ UNCHANGED <<given, offset, attempt, retryFrom, movie, storage, posts, patches, outcome>>

-----------------------------------------------------------------------------
(* PATCH: handleTusPatchToUploadVideo *)

ChunkEnd == IF offset + Chunk < length THEN offset + Chunk ELSE length

\* write: the file is opened where the offset says, without being truncated.
Opens(u, how, from, to) ==
    /\ lock[u] = "free" /\ Size(u) = from
    /\ lock' = [lock EXCEPT ![u] = how]
    /\ at' = [at EXCEPT ![u] = from] /\ end' = [end EXCEPT ![u] = to]
    /\ UNCHANGED <<given, client, movie, posts, known, outcome, faults, hit>>

\* Mutant: opened with the flag 'w'.
StartPatchTruncating ==
    /\ phase = "patching" /\ lock[upload] # "live"
    /\ Opens(upload, "live", offset, ChunkEnd)
    /\ contents' = [contents EXCEPT ![upload] = << >>]
    /\ UNCHANGED late

StartPatch ==
    /\ phase = "patching" /\ lock[upload] # "live"
    /\ Opens(upload, "live", offset, ChunkEnd)
    /\ UNCHANGED <<contents, late>>

\* The tus server answers 409 if there is more, because a PATCH that the client
\* has given up has arrived meanwhile.
PatchConflicts ==
    /\ phase = "patching" /\ lock[upload] = "free" /\ Size(upload) # offset
    /\ RequestFails
    /\ UNCHANGED <<given, movie, storage, posts, patches, outcome, faults, hit>>

StartLatePatch(p) ==
    /\ p \in late
    /\ Opens(p.upload, "lost", p.from, p.to)
    /\ late' = late \ {p}
    /\ UNCHANGED contents

DropLatePatch(p) ==
    /\ p \in late
    /\ late' = late \ {p}
    /\ UNCHANGED <<given, client, movie, storage, posts, lock, at, end, outcome, faults, hit>>

WriteByte(u) ==
    /\ lock[u] # "free" /\ at[u] < end[u]
    /\ contents' = [contents EXCEPT ![u] =
                       IF at[u] < Len(@) THEN [@ EXCEPT ![at[u] + 1] = at[u] + 1]
                       ELSE Append(@, at[u] + 1)]
    /\ at' = [at EXCEPT ![u] = @ + 1]
    /\ UNCHANGED <<given, client, movie, known, posts, lock, end, late, outcome, faults, hit>>

\* The pipeline has ended: with all bytes, or with those that came before the
\* connection was lost, which is no error.  Then the answer is sent, which needs
\* no movie, and handleUpload returns the file if the upload is finished.
Answers(u, finished) ==
    /\ lock[u] = "lost" \/ (lock[u] = "live" /\ at[u] = end[u])
    /\ lock' = [lock EXCEPT ![u] = "free"]
    /\ IF lock[u] = "live"
       THEN offset' = at[u] /\ phase' = Reached(at[u]) /\ UNCHANGED <<upload, attempt, retryFrom>>
       ELSE UNCHANGED client
    /\ completed' = IF finished THEN completed \cup {u} ELSE completed
    /\ updating' = IF finished THEN updating \cup {u} ELSE updating
    /\ UNCHANGED <<given, movie, storage, posts, at, end, late, videos, faults, hit>>

\* Mutant: an upload is only finished if the client still listens.
EndPatchListening(u) == Answers(u, at[u] = length /\ lock[u] = "live")

\* Mutant: the promise of write is not settled if the stream ends early.
EndPatchWhole(u) == at[u] = end[u] /\ Answers(u, at[u] = length)

EndPatch(u) == Answers(u, at[u] = length)

\* The PATCH is aborted because another request has waited too long, or it fails.
\* What it has written stays.
Waited(u) ==
    \/ lock[u] = "lost" /\ phase \in {"heading", "patching"} /\ upload = u
    \/ \E p \in late : p.upload = u

PatchFails(u) ==
    /\ lock[u] # "free"
    /\ Fault("throw") \/ (Waited(u) /\ Fault("abort"))
    /\ lock' = [lock EXCEPT ![u] = "free"]
    /\ IF lock[u] = "live" THEN RequestFails ELSE UNCHANGED client
    /\ UNCHANGED <<given, movie, storage, posts, at, end, late, outcome>>

\* updateVideoForOne, after the answer was sent: nobody is told if it throws.
UpdateVideo(u) ==
    /\ u \in updating
    /\ updating' = updating \ {u}
    /\ videos' = IF movie THEN videos \cup {u} ELSE videos
    /\ UNCHANGED <<given, client, movie, storage, posts, patches, completed, faults, hit>>

UpdateThrows(u) ==
    /\ u \in updating
    /\ Fault("throw")
    /\ updating' = updating \ {u}
    /\ UNCHANGED <<given, client, movie, storage, posts, patches, completed, videos>>

-----------------------------------------------------------------------------
(* What goes wrong around them *)

\* The client gives its request up; the server does not know and goes on.  A
\* PATCH may still arrive.
ConnectionLost ==
    /\ phase \in {"creating", "heading", "patching"}
    /\ Fault("cut")
    /\ RequestFails
    /\ posts' = [u \in Uploads |-> IF posts[u] = "live" THEN "lost" ELSE posts[u]]
    /\ lock' = [u \in Uploads |-> IF lock[u] = "live" THEN "lost" ELSE lock[u]]
    /\ \/ late' = late
       \/ /\ phase = "patching" /\ lock[upload] # "live"
          /\ late' = late \cup {[upload |-> upload, from |-> offset, to |-> ChunkEnd]}
    /\ UNCHANGED <<given, movie, storage, at, end, outcome>>

Crash ==
    /\ Fault("crash")
    /\ IF phase \in {"creating", "heading", "patching"} THEN RequestFails ELSE UNCHANGED client
    /\ posts' = [u \in Uploads |-> "no"]
    /\ lock' = [u \in Uploads |-> "free"]
    /\ late' = {}
    /\ updating' = {}
    /\ UNCHANGED <<given, movie, storage, at, end, completed, videos>>

DeleteMovie ==
    /\ movie
    /\ Fault("delete")
    /\ movie' = FALSE
    /\ UNCHANGED <<given, client, storage, posts, patches, outcome>>

-----------------------------------------------------------------------------
Next ==
    \/ Resume \/ PostRefused \/ AskOffset \/ HeadRefused \/ StartPatch \/ PatchConflicts
    \/ HeadFails \/ ConnectionLost \/ Crash \/ DeleteMovie
    \/ \E p \in late : StartLatePatch(p) \/ DropLatePatch(p)
    \/ \E u \in Uploads :
         \/ CreateFile(u) \/ SaveConfig(u) \/ PostFails(u)
         \/ WriteByte(u) \/ EndPatch(u) \/ PatchFails(u)
         \/ UpdateVideo(u) \/ UpdateThrows(u)

Spec == Init /\ [][Next]_vars

\* The client's timers and the server's event loop go on, and what a client that
\* is still there sends arrives; faults need not happen.
Fairness ==
    /\ WF_vars(Resume) /\ WF_vars(PostRefused) /\ WF_vars(\E u \in Uploads : CreateFile(u))
    /\ WF_vars(AskOffset) /\ WF_vars(HeadRefused) /\ WF_vars(StartPatch) /\ WF_vars(PatchConflicts)
    /\ \A u \in Uploads :
         /\ WF_vars(SaveConfig(u)) /\ WF_vars(UpdateVideo(u))
         /\ WF_vars(lock[u] = "live" /\ WriteByte(u)) /\ WF_vars(EndPatch(u))

FairSpec == Spec /\ Fairness

-----------------------------------------------------------------------------
(* Properties *)

\* However often connections are lost, requests retried, given up, overtaken or
\* aborted, and the server restarted: the bytes of an upload are stored once and
\* in order, and the handler is given the file once, when it is whole.
ImplementsUploadStore == Store!Spec

\* uploadVideo settles: every upload is answered to the user.
UploadEnds == <>(phase \in {"done", "failed"})

\* A user who is told that the video is uploaded gets a video, however often the
\* connection was lost, as long as the server works and the movie is there.  A
\* file of no bytes is the exception.
DoneMeansVideo ==
    phase = "done" /\ length > 0 ~> upload \in videos \/ ~(hit \subseteq {"cut"})

=============================================================================
