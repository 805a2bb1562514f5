----------------------------- MODULE VideoStore -----------------------------
(***************************************************************************)
(* What the videos module promises to the rest of the backend: the states  *)
(* a video goes through, as seen by MoviesService (which creates videos    *)
(* and asks for their deletion) and by VideoStreamController (which serves *)
(* the file of a READY video).  How the queues and the workers keep the    *)
(* promise is in VideoPipeline, which implements this specification.       *)
(***************************************************************************)
CONSTANT Videos            \* the uuids Video.generateUUID may return

VARIABLES
    state,                 \* [Videos -> VideoState or "ABSENT"]: the collection
    bytes,                 \* [Videos -> Bytes]: the files of container 'videos'
    known,                 \* videos whose record was inserted, at some time
    asked                  \* videos whose deletion was asked for

storeVars == <<state, bytes, known, asked>>

\* VideoState.FAILED is declared by the code and assigned nowhere.
VideoStates == {"NOT_READY", "PROCESSING", "READY"}
Bytes == {"none", "partial", "complete"}

TypeOK ==
    /\ state \in [Videos -> VideoStates \cup {"ABSENT"}]
    /\ bytes \in [Videos -> Bytes]
    /\ known \subseteq Videos
    /\ asked \subseteq known

Init ==
    /\ state = [v \in Videos |-> "ABSENT"]
    /\ bytes = [v \in Videos |-> "none"]
    /\ known = {}
    /\ asked = {}

-----------------------------------------------------------------------------
\* createOneFromFile has returned: the video exists, to be processed.
Create(v) ==
    /\ v \notin known
    /\ state' = [state EXCEPT ![v] = "NOT_READY"]
    /\ known' = known \cup {v}
    /\ UNCHANGED <<bytes, asked>>

\* addDeleteVideoJob: only an id that createOneFromFile returned is passed.
AskDeletion(v) ==
    /\ v \in known
    /\ asked' = asked \cup {v}
    /\ UNCHANGED <<state, bytes, known>>

\* The processing starts, or starts again after a restart of the server.
Begin(v) ==
    /\ state[v] # "ABSENT"
    /\ state' = [state EXCEPT ![v] = "PROCESSING"]
    /\ UNCHANGED <<bytes, known, asked>>

\* The file grows; it is never begun again once it is complete.
Store(v, b) ==
    /\ bytes[v] # "complete"
    /\ b # "none"
    /\ bytes' = [bytes EXCEPT ![v] = b]
    /\ UNCHANGED <<state, known, asked>>

\* The video becomes READY: its file is complete, unless it is being deleted.
Finish(v) ==
    /\ state[v] \in {"NOT_READY", "PROCESSING"}
    /\ bytes[v] = "complete" \/ v \in asked
    /\ state' = [state EXCEPT ![v] = "READY"]
    /\ UNCHANGED <<bytes, known, asked>>

Erase(v) ==
    /\ v \in asked
    /\ bytes' = [bytes EXCEPT ![v] = "none"]
    /\ UNCHANGED <<state, known, asked>>

Drop(v) ==
    /\ v \in asked
    /\ state' = [state EXCEPT ![v] = "ABSENT"]
    /\ UNCHANGED <<bytes, known, asked>>

\* What happens to a video after its creation, whoever asked for it.
Background(v) ==
    \/ Begin(v)
    \/ \E b \in Bytes : Store(v, b)
    \/ Finish(v)
    \/ Erase(v)
    \/ Drop(v)

Next == \E v \in Videos : Create(v) \/ AskDeletion(v) \/ Background(v)

Spec == Init /\ [][Next]_storeVars

-----------------------------------------------------------------------------
\* A video that is served (video-stream.controller.ts:53) has its whole file,
\* until somebody asks for its deletion.
ReadyIsComplete ==
    \A v \in Videos : state[v] = "READY" /\ v \notin asked => bytes[v] = "complete"

=============================================================================
