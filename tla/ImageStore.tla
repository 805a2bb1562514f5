----------------------------- MODULE ImageStore -----------------------------
(***************************************************************************)
(* What the images module promises to MoviesService, which queues images   *)
(* to be made and asks for their deletion, and to the controllers that     *)
(* serve the files of an image.  ImagePipeline implements it.              *)
(***************************************************************************)
CONSTANTS Images,      \* the ids of posters, or of backdrops
          Sizes        \* PosterSize, or BackdropSize

VARIABLES
    files,             \* [Images -> [Sizes -> Bytes]]: the files of an image
    queued,            \* images that addCreatePosterJob was called for
    made,              \* images whose job has completed
    dropped            \* images that deleteOne was called for

storeVars == <<files, queued, made, dropped>>

Bytes == {"none", "partial", "complete"}

Init ==
    /\ files = [i \in Images |-> [s \in Sizes |-> "none"]]
    /\ queued = {} /\ made = {} /\ dropped = {}

-----------------------------------------------------------------------------
Queue(i) ==
    /\ i \notin queued
    /\ queued' = queued \cup {i}
    /\ UNCHANGED <<files, made, dropped>>

\* deleteOne: only of an image whose id somebody was given.
Drop(i) ==
    /\ i \in queued
    /\ dropped' = dropped \cup {i}
    /\ UNCHANGED <<files, queued, made>>

\* A file is written once: never again when it is complete.
Write(i, s, b) ==
    /\ i \in queued /\ files[i][s] # "complete" /\ b # "none"
    /\ files' = [files EXCEPT ![i][s] = b]
    /\ UNCHANGED <<queued, made, dropped>>

Erase(i, s) ==
    /\ i \in dropped
    /\ files' = [files EXCEPT ![i][s] = "none"]
    /\ UNCHANGED <<queued, made, dropped>>

\* An image is made when the files of all its sizes are complete; one that is
\* being deleted may have lost some.
Make(i) ==
    /\ i \in queued
    /\ i \notin dropped => \A s \in Sizes : files[i][s] = "complete"
    /\ made' = made \cup {i}
    /\ UNCHANGED <<files, queued, dropped>>

Next == \E i \in Images :
    \/ Queue(i) \/ Drop(i) \/ Make(i)
    \/ \E s \in Sizes : Erase(i, s) \/ \E b \in Bytes : Write(i, s, b)

Spec == Init /\ [][Next]_storeVars

-----------------------------------------------------------------------------
\* Every size of an image that was made can be served, until it is deleted.
MadeIsWhole == \A i \in made \ dropped : \A s \in Sizes : files[i][s] = "complete"

=============================================================================
