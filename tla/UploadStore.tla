----------------------------- MODULE UploadStore -----------------------------
(***************************************************************************)
(* What the upload of a video promises to MoviesController: the bytes of a *)
(* file arrive once each and in order; when all have arrived the handler   *)
(* is given the file, once, and makes a video of it or fails.  TusUpload   *)
(* implements it.                                                          *)
(***************************************************************************)
EXTENDS Integers, Sequences

CONSTANT Uploads       \* the ids of uploads

VARIABLES
    length,            \* number of bytes of the file that is uploaded
    contents,          \* [Uploads -> sequence]: what has arrived, byte i as i
    completed,         \* uploads whose file was given to the handler
    updating,          \* uploads of which the handler is making a video
    videos             \* uploads that a video was made of

storeVars == <<length, contents, completed, updating, videos>>

Init ==
    /\ length \in Nat
    /\ contents = [u \in Uploads |-> << >>]
    /\ completed = {} /\ updating = {} /\ videos = {}

-----------------------------------------------------------------------------
Receive(u) ==
    /\ Len(contents[u]) < length /\ u \notin completed
    /\ contents' = [contents EXCEPT ![u] = Append(@, Len(@) + 1)]
    /\ UNCHANGED <<length, completed, updating, videos>>

Complete(u) ==
    /\ Len(contents[u]) = length /\ u \notin completed
    /\ completed' = completed \cup {u}
    /\ updating' = updating \cup {u}
    /\ UNCHANGED <<length, contents, videos>>

MakeVideo(u) ==
    /\ u \in updating
    /\ updating' = updating \ {u}
    /\ videos' = videos \cup {u}
    /\ UNCHANGED <<length, contents, completed>>

\* The handler fails, or the process ends.
GiveUp ==
    /\ updating' \in SUBSET updating
    /\ UNCHANGED <<length, contents, completed, videos>>

Next ==
    \/ GiveUp
    \/ \E u \in Uploads : Receive(u) \/ Complete(u) \/ MakeVideo(u)

Spec == Init /\ [][Next]_storeVars

=============================================================================
