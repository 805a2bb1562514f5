---------------------------- MODULE ImagePipeline ----------------------------
(***************************************************************************)
(* The images module: PostersService queues a job for an uploaded image    *)
(* and deletes the files of one; CreatePosterWorker makes the file of each *)
(* size from the uploaded (raw) file, all sizes at once, and removes the   *)
(* raw file meanwhile.  BackdropsService and CreateBackdropWorker are the  *)
(* same code with other names and one size.                                *)
(*                                                                         *)
(* A size is a chain of streams: raw file, sharp, new file.  Only the last *)
(* has a listener for errors, and the promises of the sizes get theirs     *)
(* only after the raw file is removed (create-poster.worker.ts:105).  An   *)
(* error that nobody listens to is caught by the logger (main.ts:87),      *)
(* which ends the process within three seconds, and with it every job.     *)
(***************************************************************************)
EXTENDS Integers, Sequences, FiniteSets

CONSTANTS
    Images,        \* the ids generateUUID may return
    Sizes,         \* PosterSize, or BackdropSize
    Decodable,     \* the images whose raw file sharp can read
    Concurrency,   \* CREATE_POSTER_QUEUE_CONCURRENCY
    LateOpens,     \* whether an open may be done after a removal asked for later
    FaultKinds,    \* the faults that may happen: "crash", "throw" (an await rejects)
    MaxFaults      \* bound of the model: number of faults

ASSUME ImageAssumption == Decodable \subseteq Images
ASSUME ConcurrencyAssumption == Concurrency \in Nat \ {0}
ASSUME FaultAssumption ==
    LateOpens \in BOOLEAN /\ FaultKinds \subseteq {"crash", "throw"} /\ MaxFaults \in Nat

VARIABLES
    raw,           \* images whose raw file exists
    files,         \* the file of each image and size: none, partial or complete
    queued, made, dropped,   \* history: see ImageStore
    waiting,       \* the queue, the next job first
    stalls,        \* how often the job of an image was found stalled
    stalled,       \* images whose job lost its worker and was not yet found
    working,       \* images whose job is active
    rawStep,       \* the removal of the raw file by the active job: over or not
    reader,        \* the stream from the raw file, for each image and size
    writer,        \* the stream to the new file
    removing,      \* the sizes that deleteOne still has to remove
    dying,         \* whether the process is about to end
    faults         \* how many faults have happened

Store == INSTANCE ImageStore

jobVars == <<waiting, stalls, stalled, working>>
streams == <<rawStep, reader, writer>>
vars == <<raw, files, queued, made, dropped, jobVars, streams, removing, dying, faults>>

-----------------------------------------------------------------------------
MaxStalledCount == 1      \* BullMQ's default: a stalled job runs once more

\* A broken stream never ends; a failed size is one whose promise is rejected.
Readers == {"none", "opening", "open", "broken"}
Writers == {"none", "opening", "open", "done", "failed"}

TypeOK ==
    /\ raw \subseteq Images
    /\ files \in [Images -> [Sizes -> Store!Bytes]]
    /\ queued \subseteq Images /\ made \subseteq queued /\ dropped \subseteq queued
    /\ waiting \in Seq(queued)
    /\ stalls \in [Images -> 0..MaxStalledCount]
    /\ stalled \subseteq queued /\ working \subseteq queued
    /\ Cardinality(working) <= Concurrency
    /\ rawStep \in [Images -> {"asked", "over"}]
    /\ reader \in [Images -> [Sizes -> Readers]]
    /\ writer \in [Images -> [Sizes -> Writers]]
    /\ removing \in [Images -> SUBSET Sizes]
    /\ dying \in BOOLEAN
    /\ faults \in 0..MaxFaults

OfEverySize(x) == [i \in Images |-> [s \in Sizes |-> x]]

Init ==
    /\ Store!Init
    /\ raw = {}
    /\ waiting = << >> /\ stalls = [i \in Images |-> 0] /\ stalled = {} /\ working = {}
    /\ rawStep = [i \in Images |-> "over"]
    /\ reader = OfEverySize("none") /\ writer = OfEverySize("none")
    /\ removing = [i \in Images |-> {}]
    /\ dying = FALSE
    /\ faults = 0

Fault(kind) == kind \in FaultKinds /\ faults < MaxFaults /\ faults' = faults + 1

\* The process ends and is started again: what it was doing is lost, and its
\* jobs are left to be found stalled.
Dies ==
    /\ stalled' = stalled \cup working
    /\ working' = {}
    /\ rawStep' = [i \in Images |-> "over"]
    /\ reader' = OfEverySize("none") /\ writer' = OfEverySize("none")
    /\ removing' = [i \in Images |-> {}]
    /\ dying' = FALSE
    /\ UNCHANGED <<raw, files, queued, made, dropped, waiting, stalls>>

-----------------------------------------------------------------------------
(* PostersService *)

\* addCreatePosterJob, for a file that the request has uploaded.
QueueJob(i) ==
    /\ Store!Queue(i)
    /\ raw' = raw \cup {i}
    /\ waiting' = Append(waiting, i)
    /\ UNCHANGED <<stalls, stalled, working, streams, removing, dying, faults>>

\* deleteOne: the removal of every size is started.
AskDeletion(i) ==
    /\ Store!Drop(i)
    /\ removing[i] = {}
    /\ removing' = [removing EXCEPT ![i] = Sizes]
    /\ UNCHANGED <<raw, jobVars, streams, dying, faults>>

\* Mutant: a file that is not there ends the deletion.
RemoveFileStrict(i, s) ==
    /\ s \in removing[i]
    /\ files' = [files EXCEPT ![i][s] = "none"]
    /\ removing' = [removing EXCEPT ![i] = IF files[i][s] = "none" THEN {} ELSE @ \ {s}]
    /\ UNCHANGED <<raw, queued, made, dropped, jobVars, streams, dying, faults>>

\* deleteFile, which is no error if there is no file.
RemoveFile(i, s) ==
    /\ s \in removing[i]
    /\ files' = [files EXCEPT ![i][s] = "none"]
    /\ removing' = [removing EXCEPT ![i] = @ \ {s}]
    /\ UNCHANGED <<raw, queued, made, dropped, jobVars, streams, dying, faults>>

RemoveFileFails(i, s) ==
    /\ s \in removing[i]
    /\ Fault("throw")
    /\ removing' = [removing EXCEPT ![i] = @ \ {s}]
    /\ UNCHANGED <<raw, files, queued, made, dropped, jobVars, streams, dying>>

-----------------------------------------------------------------------------
(* CreatePosterWorker *)

\* downloadStream or uploadStream throws before its first await.
SizeThrows(i, s) == i \notin raw \/ files[i][s] # "none"

\* handleCreatePosterJob up to its first await: the promise of a size that
\* throws has no handler yet.
Starts(i, throws) ==
    /\ waiting # << >> /\ i = Head(waiting) /\ Cardinality(working) < Concurrency
    /\ waiting' = Tail(waiting)
    /\ working' = working \cup {i}
    /\ rawStep' = [rawStep EXCEPT ![i] = "asked"]
    /\ reader' = [reader EXCEPT ![i] = [s \in Sizes |-> IF s \in throws THEN "none" ELSE "opening"]]
    /\ writer' = [writer EXCEPT ![i] = [s \in Sizes |-> IF s \in throws THEN "failed" ELSE "opening"]]
    /\ dying' = (dying \/ throws # {})
    /\ UNCHANGED <<files, queued, made, dropped, stalls, stalled, removing, faults>>

\* Mutant: uploadStream does not look whether there is a file.
TakeJobUnchecked(i) ==
    /\ Starts(i, IF i \in raw THEN {} ELSE Sizes)
    /\ UNCHANGED raw

\* Mutant: the raw file is removed before the sizes are made.
TakeJobRemovingFirst(i) ==
    /\ Starts(i, Sizes)
    /\ raw' = raw \ {i}

TakeJob(i) ==
    /\ Starts(i, {s \in Sizes : SizeThrows(i, s)})
    /\ UNCHANGED raw

\* createReadStream opens the raw file, or finds that it is gone.
OpenRaw(i, s) ==
    /\ reader[i][s] = "opening"
    /\ reader' = [reader EXCEPT ![i][s] = IF i \in raw THEN "open" ELSE "broken"]
    /\ dying' = (dying \/ i \notin raw)
    /\ UNCHANGED <<raw, files, queued, made, dropped, jobVars, rawStep, writer, removing, faults>>

\* deleteFile of the raw file; an error is only logged.
RemoveRaw(i) ==
    /\ rawStep[i] = "asked"
    /\ LateOpens \/ \A s \in Sizes : reader[i][s] # "opening"
    /\ raw' = raw \ {i}
    /\ rawStep' = [rawStep EXCEPT ![i] = "over"]
    /\ UNCHANGED <<files, queued, made, dropped, jobVars, reader, writer, removing, dying, faults>>

RemoveRawFails(i) ==
    /\ rawStep[i] = "asked"
    /\ Fault("throw")
    /\ rawStep' = [rawStep EXCEPT ![i] = "over"]
    /\ UNCHANGED <<raw, files, queued, made, dropped, jobVars, reader, writer, removing, dying>>

\* ensureFile and createWriteStream.
OpenFile(i, s) ==
    /\ writer[i][s] = "opening"
    /\ files' = [files EXCEPT ![i][s] = "partial"]
    /\ writer' = [writer EXCEPT ![i][s] = "open"]
    /\ UNCHANGED <<raw, queued, made, dropped, jobVars, rawStep, reader, removing, dying, faults>>

Piped(i, s) == reader[i][s] = "open" /\ writer[i][s] = "open"

\* The size is written; if the file was removed meanwhile, that is not noticed.
FinishFile(i, s) ==
    /\ Piped(i, s) /\ i \in Decodable
    /\ files' = [files EXCEPT ![i][s] = IF @ = "none" THEN "none" ELSE "complete"]
    /\ writer' = [writer EXCEPT ![i][s] = "done"]
    /\ UNCHANGED <<raw, queued, made, dropped, jobVars, rawStep, reader, removing, dying, faults>>

\* sharp cannot read the raw file.
DecodeFails(i, s) ==
    /\ Piped(i, s) /\ i \notin Decodable
    /\ reader' = [reader EXCEPT ![i][s] = "broken"]
    /\ dying' = TRUE
    /\ UNCHANGED <<raw, files, queued, made, dropped, jobVars, rawStep, writer, removing, faults>>

\* The promise of a size is rejected: its file cannot be written, or the
\* progress of the job cannot be recorded.
SizeFails(i, s) ==
    /\ \/ writer[i][s] \in {"opening", "open"}
       \/ writer[i][s] = "done" /\ i \in working
    /\ Fault("throw")
    /\ writer' = [writer EXCEPT ![i][s] = "failed"]
    /\ dying' = (dying \/ rawStep[i] = "asked")
    /\ UNCHANGED <<raw, files, queued, made, dropped, jobVars, rawStep, reader, removing>>

JobEnds(i) ==
    /\ i \in working /\ rawStep[i] = "over"
    /\ working' = working \ {i}
    /\ UNCHANGED <<raw, files, queued, dropped, waiting, stalls, stalled, streams, removing, dying>>

\* Promise.all of the sizes rejects: the other sizes go on all the same.
JobThrows(i) ==
    /\ \E s \in Sizes : writer[i][s] = "failed"
    /\ JobEnds(i)
    /\ UNCHANGED <<made, faults>>

\* The last updateProgress rejects.
ProgressFails(i) ==
    /\ \A s \in Sizes : writer[i][s] = "done"
    /\ JobEnds(i)
    /\ Fault("throw")
    /\ UNCHANGED made

\* Mutant: the job is over when one of the sizes is done.
CompleteJobEarly(i) ==
    /\ \E s \in Sizes : writer[i][s] = "done"
    /\ JobEnds(i)
    /\ made' = made \cup {i}
    /\ UNCHANGED faults

CompleteJob(i) ==
    /\ \A s \in Sizes : writer[i][s] = "done"
    /\ JobEnds(i)
    /\ made' = made \cup {i}
    /\ UNCHANGED faults

-----------------------------------------------------------------------------
(* The end of the process, and what BullMQ does about stalled jobs *)

Exit == dying /\ Dies /\ UNCHANGED faults

Crash == Fault("crash") /\ Dies

\* A stalled job is the next one to run, unless it has stalled before: then it
\* has failed.
Recover(i) ==
    /\ i \in stalled
    /\ stalled' = stalled \ {i}
    /\ IF stalls[i] < MaxStalledCount
       THEN waiting' = <<i>> \o waiting /\ stalls' = [stalls EXCEPT ![i] = @ + 1]
       ELSE UNCHANGED <<waiting, stalls>>
    /\ UNCHANGED <<raw, files, queued, made, dropped, working, streams, removing, dying, faults>>

-----------------------------------------------------------------------------
Streams(i) == \E s \in Sizes :
    OpenRaw(i, s) \/ OpenFile(i, s) \/ FinishFile(i, s) \/ DecodeFails(i, s)

Next ==
    \/ Exit \/ Crash
    \/ \E i \in Images :
         \/ QueueJob(i) \/ AskDeletion(i) \/ TakeJob(i) \/ Recover(i)
         \/ RemoveRaw(i) \/ RemoveRawFails(i) \/ Streams(i) \/ CompleteJob(i) \/ JobThrows(i)
         \/ ProgressFails(i)
         \/ \E s \in Sizes : RemoveFile(i, s) \/ RemoveFileFails(i, s) \/ SizeFails(i, s)

Spec == Init /\ [][Next]_vars

\* The streams, the file system and BullMQ go on; clients need not.
Fairness ==
    /\ WF_vars(Exit)
    /\ \A i \in Images :
         /\ WF_vars(TakeJob(i)) /\ WF_vars(RemoveRaw(i)) /\ WF_vars(Streams(i))
         /\ WF_vars(CompleteJob(i)) /\ WF_vars(JobThrows(i)) /\ WF_vars(Recover(i))
         /\ WF_vars(\E s \in Sizes : RemoveFile(i, s))

FairSpec == Spec /\ Fairness

-----------------------------------------------------------------------------
(* Properties *)

\* When the job of an image has completed, every size of it is whole and can be
\* served, through every crash and second run, until the image is deleted.
MadeIsWhole == Store!MadeIsWhole

\* The images module keeps the promise of ImageStore: in particular a file that
\* is complete, and may be in a cache for a week, is never truncated or written
\* again by a second run (file-storage-local.class.ts:66).
ImplementsImageStore == Store!Spec

\* With readable images, no faults, and raw files that are opened before they
\* are removed, every queued image is made.
ImageSettles == \A i \in Images : i \in queued ~> i \in made \/ faults > 0

\* A deletion asked for when no job works on the image or will do so leaves no
\* file behind, whatever a crash has left of the image before; unless the second
\* run of a job that the crash has stopped ends the process and the deletion.
Idle(i) ==
    /\ i \notin working \cup stalled /\ \A k \in DOMAIN waiting : waiting[k] # i
    /\ \A s \in Sizes : writer[i][s] \notin {"opening", "open"}
Calm(i) ==
    /\ \A j \in Images : j = i \/ j \in stalled \/ stalls[j] > 0 => Idle(j)
    /\ ~dying
Gone(i) == \A s \in Sizes : files[i][s] = "none"
DeletionSettles ==
    \A i \in Images :
        Calm(i) /\ removing[i] = Sizes /\ faults = MaxFaults ~> Gone(i)

=============================================================================
