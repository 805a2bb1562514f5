---------------------------- MODULE VideoPipeline ----------------------------
(***************************************************************************)
(* The videos module of the backend: VideosService creates the record of   *)
(* an uploaded video and queues the job that copies the uploaded file into *)
(* the container 'videos'; ProcessVideoWorker and DeleteVideoWorker take   *)
(* the jobs of two BullMQ queues, one at a time each (the concurrency of   *)
(* both is 1), and run at the same time as each other and as the service.  *)
(* Every action is the code between two awaits.  The process may die at    *)
(* any await; the collection (MongoDB), the queues (Redis) and the files   *)
(* survive, and BullMQ runs a job whose worker died once more.             *)
(***************************************************************************)
EXTENDS Integers, Sequences

CONSTANTS
    Videos,       \* the uuids Video.generateUUID may return
    Genuine,      \* the videos whose uploaded file is an MKV file
    NoVideo,      \* the video of an idle worker
    RawSize,      \* the length of every uploaded file, in chunks
    MaxWaiting,   \* bound of the model: delete jobs waiting at the same time
    FaultKinds,   \* the faults that may happen: "crash", "throw" (an await rejects),
                  \* "throwOnDelete" (one does while a video is deleted)
    MaxFaults     \* bound of the model: number of faults

ASSUME VideoAssumption == NoVideo \notin Videos /\ Genuine \subseteq Videos
ASSUME SizeAssumption == RawSize \in Nat \ {0}
ASSUME BoundAssumption == MaxWaiting \in Nat /\ MaxFaults \in Nat
ASSUME FaultAssumption == FaultKinds \subseteq {"crash", "throw", "throwOnDelete"}

VARIABLES
    state,          \* the collection: state of the record, "ABSENT" if there is none
    sizeInBytes,    \* the collection: sizeInBytes of the record
    file,           \* container 'videos': length of the file, NoFile if there is none
    creation,       \* progress of the call createOneFromFile for each video
    asked,          \* history: videos addDeleteVideoJob was called for
    processQueue, deleteQueue,       \* waiting jobs, the next one first
    processStalled, deleteStalled,   \* jobs whose worker died, not yet found
    process, deletion,               \* the two workers and their active job
    faults                           \* the faults that have happened

collection == <<state, sizeInBytes>>
processSide == <<processQueue, processStalled, process>>
deleteSide == <<deleteQueue, deleteStalled, deletion>>
vars == <<collection, file, creation, asked, processSide, deleteSide, faults>>

-----------------------------------------------------------------------------
NoFile == -1
MaxStalledCount == 1      \* BullMQ's default: a stalled job runs once more

VideoStates == {"NOT_READY", "PROCESSING", "READY"}
Creations == {"none", "queued", "returned", "failed"}
ProcessSteps == {"idle", "mark", "check", "upload", "open", "copy", "stat", "finish", "ack"}
DeleteSteps == {"idle", "unlink", "drop", "ack"}

Lengths == NoFile..RawSize

Job == [video : Videos, stalls : 0..MaxStalledCount]
JobOf(w) == [video |-> w.video, stalls |-> w.stalls]
NewJob(v) == [video |-> v, stalls |-> 0]

\* A worker: how far it is with its active job; size is what getFileMetadata gave.
ProcessStates ==
    {p \in [step : ProcessSteps, video : Videos \cup {NoVideo},
            stalls : 0..MaxStalledCount, size : 0..RawSize] :
        p.step # "idle" => p.video \in Videos}
DeletionStates ==
    {d \in [step : DeleteSteps, video : Videos \cup {NoVideo}, stalls : 0..MaxStalledCount] :
        d.step # "idle" => d.video \in Videos}
IdleProcess == [step |-> "idle", video |-> NoVideo, stalls |-> 0, size |-> 0]
IdleDeletion == [step |-> "idle", video |-> NoVideo, stalls |-> 0]

TypeOK ==
    /\ state \in [Videos -> VideoStates \cup {"ABSENT"}]
    /\ sizeInBytes \in [Videos -> 0..RawSize]
    /\ file \in [Videos -> Lengths]
    /\ creation \in [Videos -> Creations]
    /\ asked \subseteq Videos
    /\ processQueue \in Seq(Job) /\ deleteQueue \in Seq(Job)
    /\ processStalled \in Seq(Job) /\ deleteStalled \in Seq(Job)
    /\ process \in ProcessStates /\ deletion \in DeletionStates
    /\ faults \in Seq(FaultKinds) /\ Len(faults) <= MaxFaults

Init ==
    /\ state = [v \in Videos |-> "ABSENT"]
    /\ sizeInBytes = [v \in Videos |-> 0]
    /\ file = [v \in Videos |-> NoFile]
    /\ creation = [v \in Videos |-> "none"]
    /\ asked = {}
    /\ processQueue = << >> /\ processStalled = << >> /\ process = IdleProcess
    /\ deleteQueue = << >> /\ deleteStalled = << >> /\ deletion = IdleDeletion
    /\ faults = << >>

Fault(kind) == kind \in FaultKinds /\ Len(faults) < MaxFaults /\ faults' = Append(faults, kind)

-----------------------------------------------------------------------------
(* VideosService *)

\* createOneFromFile: a new uuid, and the job is queued before the record exists.
QueueProcessJob(v) ==
    /\ creation[v] = "none"
    /\ creation' = [creation EXCEPT ![v] = "queued"]
    /\ processQueue' = Append(processQueue, NewJob(v))
    /\ UNCHANGED <<collection, file, asked, processStalled, process, deleteSide, faults>>

\* createOneFromFile, after the queue has answered: the record is inserted.
InsertRecord(v) ==
    /\ creation[v] = "queued"
    /\ creation' = [creation EXCEPT ![v] = "returned"]
    /\ state' = [state EXCEPT ![v] = "NOT_READY"]
    /\ sizeInBytes' = [sizeInBytes EXCEPT ![v] = 0]
    /\ UNCHANGED <<file, asked, processSide, deleteSide, faults>>

InsertRecordFails(v) ==
    /\ creation[v] = "queued"
    /\ Fault("throw")
    /\ creation' = [creation EXCEPT ![v] = "failed"]
    /\ UNCHANGED <<collection, file, asked, processSide, deleteSide>>

\* addDeleteVideoJob, called with an id that createOneFromFile has returned.
QueueDeleteJob(v) ==
    /\ creation[v] = "returned"
    /\ Len(deleteQueue) < MaxWaiting
    /\ asked' = asked \cup {v}
    /\ deleteQueue' = Append(deleteQueue, NewJob(v))
    /\ UNCHANGED <<collection, file, creation, processSide, deleteStalled, deletion, faults>>

\* addDeleteVideoJob logs the error of the queue and returns as if it had worked.
QueueDeleteJobFails(v) ==
    /\ creation[v] = "returned"
    /\ Fault("throwOnDelete")
    /\ asked' = asked \cup {v}
    /\ UNCHANGED <<collection, file, creation, processSide, deleteSide>>

-----------------------------------------------------------------------------
(* ProcessVideoWorker.handleProcessVideoJob *)

ProcessGoes(step) == process' = [process EXCEPT !.step = step]
ProcessJobEnds == process' = IdleProcess
OthersOfProcess == UNCHANGED <<creation, asked, processQueue, processStalled, deleteSide, faults>>

TakeProcessJob ==
    /\ process.step = "idle"
    /\ processQueue # << >>
    /\ LET job == Head(processQueue)
       IN  process' = [step |-> "mark", video |-> job.video, stalls |-> job.stalls, size |-> 0]
    /\ processQueue' = Tail(processQueue)
    /\ UNCHANGED <<collection, file, creation, asked, processStalled, deleteSide, faults>>

\* Mutant: the update inserts the record it does not find.
MarkProcessingUpserting ==
    /\ process.step = "mark"
    /\ state' = [state EXCEPT ![process.video] = "PROCESSING"]
    /\ ProcessGoes("check")
    /\ UNCHANGED <<sizeInBytes, file>> /\ OthersOfProcess

\* The result of the update is not looked at: there may be no record.
MarkProcessing ==
    /\ process.step = "mark"
    /\ state' = [state EXCEPT ![process.video] = IF @ = "ABSENT" THEN @ ELSE "PROCESSING"]
    /\ ProcessGoes("check")
    /\ UNCHANGED <<sizeInBytes, file>> /\ OthersOfProcess

\* A file that is not MKV makes the job fail; the record is left PROCESSING.
CheckFileType ==
    /\ process.step = "check"
    /\ IF process.video \in Genuine THEN ProcessGoes("upload") ELSE ProcessJobEnds
    /\ UNCHANGED <<collection, file>> /\ OthersOfProcess

\* uploadStream: FILE_ALREADY_EXISTS, or an empty file is made sure to exist.
EnsureFile ==
    /\ process.step = "upload"
    /\ \/ /\ file[process.video] # NoFile
          /\ ProcessJobEnds
          /\ UNCHANGED file
       \/ /\ file[process.video] = NoFile
          /\ file' = [file EXCEPT ![process.video] = 0]
          /\ ProcessGoes("open")
    /\ UNCHANGED collection /\ OthersOfProcess

\* createWriteStream opens with flag 'w': the file is created again if it is gone.
OpenFile ==
    /\ process.step = "open"
    /\ file' = [file EXCEPT ![process.video] = 0]
    /\ ProcessGoes("copy")
    /\ UNCHANGED collection /\ OthersOfProcess

\* pipe: what is written after the file was unlinked is lost with it.
CopyChunk ==
    /\ process.step = "copy"
    /\ file[process.video] \in 0..(RawSize - 1)
    /\ file' = [file EXCEPT ![process.video] = @ + 1]
    /\ UNCHANGED <<collection, process>> /\ OthersOfProcess

\* Mutant: the end of the pipe is not waited for.
FinishCopyEarly ==
    /\ process.step = "copy"
    /\ ProcessGoes("stat")
    /\ UNCHANGED <<collection, file>> /\ OthersOfProcess

FinishCopy ==
    /\ process.step = "copy"
    /\ file[process.video] \in {NoFile, RawSize}
    /\ ProcessGoes("stat")
    /\ UNCHANGED <<collection, file>> /\ OthersOfProcess

\* getFileMetadata throws ENOENT if the file was deleted meanwhile.
ReadSize ==
    /\ process.step = "stat"
    /\ IF file[process.video] = NoFile
       THEN ProcessJobEnds
       ELSE process' = [process EXCEPT !.step = "finish", !.size = file[process.video]]
    /\ UNCHANGED <<collection, file>> /\ OthersOfProcess

\* Mutant: the last update forgets the state.
MarkReadyStateless ==
    /\ process.step = "finish"
    /\ IF state[process.video] = "ABSENT" THEN ProcessJobEnds ELSE ProcessGoes("ack")
    /\ sizeInBytes' = [sizeInBytes EXCEPT
            ![process.video] = IF state[process.video] = "ABSENT" THEN @ ELSE process.size]
    /\ UNCHANGED <<state, file>> /\ OthersOfProcess

\* The last update: the job fails if there is no record to update.
MarkReady ==
    /\ process.step = "finish"
    /\ \/ /\ state[process.video] = "ABSENT"
          /\ ProcessJobEnds
          /\ UNCHANGED collection
       \/ /\ state[process.video] # "ABSENT"
          /\ state' = [state EXCEPT ![process.video] = "READY"]
          /\ sizeInBytes' = [sizeInBytes EXCEPT ![process.video] = process.size]
          /\ ProcessGoes("ack")
    /\ UNCHANGED file /\ OthersOfProcess

CompleteProcessJob ==
    /\ process.step = "ack"
    /\ ProcessJobEnds
    /\ UNCHANGED <<collection, file>> /\ OthersOfProcess

\* Any of the awaits rejects (MongoDB, Redis, the disk): the job has failed,
\* is not tried again (attempts is 1), and nothing of it is undone.
ProcessJobThrows ==
    /\ process.step # "idle"
    /\ Fault("throw")
    /\ ProcessJobEnds
    /\ UNCHANGED <<collection, file, creation, asked, processQueue, processStalled, deleteSide>>

ProcessWorker ==
    \/ TakeProcessJob \/ MarkProcessing \/ CheckFileType \/ EnsureFile \/ OpenFile
    \/ CopyChunk \/ FinishCopy \/ ReadSize \/ MarkReady \/ CompleteProcessJob

-----------------------------------------------------------------------------
(* DeleteVideoWorker.process *)

DeletionGoes(step) == deletion' = [deletion EXCEPT !.step = step]
DeleteJobEnds == deletion' = IdleDeletion
OthersOfDelete == UNCHANGED <<creation, asked, deleteQueue, deleteStalled, processSide>>

TakeDeleteJob ==
    /\ deletion.step = "idle"
    /\ deleteQueue # << >>
    /\ LET job == Head(deleteQueue)
       IN  deletion' = [step |-> "unlink", video |-> job.video, stalls |-> job.stalls]
    /\ deleteQueue' = Tail(deleteQueue)
    /\ UNCHANGED <<collection, file, creation, asked, deleteStalled, processSide, faults>>

\* Mutant: the job fails if there is no file to remove.
UnlinkFileStrict ==
    /\ deletion.step = "unlink"
    /\ IF file[deletion.video] = NoFile THEN DeleteJobEnds ELSE DeletionGoes("drop")
    /\ file' = [file EXCEPT ![deletion.video] = NoFile]
    /\ UNCHANGED <<collection, faults>> /\ OthersOfDelete

\* fse.remove succeeds whether or not the file exists.
UnlinkFile ==
    /\ deletion.step = "unlink"
    /\ file' = [file EXCEPT ![deletion.video] = NoFile]
    /\ DeletionGoes("drop")
    /\ UNCHANGED <<collection, faults>> /\ OthersOfDelete

\* An error of the disk is logged and the job goes on to the record.
UnlinkFails ==
    /\ deletion.step = "unlink"
    /\ Fault("throwOnDelete")
    /\ DeletionGoes("drop")
    /\ UNCHANGED <<collection, file>> /\ OthersOfDelete

\* The job fails if there is no record to delete.
DropRecord ==
    /\ deletion.step = "drop"
    /\ IF state[deletion.video] = "ABSENT" THEN DeleteJobEnds ELSE DeletionGoes("ack")
    /\ state' = [state EXCEPT ![deletion.video] = "ABSENT"]
    /\ sizeInBytes' = [sizeInBytes EXCEPT ![deletion.video] = 0]
    /\ UNCHANGED <<file, faults>> /\ OthersOfDelete

CompleteDeleteJob ==
    /\ deletion.step = "ack"
    /\ DeleteJobEnds
    /\ UNCHANGED <<collection, file, faults>> /\ OthersOfDelete

DeleteJobThrows ==
    /\ deletion.step # "idle"
    /\ Fault("throwOnDelete")
    /\ DeleteJobEnds
    /\ UNCHANGED <<collection, file>> /\ OthersOfDelete

DeleteWorker == TakeDeleteJob \/ UnlinkFile \/ DropRecord \/ CompleteDeleteJob

-----------------------------------------------------------------------------
(* The server process and BullMQ *)

\* The process dies: both workers and every call of createOneFromFile with it.
Crash ==
    /\ Fault("crash")
    /\ creation' = [v \in Videos |-> IF creation[v] = "queued" THEN "failed" ELSE creation[v]]
    /\ process' = IdleProcess
    /\ processStalled' = IF process.step = "idle" THEN processStalled
                         ELSE Append(processStalled, JobOf(process))
    /\ deletion' = IdleDeletion
    /\ deleteStalled' = IF deletion.step = "idle" THEN deleteStalled
                        ELSE Append(deleteStalled, JobOf(deletion))
    /\ UNCHANGED <<collection, file, asked, processQueue, deleteQueue>>

\* The queue after a job is found stalled: it is the next one to run, unless
\* it has stalled before, in which case it has failed.
Requeued(queue, job) ==
    IF job.stalls < MaxStalledCount
    THEN <<[job EXCEPT !.stalls = @ + 1]>> \o queue
    ELSE queue

RecoverProcessJob ==
    /\ processStalled # << >>
    /\ processQueue' = Requeued(processQueue, Head(processStalled))
    /\ processStalled' = Tail(processStalled)
    /\ UNCHANGED <<collection, file, creation, asked, process, deleteSide, faults>>

RecoverDeleteJob ==
    /\ deleteStalled # << >>
    /\ deleteQueue' = Requeued(deleteQueue, Head(deleteStalled))
    /\ deleteStalled' = Tail(deleteStalled)
    /\ UNCHANGED <<collection, file, creation, asked, deletion, processSide, faults>>

-----------------------------------------------------------------------------
\* The steps of a process that does not die.
Runs ==
    \/ \E v \in Videos : \/ QueueProcessJob(v) \/ InsertRecord(v) \/ InsertRecordFails(v)
                         \/ QueueDeleteJob(v) \/ QueueDeleteJobFails(v)
    \/ ProcessWorker \/ ProcessJobThrows
    \/ DeleteWorker \/ UnlinkFails \/ DeleteJobThrows
    \/ RecoverProcessJob \/ RecoverDeleteJob

Next == Runs \/ Crash

Spec == Init /\ [][Next]_vars

\* The server keeps running its pending calls and its workers, and BullMQ its
\* check for stalled jobs; nobody has to upload or to delete anything.
Fairness ==
    /\ \A v \in Videos : WF_vars(InsertRecord(v))
    /\ WF_vars(ProcessWorker) /\ WF_vars(RecoverProcessJob)
    /\ WF_vars(DeleteWorker) /\ WF_vars(RecoverDeleteJob)

FairSpec == Spec /\ Fairness

-----------------------------------------------------------------------------
(* Properties *)

HasJobIn(queue, v) == \E i \in DOMAIN queue : queue[i].video = v

\* The process job of v is not over; likewise for a delete job of v.
ProcessPending(v) ==
    \/ HasJobIn(processQueue, v) \/ HasJobIn(processStalled, v)
    \/ process.step # "idle" /\ process.video = v
DeletePending(v) ==
    \/ HasJobIn(deleteQueue, v) \/ HasJobIn(deleteStalled, v)
    \/ deletion.step # "idle" /\ deletion.video = v

\* Until its deletion is asked for, a READY video has its whole file, and the
\* size its record gives is the size of that file, whatever crashed or failed
\* while it was processed, and whether or not its job was run twice.
\* (video-stream.controller.ts:53 serves every READY video.)
ReadyIsComplete ==
    \A v \in Videos :
        state[v] = "READY" /\ v \notin asked =>
            file[v] = RawSize /\ sizeInBytes[v] = RawSize

\* A complete file is never truncated or written again: a second run of its
\* job stops at FILE_ALREADY_EXISTS.  It can only be removed.
CompleteFileKept ==
    [][\A v \in Videos : file[v] = RawSize => file'[v] \in {NoFile, RawSize}]_vars

\* A fault of one of these kinds has happened.
Met(kinds) == \E i \in DOMAIN faults : faults[i] \in kinds

\* Unless the process dies or an await rejects, except while other videos are
\* deleted, the video of a returned createOneFromFile ends READY if its
\* file is MKV and nobody asks for its deletion, except where the worker has
\* overtaken the service: its job was over before the record was inserted.
Overtaken(v) == state[v] = "NOT_READY" /\ ~ProcessPending(v)
UploadSettles ==
    \A v \in Genuine :
        creation[v] = "returned" ~>
            state[v] = "READY" \/ v \in asked \/ Overtaken(v) \/ Met({"crash", "throw"})

\* Once the processing of a video is over, a deletion of it leaves neither the
\* record nor the file, for good, whatever crashes or fails elsewhere, and although
\* a crash in the middle makes the job run again.  Only two things may leave
\* them: an await of a deletion that rejects, and a second crash in the same
\* deletion, after which BullMQ gives its job up.
Settled(v) == creation[v] = "returned" /\ v \notin asked /\ ~ProcessPending(v)
Gone(v) == state[v] = "ABSENT" /\ file[v] = NoFile
StalledAgain(v) ==
    \E i \in DOMAIN deleteStalled :
        deleteStalled[i].video = v /\ deleteStalled[i].stalls = MaxStalledCount
DeletionSettles ==
    \A v \in Videos :
        [](Settled(v) => \/ [](v \notin asked) \/ <>[]Gone(v)
                         \/ <>Met({"throwOnDelete"}) \/ <>StalledAgain(v))

\* movies.controller.e2e.spec.ts:409 "should successfully delete a movie and
\* the video file": when no job is left, a video that was to be deleted has no file.
DeletedLeavesNoFile ==
    \A v \in asked : ~ProcessPending(v) /\ ~DeletePending(v) => file[v] = NoFile

-----------------------------------------------------------------------------
(* The pipeline implements VideoStore *)

Bytes(length) ==
    CASE length = NoFile -> "none" [] length = RawSize -> "complete" [] OTHER -> "partial"

Store == INSTANCE VideoStore WITH
    bytes <- [v \in Videos |-> Bytes(file[v])],
    known <- {v \in Videos : creation[v] = "returned"}

\* What MoviesService and the stream controller see of the pipeline is a
\* behaviour of VideoStore: no record comes back, no file is removed and no
\* record is dropped that nobody asked to delete.
ImplementsVideoStore == Store!Spec

=============================================================================
