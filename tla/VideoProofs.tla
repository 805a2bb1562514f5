----------------------------- MODULE VideoProofs -----------------------------
(***************************************************************************)
(* What is proved of VideoPipeline and of VideoStream, for every set of    *)
(* videos, every length of file and every number of faults.  The first     *)
(* part is about the pipeline alone, its Spec and its Next: its types, the *)
(* refinement of VideoStore, that what is deleted stays deleted, and that  *)
(* no upload is left half way.  The second adds the request: it only       *)
(* reads, so that everything proved of the pipeline holds with it, what it *)
(* is served from is the whole file, and what it sends is what it has      *)
(* announced.                                                              *)
(***************************************************************************)
EXTENDS VideoStream, TLAPS

-----------------------------------------------------------------------------
(* The inductive invariant *)

\* A file is removed only for a video whose deletion was asked for.
JobsFor(videos) == [video : videos, stalls : 0..MaxStalledCount]
JobsAsked ==
    /\ deleteQueue \in Seq(JobsFor(asked)) /\ deleteStalled \in Seq(JobsFor(asked))
    /\ deletion.step # "idle" => deletion.video \in asked

AskedReturned == \A v \in asked : creation[v] = "returned"

\* From the first update to the last, the record of the video is not READY.
WorkedIsNotReady ==
    process.step \in {"check", "upload", "open", "copy", "stat", "finish"} =>
        state[process.video] # "READY"

\* How far the file is at each step of the worker; it can only be missing
\* because it was deleted.
FileFollowsWork ==
    /\ process.step = "open" => file[process.video] \in {NoFile, 0}
    /\ process.step = "stat" => file[process.video] \in {NoFile, RawSize}
    /\ process.step = "finish" => process.size = RawSize
    /\ process.step \in {"open", "copy", "stat", "finish"} =>
           file[process.video] # NoFile \/ process.video \in asked
    /\ process.step = "finish" => file[process.video] \in {NoFile, RawSize}

PipelineInv ==
    /\ TypeOK
    /\ JobsAsked
    /\ AskedReturned
    /\ WorkedIsNotReady
    /\ FileFollowsWork
    /\ ReadyIsComplete

-----------------------------------------------------------------------------
(* Types *)

USE SizeAssumption DEF MaxStalledCount

\* What the small operators on jobs and workers return.
LEMMA NewJobType == ASSUME NEW v \in Videos PROVE NewJob(v) \in Job
  BY DEF NewJob, Job

LEMMA LengthType ==
    /\ NoFile \in Lengths /\ 0 \in Lengths /\ RawSize \in Lengths
    /\ \A n \in 0..(RawSize - 1) : n + 1 \in Lengths
    /\ \A n \in Lengths : n # NoFile => n \in 0..RawSize
    /\ NoFile # 0 /\ NoFile # RawSize /\ 0 # RawSize
    /\ NoFile \notin 0..(RawSize - 1)
  BY DEF Lengths, NoFile

LEMMA QueueType ==
    ASSUME NEW Jobs, NEW queue \in Seq(Jobs), queue # << >>
    PROVE  Head(queue) \in Jobs /\ Tail(queue) \in Seq(Jobs)
  OBVIOUS

LEMMA RequeuedType ==
    ASSUME NEW videos, NEW queue \in Seq(JobsFor(videos)), NEW job \in JobsFor(videos)
    PROVE  Requeued(queue, job) \in Seq(JobsFor(videos))
  <1>1. CASE job.stalls < MaxStalledCount
    <2> DEFINE again == [job EXCEPT !.stalls = @ + 1]
    <2>1. again \in JobsFor(videos)
      BY <1>1 DEF JobsFor
    <2>2. <<again>> \in Seq(JobsFor(videos))
      BY <2>1
    <2>3. <<again>> \o queue \in Seq(JobsFor(videos))
      BY <2>2
    <2>4. QED
      BY <1>1, <2>3 DEF Requeued
  <1>2. CASE ~(job.stalls < MaxStalledCount)
    BY <1>2 DEF Requeued
  <1>3. QED
    BY <1>1, <1>2

LEMMA JobsForVideos == Job = JobsFor(Videos)
  BY DEF Job, JobsFor

LEMMA IdleType ==
    /\ IdleProcess \in ProcessStates /\ IdleProcess.step = "idle"
    /\ IdleDeletion \in DeletionStates /\ IdleDeletion.step = "idle"
  BY DEF IdleProcess, IdleDeletion, ProcessStates, DeletionStates, ProcessSteps, DeleteSteps

\* A worker with an active job, and where each of its steps takes it.
LEMMA ProcessType ==
    ASSUME NEW p \in ProcessStates, p.step # "idle"
    PROVE  p.video \in Videos /\ p.size \in 0..RawSize /\ JobOf(p) \in Job
  BY DEF ProcessStates, JobOf, Job

LEMMA ProcessGoesType ==
    ASSUME process \in ProcessStates, process.step # "idle",
           NEW step \in ProcessSteps, ProcessGoes(step)
    PROVE  /\ process' \in ProcessStates /\ process'.step = step
           /\ process'.video = process.video /\ process'.size = process.size
  BY DEF ProcessStates, ProcessSteps, ProcessGoes

LEMMA ProcessEndsType ==
    ASSUME ProcessJobEnds
    PROVE  process' \in ProcessStates /\ process'.step = "idle"
  BY IdleType DEF ProcessJobEnds

LEMMA DeletionType ==
    ASSUME NEW d \in DeletionStates, d.step # "idle"
    PROVE  d.video \in Videos /\ JobOf(d) \in Job
  BY DEF DeletionStates, JobOf, Job

LEMMA DeletionGoesType ==
    ASSUME deletion \in DeletionStates, deletion.step # "idle",
           NEW step \in DeleteSteps, DeletionGoes(step)
    PROVE  /\ deletion' \in DeletionStates /\ deletion'.step = step
           /\ deletion'.video = deletion.video
  BY DEF DeletionStates, DeleteSteps, DeletionGoes

LEMMA DeletionEndsType ==
    ASSUME DeleteJobEnds
    PROVE  deletion' \in DeletionStates /\ deletion'.step = "idle"
  BY IdleType DEF DeleteJobEnds

LEMMA ReadSizeType ==
    ASSUME process \in ProcessStates, process.step = "stat", NEW size \in 0..RawSize,
           process' = [process EXCEPT !.step = "finish", !.size = size]
    PROVE  /\ process' \in ProcessStates /\ process'.step = "finish"
           /\ process'.video = process.video /\ process'.size = size
  BY DEF ProcessStates, ProcessSteps

\* Each step of the process worker: where it starts and where it can go.
LEMMA ProcessStepType ==
    ASSUME process \in ProcessStates
    PROVE  /\ MarkProcessing => process' \in ProcessStates
           /\ CheckFileType => process' \in ProcessStates
           /\ EnsureFile => process' \in ProcessStates
           /\ OpenFile => process' \in ProcessStates
           /\ FinishCopy => process' \in ProcessStates
           /\ MarkReady => process' \in ProcessStates
  BY ProcessGoesType, ProcessEndsType
  DEF MarkProcessing, CheckFileType, EnsureFile, OpenFile, FinishCopy, MarkReady, ProcessSteps

\* A worker that has just taken a job.
LEMMA TakenType ==
    ASSUME NEW job \in Job
    PROVE  /\ [step |-> "mark", video |-> job.video, stalls |-> job.stalls, size |-> 0]
                  \in ProcessStates
           /\ [step |-> "unlink", video |-> job.video, stalls |-> job.stalls]
                  \in DeletionStates
  BY DEF Job, ProcessStates, DeletionStates, ProcessSteps, DeleteSteps

LEMMA FaultType ==
    ASSUME faults \in Seq(FaultKinds) /\ Len(faults) <= MaxFaults, NEW kind, Fault(kind)
    PROVE  faults' \in Seq(FaultKinds) /\ Len(faults') <= MaxFaults
  BY BoundAssumption DEF Fault

LEMMA TypeStep == TypeOK /\ [Next]_vars => TypeOK'
  <1> SUFFICES ASSUME TypeOK, [Next]_vars PROVE TypeOK'
    OBVIOUS
  <1> USE DEF TypeOK, collection, processSide, deleteSide, OthersOfProcess, OthersOfDelete
  <1>1. ASSUME NEW v \in Videos, QueueProcessJob(v) PROVE TypeOK'
    BY <1>1, NewJobType DEF QueueProcessJob, Creations
  <1>2. ASSUME NEW v \in Videos, InsertRecord(v) PROVE TypeOK'
    BY <1>2 DEF InsertRecord, Creations, VideoStates
  <1>3. ASSUME NEW v \in Videos, InsertRecordFails(v) PROVE TypeOK'
    BY <1>3, FaultType DEF InsertRecordFails, Creations
  <1>4. ASSUME NEW v \in Videos, QueueDeleteJob(v) PROVE TypeOK'
    BY <1>4, NewJobType DEF QueueDeleteJob
  <1>5. ASSUME NEW v \in Videos, QueueDeleteJobFails(v) PROVE TypeOK'
    BY <1>5, FaultType DEF QueueDeleteJobFails
  <1>6. CASE TakeProcessJob
    BY <1>6, QueueType, TakenType DEF TakeProcessJob
  <1>7. CASE MarkProcessing
    BY <1>7, ProcessStepType DEF MarkProcessing, VideoStates
  <1>8. CASE CheckFileType
    BY <1>8, ProcessStepType DEF CheckFileType
  <1>9. CASE EnsureFile
    <2>1. file' \in [Videos -> Lengths]
      BY <1>9, LengthType DEF EnsureFile
    <2>2. QED
      BY <1>9, <2>1, ProcessStepType DEF EnsureFile
  <1>10. CASE OpenFile
    <2>1. file' \in [Videos -> Lengths]
      BY <1>10, LengthType DEF OpenFile
    <2>2. QED
      BY <1>10, <2>1, ProcessStepType DEF OpenFile
  <1>11. CASE CopyChunk
    <2>1. file' \in [Videos -> Lengths]
      BY <1>11, LengthType DEF CopyChunk
    <2>2. QED
      BY <1>11, <2>1 DEF CopyChunk
  <1>12. CASE FinishCopy
    BY <1>12, ProcessStepType DEF FinishCopy
  <1>13. CASE ReadSize
    <2>1. process.video \in Videos /\ process.step = "stat"
      BY <1>13, ProcessType DEF ReadSize
    <2>2. file[process.video] # NoFile => file[process.video] \in 0..RawSize
      BY <2>1, LengthType
    <2>3. process' \in ProcessStates
      BY <1>13, <2>1, <2>2, ProcessEndsType, ReadSizeType DEF ReadSize
    <2>4. QED
      BY <1>13, <2>3 DEF ReadSize
  <1>14. CASE MarkReady
    <2>1. /\ state' \in [Videos -> VideoStates \cup {"ABSENT"}]
          /\ sizeInBytes' \in [Videos -> 0..RawSize]
      BY <1>14, ProcessType DEF MarkReady, VideoStates
    <2>2. QED
      BY <1>14, <2>1, ProcessStepType DEF MarkReady
  <1>15. CASE CompleteProcessJob
    BY <1>15, ProcessEndsType DEF CompleteProcessJob
  <1>16. CASE ProcessJobThrows
    BY <1>16, FaultType, ProcessEndsType DEF ProcessJobThrows
  <1>17. CASE TakeDeleteJob
    BY <1>17, QueueType, TakenType DEF TakeDeleteJob
  <1>18. CASE UnlinkFile
    <2>1. file' \in [Videos -> Lengths]
      BY <1>18, LengthType DEF UnlinkFile
    <2>2. QED
      BY <1>18, <2>1, DeletionGoesType DEF UnlinkFile, DeleteSteps
  <1>19. CASE UnlinkFails
    BY <1>19, DeletionGoesType, FaultType DEF UnlinkFails, DeleteSteps
  <1>20. CASE DropRecord
    <2>1. deletion' \in DeletionStates
      BY <1>20, DeletionGoesType, DeletionEndsType DEF DropRecord, DeleteSteps
    <2>2. state' \in [Videos -> VideoStates \cup {"ABSENT"}]
      BY <1>20 DEF DropRecord
    <2>3. sizeInBytes' \in [Videos -> 0..RawSize]
      <3>1. 0 \in 0..RawSize
        OBVIOUS
      <3>2. sizeInBytes' = [sizeInBytes EXCEPT ![deletion.video] = 0]
        BY <1>20 DEF DropRecord
      <3>3. QED
        BY <3>1, <3>2
    <2>4. QED
      BY <1>20, <2>1, <2>2, <2>3 DEF DropRecord
  <1>21. CASE CompleteDeleteJob
    BY <1>21, DeletionEndsType DEF CompleteDeleteJob
  <1>22. CASE DeleteJobThrows
    BY <1>22, FaultType, DeletionEndsType DEF DeleteJobThrows
  <1>23. CASE Crash
    <2>1. creation' \in [Videos -> Creations]
      BY <1>23 DEF Crash, Creations
    <2>2. processStalled' \in Seq(Job) /\ process' \in ProcessStates
      BY <1>23, ProcessType, IdleType DEF Crash
    <2>3. deleteStalled' \in Seq(Job) /\ deletion' \in DeletionStates
      BY <1>23, DeletionType, IdleType DEF Crash
    <2>4. QED
      BY <1>23, <2>1, <2>2, <2>3, FaultType DEF Crash
  <1>24. CASE RecoverProcessJob
    BY <1>24, JobsForVideos, QueueType, RequeuedType DEF RecoverProcessJob
  <1>25. CASE RecoverDeleteJob
    BY <1>25, JobsForVideos, QueueType, RequeuedType DEF RecoverDeleteJob
  <1>26. CASE UNCHANGED vars
    BY <1>26 DEF vars
  <1>27. QED
    BY <1>1, <1>2, <1>3, <1>4, <1>5, <1>6, <1>7, <1>8, <1>9, <1>10, <1>11, <1>12,
       <1>13, <1>14, <1>15, <1>16, <1>17, <1>18, <1>19, <1>20, <1>21, <1>22, <1>23,
       <1>24, <1>25, <1>26
    DEF Next, Runs, ProcessWorker, DeleteWorker
-----------------------------------------------------------------------------
(* Every delete job is for a video whose deletion was asked for *)

LEMMA MoreJobs ==
    ASSUME NEW few, NEW many, few \subseteq many, NEW queue \in Seq(JobsFor(few))
    PROVE  queue \in Seq(JobsFor(many))
  <1>1. JobsFor(few) \subseteq JobsFor(many)
    BY DEF JobsFor
  <1>2. QED
    BY <1>1

LEMMA JobsAskedKept ==
    ASSUME JobsAsked, UNCHANGED deleteSide, asked \subseteq asked'
    PROVE  JobsAsked'
  BY MoreJobs DEF JobsAsked, deleteSide

LEMMA JobsAskedStep == TypeOK /\ JobsAsked /\ [Next]_vars => JobsAsked'
  <1> SUFFICES ASSUME TypeOK, JobsAsked, [Next]_vars PROVE JobsAsked'
    OBVIOUS
  <1>1. ASSUME NEW v \in Videos, QueueProcessJob(v) PROVE JobsAsked'
    BY <1>1, JobsAskedKept DEF QueueProcessJob
  <1>2. ASSUME NEW v \in Videos, InsertRecord(v) PROVE JobsAsked'
    BY <1>2, JobsAskedKept DEF InsertRecord
  <1>3. ASSUME NEW v \in Videos, InsertRecordFails(v) PROVE JobsAsked'
    BY <1>3, JobsAskedKept DEF InsertRecordFails
  <1>4. ASSUME NEW v \in Videos, QueueDeleteJob(v) PROVE JobsAsked'
    <2>1. NewJob(v) \in JobsFor(asked')
      BY <1>4 DEF QueueDeleteJob, NewJob, JobsFor
    <2>2. deleteQueue \in Seq(JobsFor(asked')) /\ deleteStalled \in Seq(JobsFor(asked'))
      BY <1>4, MoreJobs DEF JobsAsked, QueueDeleteJob
    <2>3. QED
      BY <1>4, <2>1, <2>2 DEF QueueDeleteJob, JobsAsked
  <1>5. ASSUME NEW v \in Videos, QueueDeleteJobFails(v) PROVE JobsAsked'
    BY <1>5, JobsAskedKept DEF QueueDeleteJobFails
  <1>6. CASE ProcessWorker \/ ProcessJobThrows \/ RecoverProcessJob \/ UNCHANGED vars
    BY <1>6, JobsAskedKept
    DEF ProcessWorker, TakeProcessJob, MarkProcessing, CheckFileType, EnsureFile, OpenFile,
        CopyChunk, FinishCopy, ReadSize, MarkReady, CompleteProcessJob, ProcessJobThrows,
        RecoverProcessJob, OthersOfProcess, vars
  <1>7. CASE TakeDeleteJob
    <2>1. Head(deleteQueue) \in JobsFor(asked) /\ Tail(deleteQueue) \in Seq(JobsFor(asked))
      BY <1>7, QueueType DEF TakeDeleteJob, JobsAsked
    <2>2. Head(deleteQueue).video \in asked
      BY <2>1 DEF JobsFor
    <2>3. QED
      BY <1>7, <2>1, <2>2 DEF TakeDeleteJob, JobsAsked
  <1>8. CASE UnlinkFile \/ UnlinkFails
    BY <1>8, DeletionGoesType
    DEF UnlinkFile, UnlinkFails, OthersOfDelete, JobsAsked, DeleteSteps, TypeOK
  <1>9. CASE DropRecord
    BY <1>9, DeletionGoesType, DeletionEndsType
    DEF DropRecord, OthersOfDelete, JobsAsked, DeleteSteps, TypeOK
  <1>10. CASE CompleteDeleteJob \/ DeleteJobThrows
    BY <1>10, DeletionEndsType
    DEF CompleteDeleteJob, DeleteJobThrows, OthersOfDelete, JobsAsked
  <1>11. CASE Crash
    <2>1. deletion.step # "idle" => JobOf(deletion) \in JobsFor(asked)
      BY DEF TypeOK, JobsAsked, JobsFor, JobOf, DeletionStates
    <2>2. QED
      BY <1>11, <2>1, IdleType DEF Crash, JobsAsked
  <1>12. CASE RecoverDeleteJob
    BY <1>12, QueueType, RequeuedType DEF RecoverDeleteJob, JobsAsked
  <1>13. QED
    BY <1>1, <1>2, <1>3, <1>4, <1>5, <1>6, <1>7, <1>8, <1>9, <1>10, <1>11, <1>12
    DEF Next, Runs, DeleteWorker

-----------------------------------------------------------------------------
(* Only videos that createOneFromFile has returned are asked to be deleted *)

LEMMA AskedReturnedStep == TypeOK /\ AskedReturned /\ [Next]_vars => AskedReturned'
  <1> SUFFICES ASSUME TypeOK, AskedReturned, [Next]_vars PROVE AskedReturned'
    OBVIOUS
  <1> USE DEF AskedReturned, TypeOK
  <1>1. ASSUME NEW v \in Videos, QueueProcessJob(v) PROVE AskedReturned'
    BY <1>1 DEF QueueProcessJob
  <1>2. ASSUME NEW v \in Videos, InsertRecord(v) PROVE AskedReturned'
    BY <1>2 DEF InsertRecord
  <1>3. ASSUME NEW v \in Videos, InsertRecordFails(v) PROVE AskedReturned'
    BY <1>3 DEF InsertRecordFails
  <1>4. ASSUME NEW v \in Videos, QueueDeleteJob(v) PROVE AskedReturned'
    BY <1>4 DEF QueueDeleteJob
  <1>5. ASSUME NEW v \in Videos, QueueDeleteJobFails(v) PROVE AskedReturned'
    BY <1>5 DEF QueueDeleteJobFails
  <1>6. CASE Crash
    BY <1>6 DEF Crash
  <1>7. ASSUME UNCHANGED <<creation, asked>> PROVE AskedReturned'
    BY <1>7
  <1>8. CASE ProcessWorker \/ ProcessJobThrows \/ RecoverProcessJob
    BY <1>7, <1>8
    DEF ProcessWorker, TakeProcessJob, MarkProcessing, CheckFileType, EnsureFile, OpenFile,
        CopyChunk, FinishCopy, ReadSize, MarkReady, CompleteProcessJob, ProcessJobThrows,
        RecoverProcessJob, OthersOfProcess
  <1>9. CASE DeleteWorker \/ UnlinkFails \/ DeleteJobThrows \/ RecoverDeleteJob
    BY <1>7, <1>9
    DEF DeleteWorker, TakeDeleteJob, UnlinkFile, UnlinkFails, DropRecord, CompleteDeleteJob,
        DeleteJobThrows, RecoverDeleteJob, OthersOfDelete
  <1>10. QED
    BY <1>1, <1>2, <1>3, <1>4, <1>5, <1>6, <1>7, <1>8, <1>9 DEF Next, Runs, vars

-----------------------------------------------------------------------------
(* The video in work is not READY *)

LEMMA WorkedIsNotReadyKept ==
    ASSUME WorkedIsNotReady, UNCHANGED <<state, process>>
    PROVE  WorkedIsNotReady'
  BY DEF WorkedIsNotReady

LEMMA IdleIsNotReady ==
    ASSUME process'.step \in {"idle", "mark", "ack"} PROVE WorkedIsNotReady'
  BY DEF WorkedIsNotReady

LEMMA WorkedIsNotReadyGoes ==
    ASSUME WorkedIsNotReady, UNCHANGED state, process'.video = process.video,
           process.step \in {"check", "upload", "open", "copy", "stat", "finish"}
    PROVE  WorkedIsNotReady'
  BY DEF WorkedIsNotReady

LEMMA WorkedIsNotReadyStep == TypeOK /\ WorkedIsNotReady /\ [Next]_vars => WorkedIsNotReady'
  <1> SUFFICES ASSUME TypeOK, WorkedIsNotReady, [Next]_vars PROVE WorkedIsNotReady'
    OBVIOUS
  <1> USE DEF collection, processSide, deleteSide
  <1>0. process \in ProcessStates /\ state \in [Videos -> VideoStates \cup {"ABSENT"}]
    BY DEF TypeOK
  <1>1. ASSUME NEW v \in Videos, InsertRecord(v) PROVE WorkedIsNotReady'
    <2>1. process' = process /\ \A w \in Videos : state'[w] = "READY" => state[w] = "READY"
      BY <1>0, <1>1 DEF InsertRecord
    <2>2. process.step # "idle" => process.video \in Videos
      BY <1>0, ProcessType
    <2>3. QED
      BY <2>1, <2>2 DEF WorkedIsNotReady
  <1>2. CASE TakeProcessJob
    BY <1>2, IdleIsNotReady DEF TakeProcessJob
  <1>3. CASE MarkProcessing
    <2>1. process.step = "mark" /\ process.video \in Videos
      BY <1>0, <1>3, ProcessType DEF MarkProcessing
    <2>2. process'.video = process.video
      BY <1>0, <1>3, ProcessGoesType DEF MarkProcessing, ProcessSteps
    <2>3. state'[process.video] # "READY"
      BY <1>0, <1>3, <2>1 DEF MarkProcessing
    <2>4. QED
      BY <2>2, <2>3 DEF WorkedIsNotReady
  <1>4. CASE CheckFileType
    BY <1>0, <1>4, ProcessGoesType, ProcessEndsType, WorkedIsNotReadyGoes, IdleIsNotReady
    DEF CheckFileType, ProcessSteps
  <1>5. CASE EnsureFile
    BY <1>0, <1>5, ProcessGoesType, ProcessEndsType, WorkedIsNotReadyGoes, IdleIsNotReady
    DEF EnsureFile, ProcessSteps
  <1>6. CASE OpenFile
    BY <1>0, <1>6, ProcessGoesType, WorkedIsNotReadyGoes DEF OpenFile, ProcessSteps
  <1>7. CASE FinishCopy
    BY <1>0, <1>7, ProcessGoesType, WorkedIsNotReadyGoes DEF FinishCopy, ProcessSteps
  <1>8. CASE ReadSize
    <2>1. CASE ProcessJobEnds
      BY <2>1, ProcessEndsType, IdleIsNotReady
    <2>2. CASE process' = [process EXCEPT !.step = "finish", !.size = file[process.video]]
      <3>1. process'.video = process.video
        BY <1>0, <2>2 DEF ProcessStates
      <3>2. QED
        BY <1>8, <3>1, WorkedIsNotReadyGoes DEF ReadSize
    <2>3. QED
      BY <1>8, <2>1, <2>2 DEF ReadSize
  <1>9. CASE MarkReady
    BY <1>0, <1>9, ProcessGoesType, ProcessEndsType, IdleIsNotReady
    DEF MarkReady, ProcessSteps
  <1>10. CASE CompleteProcessJob \/ ProcessJobThrows
    BY <1>10, ProcessEndsType, IdleIsNotReady DEF CompleteProcessJob, ProcessJobThrows
  <1>11. CASE DropRecord
    <2>1. process' = process /\ \A w \in Videos : state'[w] = "READY" => state[w] = "READY"
      BY <1>0, <1>11 DEF DropRecord, OthersOfDelete
    <2>2. process.step # "idle" => process.video \in Videos
      BY <1>0, ProcessType
    <2>3. QED
      BY <2>1, <2>2 DEF WorkedIsNotReady
  <1>12. CASE Crash
    BY <1>12, IdleType, IdleIsNotReady DEF Crash
  <1>13. CASE \/ \E v \in Videos : \/ QueueProcessJob(v) \/ InsertRecordFails(v)
                                  \/ QueueDeleteJob(v) \/ QueueDeleteJobFails(v)
              \/ CopyChunk \/ TakeDeleteJob \/ UnlinkFile \/ UnlinkFails \/ CompleteDeleteJob
              \/ DeleteJobThrows \/ RecoverProcessJob \/ RecoverDeleteJob \/ UNCHANGED vars
    BY <1>13, WorkedIsNotReadyKept
    DEF QueueProcessJob, InsertRecordFails, QueueDeleteJob, QueueDeleteJobFails, CopyChunk,
        TakeDeleteJob, UnlinkFile, UnlinkFails, CompleteDeleteJob, DeleteJobThrows,
        RecoverProcessJob, RecoverDeleteJob, OthersOfDelete, vars
  <1>14. QED
    BY <1>1, <1>2, <1>3, <1>4, <1>5, <1>6, <1>7, <1>8, <1>9, <1>10, <1>11, <1>12, <1>13
    DEF Next, Runs, ProcessWorker, DeleteWorker

-----------------------------------------------------------------------------
(* The file follows the work on it *)

LEMMA FileFollowsWorkKept ==
    ASSUME FileFollowsWork, UNCHANGED <<file, process>>, asked \subseteq asked'
    PROVE  FileFollowsWork'
  BY DEF FileFollowsWork

LEMMA IdleHasNoFile ==
    ASSUME process'.step \in {"idle", "mark", "check", "upload", "ack"} PROVE FileFollowsWork'
  BY DEF FileFollowsWork

LEMMA FileFollowsWorkStep ==
    TypeOK /\ JobsAsked /\ FileFollowsWork /\ [Next]_vars => FileFollowsWork'
  <1> SUFFICES ASSUME TypeOK, JobsAsked, FileFollowsWork, [Next]_vars PROVE FileFollowsWork'
    OBVIOUS
  <1> USE DEF collection, processSide, deleteSide
  <1>0. process \in ProcessStates /\ deletion \in DeletionStates /\ file \in [Videos -> Lengths]
    BY DEF TypeOK
  <1>1. CASE TakeProcessJob
    BY <1>1, IdleHasNoFile DEF TakeProcessJob
  <1>2. CASE MarkProcessing
    BY <1>0, <1>2, ProcessGoesType, IdleHasNoFile DEF MarkProcessing, ProcessSteps
  <1>3. CASE CheckFileType
    BY <1>0, <1>3, ProcessGoesType, ProcessEndsType, IdleHasNoFile
    DEF CheckFileType, ProcessSteps
  <1>4. CASE EnsureFile
    <2>1. CASE ProcessJobEnds
      BY <2>1, ProcessEndsType, IdleHasNoFile
    <2>2. CASE ~ProcessJobEnds
      <3>1. /\ process'.step = "open" /\ process'.video = process.video
            /\ process.video \in Videos
        BY <1>0, <1>4, <2>2, ProcessType, ProcessGoesType DEF EnsureFile, ProcessSteps
      <3>2. file'[process.video] = 0
        BY <1>0, <1>4, <2>2, <3>1 DEF EnsureFile
      <3>3. QED
        BY <3>1, <3>2, LengthType DEF FileFollowsWork
    <2>3. QED
      BY <2>1, <2>2
  <1>5. CASE OpenFile
    <2>1. /\ process'.step = "copy" /\ process'.video = process.video
          /\ process.video \in Videos
      BY <1>0, <1>5, ProcessType, ProcessGoesType DEF OpenFile, ProcessSteps
    <2>2. file'[process.video] = 0
      BY <1>0, <1>5, <2>1 DEF OpenFile
    <2>3. QED
      BY <2>1, <2>2, LengthType DEF FileFollowsWork
  <1>6. CASE CopyChunk
    <2>1. process.step = "copy" /\ process' = process /\ process.video \in Videos
      BY <1>0, <1>6, ProcessType DEF CopyChunk
    <2>2. file'[process.video] # NoFile
      BY <1>0, <1>6, <2>1 DEF CopyChunk, NoFile
    <2>3. QED
      BY <2>1, <2>2 DEF FileFollowsWork
  <1>7. CASE FinishCopy
    <2>1. /\ process.step = "copy"
          /\ process'.step = "stat" /\ process'.video = process.video
      BY <1>0, <1>7, ProcessGoesType DEF FinishCopy, ProcessSteps
    <2>2. QED
      BY <1>7, <2>1 DEF FinishCopy, FileFollowsWork, OthersOfProcess
  <1>8. CASE ReadSize
    <2>1. CASE ProcessJobEnds
      BY <2>1, ProcessEndsType, IdleHasNoFile
    <2>2. CASE ~ProcessJobEnds
      <3>1. /\ process.step = "stat" /\ process.video \in Videos
            /\ file[process.video] = RawSize /\ UNCHANGED <<file, asked>>
        BY <1>0, <1>8, <2>2, ProcessType DEF ReadSize, FileFollowsWork, OthersOfProcess
      <3>2. process' = [process EXCEPT !.step = "finish", !.size = RawSize]
        BY <1>8, <2>2, <3>1 DEF ReadSize
      <3>3. /\ process'.step = "finish" /\ process'.video = process.video
            /\ process'.size = RawSize
        BY <1>0, <3>2 DEF ProcessStates
      <3>4. QED
        BY <3>1, <3>3, LengthType DEF FileFollowsWork
    <2>3. QED
      BY <2>1, <2>2
  <1>9. CASE MarkReady
    BY <1>0, <1>9, ProcessGoesType, ProcessEndsType, IdleHasNoFile DEF MarkReady, ProcessSteps
  <1>10. CASE CompleteProcessJob \/ ProcessJobThrows
    BY <1>10, ProcessEndsType, IdleHasNoFile DEF CompleteProcessJob, ProcessJobThrows
  <1>11. CASE UnlinkFile
    <2>1. /\ deletion.video \in asked /\ UNCHANGED <<process, asked>>
          /\ \A v \in Videos : file'[v] = file[v] \/ (v = deletion.video /\ file'[v] = NoFile)
      BY <1>0, <1>11 DEF UnlinkFile, OthersOfDelete, JobsAsked
    <2>2. process.step # "idle" => process.video \in Videos
      BY <1>0, ProcessType
    <2>3. QED
      BY <2>1, <2>2 DEF FileFollowsWork
  <1>12. CASE Crash
    BY <1>12, IdleType, IdleHasNoFile DEF Crash
  <1>13. CASE \/ \E v \in Videos : \/ QueueProcessJob(v) \/ InsertRecord(v) \/ InsertRecordFails(v)
                                  \/ QueueDeleteJob(v) \/ QueueDeleteJobFails(v)
              \/ TakeDeleteJob \/ UnlinkFails \/ DropRecord \/ CompleteDeleteJob
              \/ DeleteJobThrows \/ RecoverProcessJob \/ RecoverDeleteJob \/ UNCHANGED vars
    BY <1>13, FileFollowsWorkKept
    DEF QueueProcessJob, InsertRecord, InsertRecordFails, QueueDeleteJob, QueueDeleteJobFails,
        TakeDeleteJob, UnlinkFails, DropRecord, CompleteDeleteJob, DeleteJobThrows,
        RecoverProcessJob, RecoverDeleteJob, OthersOfDelete, vars
  <1>14. QED
    BY <1>1, <1>2, <1>3, <1>4, <1>5, <1>6, <1>7, <1>8, <1>9, <1>10, <1>11, <1>12, <1>13
    DEF Next, Runs, ProcessWorker, DeleteWorker

-----------------------------------------------------------------------------
(* A READY video is complete until its deletion is asked for *)

LEMMA ReadyKept ==
    ASSUME ReadyIsComplete, UNCHANGED <<state, sizeInBytes, file>>, asked \subseteq asked'
    PROVE  ReadyIsComplete'
  BY DEF ReadyIsComplete

\* A step that changes only the file of the video in work, which is not READY.
LEMMA WorkSparesReady ==
    ASSUME TypeOK, WorkedIsNotReady, ReadyIsComplete, UNCHANGED <<state, sizeInBytes, asked>>,
           process.step \in {"upload", "open", "copy"},
           \A v \in Videos : v # process.video => file'[v] = file[v]
    PROVE  ReadyIsComplete'
  BY DEF WorkedIsNotReady, ReadyIsComplete

LEMMA ReadyIsCompleteStep == PipelineInv /\ [Next]_vars => ReadyIsComplete'
  <1> SUFFICES ASSUME PipelineInv, [Next]_vars PROVE ReadyIsComplete'
    OBVIOUS
  <1> USE DEF collection, processSide, deleteSide
  <1>0. /\ TypeOK /\ WorkedIsNotReady /\ ReadyIsComplete
        /\ process \in ProcessStates /\ deletion \in DeletionStates
        /\ file \in [Videos -> Lengths] /\ sizeInBytes \in [Videos -> 0..RawSize]
        /\ state \in [Videos -> VideoStates \cup {"ABSENT"}]
    BY DEF PipelineInv, TypeOK
  <1>1. ASSUME NEW v \in Videos, InsertRecord(v) PROVE ReadyIsComplete'
    BY <1>0, <1>1 DEF InsertRecord, ReadyIsComplete
  <1>2. CASE MarkProcessing
    BY <1>0, <1>2 DEF MarkProcessing, OthersOfProcess, ReadyIsComplete
  <1>3. CASE EnsureFile
    <2>1. \A v \in Videos : v # process.video => file'[v] = file[v]
      BY <1>0, <1>3 DEF EnsureFile
    <2>2. QED
      BY <1>0, <1>3, <2>1, WorkSparesReady DEF EnsureFile, OthersOfProcess
  <1>4. CASE OpenFile
    BY <1>0, <1>4, WorkSparesReady DEF OpenFile, OthersOfProcess
  <1>5. CASE CopyChunk
    BY <1>0, <1>5, WorkSparesReady DEF CopyChunk, OthersOfProcess
  <1>6. CASE MarkReady
    <2>1. CASE UNCHANGED collection
      BY <1>0, <1>6, <2>1, ReadyKept DEF MarkReady, OthersOfProcess
    <2>2. CASE ~UNCHANGED collection
      <3>1. /\ process.step = "finish" /\ process.video \in Videos
            /\ UNCHANGED <<file, asked>>
            /\ state' = [state EXCEPT ![process.video] = "READY"]
            /\ sizeInBytes' = [sizeInBytes EXCEPT ![process.video] = process.size]
        BY <1>0, <1>6, <2>2, ProcessType DEF MarkReady, OthersOfProcess
      <3>2. /\ process.size = RawSize
            /\ process.video \in asked \/ file[process.video] = RawSize
        BY <3>1 DEF PipelineInv, FileFollowsWork
      <3>3. QED
        BY <1>0, <3>1, <3>2 DEF ReadyIsComplete
    <2>3. QED
      BY <2>1, <2>2
  <1>7. CASE UnlinkFile
    <2>1. deletion.video \in asked
      BY <1>7 DEF UnlinkFile, PipelineInv, JobsAsked
    <2>2. QED
      BY <1>0, <1>7, <2>1 DEF UnlinkFile, OthersOfDelete, ReadyIsComplete
  <1>8. CASE DropRecord
    BY <1>0, <1>8 DEF DropRecord, OthersOfDelete, ReadyIsComplete
  <1>9. CASE \/ \E v \in Videos : \/ QueueProcessJob(v) \/ InsertRecordFails(v)
                                 \/ QueueDeleteJob(v) \/ QueueDeleteJobFails(v)
             \/ TakeProcessJob \/ CheckFileType \/ FinishCopy \/ ReadSize \/ CompleteProcessJob
             \/ ProcessJobThrows \/ RecoverProcessJob
    BY <1>0, <1>9, ReadyKept
    DEF QueueProcessJob, InsertRecordFails, QueueDeleteJob, QueueDeleteJobFails, TakeProcessJob,
        CheckFileType, FinishCopy, ReadSize, CompleteProcessJob, ProcessJobThrows,
        RecoverProcessJob, OthersOfProcess
  <1>10. CASE \/ TakeDeleteJob \/ UnlinkFails \/ CompleteDeleteJob \/ DeleteJobThrows
              \/ RecoverDeleteJob \/ Crash \/ UNCHANGED vars
    BY <1>0, <1>10, ReadyKept
    DEF TakeDeleteJob, UnlinkFails, CompleteDeleteJob, DeleteJobThrows, RecoverDeleteJob, Crash,
        OthersOfDelete, vars
  <1>11. QED
    BY <1>1, <1>2, <1>3, <1>4, <1>5, <1>6, <1>7, <1>8, <1>9, <1>10
    DEF Next, Runs, ProcessWorker, DeleteWorker

-----------------------------------------------------------------------------
(* The invariants of every behaviour *)

LEMMA PipelineInvInit == Init => PipelineInv
  <1> SUFFICES ASSUME Init PROVE PipelineInv
    OBVIOUS
  <1>1. TypeOK
    BY IdleType, LengthType, BoundAssumption DEF Init, TypeOK, Creations
  <1>2. JobsAsked /\ AskedReturned
    BY IdleType DEF Init, JobsAsked, AskedReturned
  <1>3. WorkedIsNotReady /\ FileFollowsWork
    BY IdleType DEF Init, WorkedIsNotReady, FileFollowsWork
  <1>4. ReadyIsComplete
    BY DEF Init, ReadyIsComplete
  <1>5. QED
    BY <1>1, <1>2, <1>3, <1>4 DEF PipelineInv

LEMMA PipelineInvStep == PipelineInv /\ [Next]_vars => PipelineInv'
  BY TypeStep, JobsAskedStep, AskedReturnedStep, WorkedIsNotReadyStep, FileFollowsWorkStep,
     ReadyIsCompleteStep
  DEF PipelineInv

THEOREM PipelineInvariant == Spec => []PipelineInv
  BY PipelineInvInit, PipelineInvStep, PTL DEF Spec

\* Every variable of the pipeline keeps its type, for any number of videos,
\* chunks, waiting jobs and faults.
THEOREM TypeCorrect == Spec => []TypeOK
  <1>1. PipelineInv => TypeOK
    BY DEF PipelineInv
  <1>2. QED
    BY <1>1, PipelineInvariant, PTL

\* A video that can be streamed has its whole file and the size of it in its
\* record, through crashes, failures, second runs of its job and the deletion
\* of other videos (process-video.worker.ts, video-stream.controller.ts).
THEOREM ReadyCorrect == Spec => []ReadyIsComplete
  <1>1. PipelineInv => ReadyIsComplete
    BY DEF PipelineInv
  <1>2. QED
    BY <1>1, PipelineInvariant, PTL

-----------------------------------------------------------------------------
(* A complete file is never written again *)

CompleteKept == \A v \in Videos : file[v] = RawSize => file'[v] \in {NoFile, RawSize}

LEMMA CompleteKeptStep == PipelineInv /\ [Next]_vars => CompleteKept
  <1> SUFFICES ASSUME PipelineInv, [Next]_vars PROVE CompleteKept
    OBVIOUS
  <1>0. /\ process \in ProcessStates /\ file \in [Videos -> Lengths] /\ FileFollowsWork
    BY DEF PipelineInv, TypeOK
  <1>1. CASE EnsureFile
    <2>1. process.video \in Videos
      BY <1>0, <1>1, ProcessType DEF EnsureFile
    <2>2. QED
      BY <1>0, <1>1, <2>1, LengthType DEF EnsureFile, CompleteKept
  <1>2. CASE OpenFile
    <2>1. process.video \in Videos /\ file[process.video] # RawSize
      BY <1>0, <1>2, ProcessType, LengthType DEF OpenFile, FileFollowsWork
    <2>2. QED
      BY <1>0, <1>2, <2>1 DEF OpenFile, CompleteKept
  <1>3. CASE CopyChunk
    <2>1. process.video \in Videos
      BY <1>0, <1>3, ProcessType DEF CopyChunk
    <2>2. file[process.video] # RawSize
      BY <1>3 DEF CopyChunk
    <2>3. QED
      BY <1>0, <1>3, <2>1, <2>2 DEF CopyChunk, CompleteKept
  <1>4. CASE UnlinkFile
    BY <1>0, <1>4 DEF UnlinkFile, CompleteKept
  <1>5. ASSUME UNCHANGED file PROVE CompleteKept
    BY <1>5 DEF CompleteKept
  <1>6. CASE \/ \E v \in Videos : \/ QueueProcessJob(v) \/ InsertRecord(v) \/ InsertRecordFails(v)
                                 \/ QueueDeleteJob(v) \/ QueueDeleteJobFails(v)
             \/ TakeProcessJob \/ MarkProcessing \/ CheckFileType \/ FinishCopy \/ ReadSize
             \/ MarkReady \/ CompleteProcessJob \/ ProcessJobThrows \/ RecoverProcessJob
    BY <1>5, <1>6
    DEF QueueProcessJob, InsertRecord, InsertRecordFails, QueueDeleteJob, QueueDeleteJobFails,
        TakeProcessJob, MarkProcessing, CheckFileType, FinishCopy, ReadSize, MarkReady,
        CompleteProcessJob, ProcessJobThrows, RecoverProcessJob
  <1>7. CASE \/ TakeDeleteJob \/ UnlinkFails \/ DropRecord \/ CompleteDeleteJob \/ DeleteJobThrows
             \/ RecoverDeleteJob \/ Crash \/ UNCHANGED vars
    BY <1>5, <1>7
    DEF TakeDeleteJob, UnlinkFails, DropRecord, CompleteDeleteJob, DeleteJobThrows,
        RecoverDeleteJob, Crash, vars
  <1>8. QED
    BY <1>1, <1>2, <1>3, <1>4, <1>6, <1>7 DEF Next, Runs, ProcessWorker, DeleteWorker

\* No run of a job, first or second, truncates or overwrites a complete file
\* (file-storage-local.class.ts:62, the check before the stream is opened).
THEOREM CompleteFileCorrect == Spec => CompleteFileKept
  <1>1. PipelineInv /\ [Next]_vars => [CompleteKept]_vars
    BY CompleteKeptStep
  <1>2. QED
    BY <1>1, PipelineInvariant, PTL DEF Spec, CompleteFileKept, CompleteKept

-----------------------------------------------------------------------------
(* The pipeline implements VideoStore *)

StoredBytes == [v \in Videos |-> Bytes(file[v])]
Known == {v \in Videos : creation[v] = "returned"}

LEMMA BytesType ==
    /\ Bytes(NoFile) = "none" /\ Bytes(RawSize) = "complete"
    /\ \A n \in Lengths : Bytes(n) \in Store!Bytes
    /\ \A n \in Lengths : Bytes(n) = "none" => n = NoFile
    /\ \A n \in Lengths : Bytes(n) = "complete" => n = RawSize
  BY LengthType DEF Bytes, Store!Bytes

LEMMA StoreInit == Init => Store!Init
  BY BytesType DEF Init, Store!Init

LEMMA StoreStutters ==
    ASSUME UNCHANGED <<state, file, creation, asked>> PROVE UNCHANGED Store!storeVars
  BY DEF Store!storeVars

\* The process worker writes the file of its video, which is not complete.
LEMMA StoreWrites ==
    ASSUME file \in [Videos -> Lengths], UNCHANGED <<state, creation, asked>>,
           NEW v \in Videos, file[v] # RawSize,
           NEW n \in Lengths, n # NoFile, file' = [file EXCEPT ![v] = n]
    PROVE  \E b \in Store!Bytes : Store!Store(v, b)
  <1>1. /\ Bytes(n) \in Store!Bytes /\ Bytes(n) # "none"
        /\ Bytes(file[v]) # "complete"
    BY BytesType
  <1>2. [w \in Videos |-> Bytes(file'[w])] = [StoredBytes EXCEPT ![v] = Bytes(n)]
    BY DEF StoredBytes
  <1>3. Store!Store(v, Bytes(n))
    BY <1>1, <1>2 DEF Store!Store, StoredBytes
  <1>4. QED
    BY <1>1, <1>3

LEMMA StoreStep == PipelineInv /\ [Next]_vars => [Store!Next]_Store!storeVars
  <1> SUFFICES ASSUME PipelineInv, [Next]_vars
               PROVE  Store!Next \/ UNCHANGED Store!storeVars
    OBVIOUS
  <1> USE DEF collection, processSide, deleteSide
  <1>0. /\ process \in ProcessStates /\ deletion \in DeletionStates
        /\ file \in [Videos -> Lengths] /\ creation \in [Videos -> Creations]
        /\ state \in [Videos -> VideoStates \cup {"ABSENT"}]
        /\ AskedReturned /\ WorkedIsNotReady /\ FileFollowsWork
    BY DEF PipelineInv, TypeOK
  <1>1. ASSUME NEW v \in Videos, InsertRecord(v) PROVE Store!Create(v)
    <2>1. Known' = Known \cup {v} /\ v \notin Known
      BY <1>0, <1>1 DEF InsertRecord, Known
    <2>2. QED
      BY <1>1, <2>1 DEF InsertRecord, Known, Store!Create
  <1>2. ASSUME NEW v \in Videos, QueueDeleteJob(v) \/ QueueDeleteJobFails(v)
        PROVE  Store!AskDeletion(v)
    BY <1>2 DEF QueueDeleteJob, QueueDeleteJobFails, Store!AskDeletion
  <1>3. ASSUME NEW v \in Videos, QueueProcessJob(v) \/ InsertRecordFails(v)
        PROVE  UNCHANGED Store!storeVars
    <2>1. Known' = Known
      BY <1>0, <1>3 DEF QueueProcessJob, InsertRecordFails, Known
    <2>2. QED
      BY <1>3, <2>1 DEF QueueProcessJob, InsertRecordFails, Known, Store!storeVars
  <1>4. CASE MarkProcessing
    <2>1. process.video \in Videos /\ UNCHANGED <<file, creation, asked>>
      BY <1>0, <1>4, ProcessType DEF MarkProcessing, OthersOfProcess
    <2>2. CASE state[process.video] = "ABSENT"
      BY <1>0, <1>4, <2>1, <2>2, StoreStutters DEF MarkProcessing
    <2>3. CASE state[process.video] # "ABSENT"
      <3>1. Store!Begin(process.video)
        BY <1>4, <2>1, <2>3 DEF MarkProcessing, Store!Begin
      <3>2. QED
        BY <2>1, <3>1 DEF Store!Next, Store!Background
    <2>4. QED
      BY <2>2, <2>3
  <1>5. CASE EnsureFile \/ OpenFile \/ CopyChunk
    <2>1. process.video \in Videos /\ UNCHANGED <<state, creation, asked>>
      BY <1>0, <1>5, ProcessType DEF EnsureFile, OpenFile, CopyChunk, OthersOfProcess
    <2>2. \/ UNCHANGED file
          \/ /\ file[process.video] # RawSize
             /\ \E n \in Lengths : n # NoFile /\ file' = [file EXCEPT ![process.video] = n]
      <3>1. CASE EnsureFile
        BY <3>1, LengthType DEF EnsureFile
      <3>2. CASE OpenFile
        BY <1>0, <3>2, LengthType DEF OpenFile, FileFollowsWork
      <3>3. CASE CopyChunk
        <4>1. /\ file[process.video] + 1 \in Lengths /\ file[process.video] + 1 # NoFile
              /\ file[process.video] # RawSize
          BY <3>3 DEF CopyChunk, Lengths, NoFile
        <4>2. QED
          BY <3>3, <4>1 DEF CopyChunk
      <3>4. QED
        BY <1>5, <3>1, <3>2, <3>3
    <2>3. CASE UNCHANGED file
      BY <2>1, <2>3, StoreStutters
    <2>4. CASE ~UNCHANGED file
      <3>1. \E b \in Store!Bytes : Store!Store(process.video, b)
        BY <1>0, <2>1, <2>2, <2>4, StoreWrites
      <3>2. QED
        BY <2>1, <3>1 DEF Store!Next, Store!Background
    <2>5. QED
      BY <2>3, <2>4
  <1>6. CASE MarkReady
    <2>1. /\ process.step = "finish" /\ process.video \in Videos
          /\ UNCHANGED <<file, creation, asked>>
      BY <1>0, <1>6, ProcessType DEF MarkReady, OthersOfProcess
    <2>2. CASE state[process.video] = "ABSENT"
      BY <1>6, <2>1, <2>2, StoreStutters DEF MarkReady
    <2>3. CASE state[process.video] # "ABSENT"
      <3>1. state[process.video] \in {"NOT_READY", "PROCESSING"}
        BY <1>0, <2>1, <2>3 DEF WorkedIsNotReady, VideoStates
      <3>2. file[process.video] = RawSize \/ process.video \in asked
        BY <1>0, <2>1 DEF FileFollowsWork
      <3>3. StoredBytes[process.video] = "complete" \/ process.video \in asked
        BY <2>1, <3>2, BytesType DEF StoredBytes
      <3>4. Store!Finish(process.video)
        BY <1>6, <2>1, <2>3, <3>1, <3>3 DEF MarkReady, StoredBytes, Store!Finish
      <3>5. QED
        BY <2>1, <3>4 DEF Store!Next, Store!Background
    <2>4. QED
      BY <2>2, <2>3
  <1>7. CASE UnlinkFile \/ DropRecord
    <2>1. deletion.video \in Videos /\ deletion.video \in asked
      BY <1>0, <1>7, DeletionType DEF UnlinkFile, DropRecord, PipelineInv, JobsAsked
    <2>2. CASE UnlinkFile
      <3>1. StoredBytes' = [StoredBytes EXCEPT ![deletion.video] = "none"]
        BY <1>0, <2>1, <2>2, BytesType DEF UnlinkFile, StoredBytes
      <3>2. Store!Erase(deletion.video)
        BY <2>1, <2>2, <3>1 DEF UnlinkFile, OthersOfDelete, StoredBytes, Store!Erase
      <3>3. QED
        BY <2>1, <3>2 DEF Store!Next, Store!Background
    <2>3. CASE DropRecord
      <3>1. Store!Drop(deletion.video)
        BY <2>1, <2>3 DEF DropRecord, OthersOfDelete, Store!Drop
      <3>2. QED
        BY <2>1, <3>1 DEF Store!Next, Store!Background
    <2>4. QED
      BY <1>7, <2>2, <2>3
  <1>8. CASE Crash
    <2>1. Known' = Known
      BY <1>0, <1>8 DEF Crash, Known
    <2>2. QED
      BY <1>8, <2>1 DEF Crash, Known, Store!storeVars
  <1>9. CASE \/ TakeProcessJob \/ CheckFileType \/ FinishCopy \/ ReadSize \/ CompleteProcessJob
             \/ ProcessJobThrows \/ RecoverProcessJob
    BY <1>9, StoreStutters
    DEF TakeProcessJob, CheckFileType, FinishCopy, ReadSize, CompleteProcessJob, ProcessJobThrows,
        RecoverProcessJob, OthersOfProcess
  <1>10. CASE \/ TakeDeleteJob \/ UnlinkFails \/ CompleteDeleteJob \/ DeleteJobThrows
              \/ RecoverDeleteJob \/ UNCHANGED vars
    BY <1>10, StoreStutters
    DEF TakeDeleteJob, UnlinkFails, CompleteDeleteJob, DeleteJobThrows, RecoverDeleteJob,
        OthersOfDelete, vars
  <1>11. QED
    BY <1>1, <1>2, <1>3, <1>4, <1>5, <1>6, <1>7, <1>8, <1>9, <1>10
    DEF Next, Runs, ProcessWorker, DeleteWorker, Store!Next

\* Whatever the queues, the workers, crashes and failures do, the rest of the
\* backend sees the videos go through the steps of VideoStore only.
THEOREM PipelineImplementsStore == Spec => ImplementsVideoStore
  BY StoreInit, StoreStep, PipelineInvariant, PTL DEF Spec, ImplementsVideoStore, Store!Spec

-----------------------------------------------------------------------------
(* What is deleted stays deleted *)

\* The service has returned, and the process job is over.
Finished(v) == creation[v] = "returned" /\ ~ProcessPending(v)

\* Of a finished video the file and the record are only removed.
OnlyRemoved(v) ==
    /\ Finished(v)'
    /\ file'[v] \in {NoFile, file[v]} /\ state'[v] \in {"ABSENT", state[v]}

NothingComesBack == [][\A v \in Videos : Finished(v) => OnlyRemoved(v)]_vars

\* The jobs of a queue that is longer or shorter by one.
LEMMA OneMoreJob ==
    ASSUME NEW queue \in Seq(Job), NEW job \in Job, NEW v \in Videos,
           ~HasJobIn(queue, v), job.video # v
    PROVE  /\ ~HasJobIn(Append(queue, job), v)
           /\ ~HasJobIn(Requeued(queue, job), v)
  <1>1. ~HasJobIn(Append(queue, job), v)
    <2> DEFINE longer == Append(queue, job)
    <2>1. \A i \in DOMAIN longer : longer[i] = job \/ (i \in DOMAIN queue /\ longer[i] = queue[i])
      OBVIOUS
    <2> HIDE DEF longer
    <2>2. ~HasJobIn(longer, v)
      BY <2>1 DEF HasJobIn
    <2>3. QED
      BY <2>2 DEF longer
  <1>2. ASSUME NEW again \in Job, again.video # v PROVE ~HasJobIn(<<again>> \o queue, v)
    <2> DEFINE longer == <<again>> \o queue
    <2>1. \A i \in DOMAIN longer :
              longer[i] = again \/ (i - 1 \in DOMAIN queue /\ longer[i] = queue[i - 1])
      OBVIOUS
    <2> HIDE DEF longer
    <2>2. ~HasJobIn(longer, v)
      BY <1>2, <2>1 DEF HasJobIn
    <2>3. QED
      BY <2>2 DEF longer
  <1>3. ~HasJobIn(Requeued(queue, job), v)
    <2>1. CASE job.stalls < MaxStalledCount
      <3> DEFINE again == [job EXCEPT !.stalls = @ + 1]
      <3>1. again \in Job /\ again.video # v
        BY <2>1 DEF Job
      <3> HIDE DEF again
      <3>2. ~HasJobIn(<<again>> \o queue, v)
        BY <1>2, <3>1
      <3>3. QED
        BY <2>1, <3>2 DEF Requeued, again
    <2>2. CASE ~(job.stalls < MaxStalledCount)
      BY <2>2 DEF Requeued
    <2>3. QED
      BY <2>1, <2>2
  <1>4. QED
    BY <1>1, <1>3

LEMMA OneJobLess ==
    ASSUME NEW queue \in Seq(Job), queue # << >>, NEW v \in Videos, ~HasJobIn(queue, v)
    PROVE  /\ Head(queue) \in Job /\ Head(queue).video # v
           /\ ~HasJobIn(Tail(queue), v)
  <1> DEFINE rest == Tail(queue)
             head == Head(queue)
  <1>1. /\ head = queue[1] /\ 1 \in DOMAIN queue /\ head \in Job
        /\ \A i \in DOMAIN rest : i + 1 \in DOMAIN queue /\ rest[i] = queue[i + 1]
    OBVIOUS
  <1> HIDE DEF rest, head
  <1>2. head \in Job /\ head.video # v /\ ~HasJobIn(rest, v)
    BY <1>1 DEF HasJobIn
  <1>3. QED
    BY <1>2 DEF rest, head

\* A step that leaves the process queue and the record and file of v alone.
LEMMA FinishedKept ==
    ASSUME NEW v \in Videos, Finished(v), UNCHANGED <<processQueue, processStalled>>,
           process'.step = "idle" \/ process'.video # v \/ UNCHANGED process,
           creation'[v] = creation[v],
           file'[v] \in {NoFile, file[v]}, state'[v] \in {"ABSENT", state[v]}
    PROVE  OnlyRemoved(v)
  BY DEF OnlyRemoved, Finished, ProcessPending, HasJobIn

LEMMA FinishedStep ==
    ASSUME TypeOK, Next, NEW v \in Videos, Finished(v)
    PROVE  OnlyRemoved(v)
  <1>1. /\ creation[v] = "returned"
        /\ ~HasJobIn(processQueue, v) /\ ~HasJobIn(processStalled, v)
        /\ process.step = "idle" \/ process.video # v
        /\ processQueue \in Seq(Job) /\ processStalled \in Seq(Job)
        /\ process \in ProcessStates
        /\ creation \in [Videos -> Creations]
        /\ file \in [Videos -> Lengths] /\ state \in [Videos -> VideoStates \cup {"ABSENT"}]
    BY DEF TypeOK, Finished, ProcessPending
  <1>2. ASSUME NEW u \in Videos, QueueProcessJob(u) PROVE OnlyRemoved(v)
    <2>1. /\ u # v /\ processQueue' = Append(processQueue, NewJob(u)) /\ creation'[v] = creation[v]
          /\ UNCHANGED <<processStalled, process, file, state>>
      BY <1>1, <1>2 DEF QueueProcessJob, collection
    <2>2. ~HasJobIn(processQueue', v)
      <3>1. NewJob(u) \in Job /\ NewJob(u).video # v
        BY <2>1, NewJobType DEF NewJob
      <3>2. QED
        BY <1>1, <2>1, <3>1, OneMoreJob
    <2>3. QED
      BY <1>1, <2>1, <2>2 DEF OnlyRemoved, Finished, ProcessPending, HasJobIn
  <1>3. ASSUME NEW u \in Videos,
               \/ InsertRecord(u) \/ InsertRecordFails(u)
               \/ QueueDeleteJob(u) \/ QueueDeleteJobFails(u)
        PROVE  OnlyRemoved(v)
    <2>1. /\ UNCHANGED <<processQueue, processStalled, process, file>>
          /\ creation'[v] = creation[v] /\ state'[v] = state[v]
      BY <1>1, <1>3
      DEF InsertRecord, InsertRecordFails, QueueDeleteJob, QueueDeleteJobFails, processSide,
          collection
    <2>2. QED
      BY <1>1, <2>1, FinishedKept
  <1>4. CASE TakeProcessJob
    <2>1. /\ processQueue # << >> /\ processQueue' = Tail(processQueue)
          /\ process'.video = Head(processQueue).video
          /\ UNCHANGED <<processStalled, file, state, creation>>
      BY <1>4 DEF TakeProcessJob, collection
    <2>2. process'.video # v /\ ~HasJobIn(processQueue', v)
      BY <1>1, <2>1, OneJobLess
    <2>3. QED
      BY <1>1, <2>1, <2>2 DEF OnlyRemoved, Finished, ProcessPending, HasJobIn
  <1>5. CASE \/ MarkProcessing \/ CheckFileType \/ EnsureFile \/ OpenFile \/ CopyChunk
             \/ FinishCopy \/ MarkReady
    <2>1. /\ process.step # "idle" /\ process.video \in Videos /\ process.video # v
          /\ UNCHANGED <<creation, processQueue, processStalled>>
      BY <1>1, <1>5, ProcessType
      DEF MarkProcessing, CheckFileType, EnsureFile, OpenFile, CopyChunk, FinishCopy, MarkReady,
          OthersOfProcess
    <2>2. process'.step = "idle" \/ process'.video # v
      BY <1>1, <1>5, <2>1, ProcessGoesType, ProcessEndsType
      DEF MarkProcessing, CheckFileType, EnsureFile, OpenFile, CopyChunk, FinishCopy, MarkReady,
          ProcessSteps
    <2>3. file'[v] = file[v] /\ state'[v] = state[v]
      BY <1>1, <1>5, <2>1
      DEF MarkProcessing, CheckFileType, EnsureFile, OpenFile, CopyChunk, FinishCopy, MarkReady,
          collection
    <2>4. QED
      BY <2>1, <2>2, <2>3, FinishedKept
  <1>6. CASE ReadSize \/ CompleteProcessJob \/ ProcessJobThrows
    <2>1. /\ process.step # "idle" /\ process.video # v
          /\ UNCHANGED <<creation, processQueue, processStalled, file, state>>
      BY <1>1, <1>6 DEF ReadSize, CompleteProcessJob, ProcessJobThrows, OthersOfProcess, collection
    <2>2. process'.step = "idle" \/ process'.video = process.video
      BY <1>1, <1>6, ProcessEndsType
      DEF ReadSize, CompleteProcessJob, ProcessJobThrows, ProcessStates
    <2>3. QED
      BY <2>1, <2>2, FinishedKept
  <1>7. CASE \/ TakeDeleteJob \/ UnlinkFile \/ UnlinkFails \/ DropRecord \/ CompleteDeleteJob
             \/ DeleteJobThrows \/ RecoverDeleteJob
    <2>1. /\ UNCHANGED <<creation, processQueue, processStalled, process>>
          /\ file'[v] \in {NoFile, file[v]} /\ state'[v] \in {"ABSENT", state[v]}
      BY <1>1, <1>7
      DEF TakeDeleteJob, UnlinkFile, UnlinkFails, DropRecord, CompleteDeleteJob, DeleteJobThrows,
          RecoverDeleteJob, OthersOfDelete, processSide, collection
    <2>2. QED
      BY <2>1, FinishedKept
  <1>8. CASE Crash
    <2>1. /\ creation'[v] = creation[v] /\ process'.step = "idle"
          /\ UNCHANGED <<file, state, processQueue>>
          /\ \/ UNCHANGED processStalled
             \/ /\ process.step # "idle"
                /\ processStalled' = Append(processStalled, JobOf(process))
      BY <1>1, <1>8, IdleType DEF Crash, collection
    <2>2. ~HasJobIn(processStalled', v)
      <3>1. CASE UNCHANGED processStalled
        BY <1>1, <3>1
      <3>2. CASE process.step # "idle" /\ processStalled' = Append(processStalled, JobOf(process))
        <4>1. JobOf(process) \in Job /\ JobOf(process).video # v
          BY <1>1, <3>2, ProcessType DEF JobOf
        <4>2. QED
          BY <1>1, <3>2, <4>1, OneMoreJob
      <3>3. QED
        BY <2>1, <3>1, <3>2
    <2>3. QED
      BY <1>1, <2>1, <2>2 DEF OnlyRemoved, Finished, ProcessPending, HasJobIn
  <1>9. CASE RecoverProcessJob
    <2>1. /\ processStalled # << >> /\ processStalled' = Tail(processStalled)
          /\ processQueue' = Requeued(processQueue, Head(processStalled))
          /\ UNCHANGED <<creation, process, file, state>>
      BY <1>9 DEF RecoverProcessJob, collection
    <2>2. ~HasJobIn(processStalled', v) /\ ~HasJobIn(processQueue', v)
      BY <1>1, <2>1, OneJobLess, OneMoreJob
    <2>3. QED
      BY <1>1, <2>1, <2>2 DEF OnlyRemoved, Finished, ProcessPending, HasJobIn
  <1>10. QED
    BY <1>2, <1>3, <1>4, <1>5, <1>6, <1>7, <1>8, <1>9
    DEF Next, Runs, ProcessWorker, DeleteWorker

\* Once the processing of a video is over, nothing of it is made or written
\* again, neither by a second run of a job nor after a crash: the file and the
\* record that a deletion has removed by then stay removed
\* (delete-video.worker.ts:38).  That they are removed at all is the other half
\* of DeletionSettles.
THEOREM DeletionIsFinal == Spec => NothingComesBack
  <1>1. PipelineInv /\ [Next]_vars => [\A v \in Videos : Finished(v) => OnlyRemoved(v)]_vars
    BY FinishedStep DEF PipelineInv
  <1>2. QED
    BY <1>1, PipelineInvariant, PTL DEF Spec, NothingComesBack

-----------------------------------------------------------------------------
(* A video is processed once *)

\* Neither crashes nor rejected awaits, other than those of deletions.
Quiet == ~Met({"crash", "throw"})

NoJobTwice(queue) == \A i, j \in DOMAIN queue : queue[i].video = queue[j].video => i = j

Working(v) == process.step \notin {"idle", "ack"} /\ process.video = v

\* Nothing will write the file of v any more, and it is no part of one.
Over(v) ==
    /\ creation[v] # "none" /\ ~HasJobIn(processQueue, v) /\ ~Working(v)
    /\ file[v] \in {NoFile, RawSize}

\* While it is quiet a video is processed once: when it is READY, that was it.
OneRun ==
    Quiet =>
        /\ processStalled = << >>
        /\ NoJobTwice(processQueue)
        /\ \A v \in Videos : HasJobIn(processQueue, v) => creation[v] # "none" /\ ~Working(v)
        /\ process.step # "idle" => creation[process.video] # "none"
        /\ \A v \in Videos : state[v] = "READY" => Over(v)

LEMMA FaultSeen ==
    ASSUME TypeOK, NEW kind, Fault(kind)
    PROVE  /\ Quiet' => Quiet
           /\ kind \in {"crash", "throw"} => ~Quiet'
  <1>1. faults \in Seq(FaultKinds) /\ kind \in FaultKinds /\ faults' = Append(faults, kind)
    BY DEF Fault, TypeOK
  <1>2. /\ DOMAIN faults' = 1..(Len(faults) + 1) /\ DOMAIN faults = 1..Len(faults)
        /\ faults'[Len(faults) + 1] = kind /\ Len(faults) \in Nat
        /\ \A i \in DOMAIN faults : faults'[i] = faults[i] /\ i \in DOMAIN faults'
    BY <1>1
  <1>3. QED
    BY <1>2 DEF Quiet, Met

LEMMA QuietStays == TypeOK /\ [Next]_vars /\ Quiet' => Quiet
  <1> SUFFICES ASSUME TypeOK, [Next]_vars, Quiet' PROVE Quiet
    OBVIOUS
  <1>1. ASSUME NEW kind, Fault(kind) PROVE Quiet
    BY <1>1, FaultSeen
  <1>2. CASE UNCHANGED faults
    BY <1>2 DEF Quiet, Met
  <1>3. QED
    BY <1>1, <1>2
    DEF Next, Runs, ProcessWorker, DeleteWorker, QueueProcessJob, InsertRecord,
        InsertRecordFails, QueueDeleteJob, QueueDeleteJobFails, TakeProcessJob, MarkProcessing,
        CheckFileType, EnsureFile, OpenFile, CopyChunk, FinishCopy, ReadSize, MarkReady,
        CompleteProcessJob, ProcessJobThrows, OthersOfProcess, TakeDeleteJob, UnlinkFile,
        UnlinkFails, DropRecord, CompleteDeleteJob, DeleteJobThrows, OthersOfDelete, Crash,
        RecoverProcessJob, RecoverDeleteJob, vars

\* Which videos a queue has a job of after a job was added or taken.
LEMMA JobAdded ==
    ASSUME NEW queue \in Seq(Job), NEW v \in Videos, ~HasJobIn(queue, v), NoJobTwice(queue)
    PROVE  /\ NoJobTwice(Append(queue, NewJob(v)))
           /\ \A w \in Videos : HasJobIn(Append(queue, NewJob(v)), w) => HasJobIn(queue, w) \/ w = v
  <1> DEFINE longer == Append(queue, NewJob(v))
  <1>1. /\ NewJob(v).video = v /\ Len(longer) = Len(queue) + 1
        /\ DOMAIN longer = 1..(Len(queue) + 1) /\ DOMAIN queue = 1..Len(queue)
        /\ longer[Len(queue) + 1] = NewJob(v)
        /\ \A i \in DOMAIN queue : longer[i] = queue[i]
    BY NewJobType DEF NewJob
  <1>2. \A i \in DOMAIN longer : i \in DOMAIN queue \/ i = Len(queue) + 1
    BY <1>1
  <1> HIDE DEF longer
  <1>3. NoJobTwice(longer)
    BY <1>1, <1>2 DEF NoJobTwice, HasJobIn
  <1>4. \A w \in Videos : HasJobIn(longer, w) => HasJobIn(queue, w) \/ w = v
    BY <1>1, <1>2 DEF HasJobIn
  <1>5. QED
    BY <1>3, <1>4 DEF longer

LEMMA JobTaken ==
    ASSUME NEW queue \in Seq(Job), queue # << >>, NoJobTwice(queue)
    PROVE  /\ NoJobTwice(Tail(queue)) /\ Head(queue).video \in Videos
           /\ HasJobIn(queue, Head(queue).video) /\ ~HasJobIn(Tail(queue), Head(queue).video)
           /\ \A v \in Videos : HasJobIn(Tail(queue), v) => HasJobIn(queue, v)
  <1> DEFINE rest == Tail(queue)
             head == Head(queue)
  <1>1. /\ head = queue[1] /\ 1 \in DOMAIN queue /\ head \in Job
        /\ \A i \in DOMAIN rest : i + 1 \in DOMAIN queue /\ rest[i] = queue[i + 1] /\ i \in Nat \ {0}
    OBVIOUS
  <1> HIDE DEF rest, head
  <1>2. NoJobTwice(rest)
    BY <1>1 DEF NoJobTwice
  <1>3. HasJobIn(queue, head.video) /\ ~HasJobIn(rest, head.video) /\ head.video \in Videos
    BY <1>1 DEF NoJobTwice, HasJobIn, Job
  <1>4. \A v \in Videos : HasJobIn(rest, v) => HasJobIn(queue, v)
    BY <1>1 DEF HasJobIn
  <1>5. QED
    BY <1>2, <1>3, <1>4 DEF rest, head

\* A step that queues no process job, takes none and makes no video READY.
LEMMA OneRunKept ==
    ASSUME OneRun, Quiet, UNCHANGED <<processQueue, processStalled>>,
           \A v \in Videos : creation[v] # "none" => creation'[v] # "none",
           \/ UNCHANGED process
           \/ process'.step = "idle"
           \/ /\ process.step \notin {"idle", "ack"}
              /\ process'.video = process.video,
           process.step # "idle" => process.video \in Videos,
           \A v \in Videos : state'[v] = "READY" => state[v] = "READY",
           \A v \in Videos : Over(v) => file'[v] \in {NoFile, RawSize}
    PROVE  OneRun' /\ \A v \in Videos : Over(v) => Over(v)'
  <1>1. \A v \in Videos : HasJobIn(processQueue, v)' <=> HasJobIn(processQueue, v)
    BY DEF HasJobIn
  <1>2. NoJobTwice(processQueue)' <=> NoJobTwice(processQueue)
    BY DEF NoJobTwice
  <1>3. \A v \in Videos : Working(v)' => Working(v)
    BY DEF Working
  <1>4. \A v \in Videos : Over(v) => Over(v)'
    BY <1>1, <1>3 DEF Over
  <1>5. OneRun'
    BY <1>1, <1>2, <1>3, <1>4 DEF OneRun
  <1>6. QED
    BY <1>4, <1>5

LEMMA OneRunStep ==
    ASSUME PipelineInv, OneRun, [Next]_vars, Quiet'
    PROVE  OneRun' /\ \A v \in Videos : Over(v) => Over(v)'
  <1> DEFINE Goal == OneRun' /\ \A v \in Videos : Over(v) => Over(v)'
  <1>0. /\ TypeOK /\ WorkedIsNotReady /\ FileFollowsWork /\ Quiet
        /\ process \in ProcessStates
        /\ process.step # "idle" => process.video \in Videos
    BY QuietStays, ProcessType DEF PipelineInv, TypeOK
  <1>1. ASSUME NEW u \in Videos, QueueProcessJob(u) PROVE Goal
    <2>1. /\ creation[u] = "none" /\ creation'[u] = "queued"
          /\ \A v \in Videos : v # u => creation'[v] = creation[v]
          /\ processQueue' = Append(processQueue, NewJob(u))
          /\ UNCHANGED <<state, file, processStalled, process>>
      BY <1>0, <1>1 DEF QueueProcessJob, collection, TypeOK
    <2>2. ~HasJobIn(processQueue, u) /\ NoJobTwice(processQueue) /\ processQueue \in Seq(Job)
      BY <1>0, <2>1 DEF OneRun, TypeOK
    <2>3. /\ NoJobTwice(processQueue')
          /\ \A w \in Videos : HasJobIn(processQueue', w) => HasJobIn(processQueue, w) \/ w = u
      BY <2>1, <2>2, JobAdded
    <2>4. \A v \in Videos : Working(v)' <=> Working(v)
      BY <2>1 DEF Working
    <2>5. ~Working(u)
      BY <1>0, <2>1 DEF OneRun, Working
    <2>6. \A v \in Videos : Over(v) => Over(v)'
      BY <2>1, <2>3, <2>4 DEF Over
    <2>7. OneRun'
      BY <1>0, <2>1, <2>3, <2>4, <2>5, <2>6 DEF OneRun
    <2>8. QED
      BY <2>6, <2>7
  <1>2. CASE TakeProcessJob
    <2> DEFINE u == Head(processQueue).video
    <2>1. /\ process.step = "idle" /\ processQueue # << >> /\ processQueue' = Tail(processQueue)
          /\ process'.step = "mark" /\ process'.video = u
          /\ UNCHANGED <<state, file, creation, processStalled>>
      BY <1>2 DEF TakeProcessJob, collection
    <2>2. processQueue \in Seq(Job) /\ NoJobTwice(processQueue)
      BY <1>0 DEF OneRun, TypeOK
    <2>3. /\ NoJobTwice(processQueue') /\ u \in Videos
          /\ HasJobIn(processQueue, u) /\ ~HasJobIn(processQueue', u)
          /\ \A v \in Videos : HasJobIn(processQueue', v) => HasJobIn(processQueue, v)
      BY <2>1, <2>2, JobTaken
    <2> HIDE DEF u
    <2>4. \A v \in Videos : Working(v)' <=> v = u
      BY <2>1 DEF Working
    <2>5. \A v \in Videos : Over(v) => Over(v)'
      BY <2>1, <2>3, <2>4 DEF Over
    <2>6. OneRun'
      BY <1>0, <2>1, <2>3, <2>4, <2>5 DEF OneRun
    <2>7. QED
      BY <2>5, <2>6
  <1>3. CASE MarkReady
    <2>1. /\ process.step = "finish" /\ process.video \in Videos
          /\ UNCHANGED <<file, creation, processQueue, processStalled>>
      BY <1>0, <1>3 DEF MarkReady, OthersOfProcess
    <2>2. CASE ProcessJobEnds /\ UNCHANGED collection
      <3>1. process'.step = "idle"
        BY <2>2, ProcessEndsType
      <3>2. QED
        BY <1>0, <2>1, <2>2, <3>1, OneRunKept DEF collection, Over
    <2>3. CASE /\ state' = [state EXCEPT ![process.video] = "READY"]
               /\ ProcessGoes("ack")
      <3>1. process'.step = "ack" /\ process'.video = process.video
        BY <1>0, <2>1, <2>3, ProcessGoesType DEF ProcessSteps
      <3>2. \A v \in Videos : ~Working(v)'
        BY <3>1 DEF Working
      <3>3. Working(process.video) /\ creation[process.video] # "none"
            /\ file[process.video] \in {NoFile, RawSize}
        BY <1>0, <2>1 DEF Working, OneRun, FileFollowsWork
      <3>4. \A v \in Videos : HasJobIn(processQueue, v)' <=> HasJobIn(processQueue, v)
        BY <2>1 DEF HasJobIn
      <3>5. \A v \in Videos : Over(v) => Over(v)'
        BY <2>1, <3>2, <3>4 DEF Over
      <3>6. Over(process.video)'
        BY <1>0, <2>1, <3>1, <3>2, <3>3, <3>4 DEF Over, OneRun
      <3>7. \A v \in Videos : state'[v] = "READY" => state[v] = "READY" \/ v = process.video
        BY <1>0, <2>3 DEF TypeOK
      <3>8. NoJobTwice(processQueue)' <=> NoJobTwice(processQueue)
        BY <2>1 DEF NoJobTwice
      <3>9. OneRun'
        BY <1>0, <2>1, <3>1, <3>2, <3>3, <3>4, <3>5, <3>6, <3>7, <3>8 DEF OneRun
      <3>10. QED
        BY <3>5, <3>9
    <2>4. QED
      BY <1>3, <2>2, <2>3 DEF MarkReady
  <1>4. CASE MarkProcessing \/ CheckFileType \/ EnsureFile \/ OpenFile \/ CopyChunk \/ FinishCopy
    <2>1. /\ process.step \in {"mark", "check", "upload", "open", "copy"}
          /\ process.video \in Videos
          /\ UNCHANGED <<creation, processQueue, processStalled>>
      BY <1>0, <1>4
      DEF MarkProcessing, CheckFileType, EnsureFile, OpenFile, CopyChunk, FinishCopy,
          OthersOfProcess
    <2>2. process'.step = "idle" \/ process'.video = process.video
      BY <1>0, <1>4, ProcessGoesType, ProcessEndsType
      DEF MarkProcessing, CheckFileType, EnsureFile, OpenFile, CopyChunk, FinishCopy,
          ProcessSteps
    <2>3. \A v \in Videos : state'[v] = "READY" => state[v] = "READY"
      BY <1>0, <1>4
      DEF MarkProcessing, CheckFileType, EnsureFile, OpenFile, CopyChunk, FinishCopy,
          collection, TypeOK
    <2>4. \A v \in Videos : v # process.video => file'[v] = file[v]
      BY <1>0, <1>4
      DEF MarkProcessing, CheckFileType, EnsureFile, OpenFile, CopyChunk, FinishCopy, TypeOK
    <2>5. \A v \in Videos : Over(v) => v # process.video
      BY <2>1 DEF Over, Working
    <2>6. \A v \in Videos : Over(v) => file'[v] \in {NoFile, RawSize}
      BY <2>4, <2>5 DEF Over
    <2>7. QED
      BY <1>0, <2>1, <2>2, <2>3, <2>6, OneRunKept
  <1>5. CASE ReadSize \/ CompleteProcessJob
    <2>1. /\ process.step \in {"stat", "ack"}
          /\ UNCHANGED <<creation, processQueue, processStalled, state, file>>
      BY <1>5 DEF ReadSize, CompleteProcessJob, OthersOfProcess, collection
    <2>2. process'.step = "idle" \/ (process.step = "stat" /\ process'.video = process.video)
      BY <1>0, <1>5, ProcessEndsType DEF ReadSize, CompleteProcessJob, ProcessStates
    <2>3. QED
      BY <1>0, <2>1, <2>2, OneRunKept DEF Over
  <1>6. CASE UnlinkFile \/ DropRecord
    <2>1. /\ UNCHANGED <<creation, processQueue, processStalled, process>>
          /\ \A v \in Videos : state'[v] = "READY" => state[v] = "READY"
          /\ \A v \in Videos : file'[v] \in {NoFile, file[v]}
      BY <1>0, <1>6 DEF UnlinkFile, DropRecord, OthersOfDelete, processSide, collection, TypeOK
    <2>2. QED
      BY <1>0, <2>1, OneRunKept DEF Over
  <1>7. CASE \/ \E v \in Videos : InsertRecord(v) \/ QueueDeleteJob(v) \/ QueueDeleteJobFails(v)
             \/ TakeDeleteJob \/ UnlinkFails \/ CompleteDeleteJob \/ DeleteJobThrows
             \/ RecoverDeleteJob \/ UNCHANGED vars
    <2>1. /\ UNCHANGED <<processQueue, processStalled, process, file>>
          /\ \A v \in Videos : state'[v] = "READY" => state[v] = "READY"
          /\ \A v \in Videos : creation[v] # "none" => creation'[v] # "none"
      BY <1>0, <1>7
      DEF InsertRecord, QueueDeleteJob, QueueDeleteJobFails, TakeDeleteJob, UnlinkFails,
          CompleteDeleteJob, DeleteJobThrows, RecoverDeleteJob, vars, OthersOfDelete, processSide,
          collection, TypeOK
    <2>2. QED
      BY <1>0, <2>1, OneRunKept DEF Over
  <1>8. CASE RecoverProcessJob
    BY <1>0, <1>8 DEF RecoverProcessJob, OneRun
  <1>9. ASSUME NEW kind \in {"crash", "throw"}, Fault(kind) PROVE FALSE
    BY <1>0, <1>9, FaultSeen
  <1>10. QED
    BY <1>1, <1>2, <1>3, <1>4, <1>5, <1>6, <1>7, <1>8, <1>9
    DEF Next, Runs, ProcessWorker, DeleteWorker, InsertRecordFails, ProcessJobThrows, Crash

LEMMA OneRunStays ==
    ASSUME PipelineInv, OneRun, [Next]_vars
    PROVE  OneRun'
  <1>1. CASE Quiet'
    BY <1>1, OneRunStep
  <1>2. CASE ~Quiet'
    BY <1>2 DEF OneRun
  <1>3. QED
    BY <1>1, <1>2

-----------------------------------------------------------------------------
(* No upload is left half way *)

\* The job of v has not come to its file.
NotStarted(v) ==
    \/ creation[v] = "none" \/ HasJobIn(processQueue, v)
    \/ process.step \in {"mark", "check", "upload"} /\ process.video = v

\* Between the first and the last update of the record of v.
Marked(v) ==
    /\ process.step \in {"check", "upload", "open", "copy", "stat", "finish"}
    /\ process.video = v

\* While it is quiet, a job finds no file where it is to make one, and only a
\* video that is worked on is PROCESSING, unless its file is not MKV.
NoneLeft ==
    Quiet =>
        /\ \A v \in Videos : NotStarted(v) => file[v] = NoFile
        /\ \A v \in Genuine : state[v] = "PROCESSING" /\ v \notin asked => Marked(v)

RecordKept == \A v \in Videos : creation[v] = "returned" /\ v \notin asked => state[v] # "ABSENT"

\* The safety half of UploadSettles.
NotLeftHalfWay ==
    \A v \in Genuine :
        creation[v] = "returned" /\ ~ProcessPending(v) =>
            state[v] = "READY" \/ v \in asked \/ Overtaken(v) \/ Met({"crash", "throw"})

LEMMA AskedGrows == [Next]_vars => asked \subseteq asked'
  BY DEF Next, Runs, ProcessWorker, DeleteWorker, QueueProcessJob, InsertRecord,
         InsertRecordFails, QueueDeleteJob, QueueDeleteJobFails, TakeProcessJob, MarkProcessing,
         CheckFileType, EnsureFile, OpenFile, CopyChunk, FinishCopy, ReadSize, MarkReady,
         CompleteProcessJob, ProcessJobThrows, OthersOfProcess, TakeDeleteJob, UnlinkFile,
         UnlinkFails, DropRecord, CompleteDeleteJob, DeleteJobThrows, OthersOfDelete, Crash,
         RecoverProcessJob, RecoverDeleteJob, vars

LEMMA NoneLeftKept ==
    ASSUME NoneLeft, Quiet, asked \subseteq asked',
           \A v \in Videos : NotStarted(v)' => NotStarted(v) /\ file'[v] \in {NoFile, file[v]},
           \A v \in Genuine : state'[v] = "PROCESSING" /\ v \notin asked' =>
               \/ state[v] = "PROCESSING" /\ (Marked(v) => Marked(v)')
               \/ Marked(v)'
    PROVE  NoneLeft'
  BY DEF NoneLeft

LEMMA NoneLeftStep ==
    ASSUME PipelineInv, OneRun, NoneLeft, [Next]_vars, Quiet'
    PROVE  NoneLeft'
  <1>0. /\ TypeOK /\ FileFollowsWork /\ Quiet /\ asked \subseteq asked'
        /\ process \in ProcessStates /\ file \in [Videos -> Lengths]
        /\ state \in [Videos -> VideoStates \cup {"ABSENT"}] /\ Genuine \subseteq Videos
        /\ process.step # "idle" => process.video \in Videos
        /\ process.step # "idle" => creation[process.video] # "none"
        /\ \A v \in Videos : Working(v) => ~HasJobIn(processQueue, v)
    BY QuietStays, AskedGrows, ProcessType, VideoAssumption DEF PipelineInv, TypeOK, OneRun
  <1>1. ASSUME NEW u \in Videos, QueueProcessJob(u) PROVE NoneLeft'
    <2>1. /\ creation[u] = "none"
          /\ \A v \in Videos : v # u => creation'[v] = creation[v]
          /\ processQueue' = Append(processQueue, NewJob(u))
          /\ UNCHANGED <<state, file, process>>
      BY <1>0, <1>1 DEF QueueProcessJob, collection, TypeOK
    <2>2. ~HasJobIn(processQueue, u) /\ NoJobTwice(processQueue) /\ processQueue \in Seq(Job)
      BY <1>0, <2>1 DEF OneRun, TypeOK
    <2>3. \A w \in Videos : HasJobIn(processQueue', w) => HasJobIn(processQueue, w) \/ w = u
      BY <2>1, <2>2, JobAdded
    <2>4. \A v \in Videos : NotStarted(v)' => NotStarted(v)
      BY <2>1, <2>3 DEF NotStarted
    <2>5. \A v \in Videos : Marked(v) => Marked(v)'
      BY <2>1 DEF Marked
    <2>6. QED
      BY <1>0, <2>1, <2>4, <2>5, NoneLeftKept
  <1>2. CASE TakeProcessJob
    <2> DEFINE u == Head(processQueue).video
    <2>1. /\ process.step = "idle" /\ processQueue # << >> /\ processQueue' = Tail(processQueue)
          /\ process'.video = u /\ UNCHANGED <<state, file, creation>>
      BY <1>2 DEF TakeProcessJob, collection
    <2>2. processQueue \in Seq(Job) /\ NoJobTwice(processQueue)
      BY <1>0 DEF OneRun, TypeOK
    <2>3. /\ u \in Videos /\ HasJobIn(processQueue, u)
          /\ \A v \in Videos : HasJobIn(processQueue', v) => HasJobIn(processQueue, v)
      BY <2>1, <2>2, JobTaken
    <2> HIDE DEF u
    <2>4. \A v \in Videos : NotStarted(v)' => NotStarted(v)
      BY <2>1, <2>3 DEF NotStarted
    <2>5. \A v \in Videos : ~Marked(v)
      BY <2>1 DEF Marked
    <2>6. QED
      BY <1>0, <2>1, <2>4, <2>5, NoneLeftKept
  <1>3. CASE MarkProcessing
    <2>1. /\ process.step = "mark" /\ process.video \in Videos
          /\ process'.step = "check" /\ process'.video = process.video
          /\ UNCHANGED <<file, creation, processQueue>>
          /\ \A v \in Videos : v # process.video => state'[v] = state[v]
      BY <1>0, <1>3, ProcessGoesType DEF MarkProcessing, OthersOfProcess, ProcessSteps, TypeOK
    <2>2. \A v \in Videos : NotStarted(v)' => NotStarted(v)
      BY <2>1 DEF NotStarted, HasJobIn
    <2>3. \A v \in Videos : v = process.video => Marked(v)'
      BY <2>1 DEF Marked
    <2>4. \A v \in Videos : ~Marked(v)
      BY <2>1 DEF Marked
    <2>5. QED
      BY <1>0, <2>1, <2>2, <2>3, <2>4, NoneLeftKept
  <1>4. CASE CheckFileType
    <2>1. /\ process.step = "check" /\ process.video \in Videos
          /\ UNCHANGED <<file, creation, processQueue, state>>
      BY <1>0, <1>4 DEF CheckFileType, OthersOfProcess, collection
    <2>2. \/ process'.step = "upload" /\ process'.video = process.video
          \/ process'.step = "idle" /\ process.video \notin Genuine
      BY <1>0, <1>4, <2>1, ProcessGoesType, ProcessEndsType DEF CheckFileType, ProcessSteps
    <2>3. \A v \in Videos : NotStarted(v)' => NotStarted(v)
      BY <2>1, <2>2 DEF NotStarted, HasJobIn
    <2>4. \A v \in Genuine : Marked(v) => Marked(v)'
      BY <2>1, <2>2 DEF Marked
    <2>5. QED
      BY <1>0, <2>1, <2>3, <2>4, NoneLeftKept
  <1>5. CASE EnsureFile \/ OpenFile \/ CopyChunk \/ FinishCopy
    <2>1. /\ process.step \in {"upload", "open", "copy"} /\ process.video \in Videos
          /\ UNCHANGED <<state, creation, processQueue>>
      BY <1>0, <1>5
      DEF EnsureFile, OpenFile, CopyChunk, FinishCopy, OthersOfProcess, collection
    <2>2. process.step = "upload" => file[process.video] = NoFile
      BY <1>0, <2>1 DEF NoneLeft, NotStarted
    <2>3. process'.step \in {"open", "copy", "stat"} /\ process'.video = process.video
      BY <1>0, <1>5, <2>1, <2>2, ProcessGoesType
      DEF EnsureFile, OpenFile, CopyChunk, FinishCopy, ProcessSteps
    <2>4. creation[process.video] # "none" /\ ~HasJobIn(processQueue, process.video)
      BY <1>0, <2>1 DEF Working
    <2>5. \A v \in Videos : NotStarted(v)' => NotStarted(v) /\ v # process.video
      BY <2>1, <2>3, <2>4 DEF NotStarted, HasJobIn
    <2>6. \A v \in Videos : v # process.video => file'[v] = file[v]
      BY <1>0, <1>5 DEF EnsureFile, OpenFile, CopyChunk, FinishCopy
    <2>7. \A v \in Videos : Marked(v) => Marked(v)'
      BY <2>1, <2>3 DEF Marked
    <2>8. QED
      BY <1>0, <2>1, <2>5, <2>6, <2>7, NoneLeftKept
  <1>6. CASE ReadSize
    <2>1. /\ process.step = "stat" /\ process.video \in Videos
          /\ UNCHANGED <<state, file, creation, processQueue, asked>>
      BY <1>0, <1>6 DEF ReadSize, OthersOfProcess, collection
    <2>2. \/ process'.step = "finish" /\ process'.video = process.video
          \/ process'.step = "idle" /\ process.video \in asked
      <3>1. CASE file[process.video] = NoFile
        BY <1>0, <1>6, <2>1, <3>1, ProcessEndsType DEF ReadSize, FileFollowsWork
      <3>2. CASE file[process.video] # NoFile
        BY <1>0, <1>6, <3>2 DEF ReadSize, ProcessStates
      <3>3. QED
        BY <3>1, <3>2
    <2>3. \A v \in Videos : NotStarted(v)' => NotStarted(v)
      BY <2>1, <2>2 DEF NotStarted, HasJobIn
    <2>4. \A v \in Genuine : v \notin asked' => (Marked(v) => Marked(v)')
      BY <2>1, <2>2 DEF Marked
    <2>5. QED
      BY <1>0, <2>1, <2>3, <2>4, NoneLeftKept
  <1>7. CASE MarkReady
    <2>1. /\ process.step = "finish" /\ process.video \in Videos
          /\ UNCHANGED <<file, creation, processQueue, asked>>
      BY <1>0, <1>7 DEF MarkReady, OthersOfProcess
    <2>2. /\ process'.step \in {"idle", "ack"}
          /\ \/ state' = state /\ state[process.video] = "ABSENT"
             \/ state' = [state EXCEPT ![process.video] = "READY"]
      BY <1>0, <1>7, <2>1, ProcessGoesType, ProcessEndsType
      DEF MarkReady, ProcessSteps, collection
    <2>3. \A v \in Videos : NotStarted(v)' => NotStarted(v)
      BY <2>1, <2>2 DEF NotStarted, HasJobIn
    <2>4. \A v \in Genuine : v \notin asked => state'[v] # "PROCESSING"
      <3>1. \A v \in Genuine : v \notin asked /\ state[v] = "PROCESSING" => v = process.video
        BY <1>0 DEF NoneLeft, Marked
      <3>2. state'[process.video] # "PROCESSING"
        BY <1>0, <2>1, <2>2
      <3>3. \A v \in Videos : v # process.video => state'[v] = state[v]
        BY <1>0, <2>2
      <3>4. QED
        BY <1>0, <3>1, <3>2, <3>3
    <2>5. QED
      BY <1>0, <2>1, <2>3, <2>4, NoneLeftKept
  <1>8. CASE CompleteProcessJob
    <2>1. /\ process.step = "ack" /\ process'.step = "idle"
          /\ UNCHANGED <<state, file, creation, processQueue, asked>>
      BY <1>0, <1>8, ProcessEndsType DEF CompleteProcessJob, OthersOfProcess, collection
    <2>2. \A v \in Videos : NotStarted(v)' => NotStarted(v)
      BY <2>1 DEF NotStarted, HasJobIn
    <2>3. \A v \in Videos : ~Marked(v)
      BY <2>1 DEF Marked
    <2>4. QED
      BY <1>0, <2>1, <2>2, <2>3, NoneLeftKept
  <1>9. CASE \/ \E v \in Videos : InsertRecord(v) \/ QueueDeleteJob(v) \/ QueueDeleteJobFails(v)
             \/ DeleteWorker \/ UnlinkFails \/ DeleteJobThrows \/ RecoverDeleteJob
             \/ UNCHANGED vars
    <2>1. /\ UNCHANGED <<process, processQueue>>
          /\ \A v \in Videos : creation'[v] = "none" => creation[v] = "none"
          /\ \A v \in Videos : file'[v] \in {NoFile, file[v]}
          /\ \A v \in Videos : state'[v] = "PROCESSING" => state[v] = "PROCESSING"
      BY <1>0, <1>9
      DEF InsertRecord, QueueDeleteJob, QueueDeleteJobFails, DeleteWorker, TakeDeleteJob,
          UnlinkFile, UnlinkFails, DropRecord, CompleteDeleteJob, DeleteJobThrows,
          RecoverDeleteJob, vars, OthersOfDelete, processSide, collection, TypeOK
    <2>2. \A v \in Videos : NotStarted(v)' => NotStarted(v)
      BY <2>1 DEF NotStarted, HasJobIn
    <2>3. \A v \in Videos : Marked(v) => Marked(v)'
      BY <2>1 DEF Marked
    <2>4. QED
      BY <1>0, <2>1, <2>2, <2>3, NoneLeftKept
  <1>10. CASE RecoverProcessJob
    BY <1>0, <1>10 DEF RecoverProcessJob, OneRun
  <1>11. ASSUME NEW kind \in {"crash", "throw"}, Fault(kind) PROVE FALSE
    BY <1>0, <1>11, FaultSeen
  <1>12. QED
    BY <1>1, <1>2, <1>3, <1>4, <1>5, <1>6, <1>7, <1>8, <1>9, <1>10, <1>11
    DEF Next, Runs, ProcessWorker, InsertRecordFails, ProcessJobThrows, Crash

\* The record of a returned createOneFromFile is only dropped by its deletion.
LEMMA RecordKeptStep ==
    ASSUME PipelineInv, RecordKept, [Next]_vars
    PROVE  RecordKept'
  <1>0. /\ TypeOK /\ JobsAsked /\ asked \subseteq asked'
        /\ creation \in [Videos -> Creations]
        /\ state \in [Videos -> VideoStates \cup {"ABSENT"}]
    BY AskedGrows DEF PipelineInv, TypeOK
  <1>1. ASSUME NEW v \in Videos, creation'[v] = "returned", v \notin asked'
        PROVE  state'[v] # "ABSENT"
    <2>1. ASSUME NEW u \in Videos, InsertRecord(u) PROVE state'[v] # "ABSENT"
      BY <1>0, <1>1, <2>1 DEF InsertRecord, RecordKept
    <2>2. ASSUME creation[v] = "returned", state'[v] = "ABSENT" => state[v] = "ABSENT"
          PROVE  state'[v] # "ABSENT"
      BY <1>0, <1>1, <2>2 DEF RecordKept
    <2>3. CASE DropRecord
      <3>1. deletion.video # v
        BY <1>0, <1>1, <2>3 DEF DropRecord, JobsAsked
      <3>2. state'[v] = state[v] /\ creation' = creation
        BY <1>0, <2>3, <3>1 DEF DropRecord, OthersOfDelete
      <3>3. QED
        BY <1>1, <2>2, <3>2
    <2>4. ASSUME NEW u \in Videos, QueueProcessJob(u) \/ InsertRecordFails(u)
          PROVE  state'[v] # "ABSENT"
      BY <1>0, <1>1, <2>2, <2>4 DEF QueueProcessJob, InsertRecordFails, collection
    <2>5. CASE Crash
      <3>1. creation[v] = "returned"
        BY <1>0, <1>1, <2>5 DEF Crash
      <3>2. QED
        BY <2>2, <2>5, <3>1 DEF Crash, collection
    <2>6. CASE MarkProcessing \/ MarkReady
      <3>1. creation' = creation /\ (state'[v] = "ABSENT" => state[v] = "ABSENT")
        BY <1>0, <2>6 DEF MarkProcessing, MarkReady, OthersOfProcess, collection
      <3>2. QED
        BY <1>1, <2>2, <3>1
    <2>7. CASE UNCHANGED <<creation, state>>
      BY <1>1, <2>2, <2>7
    <2>8. QED
      BY <2>1, <2>3, <2>4, <2>5, <2>6, <2>7
      DEF Next, Runs, ProcessWorker, DeleteWorker, QueueDeleteJob, QueueDeleteJobFails,
          TakeProcessJob, CheckFileType, EnsureFile, OpenFile, CopyChunk, FinishCopy, ReadSize,
          CompleteProcessJob, ProcessJobThrows, OthersOfProcess, TakeDeleteJob, UnlinkFile,
          UnlinkFails, CompleteDeleteJob, DeleteJobThrows, OthersOfDelete, RecoverProcessJob,
          RecoverDeleteJob, collection, vars
  <1>2. QED
    BY <1>1 DEF RecordKept

\* When the job of an uploaded MKV file is over and the service has returned, the
\* video is READY, unless its deletion was asked for, the worker has overtaken
\* the service, or the process died or an await rejected: no way through the
\* worker leaves it PROCESSING, whatever happens to other videos and to their
\* deletions (process-video.worker.ts:46-121).  That the job is ever over is the
\* other half of UploadSettles.
THEOREM UploadsEndReady == Spec => []NotLeftHalfWay
  <1>1. Init => OneRun /\ NoneLeft /\ RecordKept
    BY VideoAssumption
    DEF Init, OneRun, NoneLeft, RecordKept, NoJobTwice, HasJobIn, IdleProcess
  <1>2. PipelineInv /\ OneRun /\ NoneLeft /\ RecordKept /\ [Next]_vars
            => (OneRun /\ NoneLeft /\ RecordKept)'
    <2>1. ASSUME PipelineInv, NoneLeft, OneRun, [Next]_vars PROVE NoneLeft'
      <3>1. CASE Quiet'
        BY <2>1, <3>1, NoneLeftStep
      <3>2. CASE ~Quiet'
        BY <3>2 DEF NoneLeft
      <3>3. QED
        BY <3>1, <3>2
    <2>2. QED
      BY <2>1, OneRunStays, RecordKeptStep
  <1>3. PipelineInv /\ OneRun /\ NoneLeft /\ RecordKept => NotLeftHalfWay
    <2> SUFFICES ASSUME PipelineInv, NoneLeft, RecordKept, NEW v \in Genuine,
                        creation[v] = "returned", ~ProcessPending(v), v \notin asked, Quiet
                 PROVE  state[v] = "READY" \/ Overtaken(v)
      BY DEF NotLeftHalfWay, Quiet
    <2>1. v \in Videos /\ state[v] \in {"NOT_READY", "PROCESSING", "READY"}
      BY VideoAssumption DEF RecordKept, PipelineInv, TypeOK, VideoStates
    <2>2. state[v] # "PROCESSING"
      BY DEF NoneLeft, Marked, ProcessPending
    <2>3. QED
      BY <2>1, <2>2 DEF Overtaken
  <1>4. QED
    BY <1>1, <1>2, <1>3, PipelineInvariant, PTL DEF Spec

-----------------------------------------------------------------------------
(* A request changes nothing of the pipeline *)

LEMMA ReadingKeepsPipeline == Reading => UNCHANGED vars
  BY DEF Reading, FindVideo, CheckVideo, StatFile, RefuseRange, TakeRange, OpenStream, SendChunk,
         EndBody, ClientLeaves, ReaderThrows

LEMMA StreamStepIsPipelineStep == [StreamNext]_streamVars => [Next]_vars
  <1>1. CASE Runs \/ Crash \/ OpenStreamFails
    BY <1>1 DEF Next, OpenStreamFails
  <1>2. CASE Reading
    BY <1>2, ReadingKeepsPipeline
  <1>3. CASE UNCHANGED streamVars
    BY <1>3 DEF streamVars
  <1>4. QED
    BY <1>1, <1>2, <1>3 DEF StreamNext

\* Serving requests leaves the pipeline as it is: every invariant and every
\* action property of VideoPipeline holds while videos are streamed, the death
\* of the process by a stream that cannot open its file included.
THEOREM StreamReadsPipeline == StreamSpec => Spec
  <1>1. StreamInit => Init
    BY DEF StreamInit
  <1>2. QED
    BY <1>1, StreamStepIsPipelineStep, PTL DEF StreamSpec, Spec

-----------------------------------------------------------------------------
(* The request itself *)

\* The request knows its video.
ReaderTyped ==
    /\ reader \in Readers
    /\ reader.step # "idle" => reader.video \in Videos
    /\ reader.step = "idle" => ~reader.ready

LEMMA ReaderTypes ==
    ASSUME TypeOK
    PROVE  /\ IdleReader \in Readers
           /\ \A v \in Videos : file[v] # NoFile => file[v] \in 0..RawSize
           /\ \A v \in Videos : file'[v] \in Lengths /\ file'[v] # NoFile => file'[v] \in 0..RawSize
  BY LengthType DEF TypeOK, IdleReader, Readers, ReaderSteps

LEMMA ReaderTypedStep ==
    ASSUME TypeOK, TypeOK', ReaderTyped, [StreamNext]_streamVars
    PROVE  ReaderTyped'
  <1> USE SizeAssumption DEF ReaderTyped
  <1>1. CASE ReaderEnds
    BY <1>1, ReaderTypes DEF ReaderEnds, IdleReader
  <1>2. ASSUME NEW v \in Videos, FindVideo(v) PROVE ReaderTyped'
    <2>1. ASSUME NEW found \in BOOLEAN,
                 reader' = [IdleReader EXCEPT !.step = "found", !.video = v, !.ready = found]
          PROVE  ReaderTyped'
      <3>1. reader' = [step |-> "found", video |-> v, ready |-> found, size |-> 0, first |-> 0,
                       last |-> 0, length |-> 0, linked |-> FALSE, sent |-> 0]
        BY <2>1 DEF IdleReader
      <3>2. 0 \in 0..RawSize /\ FALSE \in BOOLEAN /\ "found" \in ReaderSteps
        BY DEF ReaderSteps
      <3>3. reader' \in Readers
        <4>1. CASE found = TRUE
          BY <3>1, <3>2, <4>1 DEF Readers
        <4>2. CASE found = FALSE
          BY <3>1, <3>2, <4>2 DEF Readers
        <4>3. QED
          BY <4>1, <4>2
      <3>4. QED
        BY <3>1, <3>3
    <2>2. (state[v] = "READY") \in BOOLEAN
      OBVIOUS
    <2>3. reader' = [IdleReader EXCEPT
                !.step = "found", !.video = v, !.ready = (state[v] = "READY")]
      BY <1>2 DEF FindVideo
    <2>4. QED
      BY ONLY <2>1, <2>2, <2>3, Zenon
  <1>3. CASE CheckVideo
    BY <1>1, <1>3 DEF CheckVideo, Readers, ReaderSteps
  <1>4. CASE StatFile
    <2>1. CASE FileOfReader = NoFile
      BY <1>1, <1>4, <2>1 DEF StatFile
    <2>2. CASE FileOfReader # NoFile
      <3>1. FileOfReader \in 0..RawSize
        BY <1>4, <2>2, ReaderTypes DEF StatFile, FileOfReader
      <3>2. QED
        BY <1>4, <2>2, <3>1 DEF StatFile, Readers, ReaderSteps
    <2>3. QED
      BY <2>1, <2>2
  <1>5. ASSUME NEW h \in Headers, TakeRange(h) PROVE ReaderTyped'
    <2>0. /\ h.first \in (0..RawSize) \cup {NaN} /\ h.first # NaN
          /\ EndOf(h) # NaN
          /\ reader.size \in 0..RawSize
      BY <1>5 DEF TakeRange, NotAStream, Headers, Readers
    <2>a. EndOf(h) \in (0..RawSize) \cup {NaN}
      <3>1. CASE h.last = NoEnd
        BY <2>0, <3>1 DEF EndOf, NaN
      <3>2. CASE h.last # NoEnd
        BY <3>2 DEF EndOf, Headers
      <3>3. QED
        BY <3>1, <3>2
    <2>1. h.first \in 0..RawSize /\ EndOf(h) \in 0..RawSize
      BY <2>0, <2>a
    <2>2. QED
      BY <1>5, <2>1 DEF TakeRange, Readers, ReaderSteps
  <1>6. CASE OpenStream
    BY <1>6, ReaderTypes DEF OpenStream, FileOfReader, Readers, ReaderSteps
  <1>7. CASE SendChunk
    <2>1. reader.sent + 1 \in 0..RawSize
      BY <1>7 DEF SendChunk, Readers
    <2>2. QED
      BY <1>7, <2>1 DEF SendChunk, Readers, ReaderSteps
  <1>8. CASE Runs /\ SeesFile
    <2>1. CASE reader' = reader
      BY <2>1
    <2>2. CASE /\ reader.step = "send" /\ file'[reader.video] = NoFile
               /\ reader' = [reader EXCEPT !.linked = FALSE]
      BY <2>2 DEF Readers
    <2>3. CASE /\ reader.step = "send" /\ file'[reader.video] # NoFile
               /\ reader' = [reader EXCEPT !.length = file'[reader.video]]
      <3>1. file'[reader.video] \in 0..RawSize
        BY <2>3, ReaderTypes DEF TypeOK
      <3>2. QED
        BY <2>3, <3>1 DEF Readers
    <2>4. QED
      BY <1>8, <2>1, <2>2, <2>3 DEF SeesFile
  <1>9. CASE UNCHANGED streamVars
    BY <1>9 DEF streamVars
  <1>10. QED
    BY <1>1, <1>2, <1>3, <1>4, <1>5, <1>6, <1>7, <1>8, <1>9
    DEF StreamNext, Reading, RefuseRange, EndBody, ClientLeaves, ReaderThrows, OpenStreamFails

-----------------------------------------------------------------------------
(* What a request is served from *)

\* Without a deletion asked for, the complete file of a video stays.
LEMMA WholeFileStays ==
    ASSUME PipelineInv, [Next]_vars, NEW v \in Videos, v \notin asked', file[v] = RawSize
    PROVE  file'[v] = RawSize
  <1>0. /\ file \in [Videos -> Lengths] /\ file' \in [Videos -> Lengths]
        /\ file'[v] \in {NoFile, RawSize} /\ RawSize # NoFile /\ RawSize # 0
    BY PipelineInvStep, CompleteKeptStep, LengthType DEF PipelineInv, TypeOK, CompleteKept
  <1>1. asked \subseteq asked'
    BY AskedGrows
  <1>2. CASE UnlinkFile
    <2>1. deletion.video \in asked
      BY <1>2 DEF UnlinkFile, PipelineInv, JobsAsked
    <2>2. QED
      BY <1>0, <1>1, <1>2, <2>1 DEF UnlinkFile
  <1>3. CASE EnsureFile \/ OpenFile \/ CopyChunk
    BY <1>0, <1>1, <1>3, LengthType DEF EnsureFile, OpenFile, CopyChunk
  <1>4. CASE UNCHANGED file
    BY <1>0, <1>1, <1>4
  <1>5. UnlinkFile \/ EnsureFile \/ OpenFile \/ CopyChunk \/ UNCHANGED file
    BY DEF Next, Runs, ProcessWorker, DeleteWorker, QueueProcessJob, InsertRecord,
           InsertRecordFails, QueueDeleteJob, QueueDeleteJobFails, TakeProcessJob, MarkProcessing,
           CheckFileType, FinishCopy, ReadSize, MarkReady, CompleteProcessJob, ProcessJobThrows,
           TakeDeleteJob, UnlinkFails, DropRecord, CompleteDeleteJob, DeleteJobThrows, Crash,
           RecoverProcessJob, RecoverDeleteJob, vars
  <1>6. QED
    BY <1>2, <1>3, <1>4, <1>5

LEMMA ServedStep ==
    ASSUME PipelineInv, ReaderTyped, ServedFromWholeFile, [StreamNext]_streamVars
    PROVE  ServedFromWholeFile'
  <1> USE DEF ServedFromWholeFile, FileOfReader
  <1>0. [Next]_vars
    BY StreamStepIsPipelineStep
  <1>1. CASE ReaderEnds
    BY <1>1 DEF ReaderEnds, IdleReader
  <1>2. ASSUME NEW v \in Videos, FindVideo(v) PROVE ServedFromWholeFile'
    <2>1. /\ reader'.video = v /\ reader'.step = "found" /\ UNCHANGED vars
          /\ reader'.ready => state[v] = "READY"
      BY <1>2 DEF FindVideo, IdleReader
    <2>2. QED
      BY <2>1 DEF PipelineInv, ReadyIsComplete, vars
  <1>3. CASE CheckVideo
    <2>1. CASE reader' = [reader EXCEPT !.step = "stat"]
      BY <1>3, <2>1 DEF CheckVideo, ReaderTyped, Readers, vars
    <2>2. QED
      BY <1>1, <1>3, <2>1 DEF CheckVideo
  <1>4. CASE StatFile
    <2>1. CASE reader' = [reader EXCEPT !.step = "ranged", !.size = FileOfReader]
      <3>1. /\ reader'.step = "ranged" /\ reader'.size = file[reader.video]
            /\ reader'.video = reader.video /\ reader'.ready = reader.ready
        BY <2>1 DEF ReaderTyped, Readers
      <3>2. QED
        BY <1>4, <3>1 DEF StatFile, vars
    <2>2. QED
      BY <1>1, <1>4, <2>1 DEF StatFile
  <1>5. CASE \E h \in Headers : TakeRange(h)
    BY <1>5 DEF TakeRange, ReaderTyped, Readers, vars
  <1>6. CASE OpenStream
    <2>1. /\ reader'.length = file[reader.video] /\ reader'.size = reader.size
          /\ reader'.video = reader.video /\ reader'.ready = reader.ready
      BY <1>6 DEF OpenStream, ReaderTyped, Readers
    <2>2. QED
      BY <1>6, <2>1 DEF OpenStream, vars
  <1>7. CASE SendChunk
    BY <1>7 DEF SendChunk, ReaderTyped, Readers, vars
  <1>8. CASE Runs /\ SeesFile
    <2>1. SUFFICES ASSUME reader'.ready, reader'.video \notin asked'
                   PROVE  /\ file'[reader'.video] = RawSize
                          /\ reader'.step \in {"ranged", "open", "send"} => reader'.size = RawSize
                          /\ reader'.step = "send" => reader'.length = RawSize
      OBVIOUS
    <2>2. /\ reader'.video = reader.video /\ reader'.ready = reader.ready
          /\ reader'.step = reader.step /\ reader'.size = reader.size
          /\ \/ reader'.length = reader.length
             \/ reader'.length = file'[reader.video]
      BY <1>8 DEF SeesFile, ReaderTyped, Readers
    <2>3. reader.video \in Videos /\ file[reader.video] = RawSize
      BY <1>0, <2>1, <2>2, AskedGrows DEF ReaderTyped
    <2>4. file'[reader.video] = RawSize
      BY <1>0, <2>1, <2>2, <2>3, WholeFileStays
    <2>5. QED
      BY <1>0, <2>1, <2>2, <2>4, AskedGrows
  <1>9. CASE UNCHANGED streamVars
    BY <1>9 DEF streamVars, vars
  <1>10. QED
    BY <1>1, <1>2, <1>3, <1>4, <1>5, <1>6, <1>7, <1>8, <1>9
    DEF StreamNext, Reading, RefuseRange, EndBody, ClientLeaves, ReaderThrows, OpenStreamFails

-----------------------------------------------------------------------------
(* The invariants of every behaviour *)

StreamInv == PipelineInv /\ ReaderTyped /\ ServedFromWholeFile

LEMMA StreamInvInit == StreamInit => StreamInv
  <1>1. IdleReader \in Readers /\ IdleReader.step = "idle" /\ ~IdleReader.ready
    BY SizeAssumption DEF IdleReader, Readers, ReaderSteps
  <1>2. QED
    BY <1>1, PipelineInvInit DEF StreamInit, StreamInv, ReaderTyped, ServedFromWholeFile

LEMMA StreamInvStep == StreamInv /\ [StreamNext]_streamVars => StreamInv'
  <1> SUFFICES ASSUME StreamInv, [StreamNext]_streamVars PROVE StreamInv'
    OBVIOUS
  <1>1. PipelineInv'
    BY StreamStepIsPipelineStep, PipelineInvStep DEF StreamInv
  <1>2. ReaderTyped'
    BY <1>1, ReaderTypedStep DEF StreamInv, PipelineInv
  <1>3. ServedFromWholeFile'
    BY ServedStep DEF StreamInv
  <1>4. QED
    BY <1>1, <1>2, <1>3 DEF StreamInv

THEOREM StreamInvariant == StreamSpec => []StreamInv
  BY StreamInvInit, StreamInvStep, PTL DEF StreamSpec

\* Every variable keeps its type while videos are streamed; no position of a
\* request leaves the file, whatever its header says.
THEOREM StreamTypeCorrect == StreamSpec => []StreamTypeOK
  <1>1. StreamInv => StreamTypeOK
    BY DEF StreamInv, PipelineInv, ReaderTyped, StreamTypeOK
  <1>2. QED
    BY <1>1, StreamInvariant, PTL

\* A request that found its video READY is served from the whole file until the
\* deletion of the video is asked for, however often its job is run again, and
\* however the steps of the request and of the workers follow each other
\* (video-stream.controller.ts:52-114).
THEOREM ServedCorrect == StreamSpec => []ServedFromWholeFile
  <1>1. StreamInv => ServedFromWholeFile
    BY DEF StreamInv
  <1>2. QED
    BY <1>1, StreamInvariant, PTL

-----------------------------------------------------------------------------
(* The bodies that are sent *)

\* What a request has found READY stays over, and it has opened the whole file.
FoundOver ==
    Quiet /\ reader.ready =>
        Over(reader.video) /\ (reader.step = "send" => reader.length = RawSize)

\* Where the request is in its range.
BodyFollows ==
    /\ reader.step \in {"stat", "ranged", "open", "send"} => reader.ready
    /\ reader.step \in {"open", "send"} => reader.first <= reader.last
    /\ reader.step = "send" => reader.sent <= Wanted
    /\ reader.step # "send" => reader.sent = 0

LEMMA FoundOverStep ==
    ASSUME PipelineInv, OneRun, ReaderTyped, FoundOver, BodyFollows, [StreamNext]_streamVars
    PROVE  FoundOver'
  <1> SUFFICES ASSUME Quiet', reader'.ready
               PROVE  Over(reader.video)' /\ (reader'.step = "send" => reader'.length = RawSize)
    BY DEF FoundOver
  <1>0. /\ TypeOK /\ Quiet /\ reader \in Readers
        /\ \A v \in Videos : Over(v) => Over(v)'
    BY StreamStepIsPipelineStep, QuietStays, OneRunStep DEF PipelineInv, ReaderTyped
  <1>1. ASSUME ReaderEnds PROVE FALSE
    BY <1>1 DEF ReaderEnds, IdleReader
  <1>2. ASSUME NEW v \in Videos, FindVideo(v)
        PROVE  Over(reader.video)' /\ (reader'.step = "send" => reader'.length = RawSize)
    <2>1. /\ reader'.video = v /\ reader'.step = "found"
          /\ reader'.ready => state[v] = "READY"
      BY <1>2 DEF FindVideo, IdleReader
    <2>2. Over(v)'
      BY <1>0, <2>1 DEF OneRun
    <2>3. QED
      BY <2>1, <2>2 DEF Over, Working
  <1>3. ASSUME reader.ready, reader'.video = reader.video, reader.step # "idle",
               reader'.step = "send" =>
                   \/ reader'.length = RawSize
                   \/ reader'.length = reader.length /\ reader.step = "send"
        PROVE  Over(reader.video)' /\ (reader'.step = "send" => reader'.length = RawSize)
    <2>1. Over(reader.video) /\ (reader.step = "send" => reader.length = RawSize)
      BY <1>0, <1>3 DEF FoundOver
    <2>2. PICK v \in Videos : v = reader.video
      BY <1>3 DEF ReaderTyped
    <2>3. Over(v)'
      BY <1>0, <2>1, <2>2
    <2>4. QED
      BY <1>3, <2>1, <2>2, <2>3 DEF Over, Working
  <1>4. CASE \/ CheckVideo \/ StatFile \/ SendChunk \/ \E h \in Headers : TakeRange(h)
    <2>1. /\ reader'.ready = reader.ready /\ reader'.video = reader.video
          /\ reader.step # "idle"
          /\ reader'.step = "send" => reader'.length = reader.length /\ reader.step = "send"
      BY <1>0, <1>1, <1>4 DEF CheckVideo, StatFile, SendChunk, TakeRange, Readers
    <2>2. QED
      BY <1>3, <2>1
  <1>5. CASE OpenStream
    <2>1. /\ reader'.ready = reader.ready /\ reader'.video = reader.video
          /\ reader.step = "open" /\ reader'.length = file[reader.video]
          /\ file[reader.video] # NoFile
      BY <1>0, <1>5 DEF OpenStream, FileOfReader, Readers
    <2>2. file[reader.video] = RawSize
      BY <1>0, <2>1 DEF FoundOver, Over
    <2>3. QED
      BY <1>3, <2>1, <2>2
  <1>6. CASE Runs /\ SeesFile
    <2>1. /\ reader'.ready = reader.ready /\ reader'.video = reader.video
          /\ reader'.step = reader.step
          /\ \/ reader'.length = reader.length
             \/ reader.step = "send" /\ reader'.length = file'[reader.video]
                /\ file'[reader.video] # NoFile
      BY <1>0, <1>6 DEF SeesFile, Readers
    <2>2. PICK v \in Videos : v = reader.video
      <3>1. reader.ready
        BY <2>1
      <3>2. reader.video \in Videos
        BY <3>1 DEF ReaderTyped
      <3>3. QED
        BY <3>2
    <2>3. Over(v)'
      <3>1. Over(reader.video)
        BY <1>0, <2>1 DEF FoundOver
      <3>2. QED
        BY <1>0, <2>2, <3>1
    <2>4. file'[reader.video] \in {NoFile, RawSize}
      BY <2>2, <2>3 DEF Over
    <2>5. reader.step # "idle"
      BY <2>1 DEF ReaderTyped
    <2>6. QED
      BY <1>3, <2>1, <2>4, <2>5
  <1>7. CASE UNCHANGED streamVars
    BY <1>3, <1>7 DEF streamVars, ReaderTyped
  <1>8. QED
    BY <1>1, <1>2, <1>4, <1>5, <1>6, <1>7
    DEF StreamNext, Reading, RefuseRange, EndBody, ClientLeaves, ReaderThrows, OpenStreamFails

LEMMA BodyFollowsStep ==
    ASSUME ReaderTyped, BodyFollows, [StreamNext]_streamVars
    PROVE  BodyFollows'
  <1> USE SizeAssumption DEF BodyFollows
  <1>0. reader \in Readers
    BY DEF ReaderTyped
  <1>1. CASE ReaderEnds
    BY <1>1 DEF ReaderEnds, IdleReader
  <1>2. ASSUME NEW v \in Videos, FindVideo(v) PROVE BodyFollows'
    BY <1>2 DEF FindVideo, IdleReader
  <1>3. CASE CheckVideo \/ StatFile
    BY <1>0, <1>1, <1>3 DEF CheckVideo, StatFile, Readers
  <1>4. ASSUME NEW h \in Headers, TakeRange(h) PROVE BodyFollows'
    <2>1. /\ reader' = [reader EXCEPT !.step = "open", !.first = h.first, !.last = EndOf(h)]
          /\ ~(h.first > EndOf(h)) /\ h.first # NaN /\ EndOf(h) # NaN
          /\ reader.step = "ranged" /\ reader.size \in 0..RawSize
      BY <1>0, <1>4 DEF TakeRange, NotAStream, Readers
    <2>2. h.first \in Int /\ EndOf(h) \in Int
      BY <2>1 DEF Headers, EndOf, NaN, NoEnd
    <2>3. h.first <= EndOf(h)
      BY <2>1, <2>2
    <2>4. /\ reader'.step = "open" /\ reader'.first = h.first /\ reader'.last = EndOf(h)
          /\ reader'.ready = reader.ready /\ reader'.sent = reader.sent
      BY <1>0, <2>1 DEF Readers
    <2>5. QED
      BY <2>1, <2>3, <2>4
  <1>5. CASE OpenStream
    <2>1. /\ reader.step = "open" /\ reader'.step = "send" /\ reader'.first = reader.first
          /\ reader'.last = reader.last /\ reader'.sent = reader.sent
          /\ reader'.ready = reader.ready
      BY <1>0, <1>5 DEF OpenStream, Readers
    <2>2. reader.first \in Int /\ reader.last \in Int
      BY <1>0 DEF Readers
    <2>3. QED
      BY <2>1, <2>2 DEF Wanted
  <1>6. CASE SendChunk
    <2>1. /\ reader.step = "send" /\ reader'.step = "send" /\ reader'.first = reader.first
          /\ reader'.last = reader.last /\ reader'.sent = reader.sent + 1
          /\ reader'.ready = reader.ready /\ reader.sent < Wanted
      BY <1>0, <1>6 DEF SendChunk, Readers
    <2>2. reader.first \in Int /\ reader.last \in Int /\ reader.sent \in Int
      BY <1>0 DEF Readers
    <2>3. QED
      BY <2>1, <2>2 DEF Wanted
  <1>7. CASE Runs /\ SeesFile
    <2>1. /\ reader'.step = reader.step /\ reader'.first = reader.first
          /\ reader'.last = reader.last /\ reader'.sent = reader.sent
          /\ reader'.ready = reader.ready
      BY <1>0, <1>7 DEF SeesFile, Readers
    <2>2. QED
      BY <2>1 DEF Wanted
  <1>8. CASE UNCHANGED streamVars
    BY <1>8 DEF streamVars, Wanted
  <1>9. QED
    BY <1>1, <1>2, <1>3, <1>4, <1>5, <1>6, <1>7, <1>8
    DEF StreamNext, Reading, RefuseRange, EndBody, ClientLeaves, ReaderThrows, OpenStreamFails

\* The inductive invariant of the bodies.
BodyInv == StreamInv /\ OneRun /\ FoundOver /\ BodyFollows

LEMMA BodyInvInit == StreamInit => BodyInv
  <1> SUFFICES ASSUME StreamInit PROVE BodyInv
    OBVIOUS
  <1>1. StreamInv
    BY StreamInvInit
  <1>2. OneRun
    BY DEF StreamInit, Init, OneRun, NoJobTwice, HasJobIn, IdleProcess
  <1>3. FoundOver /\ BodyFollows
    BY DEF StreamInit, IdleReader, FoundOver, BodyFollows
  <1>4. QED
    BY <1>1, <1>2, <1>3 DEF BodyInv

LEMMA BodyInvStep == BodyInv /\ [StreamNext]_streamVars => BodyInv'
  <1> SUFFICES ASSUME BodyInv, [StreamNext]_streamVars PROVE BodyInv'
    OBVIOUS
  <1>1. StreamInv'
    BY StreamInvStep DEF BodyInv
  <1>2. OneRun'
    BY OneRunStays, StreamStepIsPipelineStep DEF BodyInv, StreamInv
  <1>3. FoundOver' /\ BodyFollows'
    BY FoundOverStep, BodyFollowsStep DEF BodyInv, StreamInv
  <1>4. QED
    BY <1>1, <1>2, <1>3 DEF BodyInv

THEOREM BodyInvariant == StreamSpec => []BodyInv
  BY BodyInvInit, BodyInvStep, PTL DEF StreamSpec

\* The action property for one step, from a state where the invariant holds.
LEMMA BodyStep ==
    ASSUME BodyInv, reader.step = "send", EndBody, reader.last < RawSize,
           faults = << >> \/ reader.video \notin asked
    PROVE  reader.sent = reader.last - reader.first + 1
  <1>1. /\ reader.first \in Int /\ reader.last \in Int /\ reader.sent \in Int
        /\ RawSize \in Int
    BY SizeAssumption DEF BodyInv, StreamInv, ReaderTyped, Readers
  <1>2. reader.ready /\ reader.sent <= Wanted
    BY DEF BodyInv, BodyFollows
  <1>a. faults = << >> => Quiet
    BY DEF Quiet, Met
  <1>3. reader.length = RawSize
    BY <1>a, <1>2 DEF BodyInv, FoundOver, StreamInv, ServedFromWholeFile
  <1>4. reader.sent = Wanted \/ reader.first + reader.sent >= RawSize
    BY <1>3 DEF EndBody
  <1>5. QED
    BY <1>1, <1>2, <1>4 DEF Wanted

\* What Content-Length promises is what is sent: the body of an answer to a
\* range within the file ends with the last position, unless the client goes
\* away, as long as the video is not to be deleted or nothing has failed
\* (video-stream.controller.ts:52-114).  Without a fault this holds while the
\* video is deleted, because it is processed only once: no later run of its job
\* can create its file again.
THEOREM BodyCorrect == StreamSpec => BodyIsExact
  <1>1. BodyInv /\ [StreamNext]_streamVars =>
            [/\ reader.step = "send" /\ EndBody
             /\ reader.last < RawSize
             /\ faults = << >> \/ reader.video \notin asked
             => reader.sent = reader.last - reader.first + 1]_streamVars
    BY BodyStep
  <1>2. QED
    BY <1>1, BodyInvariant, PTL DEF StreamSpec, BodyIsExact

=============================================================================
