------------------------- MODULE ImagePipelineProofs -------------------------
(***************************************************************************)
(* What is proved of ImagePipeline for every number of images and sizes,   *)
(* every concurrency, every fault and every image that cannot be read: the *)
(* refinement of ImageStore, that what is deleted stays deleted, and that  *)
(* no image is given up.                                                   *)
(***************************************************************************)
EXTENDS ImagePipeline, FiniteSetTheorems, SequenceTheorems, TLAPS

-----------------------------------------------------------------------------
(* The inductive invariant *)

\* A file is as far as the stream that writes it, unless it was removed since.
FileFollows(i, s) ==
    /\ writer[i][s] = "opening" => files[i][s] = "none"
    /\ writer[i][s] = "open" => files[i][s] = "partial" \/ (files[i][s] = "none" /\ i \in dropped)
    /\ writer[i][s] = "done" => files[i][s] = "complete" \/ i \in dropped
    /\ writer[i][s] # "none" => i \in queued

StreamsOK == \A i \in Images, s \in Sizes : FileFollows(i, s)

RemovingDropped == \A i \in Images, s \in Sizes : s \in removing[i] => i \in dropped

ImageInv ==
    /\ TypeOK /\ IsFiniteSet(working)
    /\ StreamsOK /\ RemovingDropped /\ MadeIsWhole

-----------------------------------------------------------------------------
(* Functions of an image and a size *)

LEMMA SizeSet ==
    ASSUME NEW S, NEW f \in [Images -> [Sizes -> S]], NEW i \in Images, NEW s \in Sizes,
           NEW x \in S, NEW g, g = [f EXCEPT ![i][s] = x]
    PROVE  /\ g \in [Images -> [Sizes -> S]]
           /\ g[i][s] = x
           /\ \A j \in Images, t \in Sizes : j # i \/ t # s => g[j][t] = f[j][t]
  OBVIOUS

LEMMA ImageSet ==
    ASSUME NEW S, NEW f \in [Images -> [Sizes -> S]], NEW i \in Images,
           NEW h \in [Sizes -> S], NEW g, g = [f EXCEPT ![i] = h]
    PROVE  /\ g \in [Images -> [Sizes -> S]]
           /\ \A s \in Sizes : g[i][s] = h[s]
           /\ \A j \in Images, t \in Sizes : j # i => g[j][t] = f[j][t]
  OBVIOUS

LEMMA OfEverySizeType ==
    ASSUME NEW S, NEW x \in S
    PROVE  /\ OfEverySize(x) \in [Images -> [Sizes -> S]]
           /\ \A i \in Images, s \in Sizes : OfEverySize(x)[i][s] = x
  BY DEF OfEverySize

LEMMA SeqGrows ==
    ASSUME NEW S, NEW T, S \subseteq T, NEW q \in Seq(S)
    PROVE  q \in Seq(T)
  OBVIOUS

LEMMA LessToRemove ==
    ASSUME NEW f \in [Images -> SUBSET Sizes], NEW i \in Images, NEW s \in Sizes,
           NEW g, g = [f EXCEPT ![i] = f[i] \ {s}]
    PROVE  /\ g \in [Images -> SUBSET Sizes]
           /\ \A j \in Images : g[j] \subseteq f[j]
  <1>1. f[i] \ {s} \in SUBSET Sizes
    OBVIOUS
  <1> QED
    BY <1>1

-----------------------------------------------------------------------------
(* Types *)

JobsType ==
    /\ queued \subseteq Images /\ made \subseteq queued /\ dropped \subseteq queued
    /\ waiting \in Seq(queued)
    /\ stalls \in [Images -> 0..MaxStalledCount]
    /\ stalled \subseteq queued /\ working \subseteq queued
    /\ IsFiniteSet(working) /\ Cardinality(working) <= Concurrency

DataType ==
    /\ raw \subseteq Images
    /\ files \in [Images -> [Sizes -> Store!Bytes]]
    /\ rawStep \in [Images -> {"asked", "over"}]
    /\ reader \in [Images -> [Sizes -> Readers]]
    /\ writer \in [Images -> [Sizes -> Writers]]
    /\ removing \in [Images -> SUBSET Sizes]
    /\ dying \in BOOLEAN
    /\ faults \in 0..MaxFaults

LEMMA Types == TypeOK /\ IsFiniteSet(working) <=> JobsType /\ DataType
  BY DEF TypeOK, JobsType, DataType

\* What the actions of an image are, and those of one of its sizes.
OfImage(i) ==
    \/ QueueJob(i) \/ AskDeletion(i) \/ TakeJob(i) \/ Recover(i)
    \/ RemoveRaw(i) \/ RemoveRawFails(i) \/ CompleteJob(i) \/ JobThrows(i) \/ ProgressFails(i)

OfSize(i, s) ==
    \/ OpenRaw(i, s) \/ OpenFile(i, s) \/ FinishFile(i, s) \/ DecodeFails(i, s)
    \/ RemoveFile(i, s) \/ RemoveFileFails(i, s) \/ SizeFails(i, s)

LEMMA NextCases ==
    ASSUME Next
    PROVE  \/ Exit \/ Crash
           \/ \E i \in Images : OfImage(i) \/ \E s \in Sizes : OfSize(i, s)
  BY DEF Next, Streams, OfImage, OfSize

LEMMA JobsStep ==
    ASSUME TypeOK, IsFiniteSet(working), Next
    PROVE  JobsType'
  <1>1. JobsType /\ DataType
    BY Types
  <1>2. ASSUME NEW i \in Images, QueueJob(i) PROVE JobsType'
    <2>1. /\ queued' = queued \cup {i} /\ waiting' = Append(waiting, i)
          /\ UNCHANGED <<made, dropped, stalls, stalled, working>>
      BY <1>2 DEF QueueJob, Store!Queue
    <2>2. waiting \in Seq(queued') /\ i \in queued'
      BY <1>1, <2>1, SeqGrows DEF JobsType
    <2>3. Append(waiting, i) \in Seq(queued')
      BY <2>2, AppendProperties
    <2> QED
      BY <1>1, <2>1, <2>3 DEF JobsType
  <1>3. ASSUME NEW i \in Images, AskDeletion(i) PROVE JobsType'
    BY <1>1, <1>3 DEF JobsType, AskDeletion, Store!Drop, jobVars
  <1>4. ASSUME NEW i \in Images, TakeJob(i) PROVE JobsType'
    <2>1. /\ waiting # << >> /\ i = Head(waiting) /\ Cardinality(working) < Concurrency
          /\ waiting' = Tail(waiting) /\ working' = working \cup {i}
          /\ UNCHANGED <<queued, made, dropped, stalls, stalled>>
      BY <1>4 DEF TakeJob, Starts
    <2>2. i \in queued /\ Tail(waiting) \in Seq(queued)
      BY <1>1, <2>1 DEF JobsType
    <2>3. IsFiniteSet(working') /\ Cardinality(working') <= Concurrency
      <3>1. IsFiniteSet(working) /\ Cardinality(working) \in Nat
        BY <1>1, FS_CardinalityType DEF JobsType
      <3>2. /\ IsFiniteSet(working \cup {i})
            /\ Cardinality(working \cup {i}) \in {Cardinality(working), Cardinality(working) + 1}
        BY <3>1, FS_AddElement
      <3> QED
        BY <2>1, <3>1, <3>2, ConcurrencyAssumption
    <2> QED
      BY <1>1, <2>1, <2>2, <2>3 DEF JobsType
  <1>5. ASSUME NEW i \in Images, Recover(i) PROVE JobsType'
    <2>1. i \in queued
      BY <1>1, <1>5 DEF JobsType, Recover
    <2>4. waiting \in Seq(queued) /\ <<i>> \in Seq(queued)
      BY <1>1, <2>1 DEF JobsType
    <2>5. <<i>> \o waiting \in Seq(queued)
      BY <2>4, ConcatProperties
    <2>2. [stalls EXCEPT ![i] = @ + 1] \in [Images -> 0..MaxStalledCount] \/ stalls' = stalls
      BY <1>1, <1>5 DEF JobsType, Recover, MaxStalledCount
    <2>3. waiting' \in Seq(queued) /\ stalls' \in [Images -> 0..MaxStalledCount]
      BY <1>1, <1>5, <2>5, <2>2 DEF JobsType, Recover, MaxStalledCount
    <2> QED
      BY <1>1, <1>5, <2>3 DEF JobsType, Recover
  <1>6. ASSUME NEW i \in Images, CompleteJob(i) \/ JobThrows(i) \/ ProgressFails(i) PROVE JobsType'
    <2>1. /\ i \in working /\ working' = working \ {i} /\ (made' = made \/ made' = made \cup {i})
          /\ UNCHANGED <<queued, dropped, waiting, stalls, stalled>>
      BY <1>6 DEF CompleteJob, JobThrows, ProgressFails, JobEnds
    <2>2. IsFiniteSet(working') /\ Cardinality(working') <= Concurrency
      <3>1. IsFiniteSet(working) /\ Cardinality(working) \in Nat
        BY <1>1, FS_CardinalityType DEF JobsType
      <3>2. /\ IsFiniteSet(working \ {i})
            /\ Cardinality(working \ {i}) \in {Cardinality(working), Cardinality(working) - 1}
        BY <3>1, FS_RemoveElement
      <3> QED
        BY <1>1, <2>1, <3>1, <3>2, ConcurrencyAssumption DEF JobsType
    <2> QED
      BY <1>1, <2>1, <2>2 DEF JobsType
  <1>7. CASE Dies
    <2>1. IsFiniteSet({}) /\ Cardinality({}) <= Concurrency
      BY FS_EmptySet, ConcurrencyAssumption
    <2> QED
      BY <1>1, <1>7, <2>1 DEF JobsType, Dies
  <1>8. ASSUME UNCHANGED <<queued, made, dropped, jobVars>> PROVE JobsType'
    BY <1>1, <1>8 DEF JobsType, jobVars
  <1>9. ASSUME NEW i \in Images, NEW s \in Sizes, OfSize(i, s)
        PROVE  UNCHANGED <<queued, made, dropped, jobVars>>
    BY <1>9 DEF OfSize, OpenRaw, OpenFile, FinishFile, DecodeFails, RemoveFile, RemoveFileFails,
                SizeFails
  <1>10. ASSUME NEW i \in Images, RemoveRaw(i) \/ RemoveRawFails(i)
        PROVE  UNCHANGED <<queued, made, dropped, jobVars>>
    BY <1>10 DEF RemoveRaw, RemoveRawFails
  <1> QED
    BY <1>2, <1>3, <1>4, <1>5, <1>6, <1>7, <1>8, <1>9, <1>10, NextCases DEF OfImage, Exit, Crash

LEMMA DataStep ==
    ASSUME TypeOK, IsFiniteSet(working), Next
    PROVE  DataType'
  <1>1. DataType
    BY Types
  <1>2. ASSUME NEW i \in Images, NEW s \in Sizes, OfSize(i, s) PROVE DataType'
    <2>1. CASE OpenRaw(i, s)
      <3>1. \E x \in Readers : reader' = [reader EXCEPT ![i][s] = x]
        BY <2>1 DEF OpenRaw, Readers
      <3>2. reader' \in [Images -> [Sizes -> Readers]]
        BY <1>1, <3>1, SizeSet DEF DataType
      <3>3. dying' \in BOOLEAN
        BY <2>1 DEF OpenRaw
      <3> QED
        BY <1>1, <2>1, <3>2, <3>3 DEF DataType, OpenRaw
    <2>2. CASE OpenFile(i, s)
      <3>1. /\ files' = [files EXCEPT ![i][s] = "partial"]
            /\ writer' = [writer EXCEPT ![i][s] = "open"]
        BY <2>2 DEF OpenFile
      <3>2. files' \in [Images -> [Sizes -> Store!Bytes]]
        BY <1>1, <3>1, SizeSet DEF DataType, Store!Bytes
      <3>3. writer' \in [Images -> [Sizes -> Writers]]
        BY <1>1, <3>1, SizeSet DEF DataType, Writers
      <3> QED
        BY <1>1, <2>2, <3>2, <3>3 DEF DataType, OpenFile
    <2>3. CASE FinishFile(i, s)
      <3>1. /\ \E b \in {"none", "complete"} : files' = [files EXCEPT ![i][s] = b]
            /\ writer' = [writer EXCEPT ![i][s] = "done"]
        BY <1>1, <2>3 DEF FinishFile, DataType
      <3>2. files' \in [Images -> [Sizes -> Store!Bytes]]
        BY <1>1, <3>1, SizeSet DEF DataType, Store!Bytes
      <3>3. writer' \in [Images -> [Sizes -> Writers]]
        BY <1>1, <3>1, SizeSet DEF DataType, Writers
      <3> QED
        BY <1>1, <2>3, <3>2, <3>3 DEF DataType, FinishFile
    <2>4. CASE DecodeFails(i, s)
      <3>1. reader' = [reader EXCEPT ![i][s] = "broken"]
        BY <2>4 DEF DecodeFails
      <3>2. reader' \in [Images -> [Sizes -> Readers]]
        BY <1>1, <3>1, SizeSet DEF DataType, Readers
      <3> QED
        BY <1>1, <2>4, <3>2 DEF DataType, DecodeFails
    <2>5. CASE SizeFails(i, s)
      <3>1. writer' = [writer EXCEPT ![i][s] = "failed"]
        BY <2>5 DEF SizeFails
      <3>2. writer' \in [Images -> [Sizes -> Writers]]
        BY <1>1, <3>1, SizeSet DEF DataType, Writers
      <3>3. dying' \in BOOLEAN /\ faults' \in 0..MaxFaults
        BY <1>1, <2>5, FaultAssumption DEF SizeFails, Fault, DataType
      <3> QED
        BY <1>1, <2>5, <3>2, <3>3 DEF DataType, SizeFails
    <2>6. CASE RemoveFile(i, s)
      <3>1. /\ files' = [files EXCEPT ![i][s] = "none"]
            /\ removing' = [removing EXCEPT ![i] = removing[i] \ {s}]
        BY <1>1, <2>6 DEF RemoveFile, DataType
      <3>2. files' \in [Images -> [Sizes -> Store!Bytes]]
        BY <1>1, <3>1, SizeSet DEF DataType, Store!Bytes
      <3>3. removing' \in [Images -> SUBSET Sizes]
        BY <1>1, <3>1, LessToRemove DEF DataType
      <3> QED
        BY <1>1, <2>6, <3>2, <3>3 DEF DataType, RemoveFile, streams
    <2>7. CASE RemoveFileFails(i, s)
      <3>1. removing' = [removing EXCEPT ![i] = removing[i] \ {s}]
        BY <1>1, <2>7 DEF RemoveFileFails, DataType
      <3>2. removing' \in [Images -> SUBSET Sizes]
        BY <1>1, <3>1, LessToRemove DEF DataType
      <3>3. faults' \in 0..MaxFaults
        BY <1>1, <2>7, FaultAssumption DEF DataType, RemoveFileFails, Fault
      <3> QED
        BY <1>1, <2>7, <3>2, <3>3 DEF DataType, RemoveFileFails, streams
    <2> QED
      BY <1>2, <2>1, <2>2, <2>3, <2>4, <2>5, <2>6, <2>7 DEF OfSize
  <1>3. ASSUME NEW i \in Images, OfImage(i) PROVE DataType'
    <2>1. CASE QueueJob(i)
      BY <1>1, <2>1 DEF DataType, QueueJob, Store!Queue, streams
    <2>2. CASE AskDeletion(i)
      BY <1>1, <2>2 DEF DataType, AskDeletion, Store!Drop, streams
    <2>3. CASE TakeJob(i)
      <3>1. PICK throws \in SUBSET Sizes :
               /\ rawStep' = [rawStep EXCEPT ![i] = "asked"]
               /\ reader' = [reader EXCEPT ![i] = [s \in Sizes |-> IF s \in throws THEN "none" ELSE "opening"]]
               /\ writer' = [writer EXCEPT ![i] = [s \in Sizes |-> IF s \in throws THEN "failed" ELSE "opening"]]
               /\ dying' = (dying \/ throws # {})
               /\ UNCHANGED <<raw, files, removing, faults>>
        BY <2>3 DEF TakeJob, Starts
      <3>2. reader' \in [Images -> [Sizes -> Readers]]
        BY <1>1, <3>1 DEF DataType, Readers
      <3>3. writer' \in [Images -> [Sizes -> Writers]]
        BY <1>1, <3>1 DEF DataType, Writers
      <3>4. rawStep' \in [Images -> {"asked", "over"}] /\ dying' \in BOOLEAN
        BY <1>1, <3>1 DEF DataType
      <3> QED
        BY <1>1, <3>1, <3>2, <3>3, <3>4 DEF DataType
    <2>4. CASE Recover(i)
      BY <1>1, <2>4 DEF DataType, Recover, streams
    <2>5. CASE RemoveRaw(i)
      BY <1>1, <2>5 DEF DataType, RemoveRaw
    <2>6. CASE RemoveRawFails(i)
      BY <1>1, <2>6, FaultAssumption DEF DataType, RemoveRawFails, Fault
    <2>7. CASE CompleteJob(i) \/ JobThrows(i) \/ ProgressFails(i)
      BY <1>1, <2>7, FaultAssumption
      DEF DataType, CompleteJob, JobThrows, ProgressFails, JobEnds, Fault, streams
    <2> QED
      BY <1>3, <2>1, <2>2, <2>3, <2>4, <2>5, <2>6, <2>7 DEF OfImage
  <1>4. CASE Exit \/ Crash
    <2>1. Dies /\ faults' \in 0..MaxFaults
      BY <1>1, <1>4, FaultAssumption DEF Exit, Crash, Fault, DataType
    <2>2. /\ reader' \in [Images -> [Sizes -> Readers]]
          /\ writer' \in [Images -> [Sizes -> Writers]]
      BY <2>1, OfEverySizeType DEF Dies, Readers, Writers
    <2> QED
      BY <1>1, <2>1, <2>2 DEF DataType, Dies
  <1> QED
    BY <1>2, <1>3, <1>4, NextCases

-----------------------------------------------------------------------------
(* The streams, the deletions and the images that are made *)

\* What an action that is about one image and size does to the rest.
LEMMA OthersFollow ==
    ASSUME StreamsOK, NEW i \in Images, NEW s \in Sizes,
           queued' = queued, dropped' = dropped, FileFollows(i, s)',
           \A j \in Images, t \in Sizes :
               j # i \/ t # s => files'[j][t] = files[j][t] /\ writer'[j][t] = writer[j][t]
    PROVE  StreamsOK'
  <1> SUFFICES ASSUME NEW j \in Images, NEW t \in Sizes, j # i \/ t # s
               PROVE  FileFollows(j, t)'
    BY DEF StreamsOK
  <1>1. FileFollows(j, t)
    BY DEF StreamsOK
  <1> QED
    BY <1>1 DEF FileFollows

LEMMA SizeStreams ==
    ASSUME ImageInv, NEW i \in Images, NEW s \in Sizes, OfSize(i, s)
    PROVE  StreamsOK'
  <1>1. /\ files \in [Images -> [Sizes -> Store!Bytes]]
        /\ writer \in [Images -> [Sizes -> Writers]]
        /\ StreamsOK /\ FileFollows(i, s) /\ (s \in removing[i] => i \in dropped)
    BY DEF ImageInv, TypeOK, StreamsOK, RemovingDropped
  <1>2. queued' = queued /\ dropped' = dropped
    BY DEF OfSize, OpenRaw, OpenFile, FinishFile, DecodeFails, RemoveFile, RemoveFileFails,
           SizeFails
  <1>3. CASE OpenRaw(i, s) \/ DecodeFails(i, s) \/ RemoveFileFails(i, s)
    <2>1. files' = files /\ writer' = writer
      BY <1>3 DEF OpenRaw, DecodeFails, RemoveFileFails, streams
    <2> QED
      BY <1>1, <1>2, <2>1 DEF StreamsOK, FileFollows
  <1>4. CASE OpenFile(i, s)
    <2>1. /\ files' = [files EXCEPT ![i][s] = "partial"]
          /\ writer' = [writer EXCEPT ![i][s] = "open"] /\ writer[i][s] = "opening"
      BY <1>4 DEF OpenFile
    <2>2. /\ files'[i][s] = "partial" /\ \A j \in Images, t \in Sizes :
               j # i \/ t # s => files'[j][t] = files[j][t]
      BY <1>1, <2>1, SizeSet DEF Store!Bytes
    <2>3. /\ writer'[i][s] = "open" /\ \A j \in Images, t \in Sizes :
               j # i \/ t # s => writer'[j][t] = writer[j][t]
      BY <1>1, <2>1, SizeSet DEF Writers
    <2>5. i \in queued
      BY <1>1, <2>1 DEF FileFollows
    <2>4. FileFollows(i, s)'
      BY <1>2, <2>2, <2>3, <2>5 DEF FileFollows
    <2> QED
      BY <1>1, <1>2, <2>2, <2>3, <2>4, OthersFollow
  <1>5. CASE FinishFile(i, s)
    <2>1. PICK b \in {"none", "complete"} :
             /\ files' = [files EXCEPT ![i][s] = b]
             /\ b = "none" => files[i][s] = "none"
             /\ writer' = [writer EXCEPT ![i][s] = "done"] /\ writer[i][s] = "open"
      BY <1>1, <1>5 DEF FinishFile, Piped
    <2>2. /\ files'[i][s] = b /\ \A j \in Images, t \in Sizes :
               j # i \/ t # s => files'[j][t] = files[j][t]
      BY <1>1, <2>1, SizeSet DEF Store!Bytes
    <2>3. /\ writer'[i][s] = "done" /\ \A j \in Images, t \in Sizes :
               j # i \/ t # s => writer'[j][t] = writer[j][t]
      BY <1>1, <2>1, SizeSet DEF Writers
    <2>4. FileFollows(i, s)'
      BY <1>1, <1>2, <2>1, <2>2, <2>3 DEF FileFollows
    <2> QED
      BY <1>1, <1>2, <2>2, <2>3, <2>4, OthersFollow
  <1>6. CASE SizeFails(i, s)
    <2>1. /\ writer' = [writer EXCEPT ![i][s] = "failed"] /\ writer[i][s] # "none"
          /\ files' = files
      BY <1>6 DEF SizeFails
    <2>2. /\ writer'[i][s] = "failed" /\ \A j \in Images, t \in Sizes :
               j # i \/ t # s => writer'[j][t] = writer[j][t]
      BY <1>1, <2>1, SizeSet DEF Writers
    <2>3. FileFollows(i, s)'
      BY <1>1, <1>2, <2>1, <2>2 DEF FileFollows
    <2> QED
      BY <1>1, <1>2, <2>1, <2>2, <2>3, OthersFollow
  <1>7. CASE RemoveFile(i, s)
    <2>1. /\ files' = [files EXCEPT ![i][s] = "none"] /\ writer' = writer
          /\ i \in dropped
      BY <1>1, <1>7 DEF RemoveFile, streams
    <2>2. /\ files'[i][s] = "none" /\ \A j \in Images, t \in Sizes :
               j # i \/ t # s => files'[j][t] = files[j][t]
      BY <1>1, <2>1, SizeSet DEF Store!Bytes
    <2>3. FileFollows(i, s)'
      BY <1>1, <1>2, <2>1, <2>2 DEF FileFollows
    <2> QED
      BY <1>1, <1>2, <2>1, <2>2, <2>3, OthersFollow
  <1> QED
    BY <1>3, <1>4, <1>5, <1>6, <1>7 DEF OfSize

LEMMA StreamsStep ==
    ASSUME ImageInv, Next
    PROVE  StreamsOK'
  <1>1. /\ files \in [Images -> [Sizes -> Store!Bytes]]
        /\ writer \in [Images -> [Sizes -> Writers]]
        /\ StreamsOK /\ waiting \in Seq(queued)
    BY DEF ImageInv, TypeOK
  <1>2. ASSUME NEW i \in Images, TakeJob(i) PROVE StreamsOK'
    <2>5. waiting # << >> /\ i = Head(waiting)
      BY <1>2 DEF TakeJob, Starts
    <2>6. PICK throws : throws = {s \in Sizes : SizeThrows(i, s)} /\ Starts(i, throws)
      BY <1>2 DEF TakeJob
    <2>1. /\ i \in queued
          /\ writer' = [writer EXCEPT ![i] =
                          [s \in Sizes |-> IF s \in throws THEN "failed" ELSE "opening"]]
          /\ UNCHANGED <<files, queued, dropped>>
      BY <1>1, <2>5, <2>6 DEF Starts
    <2>2. /\ \A s \in Sizes : writer'[i][s] = IF SizeThrows(i, s) THEN "failed" ELSE "opening"
          /\ \A j \in Images, s \in Sizes : j # i => writer'[j][s] = writer[j][s]
      BY <1>1, <2>1, <2>6
    <2>3. ASSUME NEW s \in Sizes PROVE FileFollows(i, s)'
      BY <2>1, <2>2 DEF FileFollows, SizeThrows
    <2>4. ASSUME NEW j \in Images, NEW s \in Sizes, j # i PROVE FileFollows(j, s)'
      BY <1>1, <2>1, <2>2, <2>4 DEF StreamsOK, FileFollows
    <2> QED
      BY <2>3, <2>4 DEF StreamsOK
  <1>3. ASSUME files' = files, writer' = writer, queued \subseteq queued', dropped \subseteq dropped'
        PROVE  StreamsOK'
    BY <1>1, <1>3 DEF StreamsOK, FileFollows
  <1>4. ASSUME NEW i \in Images, OfImage(i), ~TakeJob(i) PROVE StreamsOK'
    <2>1. files' = files /\ writer' = writer
      BY <1>4 DEF OfImage, QueueJob, AskDeletion, Recover, RemoveRaw, RemoveRawFails, CompleteJob,
                  JobThrows, ProgressFails, JobEnds, streams, Store!Queue, Store!Drop
    <2>2. queued \subseteq queued' /\ dropped \subseteq dropped'
      BY <1>4 DEF OfImage, QueueJob, AskDeletion, Recover, RemoveRaw, RemoveRawFails, CompleteJob,
                  JobThrows, ProgressFails, JobEnds, Store!Queue, Store!Drop
    <2> QED
      BY <1>3, <2>1, <2>2
  <1>5. CASE Exit \/ Crash
    <2>1. \A i \in Images, s \in Sizes : writer'[i][s] = "none"
      BY <1>5, OfEverySizeType DEF Exit, Crash, Dies
    <2> QED
      BY <2>1 DEF StreamsOK, FileFollows
  <1> QED
    BY <1>2, <1>4, <1>5, SizeStreams, NextCases

LEMMA RemovingStep ==
    ASSUME ImageInv, Next
    PROVE  RemovingDropped'
  <1>1. removing \in [Images -> SUBSET Sizes] /\ RemovingDropped
    BY DEF ImageInv, TypeOK
  <1>2. ASSUME NEW i \in Images, AskDeletion(i) PROVE RemovingDropped'
    BY <1>1, <1>2 DEF RemovingDropped, AskDeletion, Store!Drop
  <1>3. ASSUME dropped' = dropped, \A j \in Images : removing'[j] \subseteq removing[j]
        PROVE  RemovingDropped'
    BY <1>1, <1>3 DEF RemovingDropped
  <1>4. ASSUME NEW i \in Images, NEW s \in Sizes, RemoveFile(i, s) \/ RemoveFileFails(i, s)
        PROVE  RemovingDropped'
    <2>1. removing' = [removing EXCEPT ![i] = removing[i] \ {s}] /\ dropped' = dropped
      BY <1>1, <1>4 DEF RemoveFile, RemoveFileFails
    <2> QED
      BY <1>1, <1>3, <2>1, LessToRemove
  <1>5. ASSUME NEW i \in Images, NEW s \in Sizes, OfSize(i, s),
               ~RemoveFile(i, s), ~RemoveFileFails(i, s)
        PROVE  removing' = removing /\ dropped' = dropped
    BY <1>5 DEF OfSize, OpenRaw, OpenFile, FinishFile, DecodeFails, SizeFails
  <1>6. ASSUME NEW i \in Images, OfImage(i), ~AskDeletion(i)
        PROVE  removing' = removing /\ dropped' = dropped
    BY <1>6 DEF OfImage, QueueJob, TakeJob, Starts, Recover, RemoveRaw, RemoveRawFails,
                CompleteJob, JobThrows, ProgressFails, JobEnds, Store!Queue
  <1>7. CASE Exit \/ Crash
    BY <1>7 DEF RemovingDropped, Exit, Crash, Dies
  <1> QED
    BY <1>2, <1>3, <1>4, <1>5, <1>6, <1>7, NextCases

LEMMA MadeStep ==
    ASSUME ImageInv, Next
    PROVE  MadeIsWhole'
  <1>1. /\ files \in [Images -> [Sizes -> Store!Bytes]]
        /\ writer \in [Images -> [Sizes -> Writers]]
        /\ made \subseteq Images /\ StreamsOK /\ RemovingDropped
        /\ \A i \in made \ dropped : \A s \in Sizes : files[i][s] = "complete"
    BY DEF ImageInv, TypeOK, MadeIsWhole, Store!MadeIsWhole
  <1>2. ASSUME files' = files, made' \subseteq made, dropped \subseteq dropped'
        PROVE  MadeIsWhole'
    BY <1>1, <1>2 DEF MadeIsWhole, Store!MadeIsWhole
  <1>3. ASSUME NEW i \in Images, CompleteJob(i) PROVE MadeIsWhole'
    <2>1. /\ \A s \in Sizes : writer[i][s] = "done"
          /\ made' = made \cup {i} /\ files' = files /\ dropped' = dropped
      BY <1>3 DEF CompleteJob, JobEnds
    <2>2. i \notin dropped => \A s \in Sizes : files[i][s] = "complete"
      BY <1>1, <2>1 DEF StreamsOK, FileFollows
    <2> QED
      BY <1>1, <2>1, <2>2 DEF MadeIsWhole, Store!MadeIsWhole
  <1>4. ASSUME NEW i \in Images, NEW s \in Sizes, NEW b \in Store!Bytes,
               files' = [files EXCEPT ![i][s] = b], made' = made, dropped' = dropped,
               files[i][s] # "complete" \/ b = "complete" \/ i \in dropped
        PROVE  MadeIsWhole'
    <2>1. /\ files'[i][s] = b /\ \A j \in Images, t \in Sizes :
               j # i \/ t # s => files'[j][t] = files[j][t]
      BY <1>1, <1>4, SizeSet
    <2> QED
      BY <1>1, <1>4, <2>1 DEF MadeIsWhole, Store!MadeIsWhole
  <1>5. ASSUME NEW i \in Images, NEW s \in Sizes, OpenFile(i, s) PROVE MadeIsWhole'
    <2>1. files[i][s] = "none"
      BY <1>1, <1>5 DEF OpenFile, StreamsOK, FileFollows
    <2> QED
      BY <1>4, <1>5, <2>1 DEF OpenFile, Store!Bytes
  <1>6. ASSUME NEW i \in Images, NEW s \in Sizes, FinishFile(i, s) PROVE MadeIsWhole'
    <2>1. files[i][s] # "complete"
      BY <1>1, <1>6 DEF FinishFile, Piped, StreamsOK, FileFollows
    <2>2. PICK b \in Store!Bytes : files' = [files EXCEPT ![i][s] = b]
      BY <1>1, <1>6 DEF FinishFile, Store!Bytes
    <2> QED
      BY <1>4, <1>6, <2>1, <2>2 DEF FinishFile
  <1>7. ASSUME NEW i \in Images, NEW s \in Sizes, RemoveFile(i, s) PROVE MadeIsWhole'
    BY <1>1, <1>4, <1>7 DEF RemoveFile, Store!Bytes, RemovingDropped
  <1>8. ASSUME NEW i \in Images, NEW s \in Sizes, OfSize(i, s),
               ~OpenFile(i, s), ~FinishFile(i, s), ~RemoveFile(i, s)
        PROVE  files' = files /\ made' = made /\ dropped' = dropped
    BY <1>8 DEF OfSize, OpenRaw, DecodeFails, RemoveFileFails, SizeFails
  <1>9. ASSUME NEW i \in Images, OfImage(i), ~CompleteJob(i)
        PROVE  files' = files /\ made' = made /\ dropped \subseteq dropped'
    BY <1>9 DEF OfImage, QueueJob, AskDeletion, TakeJob, Starts, Recover, RemoveRaw,
                RemoveRawFails, JobThrows, ProgressFails, JobEnds, Store!Queue, Store!Drop
  <1>10. CASE Exit \/ Crash
    BY <1>2, <1>10 DEF Exit, Crash, Dies
  <1> QED
    BY <1>2, <1>3, <1>5, <1>6, <1>7, <1>8, <1>9, <1>10, NextCases

-----------------------------------------------------------------------------
(* The theorems *)

LEMMA InitInv == Init => ImageInv
  <1> SUFFICES ASSUME Init PROVE ImageInv
    OBVIOUS
  <1>1. IsFiniteSet({}) /\ Cardinality({}) <= Concurrency
    BY FS_EmptySet, ConcurrencyAssumption
  <1>2. /\ reader = OfEverySize("none") /\ writer = OfEverySize("none")
        /\ files \in [Images -> [Sizes -> Store!Bytes]]
        /\ \A i \in Images, s \in Sizes : files[i][s] = "none"
    BY DEF Init, Store!Init, Store!Bytes
  <1>3. /\ reader \in [Images -> [Sizes -> Readers]]
        /\ writer \in [Images -> [Sizes -> Writers]]
        /\ \A i \in Images, s \in Sizes : writer[i][s] = "none"
    BY <1>2, OfEverySizeType DEF Readers, Writers
  <1>4. JobsType
    BY <1>1 DEF Init, Store!Init, JobsType, MaxStalledCount
  <1>5. DataType
    <2>1. rawStep \in [Images -> {"asked", "over"}] /\ removing \in [Images -> SUBSET Sizes]
      BY DEF Init
    <2>2. raw \subseteq Images /\ dying \in BOOLEAN /\ faults \in 0..MaxFaults
      <3>1. raw = {} /\ dying = FALSE /\ faults = 0
        BY DEF Init
      <3>2. 0 \in 0..MaxFaults
        BY FaultAssumption
      <3> QED
        BY <3>1, <3>2
    <2>3. files \in [Images -> [Sizes -> Store!Bytes]]
      BY <1>2
    <2> QED
      BY <1>3, <2>1, <2>2, <2>3 DEF DataType
  <1>6. StreamsOK /\ RemovingDropped
    BY <1>2, <1>3 DEF Init, StreamsOK, FileFollows, RemovingDropped
  <1>7. MadeIsWhole
    BY DEF Init, Store!Init, MadeIsWhole, Store!MadeIsWhole
  <1> QED
    BY <1>4, <1>5, <1>6, <1>7, Types DEF ImageInv

LEMMA NextInv == ImageInv /\ [Next]_vars => ImageInv'
  <1> SUFFICES ASSUME ImageInv, [Next]_vars PROVE ImageInv'
    OBVIOUS
  <1>1. CASE Next
    <2>1. JobsType' /\ DataType'
      BY <1>1, JobsStep, DataStep DEF ImageInv
    <2>2. (TypeOK /\ IsFiniteSet(working))'
      BY <2>1 DEF TypeOK, JobsType, DataType
    <2> QED
      BY <1>1, <2>2, StreamsStep, RemovingStep, MadeStep DEF ImageInv
  <1>2. CASE UNCHANGED vars
    BY <1>2 DEF vars, jobVars, streams, ImageInv, TypeOK, StreamsOK, FileFollows, RemovingDropped,
                MadeIsWhole, Store!MadeIsWhole
  <1> QED
    BY <1>1, <1>2

\* The invariant of the images module: the rest follows from it.
LEMMA ImagesInvariant == Spec => []ImageInv
  BY InitInv, NextInv, PTL DEF Spec

\* Every variable has its type: in particular a job stalls once at most, the
\* worker never runs more jobs than it is allowed, and the queue only holds
\* images that were queued.
THEOREM TypeCorrect == Spec => []TypeOK
  BY ImagesInvariant, PTL DEF ImageInv

\* When the job of an image has completed, all its sizes are whole until its
\* deletion is asked for, whatever ends the process or a job in between.
THEOREM MadeCorrect == Spec => []MadeIsWhole
  BY ImagesInvariant, PTL DEF ImageInv

LEMMA StoreStep ==
    ASSUME ImageInv, Next
    PROVE  Store!Next \/ UNCHANGED Store!storeVars
  <1>1. /\ files \in [Images -> [Sizes -> Store!Bytes]]
        /\ working \subseteq Images /\ working \subseteq queued
        /\ StreamsOK /\ RemovingDropped
    BY DEF ImageInv, TypeOK
  <1>2. ASSUME NEW i \in Images, QueueJob(i) \/ AskDeletion(i) PROVE Store!Next
    BY <1>2 DEF QueueJob, AskDeletion, Store!Next
  <1>3. ASSUME NEW i \in Images, CompleteJob(i) PROVE Store!Next
    <2>1. /\ i \in queued /\ made' = made \cup {i} /\ UNCHANGED <<files, queued, dropped>>
          /\ \A s \in Sizes : writer[i][s] = "done"
      BY <1>1, <1>3 DEF CompleteJob, JobEnds
    <2>2. i \notin dropped => \A s \in Sizes : files[i][s] = "complete"
      BY <1>1, <2>1 DEF StreamsOK, FileFollows
    <2>3. Store!Make(i)
      BY <2>1, <2>2 DEF Store!Make
    <2> QED
      BY <2>3 DEF Store!Next
  <1>4. ASSUME NEW i \in Images, NEW s \in Sizes, OpenFile(i, s) PROVE Store!Next
    <2>1. files[i][s] = "none" /\ i \in queued
      BY <1>1, <1>4 DEF OpenFile, StreamsOK, FileFollows
    <2>2. Store!Write(i, s, "partial")
      BY <1>4, <2>1 DEF OpenFile, Store!Write
    <2> QED
      BY <2>2 DEF Store!Next, Store!Bytes
  <1>5. ASSUME NEW i \in Images, NEW s \in Sizes, FinishFile(i, s)
        PROVE  Store!Next \/ UNCHANGED Store!storeVars
    <2>1. files[i][s] # "complete" /\ i \in queued
      BY <1>1, <1>5 DEF FinishFile, Piped, StreamsOK, FileFollows
    <2>2. CASE files[i][s] = "none"
      <3>1. files' = files
        BY <1>1, <1>5, <2>2 DEF FinishFile
      <3> QED
        BY <1>5, <3>1 DEF FinishFile, Store!storeVars
    <2>3. CASE files[i][s] # "none"
      <3>1. files' = [files EXCEPT ![i][s] = "complete"]
        BY <1>1, <1>5, <2>3 DEF FinishFile
      <3>2. Store!Write(i, s, "complete")
        BY <1>5, <2>1, <3>1 DEF FinishFile, Store!Write
      <3> QED
        BY <3>2 DEF Store!Next, Store!Bytes
    <2> QED
      BY <2>2, <2>3
  <1>6. ASSUME NEW i \in Images, NEW s \in Sizes, RemoveFile(i, s) PROVE Store!Next
    <2>1. Store!Erase(i, s)
      BY <1>1, <1>6 DEF RemoveFile, RemovingDropped, Store!Erase
    <2> QED
      BY <2>1 DEF Store!Next
  <1>7. ASSUME NEW i \in Images, NEW s \in Sizes, OfSize(i, s),
               ~OpenFile(i, s), ~FinishFile(i, s), ~RemoveFile(i, s)
        PROVE  UNCHANGED Store!storeVars
    BY <1>7 DEF OfSize, OpenRaw, DecodeFails, RemoveFileFails, SizeFails, Store!storeVars
  <1>8. ASSUME NEW i \in Images, OfImage(i), ~QueueJob(i), ~AskDeletion(i), ~CompleteJob(i)
        PROVE  UNCHANGED Store!storeVars
    BY <1>8 DEF OfImage, TakeJob, Starts, Recover, RemoveRaw, RemoveRawFails, JobThrows,
                ProgressFails, JobEnds, Store!storeVars
  <1>9. CASE Exit \/ Crash
    BY <1>9 DEF Exit, Crash, Dies, Store!storeVars
  <1> QED
    BY <1>2, <1>3, <1>4, <1>5, <1>6, <1>7, <1>8, <1>9, NextCases

\* The images module implements ImageStore: a complete file is never written
\* again, files are only erased when a deletion was asked for, and an image is
\* only made when its files are complete.
THEOREM PipelineImplementsImageStore == Spec => ImplementsImageStore
  <1>1. Init => Store!Init
    BY DEF Init
  <1>2. ImageInv /\ [Next]_vars => [Store!Next]_Store!storeVars
    <2>1. ASSUME UNCHANGED vars PROVE UNCHANGED Store!storeVars
      BY <2>1 DEF vars, Store!storeVars
    <2> QED
      BY <2>1, StoreStep
  <1> QED
    BY <1>1, <1>2, ImagesInvariant, PTL DEF Spec, ImplementsImageStore, Store!Spec

-----------------------------------------------------------------------------
(* What is deleted stays deleted *)

\* Of a queued image that nobody works on, or will, files are only removed.
OnlyRemoved(i) == Idle(i)' /\ \A s \in Sizes : files'[i][s] \in {"none", files[i][s]}

NothingComesBack == [][\A i \in queued : Idle(i) => OnlyRemoved(i)]_vars

LEMMA RestsUntouched ==
    ASSUME NEW i, Idle(i), UNCHANGED waiting,
           i \notin working' \cup stalled',
           \A s \in Sizes : writer'[i][s] \notin {"opening", "open"},
           \A s \in Sizes : files'[i][s] \in {"none", files[i][s]}
    PROVE  OnlyRemoved(i)
  BY DEF OnlyRemoved, Idle

LEMMA IdleStep ==
    ASSUME ImageInv, Next, NEW i \in queued, Idle(i)
    PROVE  OnlyRemoved(i)
  <1>1. /\ i \in Images /\ i \notin working \cup stalled
        /\ \A s \in Sizes : writer[i][s] \notin {"opening", "open"}
        /\ \A k \in DOMAIN waiting : waiting[k] # i
        /\ waiting \in Seq(queued) /\ queued \subseteq Images
        /\ files \in [Images -> [Sizes -> Store!Bytes]]
        /\ writer \in [Images -> [Sizes -> Writers]]
    BY DEF ImageInv, TypeOK, Idle
  <1>2. ASSUME NEW j \in Images, QueueJob(j) PROVE OnlyRemoved(i)
    <2>1. /\ j \notin queued /\ waiting' = Append(waiting, j)
          /\ UNCHANGED <<stalled, working, writer, files>>
      BY <1>2 DEF QueueJob, Store!Queue, streams
    <2>2. \A k \in DOMAIN waiting' :
              \/ k \in DOMAIN waiting /\ waiting'[k] = waiting[k]
              \/ waiting'[k] = j
      BY <1>1, <2>1, AppendProperties
    <2> QED
      BY <1>1, <2>1, <2>2 DEF OnlyRemoved, Idle
  <1>3. ASSUME NEW j \in Images, TakeJob(j) PROVE OnlyRemoved(i)
    <2>1. /\ waiting # << >> /\ j = Head(waiting) /\ waiting' = Tail(waiting)
          /\ working' = working \cup {j} /\ UNCHANGED <<stalled, files>>
          /\ \E h : writer' = [writer EXCEPT ![j] = h]
      BY <1>3 DEF TakeJob, Starts
    <2>2. 1 \in DOMAIN waiting /\ j = waiting[1]
      BY <1>1, <2>1
    <2>3. j # i
      BY <1>1, <2>2
    <2>4. \A k \in DOMAIN waiting' : k + 1 \in DOMAIN waiting /\ waiting'[k] = waiting[k + 1]
      BY <1>1, <2>1
    <2>5. \A s \in Sizes : writer'[i][s] = writer[i][s]
      BY <1>1, <2>1, <2>3
    <2> QED
      BY <1>1, <2>1, <2>3, <2>4, <2>5 DEF OnlyRemoved, Idle
  <1>4. ASSUME NEW j \in Images, Recover(j) PROVE OnlyRemoved(i)
    <2>1. /\ j \in stalled /\ stalled' = stalled \ {j} /\ UNCHANGED <<working, writer, files>>
          /\ waiting' = <<j>> \o waiting \/ UNCHANGED waiting
      BY <1>4 DEF Recover, streams
    <2>2. j # i
      BY <1>1, <2>1
    <2>3. CASE UNCHANGED waiting
      BY <1>1, <2>1, <2>3, RestsUntouched
    <2>4. CASE waiting' = <<j>> \o waiting
      <3>1. /\ Len(waiting') = 1 + Len(waiting) /\ waiting'[1] = j
            /\ \A k \in 1..Len(waiting') : k # 1 => waiting'[k] = waiting[k - 1]
        <4>1. j \in queued
          BY <2>1 DEF ImageInv, TypeOK
        <4>2. <<j>> \in Seq(queued) /\ Len(<<j>>) = 1 /\ <<j>>[1] = j
          BY <4>1
        <4> QED
          BY <1>1, <2>4, <4>2, ConcatProperties
      <3>2. waiting' \in Seq(queued)
        BY <1>1, <2>1, <2>4 DEF ImageInv, TypeOK
      <3>3. \A k \in DOMAIN waiting' : k # 1 => waiting'[k] # i
        <4>1. /\ DOMAIN waiting' = 1..Len(waiting') /\ DOMAIN waiting = 1..Len(waiting)
              /\ Len(waiting) \in Nat
          BY <1>1, <3>2
        <4>2. \A k \in 1..Len(waiting') : k # 1 => k - 1 \in 1..Len(waiting)
          BY <3>1, <4>1
        <4> QED
          BY <1>1, <3>1, <4>1, <4>2
      <3>4. \A k \in DOMAIN waiting' : waiting'[k] # i
        BY <2>2, <3>1, <3>3
      <3> QED
        BY <1>1, <2>1, <3>4 DEF OnlyRemoved, Idle
    <2> QED
      BY <2>1, <2>3, <2>4
  <1>5. CASE Exit \/ Crash
    <2>1. /\ stalled' = stalled \cup working /\ working' = {} /\ writer' = OfEverySize("none")
          /\ UNCHANGED <<waiting, files>>
      BY <1>5 DEF Exit, Crash, Dies
    <2>2. \A s \in Sizes : writer'[i][s] = "none"
      BY <1>1, <2>1 DEF OfEverySize
    <2> QED
      BY <1>1, <2>1, <2>2, RestsUntouched
  <1>6. ASSUME NEW j \in Images,
               \/ AskDeletion(j) \/ RemoveRaw(j) \/ RemoveRawFails(j)
               \/ CompleteJob(j) \/ JobThrows(j) \/ ProgressFails(j)
        PROVE  OnlyRemoved(i)
    <2>1. /\ UNCHANGED <<waiting, stalled, writer, files>> /\ working' \subseteq working
      BY <1>6 DEF AskDeletion, Store!Drop, RemoveRaw, RemoveRawFails, CompleteJob, JobThrows,
                  ProgressFails, JobEnds, jobVars, streams
    <2> QED
      BY <1>1, <2>1, RestsUntouched
  <1>7. ASSUME NEW j \in Images, NEW t \in Sizes, OfSize(j, t) PROVE OnlyRemoved(i)
    <2>0. UNCHANGED <<waiting, stalled, working>>
      BY <1>7 DEF OfSize, OpenRaw, OpenFile, FinishFile, DecodeFails, RemoveFile, RemoveFileFails,
                  SizeFails, jobVars
    <2>1. CASE OpenRaw(j, t) \/ DecodeFails(j, t) \/ RemoveFileFails(j, t)
      BY <1>1, <2>0, <2>1, RestsUntouched DEF OpenRaw, DecodeFails, RemoveFileFails, streams
    <2>2. CASE OpenFile(j, t) \/ FinishFile(j, t)
      <3>1. j # i
        BY <1>1, <2>2 DEF OpenFile, FinishFile, Piped
      <3>2. \A s \in Sizes : writer'[i][s] = writer[i][s] /\ files'[i][s] = files[i][s]
        BY <1>1, <2>2, <3>1 DEF OpenFile, FinishFile
      <3> QED
        BY <1>1, <2>0, <3>2, RestsUntouched
    <2>3. CASE RemoveFile(j, t)
      <3>1. /\ UNCHANGED writer
            /\ \A s \in Sizes : files'[i][s] \in {"none", files[i][s]}
        BY <1>1, <2>3 DEF RemoveFile, streams
      <3> QED
        BY <1>1, <2>0, <3>1, RestsUntouched
    <2>4. CASE SizeFails(j, t)
      <3>1. /\ UNCHANGED files
            /\ \A s \in Sizes : writer'[i][s] \in {"failed", writer[i][s]}
        BY <1>1, <2>4 DEF SizeFails
      <3> QED
        BY <1>1, <2>0, <3>1, RestsUntouched
    <2> QED
      BY <1>7, <2>1, <2>2, <2>3, <2>4 DEF OfSize
  <1> QED
    BY <1>2, <1>3, <1>4, <1>5, <1>6, <1>7, NextCases DEF OfImage

\* When nobody works on an image or will, no step of any other image, of a
\* second run, or of the end of the process writes a file of it again: what a
\* deletion has removed by then stays removed (posters.service.ts:69).  That the
\* files are removed at all is the other half of DeletionSettles.
THEOREM DeletionIsFinal == Spec => NothingComesBack
  <1>1. ImageInv /\ [Next]_vars => [\A i \in queued : Idle(i) => OnlyRemoved(i)]_vars
    BY IdleStep
  <1> QED
    BY <1>1, ImagesInvariant, PTL DEF Spec, NothingComesBack

-----------------------------------------------------------------------------
(* No image is given up *)

\* No faults, images that sharp can read, and raw files that are opened before
\* they are removed: what ImageSettles is about.
Unhurt == ~LateOpens /\ Images \subseteq Decodable /\ faults = 0

Waits(i) == \E k \in DOMAIN waiting : waiting[k] = i

\* Nothing was done for the image yet.
Fresh(i) ==
    /\ i \in raw /\ i \notin working
    /\ \A s \in Sizes : files[i][s] = "none" /\ writer[i][s] = "none"

WaitingFresh ==
    /\ \A k, l \in DOMAIN waiting : waiting[k] = waiting[l] => k = l
    /\ \A k \in DOMAIN waiting : Fresh(waiting[k])

\* No size of an image in work has failed, and its raw file is there as long as
\* it is still to be opened.
SizesGoOn ==
    /\ \A i \in working, s \in Sizes : writer[i][s] \in {"opening", "open", "done"}
    /\ \A i \in Images, s \in Sizes : reader[i][s] = "opening" => i \in raw
    /\ \A i \in Images : rawStep[i] = "asked" => i \in working

NothingBefore == \A i \in Images \ queued, s \in Sizes : files[i][s] = "none"

NoneGivenUp ==
    /\ ~dying /\ stalled = {}
    /\ \A i \in queued : i \in made \/ i \in working \/ Waits(i)

MadeOnce == Unhurt => WaitingFresh /\ SizesGoOn /\ NothingBefore /\ NoneGivenUp

\* The safety half of ImageSettles.
NotLeftUnmade == Unhurt => NoneGivenUp

LEMMA WaitingKept ==
    ASSUME WaitingFresh, UNCHANGED waiting,
           \A k \in DOMAIN waiting : Fresh(waiting[k]) => Fresh(waiting[k])'
    PROVE  WaitingFresh'
  BY DEF WaitingFresh, Fresh

LEMMA NoneGivenUpKept ==
    ASSUME NoneGivenUp, UNCHANGED <<waiting, stalled, queued>>, ~dying',
           made \cup working \subseteq made' \cup working'
    PROVE  NoneGivenUp'
  BY DEF NoneGivenUp, Waits

LEMMA MadeOnceStep ==
    ASSUME ImageInv, MadeOnce, Next, faults' = 0, ~LateOpens, Images \subseteq Decodable
    PROVE  (WaitingFresh /\ SizesGoOn /\ NothingBefore /\ NoneGivenUp)'
  <1> DEFINE Goal == (WaitingFresh /\ SizesGoOn /\ NothingBefore /\ NoneGivenUp)'
  <1>0. /\ faults \in Nat /\ queued \subseteq Images /\ working \subseteq queued
        /\ waiting \in Seq(queued) /\ StreamsOK
        /\ raw \subseteq Images /\ rawStep \in [Images -> {"asked", "over"}]
        /\ files \in [Images -> [Sizes -> Store!Bytes]]
        /\ writer \in [Images -> [Sizes -> Writers]]
        /\ reader \in [Images -> [Sizes -> Readers]]
    BY DEF ImageInv, TypeOK
  <1>a. ASSUME NEW kind, Fault(kind) PROVE FALSE
    BY <1>0, <1>a DEF Fault
  <1>b. faults = 0
    BY <1>0, <1>a
    DEF Next, Exit, Crash, QueueJob, AskDeletion, TakeJob, Starts, Recover, RemoveRaw,
        RemoveRawFails, Streams, OpenRaw, OpenFile, FinishFile, DecodeFails, CompleteJob,
        JobThrows, ProgressFails, RemoveFile, RemoveFileFails, SizeFails
  <1>c. WaitingFresh /\ SizesGoOn /\ NothingBefore /\ NoneGivenUp
    BY <1>b DEF MadeOnce, Unhurt
  <1>d. \A k \in DOMAIN waiting : waiting[k] \in queued /\ waiting[k] \in Images
    BY <1>0
  <1>1. CASE Exit \/ Crash
    BY <1>1, <1>a, <1>c DEF Exit, Crash, NoneGivenUp
  <1>2. ASSUME NEW i \in Images, QueueJob(i) PROVE Goal
    <2>1. /\ i \notin queued /\ queued' = queued \cup {i} /\ raw' = raw \cup {i}
          /\ waiting' = Append(waiting, i)
          /\ UNCHANGED <<files, made, dropped, working, stalled, rawStep, reader, writer, dying>>
      BY <1>2 DEF QueueJob, Store!Queue, streams
    <2>2. /\ \A k \in DOMAIN waiting' :
                 \/ k \in DOMAIN waiting /\ waiting'[k] = waiting[k]
                 \/ k = Len(waiting) + 1 /\ waiting'[k] = i
          /\ \A k \in DOMAIN waiting : k \in DOMAIN waiting' /\ waiting'[k] = waiting[k]
          /\ Len(waiting) + 1 \in DOMAIN waiting' /\ waiting'[Len(waiting) + 1] = i
      BY <1>0, <2>1, AppendProperties
    <2>3. Fresh(i)'
      BY <1>0, <1>c, <2>1 DEF Fresh, NothingBefore, StreamsOK, FileFollows
    <2>4. \A k \in DOMAIN waiting : Fresh(waiting[k]) => Fresh(waiting[k])'
      BY <2>1 DEF Fresh
    <2>5. \A k \in DOMAIN waiting' : Fresh(waiting[k])'
      <3>1. ASSUME NEW k \in DOMAIN waiting, waiting'[k] = waiting[k] PROVE Fresh(waiting[k])'
        BY <1>c, <2>1, <3>1 DEF Fresh, WaitingFresh
      <3>2. ASSUME NEW k \in DOMAIN waiting', waiting'[k] = i PROVE Fresh(waiting[k])'
        BY <2>3, <3>2 DEF Fresh
      <3> QED
        BY <2>2, <3>1, <3>2
    <2>6. \A k, l \in DOMAIN waiting' : waiting'[k] = waiting'[l] => k = l
      BY <1>c, <1>d, <2>1, <2>2 DEF WaitingFresh
    <2>7. SizesGoOn' /\ NothingBefore'
      BY <1>c, <2>1 DEF SizesGoOn, NothingBefore
    <2>8. NoneGivenUp'
      BY <1>c, <2>1, <2>2 DEF NoneGivenUp, Waits
    <2> QED
      BY <2>5, <2>6, <2>7, <2>8 DEF WaitingFresh
  <1>3. ASSUME NEW i \in Images, AskDeletion(i) PROVE Goal
    <2>1. UNCHANGED <<raw, files, queued, made, waiting, stalled, working, rawStep, reader,
                      writer, dying>>
      BY <1>3 DEF AskDeletion, Store!Drop, jobVars, streams
    <2>2. WaitingFresh'
      BY <1>c, <2>1 DEF WaitingFresh, Fresh
    <2>3. SizesGoOn' /\ NothingBefore'
      BY <1>c, <2>1 DEF SizesGoOn, NothingBefore
    <2>4. NoneGivenUp'
      BY <1>c, <2>1 DEF NoneGivenUp, Waits
    <2> QED
      BY <2>2, <2>3, <2>4
  <1>4. ASSUME NEW i \in Images, TakeJob(i) PROVE Goal
    <2>1. /\ waiting # << >> /\ i = Head(waiting) /\ waiting' = Tail(waiting)
          /\ working' = working \cup {i} /\ rawStep' = [rawStep EXCEPT ![i] = "asked"]
          /\ UNCHANGED <<raw, files, queued, made, stalled>>
      BY <1>4 DEF TakeJob, Starts
    <2>2. /\ 1 \in DOMAIN waiting /\ i = waiting[1]
          /\ \A k \in DOMAIN waiting' :
                 k + 1 \in DOMAIN waiting /\ waiting'[k] = waiting[k + 1] /\ k + 1 # 1
          /\ \A k \in DOMAIN waiting :
                 k # 1 => k - 1 \in DOMAIN waiting' /\ waiting'[k - 1] = waiting[k]
          /\ \A k \in DOMAIN waiting' : k \in Nat
      <3>1. Len(waiting) \in Nat /\ Len(waiting) # 0 /\ Len(waiting') = Len(waiting) - 1
        BY <1>0, <2>1
      <3>2. \A k \in 1..Len(waiting') : waiting'[k] = waiting[k + 1]
        BY <1>0, <2>1
      <3>3. DOMAIN waiting = 1..Len(waiting) /\ DOMAIN waiting' = 1..Len(waiting')
        BY <1>0, <2>1
      <3>4. i = waiting[1]
        BY <1>0, <2>1
      <3> QED
        BY <3>1, <3>2, <3>3, <3>4
    <2>3. Fresh(i)
      BY <1>c, <2>2 DEF WaitingFresh
    <2>4. {s \in Sizes : SizeThrows(i, s)} = {}
      BY <2>3 DEF SizeThrows, Fresh
    <2>5. /\ reader' = [reader EXCEPT ![i] = [s \in Sizes |-> "opening"]]
          /\ writer' = [writer EXCEPT ![i] = [s \in Sizes |-> "opening"]]
          /\ dying' = dying
      BY <1>4, <2>4 DEF TakeJob, Starts, ImageInv, TypeOK
    <2>6. \A j \in Images, s \in Sizes :
              /\ j = i => writer'[j][s] = "opening" /\ reader'[j][s] = "opening"
              /\ j # i => writer'[j][s] = writer[j][s] /\ reader'[j][s] = reader[j][s]
      BY <1>0, <2>5
    <2>7. \A k \in DOMAIN waiting' : waiting'[k] # i
      BY <1>c, <2>2 DEF WaitingFresh
    <2>8. WaitingFresh'
      <3>1. \A k, l \in DOMAIN waiting' : waiting'[k] = waiting'[l] => k = l
        BY <1>c, <2>2 DEF WaitingFresh
      <3>2. \A k \in DOMAIN waiting' : Fresh(waiting[k])'
        <4>1. ASSUME NEW k \in DOMAIN waiting' PROVE Fresh(waiting[k])'
          <5>1. PICK j \in Images : j = waiting'[k] /\ j # i /\ Fresh(j)
            BY <1>c, <1>d, <2>2, <2>7 DEF WaitingFresh
          <5> QED
            BY <2>1, <2>6, <5>1 DEF Fresh
        <4> QED
          BY <4>1
      <3> QED
        BY <3>1, <3>2 DEF WaitingFresh
    <2>9. SizesGoOn'
      <3>1. \A j \in working', s \in Sizes : writer'[j][s] \in {"opening", "open", "done"}
        BY <1>0, <1>c, <2>1, <2>6 DEF SizesGoOn
      <3>2. \A j \in Images, s \in Sizes : reader'[j][s] = "opening" => j \in raw'
        BY <1>c, <2>1, <2>3, <2>6 DEF SizesGoOn, Fresh
      <3>3. \A j \in Images : rawStep'[j] = "asked" => j \in working'
        BY <1>0, <1>c, <2>1 DEF SizesGoOn
      <3> QED
        BY <3>1, <3>2, <3>3 DEF SizesGoOn
    <2>10. \A j \in queued : Waits(j) => j = i \/ Waits(j)'
      <3>1. ASSUME NEW k \in DOMAIN waiting, waiting[k] # i PROVE k # 1
        BY <2>2, <3>1
      <3> QED
        BY <2>2, <3>1 DEF Waits
    <2>11. NoneGivenUp'
      BY <1>c, <2>1, <2>5, <2>10 DEF NoneGivenUp
    <2>12. NothingBefore'
      BY <1>c, <2>1 DEF NothingBefore
    <2> QED
      BY <2>8, <2>9, <2>11, <2>12
  <1>5. ASSUME NEW i \in Images, Recover(i) PROVE Goal
    BY <1>5, <1>c DEF Recover, NoneGivenUp
  <1>6. ASSUME NEW i \in Images, RemoveRaw(i) PROVE Goal
    <2>1. /\ rawStep[i] = "asked" /\ \A s \in Sizes : reader[i][s] # "opening"
          /\ raw' = raw \ {i} /\ rawStep' = [rawStep EXCEPT ![i] = "over"]
          /\ UNCHANGED <<files, queued, made, waiting, stalled, working, reader, writer, dying>>
      BY <1>6 DEF RemoveRaw, jobVars
    <2>2. i \in working
      BY <1>c, <2>1 DEF SizesGoOn
    <2>3. \A j \in Images : Fresh(j) => Fresh(j)'
      BY <2>1, <2>2 DEF Fresh
    <2>4. WaitingFresh'
      <3>1. ASSUME NEW k \in DOMAIN waiting, Fresh(waiting[k]) PROVE Fresh(waiting[k])'
        BY <2>1, <2>2, <3>1 DEF Fresh
      <3> QED
        BY <1>c, <2>1, <3>1, WaitingKept
    <2>5. SizesGoOn'
      BY <1>0, <1>c, <2>1 DEF SizesGoOn
    <2>6. NothingBefore' /\ NoneGivenUp'
      BY <1>c, <2>1, NoneGivenUpKept DEF NothingBefore, NoneGivenUp
    <2> QED
      BY <2>4, <2>5, <2>6
  <1>7. ASSUME NEW i \in Images, CompleteJob(i) PROVE Goal
    <2>1. /\ rawStep[i] = "over" /\ working' = working \ {i} /\ made' = made \cup {i}
          /\ UNCHANGED <<raw, files, queued, waiting, stalled, rawStep, reader, writer, dying>>
      BY <1>7 DEF CompleteJob, JobEnds, streams
    <2>2. WaitingFresh'
      <3>1. ASSUME NEW k \in DOMAIN waiting, Fresh(waiting[k]) PROVE Fresh(waiting[k])'
        BY <2>1, <3>1 DEF Fresh
      <3> QED
        BY <1>c, <2>1, <3>1, WaitingKept
    <2>3. SizesGoOn'
      BY <1>c, <2>1 DEF SizesGoOn
    <2>4. NothingBefore' /\ NoneGivenUp'
      BY <1>c, <2>1, NoneGivenUpKept DEF NothingBefore, NoneGivenUp
    <2> QED
      BY <2>2, <2>3, <2>4
  <1>8. ASSUME NEW i \in Images, JobThrows(i) PROVE Goal
    BY <1>c, <1>8 DEF JobThrows, JobEnds, SizesGoOn
  <1>9. ASSUME NEW i \in Images, RemoveRawFails(i) \/ ProgressFails(i) PROVE Goal
    BY <1>9, <1>a DEF RemoveRawFails, ProgressFails
  <1>10. ASSUME NEW i \in Images, NEW s \in Sizes, OpenRaw(i, s) PROVE Goal
    <2>1. /\ i \in raw /\ reader' = [reader EXCEPT ![i][s] = "open"] /\ dying' = dying
          /\ UNCHANGED <<raw, files, queued, made, waiting, stalled, working, rawStep, writer>>
      BY <1>c, <1>10 DEF OpenRaw, SizesGoOn, NoneGivenUp, jobVars, ImageInv, TypeOK
    <2>2. \A j \in Images, t \in Sizes : reader'[j][t] = "opening" => reader[j][t] = "opening"
      BY <1>0, <2>1
    <2>3. WaitingFresh'
      BY <1>c, <2>1, WaitingKept DEF Fresh
    <2>4. SizesGoOn'
      BY <1>c, <2>1, <2>2 DEF SizesGoOn
    <2>5. NothingBefore' /\ NoneGivenUp'
      BY <1>c, <2>1, NoneGivenUpKept DEF NothingBefore, NoneGivenUp
    <2> QED
      BY <2>3, <2>4, <2>5
  <1>11. ASSUME NEW i \in Images, NEW s \in Sizes, OpenFile(i, s) \/ FinishFile(i, s) PROVE Goal
    <2>1. /\ writer[i][s] \in {"opening", "open"}
          /\ \E x \in {"open", "done"} : writer' = [writer EXCEPT ![i][s] = x]
          /\ UNCHANGED <<raw, queued, made, waiting, stalled, working, rawStep, reader, dying>>
          /\ \A j \in Images, t \in Sizes : j # i => files'[j][t] = files[j][t]
      BY <1>0, <1>11 DEF OpenFile, FinishFile, Piped, jobVars
    <2>2. i \in queued /\ ~Fresh(i)
      BY <1>0, <2>1 DEF StreamsOK, FileFollows, Fresh
    <2>3. \A j \in Images, t \in Sizes :
              /\ j # i => writer'[j][t] = writer[j][t]
              /\ writer'[j][t] \in {writer[j][t], "open", "done"}
      BY <1>0, <2>1
    <2>4. WaitingFresh'
      <3>1. ASSUME NEW k \in DOMAIN waiting, Fresh(waiting[k]) PROVE Fresh(waiting[k])'
        <4>1. PICK j \in Images : j = waiting[k] /\ j # i /\ Fresh(j)
          BY <1>d, <2>2, <3>1
        <4> QED
          BY <2>1, <2>3, <4>1 DEF Fresh
      <3> QED
        BY <1>c, <2>1, <3>1, WaitingKept
    <2>5. SizesGoOn'
      BY <1>0, <1>c, <2>1, <2>3 DEF SizesGoOn
    <2>6. NothingBefore' /\ NoneGivenUp'
      BY <1>c, <2>1, <2>2, NoneGivenUpKept DEF NothingBefore, NoneGivenUp
    <2> QED
      BY <2>4, <2>5, <2>6
  <1>12. ASSUME NEW i \in Images, NEW s \in Sizes, RemoveFile(i, s) PROVE Goal
    <2>1. /\ UNCHANGED <<raw, queued, made, waiting, stalled, working, rawStep, reader, writer,
                         dying>>
          /\ \A j \in Images, t \in Sizes : files'[j][t] \in {"none", files[j][t]}
      BY <1>0, <1>12 DEF RemoveFile, jobVars, streams
    <2>2. WaitingFresh'
      <3>1. ASSUME NEW k \in DOMAIN waiting, Fresh(waiting[k]) PROVE Fresh(waiting[k])'
        <4>1. PICK j \in Images : j = waiting[k] /\ Fresh(j)
          BY <1>d, <3>1
        <4> QED
          BY <2>1, <4>1 DEF Fresh
      <3> QED
        BY <1>c, <2>1, <3>1, WaitingKept
    <2>3. SizesGoOn' /\ NothingBefore'
      BY <1>0, <1>c, <2>1 DEF SizesGoOn, NothingBefore
    <2>4. NoneGivenUp'
      BY <1>c, <2>1, NoneGivenUpKept DEF NoneGivenUp
    <2> QED
      BY <2>2, <2>3, <2>4
  <1>13. ASSUME NEW i \in Images, NEW s \in Sizes,
                DecodeFails(i, s) \/ RemoveFileFails(i, s) \/ SizeFails(i, s)
         PROVE  Goal
    BY <1>13, <1>a DEF DecodeFails, RemoveFileFails, SizeFails
  <1> QED
    BY <1>1, <1>2, <1>3, <1>4, <1>5, <1>6, <1>7, <1>8, <1>9, <1>10, <1>11, <1>12, <1>13,
       NextCases
    DEF OfImage, OfSize

\* Unless something fails, every image whose job was queued is made, is being
\* made or waits to be: no job takes away what another needs, the raw file is not
\* removed before all sizes have it open, and nothing ends the process
\* (create-poster.worker.ts:52-123).  That the image is made in the end is the other half
\* of ImageSettles.
THEOREM NoImageGivenUp == Spec => []NotLeftUnmade
  <1>1. Init => MadeOnce
    BY DEF Init, Store!Init, MadeOnce, WaitingFresh, SizesGoOn, NothingBefore, NoneGivenUp,
           OfEverySize
  <1>2. ImageInv /\ MadeOnce /\ [Next]_vars => MadeOnce'
    <2>1. ASSUME ImageInv, MadeOnce, Next, Unhurt' PROVE MadeOnce'
      BY <2>1, MadeOnceStep DEF MadeOnce, Unhurt
    <2>2. ASSUME MadeOnce, UNCHANGED vars PROVE MadeOnce'
      BY <2>2
      DEF MadeOnce, Unhurt, WaitingFresh, Fresh, SizesGoOn, NothingBefore, NoneGivenUp, Waits,
          vars, jobVars, streams
    <2> QED
      BY <2>1, <2>2 DEF MadeOnce
  <1>3. MadeOnce => NotLeftUnmade
    BY DEF MadeOnce, NotLeftUnmade
  <1> QED
    BY <1>1, <1>2, <1>3, ImagesInvariant, PTL DEF Spec
=============================================================================
