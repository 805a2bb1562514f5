--------------------------- MODULE TusUploadProofs ---------------------------
(***************************************************************************)
(* Proofs about TusUpload, for any file, chunk size, number of uploads,    *)
(* retries and faults: the types, that it implements UploadStore, and that *)
(* the user is told of success only when all bytes are stored.             *)
(***************************************************************************)
EXTENDS TusUpload, TLAPS

-----------------------------------------------------------------------------
(* The inductive invariant *)

\* What is stored is the beginning of the file, and all of it once the upload was
\* handed over.
StoredInOrder ==
    \A u \in Uploads :
        /\ Len(contents[u]) <= length
        /\ \A i \in 1..Len(contents[u]) : contents[u][i] = i
        /\ u \in completed => Len(contents[u]) = length

\* A PATCH that is served writes at the end of a file that is not whole.
PatchesAppend ==
    \A u \in Uploads :
        lock[u] # "free" => /\ u \in known \ completed
                            /\ at[u] = Len(contents[u])

\* PATCHes are only sent for what is missing.
LatePatchesOK ==
    \A p \in late : /\ p.upload \in known
                    /\ p.from < length /\ p.from <= p.to /\ p.to <= length

PatchingOK == phase = "patching" => offset < length

\* A request that is not lost is the one the client waits for.
ServesClient ==
    \A u \in Uploads :
        /\ posts[u] = "live" => /\ phase = "creating"
                               /\ \A v \in Uploads : posts[v] = "live" => v = u
        /\ lock[u] = "live" => phase = "patching" /\ upload = u

UploadInv ==
    TypeOK /\ StoredInOrder /\ PatchesAppend /\ LatePatchesOK /\ PatchingOK /\ ServesClient

-----------------------------------------------------------------------------
LEMMA ConstantTypes ==
    /\ NoUpload \notin Uploads
    /\ MaxLength \in Nat /\ Chunk \in Nat /\ Chunk > 0 /\ Retries \in Nat /\ MaxFaults \in Nat
  BY UploadAssumption, LengthAssumption, FaultAssumption

LEMMA FaultType ==
    ASSUME TypeOK, NEW kind, Fault(kind)
    PROVE  faults' \in 0..MaxFaults /\ hit' \subseteq FaultKinds
  BY ConstantTypes DEF Fault, TypeOK

\* A request that fails leaves the client waiting or at its end, with what it knew.
LEMMA RetryType ==
    ASSUME TypeOK, RequestFails
    PROVE  /\ phase' \in {"waiting", "failed"}
           /\ attempt' \in 0..Retries /\ retryFrom' \in 0..length
           /\ UNCHANGED <<upload, offset>>
  BY ConstantTypes DEF RequestFails, RetryOrFail, TypeOK

LEMMA ChunkEndType ==
    ASSUME TypeOK
    PROVE  ChunkEnd \in 0..MaxLength /\ offset <= ChunkEnd /\ ChunkEnd <= length
  BY ConstantTypes DEF ChunkEnd, TypeOK

LEMMA SizeType ==
    ASSUME TypeOK, StoredInOrder, NEW u \in Uploads
    PROVE  Size(u) \in 0..length /\ Size(u) \in 0..MaxLength
  BY ConstantTypes DEF Size, TypeOK, StoredInOrder

LEMMA InitInv == Init => UploadInv
  BY ConstantTypes DEF Init, UploadInv, TypeOK, StoredInOrder, PatchesAppend, LatePatchesOK, PatchingOK, ServesClient, Phases

-----------------------------------------------------------------------------
\* Steps that change nothing but what the client does.
LEMMA ClientStep ==
    ASSUME UploadInv,
           UNCHANGED <<given, movie, storage, posts, patches, outcome>>,
           faults' \in 0..MaxFaults, hit' \subseteq FaultKinds,
           phase' \in Phases, upload' \in {upload, NoUpload},
           phase' \in {"heading", "patching"} => upload' # NoUpload,
           offset' \in 0..length, retryFrom' \in 0..length, attempt' \in 0..Retries,
           phase' = "patching" => offset' < length,
           phase = "creating" => \A u \in Uploads : posts[u] # "live",
           phase = "patching" => lock[upload] = "free"
    PROVE  UploadInv'
  BY DEF UploadInv, TypeOK, StoredInOrder, PatchesAppend, LatePatchesOK, PatchingOK, ServesClient,
         given, storage, patches, outcome, Phases

LEMMA ClientSteps ==
    ASSUME UploadInv,
           Resume \/ PostRefused \/ AskOffset \/ HeadRefused \/ HeadFails \/ PatchConflicts
    PROVE  UploadInv'
<1>0. TypeOK /\ StoredInOrder /\ upload \in known \cup {NoUpload} /\ known \subseteq Uploads
  BY DEF UploadInv, TypeOK
<1>1. CASE Resume
  BY <1>0, <1>1, ClientStep DEF Resume, TypeOK, Phases
<1>2. CASE PostRefused
  BY <1>0, <1>2, ClientStep DEF PostRefused, TypeOK, Phases
<1>3. CASE AskOffset
  <2>1. upload \in Uploads
    BY <1>0, <1>3 DEF AskOffset, TypeOK
  <2>2. Size(upload) \in 0..length
    BY <1>0, <2>1, SizeType
  <2> QED
    BY <1>0, <1>3, <2>1, <2>2, ClientStep DEF AskOffset, Reached, TypeOK, Phases
<1>4. CASE HeadRefused
  BY <1>0, <1>4, ClientStep DEF HeadRefused, TypeOK, Phases
<1>5. CASE PatchConflicts
  BY <1>0, <1>5, ClientStep, RetryType DEF PatchConflicts, TypeOK, Phases
<1>6. CASE HeadFails
  <2>1. faults' \in 0..MaxFaults /\ hit' \subseteq FaultKinds
    BY <1>0, <1>6, ConstantTypes DEF HeadFails, Fault, TypeOK
  <2> QED
    BY <1>0, <1>6, <2>1, ClientStep DEF HeadFails, TypeOK, Phases
<1> QED
  BY <1>1, <1>2, <1>3, <1>4, <1>5, <1>6

-----------------------------------------------------------------------------
LEMMA CreateFileInv ==
    ASSUME UploadInv, NEW u \in Uploads, CreateFile(u)
    PROVE  UploadInv'
  BY DEF UploadInv, TypeOK, StoredInOrder, PatchesAppend, LatePatchesOK, PatchingOK, ServesClient,
         CreateFile, given, client, storage, patches, outcome

LEMMA SaveConfigInv ==
    ASSUME UploadInv, NEW u \in Uploads, SaveConfig(u)
    PROVE  UploadInv'
<1>1. /\ phase' \in Phases /\ upload' \in known' \cup {NoUpload}
      /\ phase' \in {"heading", "patching"} => upload' # NoUpload
      /\ offset' \in 0..length /\ retryFrom' \in 0..length /\ attempt' \in 0..Retries
      /\ phase' = "patching" => offset' < length
  BY ConstantTypes DEF SaveConfig, UploadInv, TypeOK, PatchingOK, Reached, Phases, client
<1>2. ServesClient'
  BY DEF SaveConfig, UploadInv, TypeOK, ServesClient, Reached, client, patches
<1> QED
  BY <1>1, <1>2 DEF UploadInv, TypeOK, StoredInOrder, PatchesAppend, LatePatchesOK, PatchingOK,
         SaveConfig, given, patches, outcome

LEMMA PostFailsInv ==
    ASSUME UploadInv, NEW u \in Uploads, PostFails(u)
    PROVE  UploadInv'
<1>0. TypeOK
  BY DEF UploadInv
<1>1. faults' \in 0..MaxFaults /\ hit' \subseteq FaultKinds
  BY <1>0, FaultType DEF PostFails
<1>2. RequestFails \/ UNCHANGED client
  BY DEF PostFails
<1> QED
  BY <1>0, <1>1, <1>2, RetryType
  DEF UploadInv, TypeOK, StoredInOrder, PatchesAppend, LatePatchesOK, PatchingOK, ServesClient,
      PostFails, given, client, storage, patches, outcome, Phases

-----------------------------------------------------------------------------
LEMMA OpensInv ==
    ASSUME UploadInv, NEW u \in known, NEW how \in {"live", "lost"}, NEW from, NEW to,
           Opens(u, how, from, to), UNCHANGED contents,
           from \in 0..length, to \in 0..length, from <= to, from < length,
           late' \subseteq late,
           how = "live" => phase = "patching" /\ upload = u
    PROVE  UploadInv'
<1>1. u \in Uploads /\ u \notin completed
  BY DEF UploadInv, TypeOK, StoredInOrder, Opens, Size
<1>2. from \in 0..MaxLength /\ to \in 0..MaxLength
  BY ConstantTypes DEF UploadInv, TypeOK
<1>3. PatchesAppend'
  BY <1>1 DEF UploadInv, TypeOK, PatchesAppend, Opens, Size, outcome
<1>4. TypeOK'
  BY <1>1, <1>2 DEF UploadInv, TypeOK, Opens, given, client, outcome
<1> QED
  BY <1>3, <1>4 DEF UploadInv, StoredInOrder, LatePatchesOK, PatchingOK, ServesClient,
         Opens, given, client, outcome

LEMMA PatchBegins ==
    ASSUME UploadInv, StartPatch \/ \E p \in late : StartLatePatch(p)
    PROVE  UploadInv'
<1>1. CASE StartPatch
  <2>1. upload \in known /\ offset \in 0..length /\ offset < length
    BY <1>1 DEF StartPatch, UploadInv, TypeOK, PatchingOK
  <2>2. ChunkEnd \in 0..length /\ offset <= ChunkEnd
    BY ChunkEndType DEF UploadInv, TypeOK
  <2> QED
    BY <1>1, <2>1, <2>2, OpensInv DEF StartPatch
<1>2. CASE \E p \in late : StartLatePatch(p)
  <2>1. PICK p \in late : StartLatePatch(p)
    BY <1>2
  <2>2. /\ p.upload \in known /\ p.from \in 0..length /\ p.to \in 0..length
        /\ p.from <= p.to /\ p.from < length
    BY DEF UploadInv, TypeOK, Late, LatePatchesOK
  <2> QED
    BY <2>1, <2>2, OpensInv DEF StartLatePatch
<1> QED
  BY <1>1, <1>2

LEMMA DropLatePatchInv ==
    ASSUME UploadInv, NEW p \in late, DropLatePatch(p)
    PROVE  UploadInv'
  BY DEF UploadInv, TypeOK, StoredInOrder, PatchesAppend, LatePatchesOK, PatchingOK, ServesClient,
         DropLatePatch, given, client, storage, outcome

\* What WriteByte does to a file: one byte is appended, the next one.
LEMMA WriteByteAppends ==
    ASSUME UploadInv, NEW u \in Uploads, WriteByte(u)
    PROVE  /\ contents' = [contents EXCEPT ![u] = Append(@, Len(@) + 1)]
           /\ Len(contents[u]) < length /\ u \notin completed
           /\ Len(contents[u]) + 1 \in 1..MaxLength
<1>1. at[u] = Len(contents[u]) /\ u \notin completed /\ at[u] < end[u] /\ end[u] <= length
  BY DEF UploadInv, PatchesAppend, WriteByte, TypeOK
<1>2. contents' = [contents EXCEPT ![u] = Append(contents[u], at[u] + 1)]
  <2>1. ~(at[u] < Len(contents[u]))
    BY <1>1 DEF UploadInv, TypeOK
  <2> QED
    BY <2>1 DEF WriteByte
<1> QED
  BY <1>1, <1>2, ConstantTypes DEF UploadInv, TypeOK

LEMMA WriteByteInv ==
    ASSUME UploadInv, NEW u \in Uploads, WriteByte(u)
    PROVE  UploadInv'
<1> DEFINE n == Len(contents[u])
<1>1. /\ contents' = [contents EXCEPT ![u] = Append(contents[u], n + 1)]
      /\ n < length /\ u \notin completed /\ n + 1 \in 1..MaxLength
      /\ contents \in [Uploads -> Seq(1..MaxLength)] /\ n \in Nat
  BY WriteByteAppends DEF UploadInv, TypeOK
<1>2. /\ Append(contents[u], n + 1) \in Seq(1..MaxLength)
      /\ Len(Append(contents[u], n + 1)) = n + 1
      /\ \A i \in 1..(n + 1) : Append(contents[u], n + 1)[i] = i
  BY <1>1 DEF UploadInv, StoredInOrder
<1>3. contents' \in [Uploads -> Seq(1..MaxLength)]
  BY <1>1, <1>2
<1>4. StoredInOrder'
  BY <1>1, <1>2 DEF UploadInv, StoredInOrder, TypeOK, WriteByte, given, outcome
<1>5. PatchesAppend'
  BY <1>1, <1>2 DEF UploadInv, PatchesAppend, TypeOK, WriteByte, outcome
<1>6. at' \in [Uploads -> 0..MaxLength] /\ \A v \in Uploads : lock[v] # "free" => at'[v] <= end[v]
  BY ConstantTypes DEF UploadInv, TypeOK, WriteByte
<1>7. TypeOK'
  BY <1>3, <1>6 DEF UploadInv, TypeOK, WriteByte, given, client, outcome
<1> QED
  BY <1>4, <1>5, <1>7 DEF UploadInv, LatePatchesOK, PatchingOK, ServesClient, WriteByte, given, client

LEMMA EndPatchInv ==
    ASSUME UploadInv, NEW u \in Uploads, EndPatch(u)
    PROVE  UploadInv'
<1>1. u \in known \ completed /\ at[u] = Len(contents[u]) /\ at[u] \in 0..length
  BY DEF EndPatch, Answers, UploadInv, PatchesAppend, TypeOK
<1>2. /\ phase' \in Phases /\ upload' = upload
      /\ phase' \in {"heading", "patching"} => upload # NoUpload
      /\ offset' \in 0..length /\ retryFrom' = retryFrom /\ attempt' = attempt
      /\ phase' = "patching" => offset' < length
  BY <1>1 DEF EndPatch, Answers, Reached, UploadInv, ServesClient, PatchingOK, TypeOK, Phases, client
<1>3. completed' = completed \/ (completed' = completed \cup {u} /\ Len(contents[u]) = length)
  BY <1>1 DEF EndPatch, Answers
<1>4. completed' \subseteq known /\ updating' \subseteq completed' /\ videos \subseteq completed'
  BY <1>1 DEF EndPatch, Answers, UploadInv, TypeOK
<1>5. lock' = [lock EXCEPT ![u] = "free"]
  BY DEF EndPatch, Answers
<1>6. UNCHANGED <<given, movie, storage, posts, at, end, late, videos, faults, hit>>
  BY DEF EndPatch, Answers
<1>7. TypeOK'
  BY <1>2, <1>4, <1>5, <1>6 DEF UploadInv, TypeOK, given, storage
<1>8. StoredInOrder' /\ PatchesAppend'
  BY <1>3, <1>5, <1>6 DEF UploadInv, TypeOK, StoredInOrder, PatchesAppend, given, storage
<1>9. ServesClient'
  BY <1>2, <1>5, <1>6 DEF UploadInv, TypeOK, ServesClient, EndPatch, Answers, client
<1> QED
  BY <1>2, <1>6, <1>7, <1>8, <1>9 DEF UploadInv, LatePatchesOK, PatchingOK, given, storage

LEMMA PatchFailsInv ==
    ASSUME UploadInv, NEW u \in Uploads, PatchFails(u)
    PROVE  UploadInv'
<1>0. TypeOK
  BY DEF UploadInv
<1>1. faults' \in 0..MaxFaults /\ hit' \subseteq FaultKinds
  BY <1>0, FaultType DEF PatchFails
<1>2. IF lock[u] = "live" THEN RequestFails ELSE UNCHANGED client
  BY DEF PatchFails
<1>3. /\ lock' = [lock EXCEPT ![u] = "free"]
      /\ UNCHANGED <<given, movie, storage, posts, at, end, late, outcome>>
  BY DEF PatchFails
<1> QED
  BY <1>0, <1>1, <1>2, <1>3, RetryType
  DEF UploadInv, TypeOK, StoredInOrder, PatchesAppend, LatePatchesOK, PatchingOK, ServesClient,
      given, client, storage, outcome, Phases

LEMMA UpdateInv ==
    ASSUME UploadInv, NEW u \in Uploads, UpdateVideo(u) \/ UpdateThrows(u)
    PROVE  UploadInv'
<1>1. faults' \in 0..MaxFaults /\ hit' \subseteq FaultKinds
  BY FaultType DEF UpdateVideo, UpdateThrows, NoFault, UploadInv, TypeOK
<1>2. /\ updating' = updating \ {u} /\ videos' \subseteq videos \cup {u} /\ u \in updating
      /\ UNCHANGED <<given, client, movie, storage, posts, patches, completed>>
  BY DEF UpdateVideo, UpdateThrows
<1> QED
  BY <1>1, <1>2
  DEF UploadInv, TypeOK, StoredInOrder, PatchesAppend, LatePatchesOK, PatchingOK, ServesClient,
      given, client, storage, patches

-----------------------------------------------------------------------------
LEMMA ConnectionLostInv ==
    ASSUME UploadInv, ConnectionLost
    PROVE  UploadInv'
<1>0. TypeOK
  BY DEF UploadInv
<1>1. faults' \in 0..MaxFaults /\ hit' \subseteq FaultKinds
  BY <1>0, FaultType DEF ConnectionLost
<1>2. /\ phase' \in {"waiting", "failed"} /\ UNCHANGED <<upload, offset>>
      /\ attempt' \in 0..Retries /\ retryFrom' \in 0..length
  BY <1>0, RetryType DEF ConnectionLost
<1>3. late' \subseteq Late /\ \A p \in late' : /\ p.upload \in known
                                               /\ p.from < length /\ p.from <= p.to /\ p.to <= length
  <2>1. CASE late' = late
    BY <2>1 DEF UploadInv, TypeOK, LatePatchesOK
  <2>2. CASE /\ phase = "patching"
             /\ late' = late \cup {[upload |-> upload, from |-> offset, to |-> ChunkEnd]}
    <3>1. /\ upload \in known /\ upload \in Uploads /\ offset \in 0..MaxLength /\ offset < length
      BY <2>2, ConstantTypes DEF UploadInv, TypeOK, PatchingOK
    <3>2. ChunkEnd \in 0..MaxLength /\ offset <= ChunkEnd /\ ChunkEnd <= length
      BY <1>0, ChunkEndType
    <3> DEFINE q == [upload |-> upload, from |-> offset, to |-> ChunkEnd]
    <3>3. q \in Late /\ q.upload = upload /\ q.from = offset /\ q.to = ChunkEnd
      BY <3>1, <3>2 DEF Late
    <3>4. late \subseteq Late /\ LatePatchesOK /\ late' = late \cup {q}
      BY <2>2 DEF UploadInv, TypeOK
    <3> HIDE DEF q
    <3> QED
      BY <3>1, <3>2, <3>3, <3>4 DEF LatePatchesOK
  <2> QED
    BY <2>1, <2>2 DEF ConnectionLost
<1>4. /\ posts' = [u \in Uploads |-> IF posts[u] = "live" THEN "lost" ELSE posts[u]]
      /\ lock' = [u \in Uploads |-> IF lock[u] = "live" THEN "lost" ELSE lock[u]]
      /\ UNCHANGED <<given, movie, storage, at, end, outcome>>
  BY DEF ConnectionLost
<1>5. TypeOK'
  BY <1>0, <1>1, <1>2, <1>3, <1>4 DEF TypeOK, given, storage, outcome, Phases
<1> QED
  BY <1>2, <1>3, <1>4, <1>5
  DEF UploadInv, TypeOK, StoredInOrder, PatchesAppend, LatePatchesOK, PatchingOK, ServesClient,
      given, storage, outcome

LEMMA CrashInv ==
    ASSUME UploadInv, Crash
    PROVE  UploadInv'
<1>0. TypeOK
  BY DEF UploadInv
<1>1. faults' \in 0..MaxFaults /\ hit' \subseteq FaultKinds
  BY <1>0, FaultType DEF Crash
<1>2. /\ posts' = [u \in Uploads |-> "no"] /\ lock' = [u \in Uploads |-> "free"]
      /\ late' = {} /\ updating' = {}
      /\ UNCHANGED <<given, movie, storage, at, end, completed, videos>>
  BY DEF Crash
<1>3. /\ phase' \in Phases \ {"creating", "heading", "patching"}
      /\ UNCHANGED <<upload, offset>>
      /\ attempt' \in 0..Retries /\ retryFrom' \in 0..length
  BY <1>0, RetryType DEF Crash, TypeOK, Phases, client
<1> QED
  BY <1>0, <1>1, <1>2, <1>3
  DEF UploadInv, TypeOK, StoredInOrder, PatchesAppend, LatePatchesOK, PatchingOK, ServesClient,
      given, storage

LEMMA DeleteMovieInv ==
    ASSUME UploadInv, DeleteMovie
    PROVE  UploadInv'
<1>1. faults' \in 0..MaxFaults /\ hit' \subseteq FaultKinds
  BY FaultType DEF DeleteMovie, UploadInv
<1> QED
  BY <1>1
  DEF UploadInv, TypeOK, StoredInOrder, PatchesAppend, LatePatchesOK, PatchingOK, ServesClient,
      DeleteMovie, given, client, storage, patches, outcome

LEMMA StutterInv ==
    ASSUME UploadInv, UNCHANGED vars
    PROVE  UploadInv'
  BY DEF UploadInv, TypeOK, StoredInOrder, PatchesAppend, LatePatchesOK, PatchingOK, ServesClient,
         vars, given, client, storage, patches, outcome

LEMMA NextInv == UploadInv /\ [Next]_vars => UploadInv'
<1> SUFFICES ASSUME UploadInv, [Next]_vars PROVE UploadInv'
  OBVIOUS
<1>1. CASE Resume \/ PostRefused \/ AskOffset \/ HeadRefused \/ HeadFails \/ PatchConflicts
  BY <1>1, ClientSteps
<1>2. CASE StartPatch \/ \E p \in late : StartLatePatch(p)
  BY <1>2, PatchBegins
<1>3. CASE \E p \in late : DropLatePatch(p)
  BY <1>3, DropLatePatchInv
<1>4. CASE ConnectionLost \/ Crash \/ DeleteMovie
  BY <1>4, ConnectionLostInv, CrashInv, DeleteMovieInv
<1>5. CASE \E u \in Uploads : CreateFile(u) \/ SaveConfig(u) \/ PostFails(u)
  BY <1>5, CreateFileInv, SaveConfigInv, PostFailsInv
<1>6. CASE \E u \in Uploads : WriteByte(u) \/ EndPatch(u) \/ PatchFails(u)
  BY <1>6, WriteByteInv, EndPatchInv, PatchFailsInv
<1>7. CASE \E u \in Uploads : UpdateVideo(u) \/ UpdateThrows(u)
  BY <1>7, UpdateInv
<1>8. CASE UNCHANGED vars
  BY <1>8, StutterInv
<1> QED
  BY <1>1, <1>2, <1>3, <1>4, <1>5, <1>6, <1>7, <1>8 DEF Next

LEMMA InvCorrect == Spec => []UploadInv
<1>1. Init => UploadInv
  BY InitInv
<1>2. UploadInv /\ [Next]_vars => UploadInv'
  BY NextInv
<1> QED
  BY <1>1, <1>2, PTL DEF Spec

\* Every variable keeps to its type; in particular no PATCH writes past the end of
\* the file, and the client never believes that more has arrived than there is.
THEOREM TypeCorrect == Spec => []TypeOK
<1>1. UploadInv => TypeOK
  BY DEF UploadInv
<1> QED
  BY <1>1, InvCorrect, PTL

-----------------------------------------------------------------------------
(* The refinement *)

LEMMA StoreStep == UploadInv /\ [Next]_vars => [Store!Next]_(Store!storeVars)
<1> SUFFICES ASSUME UploadInv, [Next]_vars PROVE [Store!Next]_(Store!storeVars)
  OBVIOUS
<1> DEFINE Same == UNCHANGED <<length, contents, completed, updating, videos>>
<1>0. Same => [Store!Next]_(Store!storeVars)
  BY DEF Store!storeVars
<1>1. CASE Resume \/ PostRefused \/ AskOffset \/ HeadRefused \/ HeadFails \/ PatchConflicts
  BY <1>0, <1>1 DEF Resume, PostRefused, AskOffset, HeadRefused, HeadFails, PatchConflicts, given, storage,
                      outcome
<1>2. CASE StartPatch \/ \E p \in late : StartLatePatch(p) \/ DropLatePatch(p)
  BY <1>0, <1>2 DEF StartPatch, StartLatePatch, DropLatePatch, Opens, given, storage, outcome
<1>3. CASE ConnectionLost \/ DeleteMovie \/ UNCHANGED vars
  BY <1>0, <1>3 DEF ConnectionLost, DeleteMovie, vars, given, storage, outcome
<1>4. CASE \E u \in Uploads : CreateFile(u) \/ SaveConfig(u) \/ PostFails(u) \/ PatchFails(u)
  BY <1>0, <1>4 DEF CreateFile, SaveConfig, PostFails, PatchFails, given, storage, outcome
<1>5. CASE Crash
  BY <1>5 DEF Crash, Store!Next, Store!GiveUp, given, storage
<1>6. ASSUME NEW u \in Uploads, WriteByte(u)
      PROVE  Store!Receive(u)
  BY <1>6, WriteByteAppends DEF WriteByte, Store!Receive, given, outcome
<1>7. ASSUME NEW u \in Uploads, EndPatch(u)
      PROVE  Same \/ Store!Complete(u)
  <2>1. u \notin completed /\ at[u] = Len(contents[u])
    BY <1>7 DEF EndPatch, Answers, UploadInv, PatchesAppend
  <2> QED
    BY <1>7, <2>1 DEF EndPatch, Answers, Store!Complete, given, storage
<1>8. ASSUME NEW u \in Uploads, UpdateVideo(u) \/ UpdateThrows(u)
      PROVE  Store!MakeVideo(u) \/ Store!GiveUp
  BY <1>8 DEF UpdateVideo, UpdateThrows, Store!MakeVideo, Store!GiveUp, given, storage
<1> QED
  BY <1>0, <1>1, <1>2, <1>3, <1>4, <1>5, <1>6, <1>7, <1>8 DEF Next, Store!Next

\* The bytes of every upload are stored once and in order, and the handler is given
\* the file once, when it is whole, whatever is lost, late, repeated or aborted.
THEOREM UploadImplementsStore == Spec => ImplementsUploadStore
<1>1. Init => Store!Init
  BY ConstantTypes DEF Init, Store!Init
<1>2. UploadInv /\ [Next]_vars => [Store!Next]_(Store!storeVars)
  BY StoreStep
<1> QED
  BY <1>1, <1>2, InvCorrect, PTL DEF Spec, ImplementsUploadStore, Store!Spec

-----------------------------------------------------------------------------
(* What the user is told *)

\* An upload that is over for the client is stored as a whole.
DoneIsWhole == phase = "done" => upload # NoUpload /\ Len(contents[upload]) = length

\* While nothing but connections was lost, no upload is forgotten between its
\* last byte and its video.
NoneForgotten ==
    hit \subseteq {"cut"} =>
        /\ movie
        /\ completed \subseteq updating \cup videos
        /\ \A u \in Uploads :
               length > 0 /\ Len(contents[u]) = length => u \in completed \/ lock[u] # "free"

\* A user is only told that the video is uploaded when all of its bytes are
\* stored; and when nothing but connections was lost, it was handed over then, or
\* it is about to be.
DoneMeansStored ==
    phase = "done" /\ length > 0 =>
        /\ upload # NoUpload /\ Len(contents[upload]) = length
        /\ hit \subseteq {"cut"} => upload \in updating \cup videos \/ lock[upload] # "free"

LEMMA DoneStays ==
    ASSUME UploadInv, DoneIsWhole, UNCHANGED <<length, contents>>,
           phase' = "done" => phase = "done" /\ upload' = upload
    PROVE  DoneIsWhole'
  BY DEF DoneIsWhole

LEMMA DoneStep ==
    ASSUME UploadInv, DoneIsWhole, [Next]_vars
    PROVE  DoneIsWhole'
<1>0. TypeOK /\ StoredInOrder
  BY DEF UploadInv
<1>1. CASE Resume \/ PostRefused \/ HeadRefused \/ HeadFails
  BY <1>1, DoneStays DEF Resume, PostRefused, HeadRefused, HeadFails, given, storage
<1>2. CASE AskOffset
  BY <1>2, <1>0 DEF AskOffset, Reached, Size, DoneIsWhole, TypeOK, given, storage
<1>3. CASE PatchConflicts \/ ConnectionLost
  BY <1>0, <1>3, DoneStays, RetryType DEF PatchConflicts, ConnectionLost, given, storage
<1>4. CASE StartPatch \/ \E p \in late : StartLatePatch(p) \/ DropLatePatch(p)
  BY <1>4, DoneStays DEF StartPatch, StartLatePatch, DropLatePatch, Opens, given, client, storage
<1>5. CASE Crash
  <2>1. phase' = "done" => phase = "done" /\ upload' = upload
    BY <1>0, <1>5, RetryType DEF Crash, client
  <2> QED
    BY <1>5, <2>1, DoneStays DEF Crash, given, storage
<1>6. CASE DeleteMovie
  BY <1>6, DoneStays DEF DeleteMovie, given, client, storage
<1>7. ASSUME NEW u \in Uploads, CreateFile(u) PROVE DoneIsWhole'
  BY <1>7, DoneStays DEF CreateFile, given, client, storage
<1>8. ASSUME NEW u \in Uploads, SaveConfig(u) PROVE DoneIsWhole'
  <2>1. CASE posts[u] = "live"
    <3>1. /\ upload' = u /\ u # NoUpload /\ UNCHANGED <<length, contents>>
          /\ phase' = "done" => length = 0
      BY <1>8, <2>1, ConstantTypes DEF SaveConfig, Reached, given
    <3>2. Len(contents[u]) \in Nat /\ Len(contents[u]) <= length
      BY <1>0 DEF TypeOK, StoredInOrder
    <3> QED
      BY <1>0, <3>1, <3>2 DEF DoneIsWhole
  <2>2. CASE posts[u] # "live"
    BY <1>8, <2>2, DoneStays DEF SaveConfig, given, client
  <2> QED
    BY <2>1, <2>2
<1>9. ASSUME NEW u \in Uploads, PostFails(u) \/ PatchFails(u) PROVE DoneIsWhole'
  <2>1. phase' = "done" => phase = "done" /\ upload' = upload
    BY <1>0, <1>9, RetryType DEF PostFails, PatchFails, client
  <2> QED
    BY <1>9, <2>1, DoneStays DEF PostFails, PatchFails, given, storage
<1>10. ASSUME NEW u \in Uploads, WriteByte(u) PROVE DoneIsWhole'
  <2>1. phase = "done" => upload # u
    BY <1>10, WriteByteAppends DEF DoneIsWhole
  <2> QED
    BY <1>0, <1>10, <2>1 DEF WriteByte, DoneIsWhole, TypeOK, given, client
<1>11. ASSUME NEW u \in Uploads, EndPatch(u) PROVE DoneIsWhole'
  <2>1. CASE lock[u] = "live"
    <3>1. upload = u /\ upload' = u /\ u # NoUpload /\ at[u] = Len(contents[u])
      BY <1>11, <2>1, ConstantTypes
      DEF EndPatch, Answers, UploadInv, PatchesAppend, ServesClient
    <3>2. phase' = "done" => at[u] = length
      BY <1>11, <2>1 DEF EndPatch, Answers, Reached
    <3> QED
      BY <1>11, <3>1, <3>2 DEF EndPatch, Answers, DoneIsWhole, given, storage
  <2>2. CASE lock[u] # "live"
    BY <1>11, <2>2, DoneStays DEF EndPatch, Answers, given, client, storage
  <2> QED
    BY <2>1, <2>2
<1>12. ASSUME NEW u \in Uploads, UpdateVideo(u) \/ UpdateThrows(u) PROVE DoneIsWhole'
  BY <1>12, DoneStays DEF UpdateVideo, UpdateThrows, given, client, storage
<1>13. CASE UNCHANGED vars
  BY <1>13, DoneStays DEF vars, given, client, storage
<1> QED
  BY <1>1, <1>2, <1>3, <1>4, <1>5, <1>6, <1>7, <1>8, <1>9, <1>10, <1>11, <1>12, <1>13 DEF Next

\* A fault that is not a lost connection shows in the history.
LEMMA OtherFault ==
    ASSUME NEW kind, kind # "cut", Fault(kind)
    PROVE  ~(hit' \subseteq {"cut"})
  BY DEF Fault

LEMMA NoneForgottenStep ==
    ASSUME UploadInv, NoneForgotten, [Next]_vars
    PROVE  NoneForgotten'
<1> SUFFICES ASSUME hit' \subseteq {"cut"}, hit \subseteq {"cut"} PROVE NoneForgotten'
  <2>1. hit \subseteq hit'
    BY DEF Next, Resume, PostRefused, AskOffset, HeadRefused, HeadFails, StartPatch, PatchConflicts,
           ConnectionLost, Crash, DeleteMovie, StartLatePatch, DropLatePatch, Opens, CreateFile,
           SaveConfig, PostFails, WriteByte, EndPatch, Answers, PatchFails, UpdateVideo,
           UpdateThrows, Fault, vars
  <2> QED
    BY <2>1 DEF NoneForgotten
<1> USE DEF NoneForgotten
<1>0. TypeOK /\ contents \in [Uploads -> Seq(1..MaxLength)] /\ lock \in [Uploads -> {"free", "live", "lost"}]
  BY DEF UploadInv, TypeOK
<1>1. CASE \/ Resume \/ PostRefused \/ AskOffset \/ HeadRefused \/ HeadFails \/ PatchConflicts
           \/ \E p \in late : DropLatePatch(p)
           \/ \E u \in Uploads : CreateFile(u) \/ SaveConfig(u)
           \/ UNCHANGED vars
  <2>1. UNCHANGED <<length, movie, contents, lock, completed, updating, videos>>
    BY <1>1, OtherFault DEF Resume, PostRefused, AskOffset, HeadRefused, HeadFails, PatchConflicts,
                DropLatePatch,
                CreateFile, SaveConfig, vars, given, storage, patches, outcome
  <2> QED
    BY <2>1
<1>2. CASE StartPatch \/ ConnectionLost \/ \E p \in late : StartLatePatch(p)
  <2>1. /\ UNCHANGED <<length, movie, contents, completed, updating, videos>>
        /\ \A u \in Uploads : lock[u] # "free" => lock'[u] # "free"
    BY <1>0, <1>2
    DEF StartPatch, ConnectionLost, StartLatePatch, Opens, given, storage, outcome
  <2> QED
    BY <2>1
<1>3. CASE Crash \/ DeleteMovie \/ \E u \in Uploads : PostFails(u) \/ PatchFails(u) \/ UpdateThrows(u)
  <2>1. \E kind \in {"crash", "delete", "throw", "abort"} : Fault(kind)
    BY <1>3 DEF Crash, DeleteMovie, PostFails, PatchFails, UpdateThrows
  <2> QED
    BY <2>1, OtherFault
<1>4. ASSUME NEW u \in Uploads, WriteByte(u) PROVE NoneForgotten'
  BY <1>0, <1>4 DEF WriteByte, given, outcome
<1>5. ASSUME NEW u \in Uploads, EndPatch(u) PROVE NoneForgotten'
  <2>1. /\ at[u] = Len(contents[u]) /\ UNCHANGED <<length, movie, contents, videos>>
        /\ lock' = [lock EXCEPT ![u] = "free"]
        /\ completed' = IF at[u] = length THEN completed \cup {u} ELSE completed
        /\ updating' = IF at[u] = length THEN updating \cup {u} ELSE updating
    BY <1>5 DEF EndPatch, Answers, UploadInv, PatchesAppend, given, storage
  <2> QED
    BY <1>0, <2>1
<1>6. ASSUME NEW u \in Uploads, UpdateVideo(u) PROVE NoneForgotten'
  BY <1>6 DEF UpdateVideo, given, storage, patches
<1> QED
  BY <1>1, <1>2, <1>3, <1>4, <1>5, <1>6 DEF Next

\* The safety half of DoneMeansVideo, for every file, chunk size and number of
\* faults: neither a HEAD nor a PATCH lets the client believe in bytes that are
\* not there, and a lost connection loses no finished upload on its way to
\* updateVideoForOne (movies.controller.ts:284-296).
THEOREM DoneCorrect == Spec => []DoneMeansStored
<1>1. Init => DoneIsWhole /\ NoneForgotten
  BY ConstantTypes DEF Init, DoneIsWhole, NoneForgotten
<1>2. UploadInv /\ DoneIsWhole /\ NoneForgotten /\ [Next]_vars => (DoneIsWhole /\ NoneForgotten)'
  BY DoneStep, NoneForgottenStep
<1>3. UploadInv /\ DoneIsWhole /\ NoneForgotten => DoneMeansStored
  BY DEF UploadInv, TypeOK, DoneIsWhole, NoneForgotten, DoneMeansStored
<1> QED
  BY <1>1, <1>2, <1>3, InvCorrect, PTL DEF Spec
=============================================================================
