----------------------------- MODULE VideoStream -----------------------------
(***************************************************************************)
(* VideoStreamController.getVideoStream, which serves a range of the file  *)
(* of a READY video, next to the workers of VideoPipeline that may remove  *)
(* the video or process it again meanwhile.  Between two awaits of a       *)
(* request anything may happen to the record and to the file; only a file  *)
(* that is open keeps its contents when its name is removed.               *)
(*                                                                         *)
(* Positions count chunks.  The header Range is a first and a last         *)
(* position, either of which may be NaN (parseInt), or is missing.  One    *)
(* request is served at a time: requests share nothing.                    *)
(***************************************************************************)
EXTENDS VideoPipeline

VARIABLE reader    \* the request that is being served

streamVars == <<vars, reader>>

NaN == -1
NoEnd == -2        \* "bytes=5-"

ReaderSteps == {"idle", "found", "stat", "ranged", "open", "send"}

\* ready: the state findOne gave was READY; size: what getFileMetadata gave;
\* length: of the file that is open; linked: it still has its name;
\* sent: what the client has got.
Readers ==
    [step : ReaderSteps, video : Videos \cup {NoVideo}, ready : BOOLEAN, size : 0..RawSize,
     first : 0..RawSize, last : 0..RawSize, length : 0..RawSize, linked : BOOLEAN,
     sent : 0..RawSize]
IdleReader ==
    [step |-> "idle", video |-> NoVideo, ready |-> FALSE, size |-> 0, first |-> 0, last |-> 0,
     length |-> 0, linked |-> FALSE, sent |-> 0]

\* Range headers, "bytes=<first>-<last>"; positions further out behave as RawSize.
Headers == [first : (0..RawSize) \cup {NaN}, last : (0..RawSize) \cup {NaN, NoEnd}]

StreamTypeOK == TypeOK /\ reader \in Readers

StreamInit == Init /\ reader = IdleReader

ReaderEnds == reader' = IdleReader
FileOfReader == file[reader.video]

-----------------------------------------------------------------------------
\* Mutant: the state of the video is not looked at.
FindAnyVideo(v) ==
    /\ reader.step = "idle"
    /\ reader' = [IdleReader EXCEPT !.step = "found", !.video = v, !.ready = TRUE]
    /\ UNCHANGED vars

\* findOne reads the record, or finds none.
FindVideo(v) ==
    /\ reader.step = "idle"
    /\ reader' = [IdleReader EXCEPT
            !.step = "found", !.video = v, !.ready = (state[v] = "READY")]
    /\ UNCHANGED vars

\* 404 if the video is not READY or getFileMetadata finds no file.
CheckVideo ==
    /\ reader.step = "found"
    /\ IF reader.ready /\ FileOfReader # NoFile
       THEN reader' = [reader EXCEPT !.step = "stat"]
       ELSE ReaderEnds
    /\ UNCHANGED vars

\* Mutant: the size is taken although stat has found no file.
StatFileUnchecked ==
    /\ reader.step = "stat"
    /\ reader' = [reader EXCEPT !.step = "ranged", !.size = FileOfReader]
    /\ UNCHANGED vars

\* stat rejects if the file has gone since: the answer is 500.
StatFile ==
    /\ reader.step = "stat"
    /\ IF FileOfReader # NoFile
       THEN reader' = [reader EXCEPT !.step = "ranged", !.size = FileOfReader]
       ELSE ReaderEnds
    /\ UNCHANGED vars

\* The last position the header asks for.
EndOf(h) == IF h.last = NoEnd THEN reader.size - 1 ELSE h.last

\* The controller answers 416; NaN is not refused by the comparison.
Unsatisfiable(h) == h.first >= reader.size

\* isValidDownloadStreamOptions lets any two numbers through, NaN included; it
\* is createReadStream that throws on NaN and on a start after the end (500).
NotAStream(h) == h.first = NaN \/ EndOf(h) = NaN \/ h.first > EndOf(h)

\* No header (400), a range that is refused, or a file that is gone (404).
RefuseRange ==
    /\ reader.step = "ranged"
    /\ ReaderEnds
    /\ UNCHANGED vars

\* downloadStream finds the file; it is opened only later.
TakeRange(h) ==
    /\ reader.step = "ranged"
    /\ ~Unsatisfiable(h) /\ ~NotAStream(h)
    /\ FileOfReader # NoFile
    /\ reader' = [reader EXCEPT !.step = "open", !.first = h.first, !.last = EndOf(h)]
    /\ UNCHANGED vars

OpenStream ==
    /\ reader.step = "open"
    /\ FileOfReader # NoFile
    /\ reader' = [reader EXCEPT !.step = "send", !.length = FileOfReader, !.linked = TRUE]
    /\ UNCHANGED vars

\* Nobody listens to the error of a stream that cannot open its file: it ends
\* the process.  (Counted among the faults.)
OpenStreamFails ==
    /\ reader.step = "open"
    /\ FileOfReader = NoFile
    /\ Crash
    /\ ReaderEnds

\* Mutant: the last position is not counted.
WantedExclusive == reader.last - reader.first

\* The header Content-Length.
Wanted == reader.last - reader.first + 1

SendChunk ==
    /\ reader.step = "send"
    /\ reader.sent < Wanted
    /\ reader.first + reader.sent < reader.length
    /\ reader' = [reader EXCEPT !.sent = @ + 1]
    /\ UNCHANGED vars

\* The stream has come to the end of the range, or of the file.
EndBody ==
    /\ reader.step = "send"
    /\ reader.sent = Wanted \/ reader.first + reader.sent >= reader.length
    /\ ReaderEnds
    /\ UNCHANGED vars

\* The client goes away, a seek for one; pipe leaves the file open.
ClientLeaves ==
    /\ reader.step = "send"
    /\ ReaderEnds
    /\ UNCHANGED vars

\* findOne or stat rejects: 500.  As often as it may, it disturbs nobody else.
ReaderThrows ==
    /\ reader.step \in {"found", "stat"}
    /\ "throw" \in FaultKinds
    /\ ReaderEnds
    /\ UNCHANGED vars

Reading ==
    \/ \E v \in Videos : FindVideo(v)
    \/ CheckVideo \/ StatFile \/ RefuseRange
    \/ \E h \in Headers : TakeRange(h)
    \/ OpenStream \/ SendChunk \/ EndBody \/ ClientLeaves \/ ReaderThrows

\* An open file grows with its name, and keeps what it has without it.
SeesFile ==
    reader' = IF reader.step # "send" \/ ~reader.linked THEN reader
              ELSE IF file'[reader.video] = NoFile THEN [reader EXCEPT !.linked = FALSE]
              ELSE [reader EXCEPT !.length = file'[reader.video]]

StreamNext ==
    \/ Runs /\ SeesFile
    \/ Crash /\ ReaderEnds
    \/ Reading
    \/ OpenStreamFails

StreamSpec == StreamInit /\ [][StreamNext]_streamVars

-----------------------------------------------------------------------------
(* Properties *)

\* A request that found its video READY is served from the whole file as long
\* as nobody asks for its deletion, whatever happens to the job of the video
\* meanwhile: it is neither refused for want of the file nor answered with the
\* size of a part of it, and its stream can be opened.
ServedFromWholeFile ==
    reader.ready /\ reader.video \notin asked =>
        /\ FileOfReader = RawSize
        /\ reader.step \in {"ranged", "open", "send"} => reader.size = RawSize
        /\ reader.step = "send" => reader.length = RawSize

\* An answer that names a range within the file carries exactly that range,
\* unless the client goes away: what Content-Length promises is what is sent.
\* Without a fault this holds even while the video is deleted; after a crash a
\* deleted video may be processed once more, and its stream opened on the part
\* that was copied.
BodyIsExact ==
    [][/\ reader.step = "send" /\ EndBody
       /\ reader.last < RawSize
       /\ faults = << >> \/ reader.video \notin asked
       => reader.sent = reader.last - reader.first + 1]_streamVars

=============================================================================
