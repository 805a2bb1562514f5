---------------------------- MODULE InspectPage ----------------------------
(***************************************************************************)
(* The page of one movie: as its manager sees it (pages/inspect-movie with *)
(* its settings, dialogs and audit log) or as a viewer does (view-movie).  *)
(* Every setting opens a dialog, sends one request built from the movie    *)
(* the page holds, and hands the answer to onMovieLoad; pictures are       *)
(* loaded half a second later, to leave the server time to process them;   *)
(* a video is uploaded in the background.                                  *)
(*                                                                         *)
(* The server is taken as atomic here: a request changes one part of the   *)
(* movie and is answered with the movie as it is then (what happens inside *)
(* is MovieCatalog's subject).  Answers reach the page in any order.  Each *)
(* part of the movie is the number of the request that gave it its value;  *)
(* "days" is by how many days the date of the release is earlier than the  *)
(* one entered.  Of the audit log only counts whether the page shows every *)
(* entry there is; "owed" are the events emitted whose entry a subscriber  *)
(* has yet to insert.                                                      *)
(*                                                                         *)
(* The three delays of TimeDelays are equal, so timers end in the order    *)
(* they were started.                                                      *)
(***************************************************************************)
EXTENDS Naturals, Sequences, FiniteSets

CONSTANTS None,
          Fields,      \* the fields of the metadata form
          ReleaseDate, \* that of the date
          MaxPosts,    \* bound: POSTs of one upload, which is begun again if an answer is lost
          MaxActs      \* bound: dialogs confirmed and videos uploaded

VARIABLES
  managing,        \* the manager's page, or the viewer's
  fromCreation,    \* reached from the page that created the movie
  behind,          \* the browser's time zone is behind UTC
  server,          \* the movie at the server
  movie,           \* the movie the page holds, or None
  posterUrl,       \* the poster shown, or None
  backdropUrl,     \* the backdrop shown, or None
  auditLogs,       \* the audit log shown has every entry
  popup,           \* the dialog on top: [kind, base, shown, held], or None
  calls,           \* requests under way: [no, kind, base, fields, shown, at, answer]
  timers,          \* delayed loads, oldest first: [what, id]
  backdropLoads,   \* backdrops asked for: [no, id]
  logLoads,        \* audit logs asked for: [no, read, entries], with every entry or not
  uploads,         \* video uploads under way
  posts,           \* how often the server has begun each of them
  whole,           \* those of which the server has every byte
  videos,          \* videos uploaded that the server has not given to the movie yet
  subject,         \* the progress subject of the video service
  closed,          \* the subjects that have completed
  heard,           \* the subject the page subscribes to, or None
  isUploadingVideo,
  progressOf,      \* the upload whose progress is shown, or None
  gone,            \* the page was left
  sent,            \* requests and uploads so far
  unread,          \* history: an entry came that nothing made the page read any more
  apart            \* history: page and server had a reason to differ

shownVars == <<posterUrl, backdropUrl, auditLogs>>
loadVars == <<timers, backdropLoads, logLoads>>
uploadVars == <<uploads, posts, whole, videos, subject, closed, heard, isUploadingVideo,
                progressOf>>
inspectVars == <<managing, fromCreation, behind, server, movie, posterUrl, backdropUrl, auditLogs,
                 popup, calls, timers, backdropLoads, logLoads, uploads, posts, whole, videos,
                 subject, closed, heard, isUploadingVideo, progressOf, gone, sent, unread, apart>>

Acts == 1..MaxActs
Parts == [meta : [Fields -> 0..MaxActs], days : Nat, poster : 0..MaxActs,
          backdrop : {None} \cup Acts, video : {None} \cup Acts, published : BOOLEAN]
Kinds == {"load", "edit", "publish", "unpublish", "poster", "backdrop", "remove"}

InspectTypeOK ==
  /\ {managing, fromCreation, behind, gone, unread} \subseteq BOOLEAN
  /\ server.movie \in Parts /\ server.owed \in Nat
  /\ movie = None \/ movie \in Parts
  /\ posterUrl \in {None} \cup 0..MaxActs /\ backdropUrl \in {None} \cup Acts
  /\ auditLogs \in BOOLEAN
  /\ popup # None => popup.kind \in Kinds \cup {"upload"}
  /\ \A c \in calls : c.kind \in Kinds /\ c.at \in {"sent", "answered"}
  /\ \A i \in DOMAIN timers : timers[i].what \in {"poster", "backdrop", "created", "video"}
  /\ UNION {uploads, whole, videos} \subseteq Acts /\ posts \in [Acts -> 0..MaxPosts]
  /\ closed \subseteq 0..subject /\ heard \in {None} \cup 0..subject
  /\ isUploadingVideo \in BOOLEAN /\ progressOf \in {None} \cup Acts
  /\ sent \in 0..MaxActs

\* ngOnInit: the movie is asked for; that it was created may not be in the log yet.
InspectInit ==
  /\ managing \in BOOLEAN
  /\ fromCreation \in BOOLEAN
  /\ behind \in BOOLEAN
  /\ server = [movie |-> [meta |-> [f \in Fields |-> 0], days |-> 0, poster |-> 0,
                          backdrop |-> None, video |-> None, published |-> FALSE],
               owed |-> IF fromCreation THEN 1 ELSE 0]
  /\ movie = None
  /\ posterUrl = None /\ backdropUrl = None /\ auditLogs = FALSE
  /\ popup = None
  /\ calls = {[no |-> 0, kind |-> "load", base |-> None, fields |-> {}, shown |-> {},
             at |-> "sent", answer |-> None]}
  /\ timers = <<>> /\ backdropLoads = {} /\ logLoads = {}
  /\ uploads = {} /\ posts = [n \in Acts |-> 0] /\ whole = {} /\ videos = {}
  /\ subject = 0 /\ closed = {} /\ heard = None
  /\ isUploadingVideo = FALSE /\ progressOf = None
  /\ gone = FALSE /\ sent = 0 /\ unread = FALSE /\ apart = FALSE

(***************************************************************************)
(* Dialogs.  One is on top of the page until it is confirmed or closed.    *)
(* The form of an edit dialog is filled with the movie as it is when it    *)
(* opens; "shown" are the fields edited in the form on the screen, "held"  *)
(* those of the form the setting was handed and would save, once it was    *)
(* told of a change.                                                       *)
(***************************************************************************)
Dialog(kind) == [kind |-> kind, base |-> movie, shown |-> {}, held |-> {}, told |-> FALSE,
                 reset |-> FALSE]

\* formatDate: the date is stored as midnight UTC, shown as the local day and sent as the
\* day shown, which behind UTC is the day before.
Shift == IF behind THEN 1 ELSE 0

\* isEdited, as the buttons know it: the day shown is put through the conversion once more
\* to compare it with the movie's, so behind UTC any form the setting was told of counts.
Edited(p) == p.held # {} \/ (behind /\ p.told)

OpenPopup(kind) ==
  /\ managing /\ ~gone /\ popup = None
  /\ movie # None
  /\ popup' = Dialog(kind)
  /\ apart' = (apart \/ calls # {})
  /\ UNCHANGED <<managing, fromCreation, behind, server, movie, shownVars, calls, loadVars,
                 uploadVars, gone, sent, unread>>

\* A field of the edit form is changed, or changed back.  The setting hears
\* of it through the subscription made when the form was first filled.
EditField(f) ==
  /\ popup # None /\ popup.kind = "edit"
  /\ LET shown == (popup.shown \cup {f}) \ (popup.shown \cap {f}) IN
     popup' = [popup EXCEPT !.shown = shown,
                            !.held = IF popup.reset THEN popup.held ELSE shown,
                            !.told = TRUE]
  /\ UNCHANGED <<managing, fromCreation, behind, server, movie, shownVars, calls, loadVars,
                 uploadVars, gone, sent, unread, apart>>

\* resetEditedForm: a new form, of which the setting is not told.
ResetForm ==
  /\ popup # None /\ popup.kind = "edit"
  /\ Edited(popup)
  /\ popup' = [popup EXCEPT !.shown = {}, !.reset = TRUE]
  /\ apart' = TRUE
  /\ UNCHANGED <<managing, fromCreation, behind, server, movie, shownVars, calls, loadVars,
                 uploadVars, gone, sent, unread>>

\* Cancel, or the cross: closeModal.
ClosePopup ==
  /\ popup # None
  /\ popup' = None
  /\ UNCHANGED <<managing, fromCreation, behind, server, movie, shownVars, calls, loadVars,
                 uploadVars, gone, sent, unread, apart>>

Send(kind, fields) ==
  /\ calls' = calls \cup {[no |-> sent', kind |-> kind, base |-> popup.base, fields |-> fields,
                           shown |-> popup.shown, at |-> "sent", answer |-> None]}
  /\ apart' = (apart \/ calls # {})

Confirm(kind) ==
  /\ popup # None /\ popup.kind = kind
  /\ ~gone
  /\ popup' = None
  /\ sent < MaxActs
  /\ sent' = sent + 1
  /\ UNCHANGED <<managing, fromCreation, behind, server, movie, shownVars, loadVars, gone, unread>>

\* onSubmitNewMetadata: every field of the form, the edited ones and the
\* others as the form was filled with when the dialog opened.
SaveMetadata ==
  /\ Confirm("edit")
  /\ Edited(popup)
  /\ Send("edit", popup.held)
  /\ UNCHANGED uploadVars

\* onToggleMoviePublish: by what the page holds now.
TogglePublish ==
  /\ Confirm("publish")
  /\ Send(IF movie.published THEN "unpublish" ELSE "publish", {})
  /\ UNCHANGED uploadVars

\* changePoster.
ChangePoster ==
  /\ Confirm("poster")
  /\ Send("poster", {})
  /\ UNCHANGED uploadVars

\* changebackdrop.
ChangeBackdrop ==
  /\ Confirm("backdrop")
  /\ Send("backdrop", {})
  /\ UNCHANGED uploadVars

\* onRemoveMovie.
RemoveMovie ==
  /\ Confirm("remove")
  /\ Send("remove", {})
  /\ UNCHANGED uploadVars

(***************************************************************************)
(* The server.                                                             *)
(***************************************************************************)
Changed(c, m) ==
  CASE c.kind = "edit" ->
         [m EXCEPT !.meta = [f \in Fields |-> IF f \in c.fields THEN c.no ELSE c.base.meta[f]],
                   !.days = IF ReleaseDate \in c.fields THEN 0 ELSE c.base.days + Shift]
    [] c.kind \in {"publish", "unpublish"} -> [m EXCEPT !.published = (c.kind = "publish")]
    [] c.kind = "poster" -> [m EXCEPT !.poster = c.no]
    [] c.kind = "backdrop" -> [m EXCEPT !.backdrop = c.no]
    [] c.kind \in {"load", "remove"} -> m

\* A handler changes the movie, emits the event and answers.
Serve(c) ==
  /\ c \in calls /\ c.at = "sent"
  /\ LET m == Changed(c, server.movie) IN
     /\ server' = [server EXCEPT !.movie = m,
                                 !.owed = IF c.kind = "load" THEN server.owed ELSE server.owed + 1]
     /\ calls' = (calls \ {c}) \cup {[c EXCEPT !.at = "answered", !.answer = m]}
  /\ UNCHANGED <<managing, fromCreation, behind, movie, shownVars, popup, loadVars, uploadVars,
                 gone, sent, unread, apart>>

\* After an upload the page is going to ask for the movie.
VideoTimed == \E i \in DOMAIN timers : timers[i].what = "video"

\* The page is going to ask for the audit log, or to have it read.
AsksAgain == calls # {} \/ uploads # {} \/ VideoTimed \/ \E l \in logLoads : ~l.read

\* A subscriber inserts the entry of an event, while the handler goes on, or fails to.
LogEntry ==
  /\ server.owed > 0
  /\ server' = [server EXCEPT !.owed = @ - 1]
  /\ \/ /\ auditLogs' = FALSE
        /\ logLoads' = {[l EXCEPT !.entries = FALSE] : l \in logLoads}
        /\ unread' = (unread \/ ~AsksAgain)
     \/ UNCHANGED <<auditLogs, logLoads, unread>>
  /\ UNCHANGED <<managing, fromCreation, behind, movie, posterUrl, backdropUrl, popup, calls,
                 timers, backdropLoads, uploadVars, gone, sent, apart>>

\* The POST that begins an upload, again if its answer is lost: the video counts as updated.
UploadBegins(n) ==
  /\ n \in uploads \ whole
  /\ posts[n] < MaxPosts
  /\ posts' = [posts EXCEPT ![n] = @ + 1]
  /\ server' = [server EXCEPT !.owed = @ + 1]
  /\ UNCHANGED <<managing, fromCreation, behind, movie, shownVars, popup, calls, loadVars, uploads,
                 whole, videos, subject, closed, heard, isUploadingVideo, progressOf, gone, sent,
                 unread, apart>>

\* The last PATCH: its answer is sent before the handler goes on.
UploadWhole(n) ==
  /\ n \in uploads \ whole
  /\ posts[n] > 0
  /\ whole' = whole \cup {n}
  /\ videos' = videos \cup {n}
  /\ UNCHANGED <<managing, fromCreation, behind, server, movie, shownVars, popup, calls, loadVars,
                 uploads, posts, subject, closed, heard, isUploadingVideo, progressOf, gone, sent,
                 unread, apart>>

\* updateVideoForOne: the movie is given the video, or an await rejects; perhaps after the
\* page last looked for it.
VideoNamed(n) ==
  /\ n \in videos
  /\ videos' = videos \ {n}
  /\ \E v \in {n, server.movie.video} : server' = [server EXCEPT !.movie.video = v]
  /\ apart' = (apart \/ (n \notin uploads /\ ~VideoTimed))
  /\ UNCHANGED <<managing, fromCreation, behind, movie, shownVars, popup, calls, loadVars, uploads,
                 posts, whole, subject, closed, heard, isUploadingVideo, progressOf, gone, sent,
                 unread>>

(***************************************************************************)
(* Answers.                                                                *)
(***************************************************************************)
LoadBackdrop(id) ==
  IF id = None
  THEN UNCHANGED <<backdropLoads, apart>>
  ELSE /\ backdropLoads' = backdropLoads \cup {id}
       /\ apart' = (apart \/ backdropLoads # {})

\* ngOnChanges of the audit log: a new movie object asks for it again.
AskLogs ==
  IF managing
  THEN logLoads' = logLoads \cup {[no |-> Cardinality(logLoads), read |-> FALSE, entries |-> FALSE]}
  ELSE UNCHANGED logLoads

Answered(c, kinds) ==
  /\ c \in calls /\ c.at = "answered" /\ c.kind \in kinds
  /\ calls' = calls \ {c}
  /\ UNCHANGED <<managing, fromCreation, behind, server, popup, uploadVars, sent, unread>>

\* getMovieMetadata: the pictures now, or later if they are still being made.
MovieComes(c) ==
  /\ Answered(c, {"load"})
  /\ movie' = c.answer
  /\ AskLogs
  /\ IF fromCreation
     THEN /\ timers' = Append(timers, [what |-> "created", id |-> None])
          /\ apart' = (apart \/ logLoads # {})
          /\ UNCHANGED <<posterUrl, backdropLoads>>
     ELSE /\ posterUrl' = c.answer.poster
          /\ backdropLoads' = backdropLoads \cup ({c.answer.backdrop} \ {None})
          /\ apart' = (apart \/ logLoads # {} \/ backdropLoads # {})
          /\ UNCHANGED timers
  /\ UNCHANGED <<backdropUrl, auditLogs, gone>>

\* Mutant: the pictures are compared after the movie was replaced.
OnMovieLoadLate(c) ==
  /\ Answered(c, {"edit", "publish", "unpublish", "poster", "backdrop"})
  /\ movie' = c.answer
  /\ AskLogs
  /\ apart' = (apart \/ logLoads # {})
  /\ UNCHANGED <<timers, posterUrl, backdropUrl, auditLogs, backdropLoads, gone>>

\* Mutant: the answer to a publication is not kept.
OnMovieLoadForgotten(c) ==
  /\ Answered(c, {"edit", "publish", "unpublish", "poster", "backdrop"})
  /\ movie' = IF c.kind \in {"publish", "unpublish"} THEN movie ELSE c.answer
  /\ AskLogs
  /\ apart' = (apart \/ logLoads # {})
  /\ UNCHANGED <<timers, posterUrl, backdropUrl, auditLogs, backdropLoads, gone>>

\* onMovieLoad: a picture that changed is loaded once it may be processed.
OnMovieLoad(c) ==
  /\ Answered(c, {"edit", "publish", "unpublish", "poster", "backdrop"})
  /\ LET new(what) == IF movie[what] # c.answer[what]
                      THEN <<[what |-> what, id |-> c.answer[what]]>> ELSE <<>>
     IN  timers' = timers \o new("poster") \o new("backdrop")
  /\ movie' = c.answer
  /\ AskLogs
  /\ apart' = (apart \/ logLoads # {})
  /\ UNCHANGED <<posterUrl, backdropUrl, auditLogs, backdropLoads, gone>>

\* The movie is gone: back to the list.
MovieRemoved(c) ==
  /\ Answered(c, {"remove"})
  /\ gone' = TRUE
  /\ UNCHANGED <<movie, shownVars, loadVars, apart>>

\* A request fails at the server, or its answer is lost on the way back; the log is not
\* asked for.
CallFails(c) ==
  /\ c \in calls
  /\ calls' = calls \ {c}
  /\ gone' = (gone \/ c.kind = "load")
  /\ apart' = (apart \/ c.at = "answered")
  /\ unread' = TRUE
  /\ UNCHANGED <<managing, fromCreation, behind, server, movie, shownVars, popup, loadVars,
                 uploadVars, sent>>

(***************************************************************************)
(* Delayed loads, pictures and the audit log.                              *)
(***************************************************************************)
FirstTimer(what) ==
  /\ timers # <<>> /\ Head(timers).what = what
  /\ timers' = Tail(timers)
  /\ UNCHANGED <<managing, fromCreation, behind, server, movie, backdropUrl, auditLogs, popup,
                 logLoads, uploadVars, gone, unread>>

PosterTimer ==
  /\ FirstTimer("poster")
  /\ posterUrl' = Head(timers).id
  /\ UNCHANGED <<calls, backdropLoads, sent, apart>>

BackdropTimer ==
  /\ FirstTimer("backdrop")
  /\ LoadBackdrop(Head(timers).id)
  /\ UNCHANGED <<calls, posterUrl, sent>>

\* The pictures of the movie the page holds by then.
CreatedTimer ==
  /\ FirstTimer("created")
  /\ posterUrl' = movie.poster
  /\ LoadBackdrop(movie.backdrop)
  /\ UNCHANGED <<calls, sent>>

\* After an upload the movie is asked for again.
VideoTimer ==
  /\ FirstTimer("video")
  /\ calls' = calls \cup {[no |-> Head(timers).id, kind |-> "load", base |-> None, fields |-> {},
                           shown |-> {}, at |-> "sent", answer |-> None]}
  /\ apart' = (apart \/ calls # {} \/ videos # {})
  /\ UNCHANGED <<posterUrl, backdropLoads, sent>>

BackdropComes(id) ==
  /\ id \in backdropLoads
  /\ backdropLoads' = backdropLoads \ {id}
  /\ backdropUrl' \in {id, None}
  /\ UNCHANGED <<managing, fromCreation, behind, server, movie, posterUrl, auditLogs, popup, calls,
                 timers, logLoads, uploadVars, gone, sent, unread, apart>>

\* onPosterError: the poster shown is not there (yet).
PosterError ==
  /\ posterUrl # None
  /\ posterUrl' = None
  /\ UNCHANGED <<managing, fromCreation, behind, server, movie, backdropUrl, auditLogs, popup,
                 calls, loadVars, uploadVars, gone, sent, unread, apart>>

\* The audit log is read at the server, then shown; or its request fails.
ReadLog(l) ==
  /\ l \in logLoads /\ ~l.read
  /\ logLoads' = (logLoads \ {l}) \cup {[l EXCEPT !.read = TRUE, !.entries = TRUE]}
  /\ unread' = FALSE
  /\ UNCHANGED <<managing, fromCreation, behind, server, movie, shownVars, popup, calls, timers,
                 backdropLoads, uploadVars, gone, sent, apart>>

LogComes(l) ==
  /\ l \in logLoads
  /\ logLoads' = logLoads \ {l}
  /\ \/ l.read /\ auditLogs' = l.entries /\ UNCHANGED apart
     \/ apart' = TRUE /\ UNCHANGED auditLogs
  /\ UNCHANGED <<managing, fromCreation, behind, server, movie, posterUrl, backdropUrl, popup,
                 calls, timers, backdropLoads, uploadVars, gone, sent, unread>>

(***************************************************************************)
(* Uploading a video.                                                      *)
(***************************************************************************)
\* onUploadVideo and uploadVideo.  A page without a video hides the button
\* during an upload, one that replaces its video does not.
UploadVideo ==
  /\ Confirm("upload")
  /\ movie.video = None => ~isUploadingVideo
  /\ uploads' = uploads \cup {sent'}
  /\ isUploadingVideo' = TRUE
  /\ progressOf' = None
  /\ heard' = subject
  /\ apart' = (apart \/ uploads # {} \/ videos # {})
  /\ UNCHANGED <<calls, posts, whole, videos, subject, closed>>

\* onProgress: to the service's subject, and the page if it hears that one.
Progress(n) ==
  /\ n \in uploads
  /\ posts[n] > 0
  /\ progressOf' = IF heard = subject /\ subject \notin closed THEN n ELSE progressOf
  /\ UNCHANGED <<managing, fromCreation, behind, server, movie, shownVars, popup, calls, loadVars,
                 uploads, posts, whole, videos, subject, closed, heard, isUploadingVideo, gone,
                 sent, unread, apart>>

UploadOver(n) ==
  /\ n \in uploads
  /\ uploads' = uploads \ {n}
  /\ posts' = [posts EXCEPT ![n] = 0]
  /\ whole' = whole \ {n}
  /\ isUploadingVideo' = FALSE
  /\ heard' = None
  /\ UNCHANGED <<managing, fromCreation, behind, server, movie, shownVars, popup, calls,
                 backdropLoads, logLoads, videos, progressOf, gone, sent>>

\* onSuccess: the subject completes and a new one takes its place.
UploadDone(n) ==
  /\ UploadOver(n)
  /\ n \in whole
  /\ closed' = closed \cup {subject}
  /\ subject' = subject + 1
  /\ timers' = Append(timers, [what |-> "video", id |-> n])
  /\ UNCHANGED <<unread, apart>>

\* onError, after tus-js-client has tried again; nothing is asked for, though the upload has
\* its entry in the log and the server may have all of it.
UploadFails(n) ==
  /\ UploadOver(n)
  /\ unread' = TRUE
  /\ apart' = (apart \/ n \in whole)
  /\ UNCHANGED <<subject, closed, timers>>

\* onWatchMovie; the progress is not listened to any longer.
WatchMovie ==
  /\ ~gone /\ popup = None
  /\ movie # None /\ movie.video # None
  /\ gone' = TRUE
  /\ heard' = None
  /\ UNCHANGED <<managing, fromCreation, behind, server, movie, shownVars, popup, calls, loadVars,
                 uploads, posts, whole, videos, subject, closed, isUploadingVideo, progressOf, sent,
                 unread, apart>>

InspectNext ==
  \/ \E kind \in {"edit", "publish", "poster", "backdrop", "remove", "upload"} : OpenPopup(kind)
  \/ \E f \in Fields : EditField(f)
  \/ ResetForm
  \/ ClosePopup
  \/ SaveMetadata \/ TogglePublish \/ ChangePoster \/ ChangeBackdrop \/ RemoveMovie
  \/ UploadVideo
  \/ \E c \in calls : Serve(c) \/ MovieComes(c) \/ OnMovieLoad(c) \/ MovieRemoved(c) \/ CallFails(c)
  \/ PosterTimer \/ BackdropTimer \/ CreatedTimer \/ VideoTimer
  \/ \E id \in backdropLoads : BackdropComes(id)
  \/ PosterError
  \/ \E l \in logLoads : ReadLog(l) \/ LogComes(l)
  \/ \E n \in uploads : \/ UploadBegins(n) \/ UploadWhole(n)
                        \/ Progress(n) \/ UploadDone(n) \/ UploadFails(n)
  \/ \E n \in videos : VideoNamed(n)
  \/ LogEntry
  \/ WatchMovie

(***************************************************************************)
(* Properties.                                                             *)
(***************************************************************************)
Quiet == /\ calls = {} /\ timers = <<>> /\ backdropLoads = {} /\ logLoads = {}
         /\ videos = {} /\ whole = {}

\* Unless requests crossed or an answer was lost, the page agrees with the
\* server once nothing is under way: the movie it holds and the pictures it
\* shows are the server's, whatever the order of the settings used, of the
\* delayed loads and of the steps of an upload; a picture may only be
\* missing.  The audit log shown has every entry too, though each is
\* inserted in the background and an upload makes one when it begins, unless
\* it came when nothing was left to make the page ask again ("unread").
\* The progress bar is there exactly while a video is uploaded, and the page
\* listens to the subject the service reports to, not to a completed one.
PageAgrees ==
  ~apart /\ ~gone =>
    /\ Quiet => /\ movie = server.movie
                /\ posterUrl \in {None, server.movie.poster}
                /\ backdropUrl \in {None, server.movie.backdrop}
                /\ managing /\ uploads = {} /\ ~unread => auditLogs
    /\ isUploadingVideo <=> uploads # {}
    /\ isUploadingVideo => /\ heard = subject /\ subject \notin closed
                           /\ progressOf \in {None} \cup uploads

\* Unless requests crossed or an answer was lost, a request changes what was
\* asked for in the dialog and nothing else, though every field of the form
\* is sent: an edit gives the fields changed on the screen their new values
\* and leaves the others as they are at the server; the flag is toggled as
\* the dialog said.  The one exception is the date: in a time zone behind
\* UTC every edit that leaves it alone moves it a day back.  (A form that
\* was reset counts with the crossings: it saves what it held.)
ChangesAreOfTheMovieShown ==
  [][\A c \in calls : Serve(c) /\ c.base # None /\ ~apart =>
       /\ c.kind \in {"publish", "unpublish"} =>
            /\ server.movie.published = c.base.published
            /\ server'.movie.published = ~c.base.published
       /\ c.kind = "edit" =>
            /\ \A f \in Fields :
                 server'.movie.meta[f] = IF f \in c.shown THEN c.no ELSE server.movie.meta[f]
            /\ ReleaseDate \notin c.shown =>
                 server'.movie.days = server.movie.days + (IF behind THEN 1 ELSE 0)]_server
=============================================================================
