---------------------------- MODULE CreateTitle ----------------------------
(***************************************************************************)
(* The page that adds a title (pages/create-title): its import tab, where  *)
(* a title of an external provider is selected, shown in a form with its   *)
(* poster and imported, and its upload tab, where the user fills the form. *)
(* The picture of either tab is held by the image-upload component, which  *)
(* crops and compresses what it is given and hands the result to the form. *)
(*                                                                         *)
(* Answers of the server, downloads, timers and the cropper come back in   *)
(* any order, and an import reads the page again at each of its stages:    *)
(* the picture once the movie exists, the form once the poster is stored,  *)
(* the selected title's backdrop last.                                     *)
(*                                                                         *)
(* A title's own poster, metadata and backdrop are the title itself;       *)
(* what the user types or chooses is a member of Pics or the form's        *)
(* "edited".  Images below the compressor's 10 MB go through it at once;   *)
(* compression of larger ones is part of the step that ends it.  The       *)
(* provider is taken at its word that every title has a runtime: without   *)
(* one updateFields would throw with the title selected and the form of    *)
(* the one before still there.                                             *)
(***************************************************************************)
EXTENDS Naturals, Sequences, FiniteSets

CONSTANTS Titles,         \* titles the search can offer
          WithBackdrop,   \* those with a backdrop URL
          Pics,           \* image files of the user
          None,           \* no title, no image
          MaxGiven, MaxSubmissions   \* bounds

VARIABLES
  tab,            \* "import" or "upload"
  selectedMovie,  \* the title whose metadata came last
  form,           \* [of, edited, valid]: whose metadata it shows
  imageFile,      \* the picture the form would send
  posterURL,      \* selectedResultPosterURL
  selections,     \* answers awaited: [no, title, at]
  imageUrl,       \* what the image-upload component shows
  originalImage,  \* the file it would crop by hand
  crops,          \* pictures in process: [no, pic, at]
  imports,        \* one record per submission
  gone,           \* the page was navigated away from
  given,          \* selections and pictures so far (for the bound)
  written,        \* history: the titles whose form the user edited
  wanted,         \* history: the picture last given, None once cleared
  spoilt          \* history: a picture crossed another, or one failed

pageVars == <<selectedMovie, form, imageFile, posterURL, selections>>
imageVars == <<imageUrl, originalImage, crops>>
historyVars == <<written, wanted, spoilt>>
createVars == <<tab, selectedMovie, form, imageFile, posterURL, selections, imageUrl,
                originalImage, crops, imports, gone, given, written, wanted, spoilt>>

Pictures == Titles \cup Pics
Stages == {"importing", "poster", "metadata", "backdrop", "uploading", "done", "failed"}

CreateTypeOK ==
  /\ tab \in {"import", "upload"}
  /\ selectedMovie \in {None} \cup Titles
  /\ form \in [of : {None} \cup Titles, edited : BOOLEAN, valid : BOOLEAN]
  /\ {imageFile, posterURL, imageUrl, originalImage, wanted} \subseteq {None} \cup Pictures
  /\ selections \subseteq [no : 1..MaxGiven, title : Titles, at : {"metadata", "poster"}]
  /\ crops \subseteq [no : 1..MaxGiven, pic : Pictures, at : {"download", "timer", "crop"}]
  /\ imports \in Seq([of : {None} \cup Titles, at : Stages, sent : {None} \cup Pictures,
                      pic : Pictures, edited : BOOLEAN, poster : {None} \cup Pictures,
                      meta : {None} \cup Titles, backdrop : {None} \cup Titles,
                      failed : SUBSET Stages, disturbed : BOOLEAN])
  /\ gone \in BOOLEAN
  /\ given \in 0..MaxGiven
  /\ written \subseteq {None} \cup Titles
  /\ spoilt \in BOOLEAN

CreateInit ==
  /\ tab \in {"import", "upload"}
  /\ selectedMovie = None
  /\ form = [of |-> None, edited |-> FALSE, valid |-> FALSE]
  /\ imageFile = None
  /\ posterURL = None
  /\ selections = {}
  /\ imageUrl = None
  /\ originalImage = None
  /\ crops = {}
  /\ imports = <<>>
  /\ gone = FALSE
  /\ given = 0
  /\ written = {}
  /\ wanted = None
  /\ spoilt = FALSE

(***************************************************************************)
(* History: what the page shows changed under the imports under way.       *)
(***************************************************************************)
Running(r) == r.at \notin {"done", "failed"}
Disturbed(rs) == [i \in DOMAIN rs |-> [rs[i] EXCEPT !.disturbed = @ \/ Running(rs[i])]]

GiveNext ==
  /\ ~gone
  /\ given < MaxGiven
  /\ given' = given + 1

\* A picture p (None: a clearing) is given while others may be in process.
Wants(p) ==
  /\ wanted' = p
  /\ spoilt' = (spoilt \/ selections # {} \/ crops # {})
  /\ UNCHANGED written

(***************************************************************************)
(* Selecting a title of the search (onMovieSelected).                      *)
(***************************************************************************)
SelectTitle(t) ==
  /\ tab = "import"
  /\ GiveNext
  /\ selections' = selections \cup {[no |-> given', title |-> t, at |-> "metadata"]}
  /\ Wants(t)
  /\ UNCHANGED <<tab, selectedMovie, form, imageFile, posterURL, imageVars, imports, gone>>

\* The title's metadata fill the form, valid or not; its poster is shown by
\* its URL and asked of the images proxy.  A title without one leaves the
\* picture that is there.
MetadataComes(s) ==
  /\ s \in selections /\ s.at = "metadata"
  /\ selectedMovie' = s.title
  /\ \E valid \in BOOLEAN : form' = [of |-> s.title, edited |-> FALSE, valid |-> valid]
  /\ \/ /\ posterURL' = s.title
        /\ imageUrl' = IF posterURL = s.title THEN imageUrl ELSE s.title
        /\ selections' = (selections \ {s}) \cup {[s EXCEPT !.at = "poster"]}
        /\ UNCHANGED spoilt
     \/ /\ selections' = selections \ {s}
        /\ spoilt' = TRUE
        /\ UNCHANGED <<posterURL, imageUrl>>
  /\ imports' = Disturbed(imports)
  /\ UNCHANGED <<tab, imageFile, originalImage, crops, gone, given, written, wanted>>

\* The downloaded poster becomes the form's picture.
PosterComes(s) ==
  /\ s \in selections /\ s.at = "poster"
  /\ imageFile' = s.title
  /\ selections' = selections \ {s}
  /\ imports' = Disturbed(imports)
  /\ UNCHANGED <<tab, selectedMovie, form, posterURL, imageVars, gone, given, historyVars>>

\* An answer that is an error: the picture of the form stays what it was.
SelectionFails(s) ==
  /\ s \in selections
  /\ selections' = selections \ {s}
  /\ spoilt' = TRUE
  /\ UNCHANGED <<tab, selectedMovie, form, imageFile, posterURL, imageVars, imports, gone, given,
                 written, wanted>>

\* Typing in the form; the result may equal the title's metadata again.
EditForm ==
  /\ ~gone
  /\ \E edited, valid \in BOOLEAN : form' = [form EXCEPT !.edited = edited, !.valid = valid]
  /\ imports' = Disturbed(imports)
  /\ written' = written \cup {form.of}
  /\ UNCHANGED <<tab, selectedMovie, imageFile, posterURL, selections, imageVars, gone, given,
                 wanted, spoilt>>

(***************************************************************************)
(* The image-upload component.                                             *)
(***************************************************************************)
\* setFile: shown at once, cropped 100 ms later.
SetFile(no, p) ==
  /\ originalImage' = p
  /\ imageUrl' = p
  /\ crops' = {c \in crops : c.no # no} \cup {[no |-> no, pic |-> p, at |-> "timer"]}

\* onFileChanged, onDrop.
ChoosePicture(p) ==
  /\ GiveNext
  /\ SetFile(given', p)
  /\ Wants(p)
  /\ UNCHANGED <<tab, pageVars, imports, gone>>

\* openCroppModal: the poster the URL names is downloaded to be cropped.
OpenCropModal ==
  /\ GiveNext
  /\ imageUrl # None /\ posterURL # None
  /\ crops' = crops \cup {[no |-> given', pic |-> posterURL, at |-> "download"]}
  /\ Wants(posterURL)
  /\ UNCHANGED <<tab, pageVars, imageUrl, originalImage, imports, gone>>

\* The crop the user made by hand of the file last set.
CropByHand ==
  /\ GiveNext
  /\ imageUrl # None /\ originalImage # None
  /\ crops' = crops \cup {[no |-> given', pic |-> originalImage, at |-> "crop"]}
  /\ Wants(originalImage)
  /\ UNCHANGED <<tab, pageVars, imageUrl, originalImage, imports, gone>>

DownloadToCrop(c) ==
  /\ c \in crops /\ c.at = "download"
  /\ \/ SetFile(c.no, c.pic) /\ UNCHANGED spoilt
     \/ crops' = crops \ {c} /\ spoilt' = TRUE /\ UNCHANGED <<imageUrl, originalImage>>
  /\ UNCHANGED <<tab, pageVars, imports, gone, given, written, wanted>>

\* imageProcessing: the cropper takes what is shown by now, if anything is.
CropTimer(c) ==
  /\ c \in crops /\ c.at = "timer"
  /\ crops' = (crops \ {c}) \cup
       (IF imageUrl = None THEN {} ELSE {[c EXCEPT !.at = "crop", !.pic = imageUrl]})
  /\ UNCHANGED <<tab, pageVars, imageUrl, originalImage, imports, gone, given, historyVars>>

\* setCroppedImage and emitFile, or a crop that fails.
CropEnds(c) ==
  /\ c \in crops /\ c.at = "crop"
  /\ crops' = crops \ {c}
  /\ \/ imageFile' = c.pic /\ imageUrl' = c.pic /\ imports' = Disturbed(imports) /\ UNCHANGED spoilt
     \/ spoilt' = TRUE /\ UNCHANGED <<imageFile, imageUrl, imports>>
  /\ UNCHANGED <<tab, selectedMovie, form, posterURL, selections, originalImage, gone, given, written, wanted>>

\* Mutant: the form is not told.
ClearPictureShown ==
  /\ GiveNext
  /\ imageUrl # None
  /\ imageUrl' = None
  /\ originalImage' = None
  /\ Wants(None)
  /\ UNCHANGED <<tab, pageVars, crops, imports, gone>>

\* clearFile: the form loses its picture at once.
ClearPicture ==
  /\ GiveNext
  /\ imageUrl # None
  /\ imageUrl' = None
  /\ originalImage' = None
  /\ imageFile' = None
  /\ imports' = Disturbed(imports)
  /\ Wants(None)
  /\ UNCHANGED <<tab, selectedMovie, form, posterURL, selections, crops, gone>>

(***************************************************************************)
(* Submitting.  The button asks for a valid form and a picture, not that   *)
(* no submission is under way.                                             *)
(***************************************************************************)
CanSubmit == ~gone /\ form.valid /\ imageFile # None /\ Len(imports) < MaxSubmissions

Submission(t, at, p) ==
  [of |-> t, at |-> at, sent |-> p, pic |-> imageFile, edited |-> form.edited, poster |-> None,
   meta |-> None, backdrop |-> None, failed |-> {}, disturbed |-> FALSE]

\* onSubmit of the import tab.
SubmitImport ==
  /\ CanSubmit
  /\ selectedMovie # None
  /\ imports' = Append(imports, Submission(selectedMovie, "importing", None))
  /\ UNCHANGED <<tab, pageVars, imageVars, gone, given, historyVars>>

\* onSubmit of the upload tab: form and poster in one request.
SubmitUpload ==
  /\ CanSubmit
  /\ tab = "upload"
  /\ imports' = Append(imports, Submission(None, "uploading", imageFile))
  /\ UNCHANGED <<tab, pageVars, imageVars, gone, given, historyVars>>

\* downloadAndUploadBackdrop, if the title selected by now has a backdrop.
TowardsBackdrop(r) ==
  IF selectedMovie \in WithBackdrop
  THEN [r EXCEPT !.at = "backdrop", !.sent = selectedMovie]
  ELSE [r EXCEPT !.at = "done"]

\* isEdited: the form differs from the metadata of the title selected now.
IsEdited == form.of # selectedMovie \/ form.edited

\* updateMovieMetadata, if the form differs and is valid.
TowardsMetadata(r) ==
  IF IsEdited /\ form.valid
  THEN [r EXCEPT !.at = "metadata", !.sent = form.of]
  ELSE TowardsBackdrop(r)

\* uploadPoster, if the form has a picture by now.
TowardsPoster(r) ==
  IF imageFile # None
  THEN [r EXCEPT !.at = "poster", !.sent = imageFile]
  ELSE TowardsMetadata(r)

\* The answer at stage r.at was good: what the movie got, and what is next.
Stored(r) ==
  CASE r.at = "importing" -> TowardsPoster(r)
    [] r.at = "poster"    -> TowardsMetadata([r EXCEPT !.poster = r.sent])
    [] r.at = "metadata"  -> TowardsBackdrop([r EXCEPT !.meta = r.sent])
    [] r.at = "backdrop"  -> [r EXCEPT !.at = "done", !.backdrop = r.sent]
    [] r.at = "uploading" -> [r EXCEPT !.at = "done", !.poster = r.sent]

\* Mutant: any failure ends the submission.
NotStoredGivesUp(r) ==
  [r EXCEPT !.failed = @ \cup {r.at},
            !.at = IF r.at \in {"importing", "uploading"} THEN "failed" ELSE "done"]

\* It was an error: without a movie the submission ends, with one it goes on.
NotStored(r) ==
  LET failed == [r EXCEPT !.failed = @ \cup {r.at}] IN
  CASE r.at \in {"importing", "uploading"} -> [failed EXCEPT !.at = "failed"]
    [] r.at = "poster"   -> TowardsMetadata(failed)
    [] r.at = "metadata" -> TowardsBackdrop(failed)
    [] r.at = "backdrop" -> [failed EXCEPT !.at = "done"]

\* An import that is done navigates to the page of its movie.
Advance(i) ==
  /\ i \in DOMAIN imports /\ Running(imports[i])
  /\ \E r \in {Stored(imports[i]), NotStored(imports[i])} :
       /\ imports' = [imports EXCEPT ![i] = r]
       /\ gone' = (gone \/ r.at = "done")
  /\ UNCHANGED <<tab, pageVars, imageVars, given, historyVars>>

CreateNext ==
  \/ \E t \in Titles : SelectTitle(t)
  \/ \E s \in selections : MetadataComes(s) \/ PosterComes(s) \/ SelectionFails(s)
  \/ EditForm
  \/ \E p \in Pics : ChoosePicture(p)
  \/ OpenCropModal \/ CropByHand \/ ClearPicture
  \/ \E c \in crops : DownloadToCrop(c) \/ CropTimer(c) \/ CropEnds(c)
  \/ SubmitImport \/ SubmitUpload
  \/ \E i \in DOMAIN imports : Advance(i)

(***************************************************************************)
(* Properties.                                                             *)
(***************************************************************************)
\* Whatever is selected or typed while it runs, an import never writes a form
\* the user has not edited over the metadata of the movie.  And if the page
\* was left alone it stores what the page showed when it was submitted: the
\* movie gets the picture of the form, the form's metadata exactly if they
\* were edited, and the backdrop of the title if it has one; a stage that
\* failed only loses its own part.
ImportStoresWhatWasShown ==
  \A i \in DOMAIN imports :
    LET r == imports[i]
        Part(stage, shown) == IF stage \in r.failed THEN None ELSE shown
    IN  /\ r.meta \in {None} \cup written
        /\ r.at = "done" /\ ~r.disturbed /\ r.of # None =>
              /\ r.poster = Part("poster", r.pic)
              /\ r.meta = Part("metadata", IF r.edited THEN r.of ELSE None)
              /\ r.backdrop = Part("backdrop", IF r.of \in WithBackdrop THEN r.of ELSE None)

\* Once nothing is in process, the picture the form would send is the one
\* given last, or none if it was cleared, unless two pictures were in
\* process together or one failed.
PictureIsTheLastGiven ==
  ~spoilt /\ selections = {} /\ crops = {} => imageFile = wanted
=============================================================================
