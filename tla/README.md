# NETIX in TLA+

NETIX is a self-hosted film library: a NestJS backend (`ntx-backend-nestjs`, MongoDB for
the records, Redis with BullMQ for background jobs, a directory for the files) and an Angular
frontend (`ntx-web-fe-angular`). This directory is a formal model of it: TLA+ modules translated
from the source, TLC configurations that check them on small instances, and proofs that TLAPS
checks for instances of every size. `PROJECT.json` lists the components, the runs, the mutants
that show that every property can fail, the source lines of every definition, the disagreements
between code and documentation, and the hazards the properties are for.

Paths below are relative to `src/ntx-backend-nestjs/src/` (backend) and
`src/ntx-web-fe-angular/src/app/` (frontend).

## Inventory

| Component | State | Operations | Hard behaviour | What makes it correct |
|---|---|---|---|---|
| Videos (`videos/`, `job-queue/`) | record (`NOT_READY`, `PROCESSING`, `READY`), file in container `videos`, two BullMQ queues | `createOneFromFile`, `addDeleteVideoJob`, `ProcessVideoWorker`, `DeleteVideoWorker` | two workers and the service run concurrently; crashes; a stalled job runs twice; the job is queued before its record exists | a READY video is complete; complete files are not overwritten; uploads settle; deletions remove everything |
| Movies (`movies/`) | one document per movie, unique index on the hash | create, import, rename, change poster / backdrop / video, publish, unpublish, delete | handlers read a movie, await something else, and write the *whole* movie back | unique contents, deleted movies stay deleted, no lost update, no orphaned or missing video |
| Images (`images/`) | files of every size of a poster or backdrop, two queues | `addCreatePosterJob`, `deleteOne`, two workers of concurrency 3 | the raw file is removed while it is read; deletion races creation; second run | all sizes or none; nothing left after a deletion |
| File storage (`file-storage/`) | files in containers | upload, download, remove, stat | check-then-act on the file system | no overwriting, no truncated file served |
| Resumable upload (`file-storage/tus/`) | upload file, its config file | tus POST, HEAD, PATCH | concurrent PATCHes, interrupted uploads, completion hook | every byte once, completion once |
| Multipart upload (`file-storage/multer/`) | temporary files | store a part | names made from a timestamp | names are unique |
| Video streaming (`videos/video-stream.controller.ts`) | the open file of a request | range request | the record and the file change between the awaits; boundaries of the Range header | what is served is the whole, unchanged file, as many bytes as promised |
| Movie list cache (`movies/movies.controller.ts`) | one cache entry, 10 s to live | get all, clear | stale result stored after a clear; handlers that do not clear | staleness is bounded |
| Audit log (`movies/events/`) | log collection | eight subscribers | asynchronous, errors swallowed | one entry per change, in order |
| External titles (`external-providers/`, `library/`) | rate limiter's last call | search, metadata | one limiter for everybody, paging, failing providers | calls stay apart, results are complete or none |
| Authentication (`auth/`) | none in the backend | guards | a token's claims and those of the user now differ, or are incomplete | the guards of both sides agree |
| Frontend: login (`auth/`, router, navbar) | user, token, viewer mode, timers, subscriptions | sign in, return, refresh, log out | time-outs race the provider; timers and subscriptions outlive their page | the user shown is the token's; the sign-in ends |
| Frontend: search and import | the last term, form, picture, stages of an import | type, select, choose or crop a picture, submit | answers out of order; an import reads the page again at each stage | what is stored is what was shown |
| Frontend: page of one movie | movie, pictures, dialogs, delayed loads, uploads | dialogs, requests, upload | answers out of order, dialogs over a movie that has changed | the page agrees with the server; changes are made to what was shown |
| Frontend: player | one service for all pages, intervals, listeners | play, space bar, timeline | key repeat, listeners nobody removes | the film plays, the speed returns, the time sought is the pointer's |
| Images proxy, application shell, DTO validation | — | — | — | not modelled, see below |

How they interact: `MoviesController` calls `MoviesService`, which calls `VideosService`,
`PostersService` and `BackdropsService`; those queue BullMQ jobs that the workers of the same
process take. The tus PATCH handler calls `updateVideoForOne` when an upload is complete. Handlers
emit events that `MoviesSubscriber` writes to the audit log. Nothing spans two MongoDB documents in
a transaction, so every `await` is a place where another request, a worker or a crash can come in.

## Modules

| Module | What it is |
|---|---|
| `VideoStore` | abstract specification: what the videos module promises to its callers |
| `VideoPipeline` | the videos module in detail; implements `VideoStore` |
| `VideoStream` | extends `VideoPipeline` by a client that is served the video meanwhile |
| `VideoProofs` | the proofs about `VideoPipeline` and, on top of them, about `VideoStream` |
| `MovieCatalog` | `MoviesService` and its controllers, over `VideoStore` |
| `MovieCatalogProofs` | the proofs about `MovieCatalog` |
| `ImageStore` | abstract specification: what the images module promises |
| `ImagePipeline` | posters and backdrops in detail; implements `ImageStore` |
| `ImagePipelineProofs` | the proofs about `ImagePipeline` |
| `UploadStore` | abstract specification: what a resumable upload promises to `MoviesController` |
| `TusUpload` | the upload of a video with its client; implements `UploadStore` |
| `TusUploadProofs` | the proofs about `TusUpload` |
| `MoviesApi` | what the controllers of movies do around `MoviesService`: events, audit log, cached list |
| `MoviesApiProofs` | the proofs about `MoviesApi` |
| `TitleSearch` | search and details of titles: handlers, providers, the shared rate limiter |
| `TitleSearchProofs` | the proofs about `TitleSearch` |
| `AccessControl` | roles, permissions and the two guards of the backend, as operators |
| `WebAuth` | one tab of the web client from sign-in to sign-out, over `AccessControl` |
| `WebAuthProofs` | the proofs about `WebAuth` and `AccessControl` |
| `SearchBar`, `CreateTitle`, `InspectPage`, `VideoPlayer` | the pages of the web client that have state of their own |
| `WebPages` | the four pages behind one router |
| `WebPagesProofs` | the proofs about the four pages |
| `MCVideoPipeline`, `MCVideoStream`, `MCMovieCatalog`, `MCImagePipeline`, `MCTusUpload`, `MCMoviesApi`, `MCTitleSearch`, `MCWebAuth`, `MCWebPages` | instances for TLC |

Every type invariant is a theorem (`TypeCorrect`, `StreamTypeCorrect`).

### VideoPipeline

One variable for each thing that survives a crash — `state` and `sizeInBytes` (the collection),
`file` (the length of the file in the container, in chunks), `processQueue` and `deleteQueue`
(Redis), `processStalled` and `deleteStalled` (jobs whose worker died) — and for what does not:
`process` and `deletion`, the two workers with their active job, and `creation`, the progress of
`createOneFromFile`. `asked` is a history variable.

An action is one awaited operation. `handleProcessVideoJob` is, in order, `MarkProcessing`
(`process-video.worker.ts:53`), `CheckFileType` (56-83), `EnsureFile` and `OpenFile` (the two
steps of `uploadStream`, `file-storage-local.class.ts:62-75`: existence check and `ensureFile`,
then `createWriteStream`, which truncates), `CopyChunk`, `FinishCopy` (the pipe), `ReadSize`
(`getFileMetadata`), `MarkReady` (112-121) and `CompleteProcessJob`. The delete worker is
`UnlinkFile` (whose error is swallowed: `UnlinkFails`), `DropRecord`, `CompleteDeleteJob`. When a
file is unlinked during the copy the rest of the copy is lost with it and the worker notices only
in `ReadSize`. `Crash` ends both workers and every call in progress; BullMQ then finds the jobs
stalled and runs each of them once more (`maxStalledCount` is 1 by default and the code does not
set it). `ProcessJobThrows`, `DeleteJobThrows`, `InsertRecordFails` and `QueueDeleteJobFails` are
rejected awaits; `attempts` is 1, so a failed job is not repeated.

Left out: the names and types in the record, job progress and logs, the raw uploaded file (it is
never removed by this code), the format detection itself (`Genuine` says which uploads are MKV).

Runs, with two videos, at most one waiting delete job, and two chunks to a file where writing is of
interest (one chunk is a file that is empty or complete, two make a partial file possible). The
safety run of the pipeline is that of `VideoStream`:

- `pipeline_liveness` (fair; one chunk; one fault of any kind, or two crashes): `UploadSettles` and `DeletionSettles`.
  The first is about behaviours without a crash or a rejected await, other than those of
  deletions, and has to except the uploads whose job is over before the record is inserted: those
  stay `NOT_READY` (hazard at `videos.service.ts:39`). The second is about deletions of videos whose
  processing is over and holds through a crash and whatever fails elsewhere. Two things may leave record
  and file: an await of the deletion itself that rejects (`throwOnDelete`), and a second crash in the
  same job, which BullMQ then does not run a third time (`StalledAgain`).
- `pipeline_orphan` (expected violation): `DeletedLeavesNoFile`, see findings.

Fairness: the pending insertion, the two workers and BullMQ's stalled check are weakly fair; each
is always running or rescheduled by the event loop or by BullMQ's timer while the process is up.
That somebody starts the process again after a crash is an assumption: the repository's
`docker-compose.yml` restarts MongoDB and Redis only. Clients, faults and crashes are not fair. `CopyChunk`
and `FinishCopy` are part of one fair worker: a stream that makes progress ends.

### VideoStream

`GET /videos/:id/stream`, served while the workers of `VideoPipeline` go on. `reader` is the request:
`FindVideo` (the record is read), `CheckVideo` (404 unless it was `READY` with a file,
`video-stream.controller.ts:64`), `StatFile` (the size of the file by then), `TakeRange` and
`RefuseRange` (the header, parsed as `parseInt` does: any of the two positions may be `NaN` or
missing; the answer's head is sent), `OpenStream`, `SendChunk`, `EndBody`, `ClientLeaves`,
`ReaderThrows`. `createReadStream` opens the file later than it returns: by then it may be gone,
and since nobody listens to the stream's error, `OpenStreamFails` is a `Crash`. An open file
keeps its contents when its name is removed, and not when it is truncated. `pipe` leaves the file open when the client
goes away (`ClientLeaves`); nothing is ever done with it again, so it needs no state.

Two limits of what is promised show in the definition of `BodyIsExact`: an end past the end of the
file promises more than there is to send; and a video whose deletion was asked for may, after a
fault, be written again while it is read, so that its request ends short.

- `pipeline_safety`: the pipeline with one request at any time, one fault of any kind at any
  step, files of two chunks so that ranges of no, some and all chunks exist. `StreamTypeOK`,
  `ReadyIsComplete`, `ServedFromWholeFile` (what is open or was measured is the complete file,
  unless the video is being deleted), `BodyIsExact`, and that the whole implements `VideoStore`.
  Requests share nothing, so one is enough; the theorems are for any number of faults.

### MovieCatalog

`movies` is the collection, `request` the requests being served: how far each is, the copy of the
movie it has read and its answer. `images` and `dropped` are the calls to the images module;
`state`, `bytes`, `known` and `asked` are the videos module, whose steps are those of `VideoStore`
— justified by the theorem that `VideoPipeline` implements it. An id that a request generates is
modelled by the request, which is sent once; so `Requests` bounds movies, images and videos.

A handler is a sequence of actions, one for each awaited operation: `createOneWithPoster` is
`CheckHash`, `QueueFirstPoster`, `InsertMovie`; `updateOne` is `Rename`; the others start with
`findOneByUUID` (`ReadForImage`, `ReadForVideo`, `ReadToPublish`, `ReadToDelete`), go on with
`QueueImage`, `AskDeletion`, `StoreVideo` and end with `WriteBack`, `WritePublished` or
`RemoveMovie`. `WriteBack` writes the whole copy, as the code does. `deleteOne` starts the deletion of
the images, without waiting for it, in the step before `RemoveMovie` (`DroppedWith`). A movie made without
a poster has the `Default` one, which it shares with others. With `Failing`, any awaited
operation may reject (or the process die) and the request ends half way with 500.

Left out: validation of the DTOs (a request that is refused changes nothing), the metadata other
than the name, requests for ids nobody ever got (they are answered 404 and change nothing), the
cache and the events (`MoviesApi`).

Runs:

`alone` says of a behaviour that its clients never work on the same movie at the same time;
`Manners` is the set of values it may have.

- `catalog`: both manners of clients in one run. Clients who share movies send three requests of every kind, interleaved at every
  await and failing anywhere: `UniqueHash`, `GoneForGood` and `ImagesKept` (a movie's own images are not
  removed, unless a deletion of that movie is under way or has failed) hold although they do.
  Three requests are a creation and two that race on its movie. Clients who work on a movie one at
  a time send four, of the kinds that differ in what they write: `VideosAreOfMovies` (no stored
  video without its movie, no movie whose video has no record) and `OwnPartChanged` (no lost update)
  hold for these only. The requests are symmetric. `VideoStore` lets a file exist before its video;
  the run leaves that out for requests that were not sent, whose ids are not generated yet.
- `catalog_unpublished`: an expected violation, see findings.

### ImagePipeline

`raw` and `files` are the file system (which images have their uploaded file, and how far the file
of each size is), `waiting`, `stalls` and `stalled` what BullMQ keeps. `working`, `rawStep`,
`reader`, `writer`, `removing` and `dying` live in the process and are lost with it: the active
jobs, the removal of the raw file, the first and the last stream of each size, the removals
`deleteOne` still has to do, and whether the process is about to end. `queued`, `made` and
`dropped` are history variables.

`TakeJob` is `handleCreatePosterJob` up to its first turn of the event loop: all sizes look for the
raw file and for their own file (`SizeThrows`) and ask for their streams, and the removal of the
raw file is asked for. From there the streams go on by themselves: `OpenRaw`, `OpenFile`
(`ensureFile`, then `createWriteStream`), `FinishFile`, `DecodeFails`, `SizeFails`, and `RemoveRaw`
with `RemoveRawFails`. The job ends by `CompleteJob`, `JobThrows` or `ProgressFails`.

An error that has no handler ends the process: the logger is made with `handleExceptions` and
`handleRejections` (`main.ts:87`), and winston's default is then to exit within three seconds. The
model sets `dying` and leaves `Exit` to come at any later step. That is the case for an image sharp
cannot read, for a raw file that is gone when it is opened, and for any promise of a size that is
rejected before the raw file is removed, which is when `Promise.all` gives it a handler. `Crash` is
the end of the process for any other reason; it is assumed to be started again.

`LateOpens` says whether the thread pool may carry out the removal of the raw file before the opens
that were asked for earlier. The safety run, where anything may fail, allows it; `images_liveness`
does not, so that the raw file is there for every first run.

Left out: the pixels (a raw file is readable or not, `Decodable`), the names, the reading
controllers. A backdrop is the same code with one size. Two posters share no file, so two images
are enough to have one job disturb another; two sizes are enough for a job that is half done.

- `images_safety`: one fault of either kind, one image that cannot be decoded, `Concurrency = 1`,
  so that one of the jobs waits while the other runs, fails or is recovered.
  `MadeIsWhole` and that the pipeline implements `ImageStore`. The sizes are symmetric.
- `images_liveness` (fair, one crash, readable images): `ImageSettles`, about behaviours without the
  crash, and `DeletionSettles`, about deletions that come when nobody works on the image; one that
  races the job may leave files, as the model shows.

Fairness: the streams, the file system, the worker, BullMQ's stalled check and the exit that was
begun are weakly fair; nothing in the code can hold any of them back for ever. Clients, faults and
crashes are not.

### TusUpload

One client and one file. `phase`, `upload`, `offset`, `attempt`, `retryFrom` are the client
(`video.service.ts` and the `tus-js-client` it configures), `contents` and `known` the storage
(`FileStorageDataStore` and its config store), `lock`, `at`, `end` the PATCH that is being served for
each upload, `posts` the POSTs, `late` requests on the way whose client has given them up, `updating`
the calls of `updateVideoForOne`. What survives a crash is the storage; the lock and all requests end
with the process. Byte i is modelled by the number i, so that the sequence shows a byte that is
missing, doubled or out of place. `completed`, `faults` and `hit` are history.

`CreateFile` and `SaveConfig` are the two steps of `create`, `AskOffset` is HEAD (`getUpload`: the
offset is the size of the file), `StartPatch`, `WriteByte` and `EndPatch` are `write`, which opens the
file with `r+` at the offset; `EndPatch` also answers, releases the lock and hands a finished file to
the handler, whose `updateVideoForOne` is `UpdateVideo`. The tus library and the network are not in
the repository; they are modelled from how the code configures them and are marked external: the
server works on one request of an upload at a time, answers 409 to a wrong offset, aborts a request
that another waits for, treats the end of a lost connection as the end of the data; the client
retries as often as `retryDelays` is long and begins again after progress, asks for the offset before
it goes on, does not retry statuses 4xx other than 409, and starts all over if the HEAD is refused
(`HeadRefused`) or fails (`HeadFails`).

Left out: metadata, the movie's other changes (`MovieCatalog` has the races of `updateVideoForOne`
with them), `remove`, `deleteExpired` (nothing calls them) and `declareUploadLength` (for clients
that do not know the length of the file).

- `uploads_faults` (fair): files of up to three bytes in chunks of two, so that a file needs one or
  two PATCHes and the last is shorter; two retries; three faults, of any kind, at any step: enough
  for an answer that is lost, a late PATCH and a crash in one upload. Three ids are as many POSTs as
  the client can send. That it implements `UploadStore`, `UploadEnds`, `DoneMeansVideo`.

Fairness: the client's timers, what it sends while it is connected, and the server's event loop.
The rest of what a lost connection was sending need not arrive.

### MoviesApi

A request (`kind`, `step`, `about` a movie) finds its movie (`Find`, for the kinds that do), changes the
database (`Change`, which stands for the action of `MovieCatalog` that writes) and then, when `MoviesService` returns, its handler emits an event, clears
the cached list and answers, all in one turn of the event loop: `Create`, `Import`, `UpdatePoster`,
`UpdateBackdrop`, `PostVideo`, `PatchVideo`, `Update`, `Publish`, `Unpublish`, `Delete`, one for each
handler, which differ in whether they emit and whether they clear. A movie may be deleted between `Find` and the
write: publishing and unpublishing then fail (`Refuse`), the other kinds do not notice (`Miss`). The subscriber has taken the time
of the entry by then and inserts it by itself (`recording`, `Record`, `RecordFails`); `log` is the
collection, which is listed in the order of `createdAt`. `reader` are the `GET /movies` being served:
`AnswerFromCache`, or `AskDatabase`, `ReadAll`, `CacheList`. A list is modelled by the changes it shows,
so the model tells which change is missing in it. `cache` and everything in progress are in the
process and end with it (`Crash`). `before`, `missed` and the fields `overtaken` are history.

Time is counted in `now`. `MaxRead` is an assumption: a list is read and cached within that time of the
request. Left out: the contents of entries, the movies in a list, logs.

- `api_requests`: two requests of any of the ten kinds, about one movie or two, one after the other or at the same time, one
  reader that asks again and again, a list that lives one instant and takes one to read, three instants
  (the shortest in which a list could be too old), one fault. Two requests are what it takes for a log
  in the wrong order; a cached list comes from one reader, so one is enough for what it misses; the
  proofs are for any number. `LogIsTrue` says that every entry is about a change that was made,
  unless the movie was deleted by a request that was not answered when this one was sent (`EntriesAreTrue`), that entries are in the order of the requests (`LogInOrder`) and that, unless
  something fails, no change is without one (`ChangesAreLogged`); `ListIsRight` that a list misses
  only what is recent (`ListIsRecent`) and, of what clears the cache, only what overtook it
  (`MissingOnlyIfOvertaken`). The requests are symmetric.

### TitleSearch

`calls` are the requests to the three handlers that ask for titles — `LibraryController.search`,
`getExternalTitleMetadata`, `MoviesImportController.import` — from the checks of their parameters to
the answer; `lastCallTime` is the one limiter every call to TMDB passes, `now` the clock. A search
goes through the catalogue, then page after page of TMDB, then the selector (without a date or
popularity left out, normalised popularity above a threshold, the similar ones, the first few). The limiter
waits for nothing: a call that comes too early is answered at once with an empty list, or with no film. TMDB, its
listing and Fuse.js's idea of similar are external and given as constants. A limit that is no number passes the
comparisons of the controller; it is answered with the empty slice.

- `titles`: three calls; limits of one, two and none (`NaN`); a query that fills three pages, of which two are read, and has more films
  than the selector keeps; one with few films, one of them not similar; a film without a date; an identifier of no
  film. Three instants with one between two calls: enough for a call let through, one refused and
  one let through again. `CallsApart`; `RefusedForAnother` (refusals only because of another call shortly
  before); `WholeOrNothing` (an answer is the selection of all pages, or empty because a
  call was refused or failed, never of a part); `NotFoundUntried` (404 for a film TMDB has
  only if the call was refused or failed). The calls are symmetric.

### AccessControl and WebAuth

`AccessControl` has the backend's roles, the permissions of each, the claims they come from (the
roles claim if the token has one, else the provider's groups), and the two guards a request passes.
A token may lack a claim the mappers need (`complete`), or list a role that is not in the table of
permissions, which makes `hasPermission` throw: both are refusals. The identity token is taken to
have the claims of the access token. `WebAuth` is one tab: the
`page` shown and the page the router is `going` to, the `user` the service publishes, the access
`token` in the session storage, `viewer` mode in the local storage, the `claims` the provider gives,
and `app`, what is in the memory of the tab: the discovery document, the exchange under way, and
the timers and subscriptions each page has left behind (`subs`, `redirects`, `lateCounts`,
`lateWaits`, `logins`), which act on whatever page is shown when they fire. `kind` says which of the two services is
provided. `UserLoads` is an address typed or a reload, which ends all but the storage. Where no user can
be made of a token the mapper throws in the event's handler: the user, the viewer mode and the page
stay as they were (`Updated`), and a document loaded with such a token in the storage shows nothing. The provider
may answer or not, in any order with the timers.

- `web_session` (fair): either service, three acts of the user besides signing in: enough to go
  to a page, leave it, and come back with something left behind. The provider may give claims of a viewer, of
  a manager by group and by the roles claim, with a role nobody knows, and with a claim missing.
  `UserIsOfToken`; `GuardsAgree` (what is offered to a manager with a valid token both sides understand
  is not refused by the backend, and nothing is done for others);
  `ViewerModeIsManagers`; `SignedInStays` (a user who is signed in and does nothing stays
  where he is, unless a timer or subscription left behind fires); `SignInPagesEnd` (neither the callback nor the login
  page keeps anybody); `TypeOK`.

Fairness: the router's own steps, the request for the discovery document (it comes or fails), the
time-outs, the countdown and the immediate login of the fake service. Neither the user, the
provider's answer to a login, nor the token's life is fair. All of these are timers or local to the page.

### WebPages

The router shows one page at a time, so a behaviour is a visit to one of four, whose modules are
instantiated by `WebPages` and share nothing; a run of the product of all would explore the same
states. Each has as state the fields of its components and services, and as actions the user's
acts, the timers and the answers, which come in any order.

- `SearchBar`: debounced terms (`distinctUntilChanged`), searches that are not cancelled.
  `ListsWhatWasAsked`: unless a term was handled while an older search was on, the list is of the
  last term once nothing is under way, and the throbber shows exactly while a search is on.
- `CreateTitle`: selecting a title fills the form and its picture; `ImageUpload` crops and
  compresses, each picture by itself; an import creates, then stores the poster, the form if it was
  edited, and the backdrop, reading the page again each time. `ImportStoresWhatWasShown`: unless
  something was changed meanwhile, the movie has the picture and the form of the title that was
  submitted, and an unedited form is not sent; `PictureIsTheLastGiven`, unless pictures were in
  process together. Titles are taken to have a runtime, as the interfaces declare: without one
  `updateFields` would throw after the title was selected.
- `InspectPage`: the movie as the page holds it against the `server`'s; dialogs that hold the movie of
  when they opened, requests, pictures loaded half a second later, the log, uploads and their progress.
  Each part of a movie is the number of the request that last wrote it, and `days` how far its date
  has moved: the form shows the date, stored as midnight UTC, as the local day (`formatDate`) and every save
  sends that day, so `behind` UTC it goes a day back (`Shift`) unless it was entered anew, and a form that the
  setting was told of always counts as edited (`Edited`). (A date entered a day later than shown counts as
  unchanged in the code there; the model does not tell the days that are entered apart.) A handler is atomic
  here (`Serve`; what it does inside is `MovieCatalog` and `MoviesApi`), but the entry of its event is
  inserted by a subscriber afterwards (`LogEntry`, or it fails to), the POST of an upload emits its event at
  the beginning (`UploadBegins`), and the last PATCH is answered (`UploadWhole`) before the movie has the
  video (`VideoNamed`, or an await rejects). `PageAgrees`: once everything has
  come, page and server agree, the log too unless an entry came when nothing made the page
  ask again (`unread`), and an upload is shown as long as it lasts;
  `ChangesAreOfTheMovieShown`: a confirmed dialog changes what the user edited, of the movie it
  showed, and nothing else but the date as said. Both are about behaviours in which no two requests overlapped
  and nothing else was lost (`apart` is the history variable that says otherwise).
- `VideoPlayer`: the service keeps its last value and its listeners from page to page; the space bar
  starts an interval at each keydown; dragging and the reports of the player write the same time. The player
  is made with autoplay and may start by itself (`Autoplay`) before or after it is ready, and the ready
  callback toggles it (`PlayerReady`). `FirstViewPlays`: the first video plays once its player is ready, exactly
  if autoplay was not faster; `SpaceBarIsObeyed`: the speed is doubled only while the key
  is held, and a key that was not repeated leaves it normal without pausing; `SeeksWhereDragged`.

- `web_pages`: two terms and five changes of the input; two titles, one with a backdrop, a picture
  of the user, two pictures or selections and one submission; two fields, one of them the date, two acts and so two
  overlapping requests, one POST for each upload (a repeated one, which adds an entry to the log, is left to
  the proofs); two views of the player, three keydowns, two points in time. Each is what
  it takes for two of a kind to cross. The constraint `Together` stops behaviours of `InspectPage`
  at the first state with `apart` or in which the page was left: neither becomes false again. `PageAgrees`
  says nothing of such states, and `ChangesAreOfTheMovieShown` only of requests still on their way when the page was
  left, which are left to the proofs. A page
  that comes from the creation of its movie is explored with a clock that is not behind UTC only.

`CHECK_DEADLOCK FALSE` is in every configuration because each of these systems may stop: when every
request is answered, every queue empty and nobody sends anything, there is no step to take.

## Findings

Each is an expected violation of a run, with the quoted line in `PROJECT.json`.

1. `pipeline_orphan` (`DeletedLeavesNoFile`): a video deleted while (or just before) it is processed leaves its file for good.
2. `catalog_unpublished` (`PublishSticks`): changing the poster undoes a publication that happened in between.

Also visible in the model, without a run of their own: renaming a movie keeps the old hash, so the
old contents stay taken and the new ones can be created again; of two simultaneous creations of the
same movie one is answered 500, not 409; a job that fails, or that is run
again after its file was stored, leaves the record `PROCESSING` for ever (`FAILED` is declared and
never assigned); a `READY` video whose worker dies before the job is acknowledged stops being served;
a video uploaded while its movie is deleted is never removed; a deletion whose last await fails leaves
the movie without its images; deleting a movie that has the default poster asks for the removal of the
poster all such movies share; a delete job whose process dies twice is given up with record and file left;
an image that cannot be decoded ends the process, and with it the jobs of other images; a video whose
upload the user was told to be successful does not exist if the server dies, or fails, after the last
answer; a new poster, backdrop or second
deletion of a movie that was deleted meanwhile is answered and logged though nothing was changed; a PATCH stores bytes for a movie that was deleted meanwhile and answers as if it existed; the entry of a new poster in the audit log names the movie instead of the
poster (`movies.controller.ts:196`), that of an upload is written when the upload begins and names no
video (263), and the end of the upload has none; a deleted movie and a new backdrop are missing from
the cached list until it expires; a stream whose file is removed before it is opened ends the
process; a range past the end of the file promises bytes that never come; users who search at the
same time are told that there are no titles; a subscription left by the callback page, the timer of the error page or a login
left half way takes the user from the page he is on; the answer to an older search can replace a
newer one's; a form that was reset is saved with the edits; an edit dialog changes back what was
changed since it opened; behind UTC every save of the form that leaves the date alone moves it a day back;
an entry of the audit log that is inserted after the page last asked is not shown; repeated keydowns leave
intervals that nobody ends; a first video that autoplay starts before its player is ready is paused by the
page; on a second visit the player is toggled once for every earlier visit.

## Proofs

Every invariant and every action property of the runs that pass, and every refinement, is a theorem for
all values of the constants; every invariant used was model-checked before it was proved. Liveness is
model-checked only (last paragraphs).

`VideoProofs` proves of `VideoPipeline`, for every set of videos, file length, and number of jobs and
faults, from the assumptions of `VideoPipeline` only:

- `TypeCorrect`: `Spec => []TypeOK`
- `ReadyCorrect`: `Spec => []ReadyIsComplete`
- `CompleteFileCorrect`: `Spec => CompleteFileKept`
- `PipelineImplementsStore`: `Spec => ImplementsVideoStore`
- `DeletionIsFinal`: `Spec => NothingComesBack`
- `UploadsEndReady`: `Spec => []NotLeftHalfWay`

`ReadyIsComplete` is not inductive. The invariant is `PipelineInv`: a delete job is only ever for a
video in `asked` (`JobsAsked`), which only holds videos that `createOneFromFile` has returned
(`AskedReturned`); between its first and its last update the video in work is not `READY`
(`WorkedIsNotReady`), so the truncation in `OpenFile` never hits a `READY` video; and the file is as
long as the step of the worker says, or gone because it was deleted (`FileFollowsWork`), so that the
size read in `ReadSize` is the size of the whole file. The one-step lemmas go through every
action; the refinement maps `InsertRecord` to `Create`, the file steps to `Store`, `MarkReady` to
`Finish`, `UnlinkFile` to `Erase`, `DropRecord` to `Drop`, and the rest to stuttering.

`NothingComesBack` says that once the job of a video is over, its file and its record are only removed
(a worker that runs a job a second time, or after a crash, was not over before). `NotLeftHalfWay` says
that a video whose job is over is `READY`, with the exceptions of `UploadSettles`; it rests on `OneRun`
(while the process neither dies nor throws — `Quiet` — a job is taken once) and `NoneLeft` (a job
that was not begun finds no file in its way, and only the video in work is `PROCESSING`).

It proves of `VideoStream`:

- `StreamReadsPipeline`: `StreamSpec => Spec`, so that everything above holds while videos are streamed,
  also through the deaths of the process that a stream causes
- `StreamTypeCorrect`: `StreamSpec => []StreamTypeOK`
- `ServedCorrect`: `StreamSpec => []ServedFromWholeFile`
- `BodyCorrect`: `StreamSpec => BodyIsExact`

A step of the request leaves `vars` alone or is a `Crash`. `ServedFromWholeFile` is not
inductive: that the file measured before an await is still the file opened after it follows from
`PipelineInv`, by which a `READY` video nobody deletes is neither being worked on nor to be
worked on with effect; so `StreamInv` ties what the request has seen (`ready`, `size`, `length`)
to the file, unless the deletion of the video was asked for. `BodyIsExact` promises more, without a
fault even for a video that is being deleted: `BodyInv` adds that the job of a video that was found `READY`
is over (`OneRun`), that such a request has the whole file open (`FoundOver`), and where the request is in
its range (`BodyFollows`), for every header there may be.

`MovieCatalogProofs` proves, for any number of requests that share movies, interleave at every await
and fail anywhere:

- `TypeCorrect`: `Spec => []TypeOK`
- `HashesUnique`: `Spec => []UniqueHash`
- `ImagesOfMoviesKept`: `Spec => []ImagesKept`
- `MoviesGoneForGood`: `Spec => GoneForGood`
- `CatalogUsesVideoStore`: `Spec => UsesVideoStore`

and, of clients who work on a movie one at a time, any number of them and failing anywhere too:

- `VideosOfMovies`: `Spec => []VideosAreOfMovies`
- `OwnPartsChanged`: `Spec => OwnPartChanged`

The assumptions are those of `MovieCatalog`: "no movie" is not a movie, null is not an id, and no new id is the
default poster's. The
invariant `CatalogInv` says of a movie, and of every copy of it that a request holds, however old,
that its images were queued by requests about that movie and its video was stored (`PartsOf`), that
a copy has the hash of the movie (`CopyOK`), and that images are dropped only with their movie or
by a deletion of it that is about to remove the movie or has failed (`DroppedGone`). The copies are what makes it necessary: `WriteBack` makes an old copy the movie, so
whatever is to hold of movies has to hold of the copies since they were read. `Keeps` says what a
step of one request leaves to the others, so that each action is treated once for the request whose
step it is (`After`) and all of them once for the other requests (`OthersOK`). That the catalogue
uses the videos module only as `VideoStore` allows is proved here and not rerun by TLC.

For clients who work alone `AloneInv` adds that the copy of a request is the movie as it is, but for what
the request changes (`Fresh`), that the video of a movie was stored by a request that is done, and is
asked to be deleted only by one that is about to replace it or that failed (`VideoOfMovie`), and that a stored video
is its movie's once its request is done (`StoredVideo`). These break as soon as two clients share a
movie; `OwnStep` lists what a step needs for them, so that each action only shows that.

`ImagePipelineProofs` proves, for any number of images, sizes and faults, any concurrency, and with
or without late opens:

- `TypeCorrect`: `Spec => []TypeOK`
- `MadeCorrect`: `Spec => []MadeIsWhole`
- `PipelineImplementsImageStore`: `Spec => ImplementsImageStore`
- `DeletionIsFinal`: `Spec => NothingComesBack`
- `NoImageGivenUp`: `Spec => []NotLeftUnmade`

`ImageInv` adds to these that a file is as far as the stream that writes it, unless it was removed
since (`StreamsOK`), and that only files of dropped images are being removed (`RemovingDropped`).
The first is what makes a second run harmless: a stream is only asked for where there is no file
(`SizeThrows`), so what `OpenFile` truncates is never complete. The end of the process resets all
streams, so it keeps the invariant without a word about what is on the disk. The set `working` has
to be finite for its cardinality to be bounded. In the refinement `QueueJob` is `Queue`,
`AskDeletion` is `Drop`, `OpenFile` and `FinishFile` are `Write`, `RemoveFile` is `Erase`,
`CompleteJob` is `Make`; `FinishFile` after a removal and all else are stuttering.

`NothingComesBack` is about an image nobody works on or will (`Idle`): no later step writes a file of
it. `NotLeftUnmade` is about readable images without faults or late opens: every queued image
is made, in work or waiting, and the process is not dying. Its invariant `MadeOnce` says that a waiting
image is untouched and waits once (`WaitingFresh`), that no size of an image in work has failed and its raw
file is there as long as it is to be opened (`SizesGoOn`), and that an image that was never queued has no
files (`NothingBefore`).

`TusUploadProofs` proves, for any file, chunk size, number of ids, retries and faults:

- `TypeCorrect`: `Spec => []TypeOK`
- `UploadImplementsStore`: `Spec => ImplementsUploadStore`
- `DoneCorrect`: `Spec => []DoneMeansStored`

`UploadInv` adds that what is stored is the beginning of the file (`StoredInOrder`), that a PATCH that
is served writes at the end of a file that is not whole and was not handed over (`PatchesAppend`), that
requests on the way are for what was missing when they were sent (`LatePatchesOK`, `PatchingOK`), and
that a request that is not lost is the one the client waits for (`ServesClient`). The second is the
heart: a PATCH is only begun if its offset is the size of the file, and the lock keeps it so; a late
PATCH for an offset that was passed is refused, and one for the end of the file does not exist, so no
upload is finished twice. In the refinement `WriteByte` is `Receive`, `EndPatch` of the last byte is
`Complete`, `UpdateVideo` is `MakeVideo` (or `GiveUp` if the movie is gone), `UpdateThrows` and `Crash`
are `GiveUp`.

`DoneMeansStored` says of an upload the user was told to be done that all its bytes are stored
(`DoneIsWhole`), and that, if only connections were lost, it was handed to `updateVideoForOne` or is about
to be (`NoneForgotten`: a whole file is in `completed` or its lock is still held).

`MoviesApiProofs` proves, for any number of requests and readers, any time to live and any number of
faults, the type invariant (`TypeCorrect`), `LogCorrect` (`Spec => []LogIsTrue`, from `EntriesTrue`,
`LogOrdered` and `LogComplete`) and `ListCorrect` (`Spec => []ListIsRight`, from `ListRecent` and
`MissingOvertaken`). `ApiInv` says of an entry, inserted or not, that its request was
answered and that it is no younger than the entries of later requests (`EntriesOK`, with `BeforeOK`); of
a request that found its movie and will not find it again, that a deletion that was not
answered when it was sent has removed it (`DeletionsOK`); of
a list that was read, that what it misses was changed after the reading began or is in `overtaken`
(`ReadersOK`); and of the cached list, that it expires before a change it misses can be older than
`MaxRead + TTL` (`CacheOK`). That a list is read within `MaxRead` is the only assumption about time.

`TitleSearchProofs` proves, for any number of calls, any catalogue and listing of TMDB, and any
time between calls:

- `TypeCorrect`: `Spec => []TypeOK`
- `LimiterKeepsApart`: `Spec => []CallsApart`
- `LimiterRefusesForAnother`: `Spec => []RefusedForAnother`
- `SearchIsWholeOrNothing`: `Spec => []WholeOrNothing`
- `NotFoundIsUntried`: `Spec => []NotFoundUntried`

The assumptions are those of `TitleSearch`: the pages of a listing are sets of films, and no page
after an empty one has any. `IInv` says of a call in progress that what it has gathered are the films of
exactly the pages it has read, and that it goes on unless these are all (`Sound`), and of the limiter
that the time it keeps is that of the last call let through (`Noted`). That an empty page or
the last page number ends a search with everything is a lemma about listings (`LastPageIsAll`).

`WebAuthProofs` proves, for either service and any number of clicks:

- `TypeCorrect`: `Spec => []TypeOK`
- `UserCorrect`: `Spec => []UserIsOfToken`
- `GuardsCorrect`: `Spec => []GuardsAgree`
- `ViewerModeCorrect`: `Spec => []ViewerModeIsManagers`
- `SignedInStaysCorrect`: `Spec => SignedInStays`

`WebInv` says that a user is shown only with a token, has the roles of its claims if they are complete
(`UserHasToken`), that the fake service has made its tokens itself (`FakeTokens`), and that what a page starts and stops when it goes is going on only on that page (`TimersOfPage`), which is
what leaves only the subscriptions and timers that nobody ends to take somebody away. The lemmas about
`AccessControl` (`ManagersPermission`, `RolesOfClaims`) are about its tables: a manager, and nobody else, has
the permission any handler asks for. The assumptions are that the provider gives claims, that nobody and
no roles claim are not sets of roles, and that nowhere is not a page.

`WebPagesProofs` proves, for every set of terms, titles, pictures and fields and any number of acts,
views and keys:

- `TypeCorrect`: `Spec => []TypeOK`
- `ListsCorrect`: `Spec => []ListsWhatWasAsked`
- `FirstViewCorrect`: `Spec => []FirstViewPlays`
- `SpaceBarCorrect`: `Spec => SpaceBarIsObeyed`
- `SeeksCorrect`: `Spec => SeeksWhereDragged`
- `ImportCorrect`: `Spec => []ImportStoresWhatWasShown`
- `PictureCorrect`: `Spec => []PictureIsTheLastGiven`
- `PageCorrect`: `Spec => []PageAgrees`
- `ChangesCorrect`: `Spec => ChangesAreOfTheMovieShown`

A step of the router is a step or a stutter of each page, so each page has an invariant over its
own variables. `SearchInv`: searches that did not cross are one at a time. `PlayerInv`: what there is during
the first view (`FirstView`), why the speed is doubled (`SpeedIsHeld`), what the timeline shows during a drag
(`DragFollows`). `CreateInv`: one picture in process at a time, unless spoilt, is the one wanted
(`OnePicture`), and an import that was not disturbed has stored, at each stage, what the page shows
(`ImportsFollow`). `InspectInv` says for each thing the page shows how it will come to be the server's:
the movie, unless the answer to a change is on its way (`MovieFollows`, with `OneCall`); the video and
the log, unless they are to be asked for again or nothing would make the page ask (`VideoFollows`, `LogFollows`, `OneLog`); the poster and
the backdrop, because the *last* of the delayed loads is for the movie's own picture (`PosterFollows`,
`BackdropFollows`); the upload (`UploadFollows`), whose bytes are whole before the movie is given its video
(`WholeFollows`); and that dialogs and what they send are about the server's
movie (`DialogIsOfMovie`, `SentIsOfMovie`). The assumptions are that the bounds are numbers and that
"nothing" and null are no terms, titles, pictures or numbers.

Liveness (`UploadSettles`, `ImageSettles`, `UploadEnds`, `DoneMeansVideo`, `SignInPagesEnd`, the two
`DeletionSettles`) is model-checked only: it needs fairness and ENABLED, which the prover does not
handle. Of most of these the safety half is proved for every instance: that nothing was given up before
the promise is kept, and that what was reached is not undone — `UploadsEndReady`, `NoImageGivenUp`,
`DoneCorrect`, and `DeletionIsFinal` of videos and of images. What they leave to TLC is that somebody takes
the steps that are left. `UploadEnds` and `SignInPagesEnd` say only that something ends, and have no such half.

## Plan

Done: `VideoStore`, `VideoPipeline`, `MovieCatalog`, `ImageStore`, `ImagePipeline`, `UploadStore`,
`TusUpload`, `MoviesApi`, `VideoStream`, `TitleSearch`, `AccessControl`, `WebAuth`, `SearchBar`,
`CreateTitle`, `InspectPage`, `VideoPlayer`, `WebPages`, and the proofs of their safety.

What could follow: that a client of a tus upload and a sign-in page that are not at their end always
have a step to take, stated as an invariant on the guards; more of the components that
are modelled in part (the requirements and metadata of videos, multipart uploads).

## Not modelled

- The images proxy: it forwards one HTTP answer and keeps nothing. A host that does not answer fails
  in a listener and leaves the client without an answer.
- Multipart uploads (`file-storage/multer/`): temporary names are made from a timestamp, and the
  listener of `done` ignores its error; the handlers that follow are modelled with the file as given.
- The metadata and requirements controllers of videos, `GET` of one movie, downloads of images: reads
  of one record or file.
- DTO validation, configuration, logging, the Swagger documents, the mapping of exceptions to
  answers, `RolesGuard` (no handler uses it).
- TMDB's gateway for series: both controllers ask for films only. `timeToNextCall`: nobody calls it.
- The list of movies and its tiles (one request, shown once), the name of the video on the movie's
  page, the check of a video's size before its upload, and of the player the volume, full screen,
  picture in picture, the arrow keys and the hiding of the controls, which set one value each.
- `remove`, `deleteExpired` and `declareUploadLength` of the tus store, which nothing reaches.
