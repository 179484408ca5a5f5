# Legends Nightclub: TLA+ models, checks and proofs

The program is an iOS application in Swift (`src/LegendsApp/LegendsApp`): members
of a club see its events, menu and photos, say which events they attend, upload
photos and keep an account; an administrator edits events, menu and photos in
the same application. There is no server code. Every screen talks to three
Firebase services: Firestore (documents), Storage (image files) and Auth
(accounts). Nothing coordinates the screens but those services, and every answer
is a callback on the main queue, so the questions worth a model are about
callbacks that run later than the code that asked for them, several devices on
one document, multi-call operations that stop half-way, and indexes that outlive
the table they point into.

The Firestore client is vendored with the application
(`src/LegendsApp/Pods/FirebaseFirestore`). What a screen may rely on is decided
there, so two parts of it are modelled from its source: how writes are queued,
sent and answered, and how reads are answered, offline too.

Contents: [1 the system](#1-the-system) - [2 the modules](#2-the-modules) -
[3 the runs](#3-the-runs) - [4 fairness](#4-fairness) - [5 the
proofs](#5-the-proofs) - [6 findings](#6-findings) - [7 what is not
modelled](#7-what-is-not-modelled) - [8 plan](#8-plan) - [9 running
it](#9-running-it)

## 1 The system

| Component | State it keeps | Operations | Talks to | What makes it hard | What makes it correct |
|---|---|---|---|---|---|
| Event attendance, `VC_EventDetails.swift` | `attendingUID` (the list shown), `attending` (the flag the button is drawn from), a snapshot listener | open, close, tap the button, listener event | one `Events` document, shared by all devices and the administrator's screen; gets its first list from `VC_Events` | local writes are shown before the server has them; acknowledgements and watch updates race; retries after a lost connection; nobody waits for a write | the list on the screen is the device's view; the last tap wins; users change their own entry only |
| Lists: `VC_Events.swift`, `VC_FoodMenu.swift`, `VC_Gallery.swift`, `VC_GalleryEdits.swift`, `Admin/VC_Admin_Gallery.swift` | `Events`, `Menu`, `GalleryImages`; filtered copies; the rows the table last read; a selection | load, refresh, draw a cell, tap, swipe, delete a row or a selection | the collections, by `getDocuments` | loads overlap; arrays are emptied at once and tables reload later; rows are named by index | each document is listed once, in order; a tap or a deletion means the row shown; the table catches up; the application ends for a flaw in a row only |
| Gallery uploads and deletions, the same gallery files | `thumbURLstore`, `photoURLstore` | upload (two files and a document), delete (two files and a document) | Storage, `GalleryPhotos` documents | the halves of an upload finish in any order, fail, overlap with another upload and with a deletion | a listed photo has both of its files; a deleted one is gone |
| Food menu administration, `Admin/VC_Admin_FoodMenu.swift` | `Menu`, `filteredMenu` by section, the table's rows, selection, alerts | load, add, delete a row, delete a selection | `FoodMenu` documents | indexes remembered by alerts and completion handlers; loads that empty the data first and reload the table last | what is deleted is what was chosen; the table never shows a deleted item |
| Events administration, `Admin/VC_AdminEvents.swift` | `EventImages` (rows), `pImageURL`, selection, alerts | publish (image, then document), load, delete a row, delete a selection | Storage, `Events` documents | an event is written by four calls in a row; ids are dates, so publishing again replaces an event | no event is a mixture of two; what is deleted is what was chosen |
| Accounts, `VC_SignUp.swift`, `VC_Account.swift`, `ViewController.swift` | the fields; Auth's current user | sign up, load, save, sign in, sign out | Auth, Storage, `Users` documents | account, photo and profile are changed by calls nested in each other's handlers, which read the fields and the current user anew | a profile belongs to its account; the password is the one the user submitted |
| Firestore's write pipeline, `FSTSyncEngine.mm`, `remote_store.mm`, `stream.mm`, `write_stream.mm`, `datastore.mm`, ... | a mutation queue per user, on disk; the pipeline; the write stream; completion blocks | write, user change, token, handshake, answer, refusal, idle timer, backoff, restart | the server, over one connection; the credentials provider | all of it is queued on one worker queue; a response names no write; tokens and users change while streams start | writes go out in order, as the user who made them; each answer reaches its own completion block |
| Firestore's gets and online state, `query_core.mm`, `FSTEventManager.mm`, `remote_store.mm`, `remote_event.mm`, `online_state_tracker.cc`, ... | listeners and views, the watch stream, per target its outstanding responses and its CURRENT mark, failures counted, a timer | get, event, add and remove a listener, watch, unwatch, message, time-out, user change | the server, over one connection; the main queue | late messages of an earlier watch; a timer that must run exactly while it matters; a listener that removes itself on another queue | every get is answered once, from the server or, offline, from the cache |
| Contact, cells, model classes, navigation | - | - | - | nothing | - |

### How the parts interact

* **Documents.** `VC_EventDetails` and `VC_AdminEvents` write the same `Events`
  document. Both are in `EventAttendance`, the second as the two writes it can
  make to the attending list. The member's and the administrator's gallery edit
  screens delete the documents that `VC_Gallery` saves; all three are in
  `GalleryUpload`, and all three show the documents by the arrays of `Listing`.
  The interface between them is `PhotoLibrary`: `GalleryUpload` implements it,
  and `Listing` changes its documents only as it allows.
* **Writes.** Every write goes into the mutation queue of the user signed in, on
  the disk of the device, and runs in order; an unanswered write is sent
  again. `WriteQueue` says so. `WritePipeline` models the client that keeps the
  promise and implements `WriteQueue`; `EventAttendance` has a client of its
  own, with the cache and the overlay of pending writes that a listener sees,
  and implements `WriteQueue`, too. The other modules need only order and
  durability: their `queue` and `Commit`.
* **Accounts.** Signing in or out changes the queue the client works on. It is
  `AuthChanges` and `RunUser` in `WritePipeline`, `UserChanges` in
  `QueryGets`, and in `UserAccount` the queue is one per account.
* **Reads.** Every list and profile is loaded by a get. `QueryGets` shows that its
  completion block is called once and eventually; `Listing`, `FoodMenuAdmin`,
  `EventsAdmin` and `UserAccount` rely on that.
* **The main queue.** Completion handlers run on it one at a time, between the
  user's acts. `Listing`, `FoodMenuAdmin`, `EventsAdmin` and `UserAccount` keep it as the
  sequence `main`; in `EventAttendance` it is the sequence `snapshots` of
  listener events, in `QueryGets` the `events` of each get, and in
  `GalleryUpload` a handler is one step.
* **The worker queue** of the client runs everything else in it, one block at a
  time: `tasks` in `WritePipeline` and `QueryGets`.
* **Alerts** are modal, but the main queue runs while one is up. So loads,
  deletions and uploads are answered between a question and its answer.

### Hazards

The list with lines is in `PROJECT.json` under `hazards`, each with the properties
that would catch it, or a note saying why none does.

## 2 The modules

| Module | Models | Source |
|---|---|---|
| `AttendanceRegister` | what the attendance of an event promises, with no devices: users join and leave one at a time while the event exists, the administrator alone empties it | abstract specification |
| `PhotoLibrary` | what the gallery's documents promise to those who list them: a photo gains URLs one by one and loses them only together | abstract specification |
| `WriteQueue` | what the client promises of its queues of writes: answered in order, nothing executed behind a refused write, dropped only with an answer | abstract specification |
| `EventAttendance` | `VC_EventDetails` on every device, the Firestore client and the document | `VC_EventDetails.swift`, `VC_AdminEvents.swift`, `Pods/FirebaseFirestore` |
| `Listing` | the arrays and tables of five list screens | `VC_Events.swift`, `VC_FoodMenu.swift`, `VC_Gallery.swift`, `VC_GalleryEdits.swift`, `VC_Admin_Gallery.swift` |
| `GalleryUpload` | uploads and deletions of photos by any devices | `VC_Gallery.swift`, `VC_GalleryEdits.swift`, `VC_Admin_Gallery.swift` |
| `FoodMenuAdmin` | the administrator's menu screen | `VC_Admin_FoodMenu.swift` |
| `EventsAdmin` | the administrator's events screen | `VC_AdminEvents.swift` |
| `UserAccount` | sign-up, profile, sign-in | `VC_SignUp.swift`, `VC_Account.swift`, `ViewController.swift` |
| `WritePipeline` | how a device's writes reach the server | `Pods/FirebaseFirestore` |
| `QueryGets` | how a get is answered, online and offline | `Pods/FirebaseFirestore` |
| `RowOrder` | sorting and filtering of rows, shared by the screens with tables | `VC_AdminEvents.swift`, `VC_Admin_FoodMenu.swift`, and the screens of `Listing` |
| `...Proofs` | theorems about `EventAttendance`, `GalleryUpload`, `FoodMenuAdmin`, `EventsAdmin`, `Listing`, `UserAccount`, `WritePipeline`, `QueryGets` | |
| `MC...` | small instances of each for TLC | |

`PROJECT.json` maps each definition to the lines it stands for. Definitions
whose comment begins with "Variant of" are plausible bugs; they are used by no
specification and serve to show that the property named with each in
`PROJECT.json` (`mutants`) fails when the code is changed so.

### State and actions

**`EventAttendance`.** `log` holds the states the document has had at the
server; an index into it is a version (Firestore's update time). A device has
`cache` (last known remote document, its version, whether an acknowledgement made it,
and the version of the watch stream's last snapshot), `pending` (its mutation queue), `results`
(answers on the wire), `snapshots` (events posted to the main queue for the
listener) and `screen` (the view controller). `View(d)` is the cached document
under the pending writes, which is what `addSnapshotListener` reports.
`AttendingButton` is the whole handler: it queues `arrayUnion` or
`arrayRemove`, flips the flag, and the client notifies the listener.
`ListenerFires` is the closure of `loadAttending`: it replaces the list and
sets, but never clears, a member's flag. `Commit`, `Ack`, `Reject`,
`WatchUpdate`, `Reconnect`, `Restart` are the client and the server.
`WatchUpdate` is `applyRemoteEvent`: the stream brings any version from its last
snapshot on (`Deliverable`: the client asserts that it goes no further back), which
may be behind what the device's own acknowledgements have cached. A document that exists
is added to or modified in the listener's target, so it is authoritative and `Applies`
whatever its version, unless the cached document has `hasCommittedMutations`
(`committed`); such a document, and any when the news is a deletion, gives way to a
version at least as new.
Simplifications: the client's limit of ten writes in the pipeline, which the taps the
bounds allow never reach, is left to `WritePipeline`; resets of the watch
stream, after which the client looks a document up anew, are covered by
`WatchUpdate` and not steps of their own; every device starts with the first
version in its cache, because the details screen opens from a list that was
loaded from the collection. That list may be old, so `OpenDetails` begins with
any list the document ever had.

**`Listing`.** One module for five screens, which are variations of one scheme; `kind`
says which. A load is three blocks of the main queue: the query (on the spot in
`VC_Events`), `RunAppend` when `Answer` has come, and `RunNotify` of the
dispatch group, which sorts, filters and reloads. `items` and `filtered` are
the arrays, `Source` is the one the table's data source reads, and `drawn` what
the table read on its last reload. Sections of the menu are numbered; the
documents, the sort and the filters are stated with `RowOrder`. `CellForItem`, `DidSelect`, `SwipeRow`
and `AskToDelete` take their index from `drawn` and use it on `Source`, as the
code does. `entry`, the collection, changes by `PhotoLibrary!Next`. The traps are
steps (`Crash`) that end the application and name what it was: a row the array does not have; a
Storage reference of an empty URL in the cell of a photo; `dates!` in the cells of the two edit
screens, and `dateString!` as an `Event` is made; `UIImage(data:)!` on a tap. `Dated` are
the documents whose date this phone's `DateFormatter` reads, a constant, since
it depends on the phone's locale and calendar; whether a fetched file is an image is a choice at each
tap. A fetch that fails opens nothing.

**`GalleryUpload`.** An upload has two halves, each `putData`, `downloadURL`,
`saveImageData`: `PutCompletes`, `URLArrives`, and `HalfFails` for the early
returns. `store` is the screen's pair of variables that all uploads of that
screen share, and `URLArrives` saves the document with both of them. `DeleteRow`
starts the two removals of files and queues the deletion of the document;
`LoadImages` and `AdminLoadImages` fill the edit screens. Rows are sets of
uploads here; their indexes are in `Listing`.

**`FoodMenuAdmin`.** `menu` and `filtered` are `Menu` and `filteredMenu`,
`shown` is what `filteredMenu` was when the table last reloaded, and rows of
the table are asked for by index (`ScrollTo`, `SwipeRow`), which ends the
application when the data has fewer (`crashed`). `ConfirmSelection` sorts
the paths in descending order, as the code does, and starts one deletion per
row; each completion removes its row by its path. Sorting and filtering come from
`RowOrder`, which says by rank what the sorted list is, and not how it is reached.

**`EventsAdmin`.** A publication goes through `HandleTableViewLoad` (the form is
submitted), `PutCompletes`, `URLArrives` (the document is queued) and `Commit`.
An event's content is named by its publication, so a document with the title of one
and the image of another shows. Rows are `list` and `shown`, as above, but
`LoadImages` appends to a list that is never emptied, and deletes by
`deleteRows`, which raises when the rows do not add up.

**`UserAccount`.** `creating`, `changes`, `uploads` and `queue` (one per
account) are calls on their way to Auth, Storage and Firestore, `main` the
handlers to be run. `views` keeps closed screens, since handlers hold on to
them. `FIRUser` runs the changes of an account one after the other; that is
`changes`. An Auth call can change the account and lose its answer. Signing in
is one step: what the log-in handler does with its answer (a segue) changes
nothing modelled here.

**`WritePipeline`.** `tasks` is the worker queue: `RunWrite` (a write of the
application), `RunUser` (`credentialDidChange`) and `RunToken` (the answer to
`getToken`). `queue` is the mutation queue of each user, `pipeline` the writes
`RemoteStore` has taken from it, `stream` the write stream, `link` the
connection: requests the server has not taken, answers the client has not
read, and how the server closed it. `FillWritePipeline`, `Start` and
`Resolve` are the routines that the handlers share, as operators on the
pipeline and stream they are called with. A token request and a token on the
worker queue carry `live`, which is what comparing close counts comes to.
Simplifications: the contents of stream tokens, the lengths of backoff and
transactions are left out; a write's number stands for its batch
id; requests of a stream that was closed are not executed later; a status that
counts as permanent ends a connection only as the answer to a write or to the
handshake; it is read after the answers the connection still held, see the hazard
at `grpc_stream.cc:306`. A server that ends the stream with status OK while the
pipeline is empty does what `IdleTimeout` does, since an open stream with nothing waiting is
exactly one whose idle timer runs (`NotStoppedWhileNeeded`); that it never does so
with writes waiting is the code's assertion (`remote_store.mm:441-446`) and assumed.

**`QueryGets`.** A get is `GetDocuments` (a task to add its listener),
`RunAdd`, events posted to the main queue, and `RunEvent`, which for the first
one mutes the listener, queues its removal and answers. `view` is the state of a query's view;
`online` the tracker; `stream` the watch stream; `requests`, `messages` and `watched` the connection
with a server that acknowledges each request in turn, sends CURRENT for a watched
query at any time, and a global snapshot after it or in between. `outstanding`, `current`
and `pending` are a target's `TargetState`: `outstanding_responses_`, `current_`
and `has_pending_changes_`. CURRENT (`TargetCurrent`) marks an active target, and a
snapshot (`RaiseWatchSnapshot`) brings the mark to the view of each active target with a
pending change: a mark not shown yet, or documents and a resume token, which are
abstracted to the set `touched`, any at all. `TargetAdded`, with nothing left
outstanding, drops pending changes but not the mark, and `TargetRemoved` then erases the
target; that is the code's `ClearPendingChanges` and `RemoveTarget`.
`Announce` is what the rest of the client does with a new online state. `StopStream` is a
graceful end, by the idle timer or by the server (`ServerEnds`, status OK). The code
asserts that no needed stream ends so (`remote_store.mm:214-220`), which of its own
acts `StreamRunsWhileNeeded` shows; that the server ends only streams nobody listens on
is assumed. `kept` is read by a property only. Targets the server rejects or resets, existence
filters, limbo documents and the documents are left out. A stream that opens with
nothing to watch has no idle timer in the code, and none here.

## 3 The runs

Each run finishes within five minutes.

| Run | Question | Bounds | Result |
|---|---|---|---|
| `att_members` | Do open screens end up with the device's view, does the cache ever go back, does the document implement `AttendanceRegister`? | two members with a device each, 2 taps, 1 write of the administrator; 2,170,488 states | holds: `TypeOK`, `ScreenFollowsView`, `CacheGoesForward`, `RegisterSpec` |
| `att_live` | Is every RSVP answered and in order, does the last tap win, does the screen catch up, over restarts and retries? | one member, 3 taps, 1 write of the administrator, 1 loss; 289,903 states | holds: `LastTapWins`, `QueueSpec`, `RsvpsSettle` (`EveryRsvpResolves` and `ScreenCatchesUp`) |
| `att_button` | Does the button agree with the list? | one member, 2 taps | violated: `ButtonShowsAttendance` |
| `gal_upload` | Is a complete upload listed with two URLs, its own ones if it was alone; do URLs lead to files; do the documents implement `PhotoLibrary`? | two uploads on one screen, 1 failure or restart; 2,283,880 states | holds: `TypeOK`, `CompleteUploadListed`, `NoDanglingURL`, `LibrarySpec` |
| `gal_delete` | Does a deletion made after the upload hold? | one upload, member and administrator, 1 failure; 6,761 states | holds: `DeleteSticks` |
| `gal_undeleted` | Is a deleted document gone? | one upload, two devices, no failures | violated: `DeletedStaysDeleted` |
| `menu_rows` | Does the table show the menu, do outstanding removals name their rows, does a confirmed swipe delete the item shown? | 4 items in 2 sections, 3 acts, 2 rows selected; 346,120 states | holds: `TypeOK`, `TableShowsMenu` (`SectionsOrdered`, `RowsBackedByData`, `NoDeletedRowLeft`), `RemovalsNameTheirRow`, `ConfirmedRowDeleted` |
| `evt_admin` | Is no event a mixture, is the table sorted, does a deletion delete the rows chosen, when does the application end? | 3 publications on 2 days, 5 acts; 331,114 states | holds: `TypeOK`, `EventKeepsItsImage`, `RowsAreReliable` (`RowsSorted`, `SelectionDeletesItsRows`), `CrashNeedsHalfLoad` |
| `acc_profile` | Does a profile have a photo and an account, is it that of the account, is the password one that was submitted? | 2 accounts, 2 emails, 2 passwords, 1 photo, 7 acts, symmetric; 1,939,218 states | holds: `TypeOK`, `ProfileHasPhoto`, `ProfileIsCurrent`, `PasswordAsSubmitted` |
| `lst_screens` | Does the table show the collection, does a tap or deletion mean the row shown, for which flaw may the application end, does the table catch up? | each of the five screens, 3 documents (2 own, 2 sections, 1 with a date that cannot be read), 3 loads, 1 change by others, 1 failure; 1,781,363 states | holds: `TypeOK`, `TableShowsCollection` (`ListedOncePerLoad`, `TableIsSource`, `LoadShowsCollection`), `CrashHasCause`, `RowsActOnWhatTheyShow` (`DeletesTheRowsShown`, `OpensTheTappedPhoto`), `TableCatchesUp` |
| `wri_pipeline` | Does each write travel as its user, reach its own answer and leave its queue in order; do the queues drain? | 2 accounts, 3 writes, a pipeline of 2, 2 user changes, 1 fault or restart; 497,264 states | holds: `TypeOK`, `ConnectionOfOneUser`, `PipelineInStep` (`PipelineIsFront`, `AnswersMatchPipeline`, `OneTokenWhileStarting`, `NotStoppedWhileNeeded`), `ToldTheTruth`, `QueueSpec`, `QueueDrains` |
| `get_online` | Is every get answered, once, and synced by its own watch; are stream, tracker and views in agreement; is the timer armed when it must be? | 2 gets on one or two queries; 2 turns (faults, user changes, early snapshots) while one query is asked for, 1 when both are; 342,980 states | holds: `TypeOK`, `AnsweredOnce`, `OnlineStateAgrees` (`TrackerConsistent`, `StreamRunsWhileNeeded`, `OfflineAnswersAll`), `SyncIsForThisWatch`, `GetsAreAnswered` (`EveryGetAnswered`, `TimerEndsTheWait`, `TimerIsArmed`) |

A property in brackets is a part of the one before it.

Several properties hold under a condition, which says where the code stops
keeping the promise; the condition is a history variable that only the
property reads:

* `CompleteUploadListed` claims the right files for an upload that shared
  its screen with no other (`shared`): the URLs are kept in the screen and not in
  the upload, so two uploads at once can exchange files.
* `DeleteSticks` is about deletions made once both halves are over and queued
  behind every save; otherwise see `gal_undeleted`.
* `SectionsOrdered`, `RemovalsNameTheirRow`, `NoDeletedRowLeft` are about loads
  that do not overlap (`overlap`) and rows that no load moved under outstanding
  removals (`tangled`). Two loads at once list items twice.
* `ConfirmedRowDeleted` speaks of the row of the table at the moment of the
  answer: the question remembers an index, so a load answered under it makes
  the item another than the one asked about.
* `EventKeepsItsImage` is about work on a date that began after the last work
  on it ended, without failures (`disturbed`). `SelectionDeletesItsRows` is about
  questions under which the list did not change (`stirred`).
* `ProfileIsCurrent` is about a sign-up or save nothing interfered with
  (`attempt.clean`), `PasswordAsSubmitted` about saves during which the password
  field and the current user stayed the same (`late`), because the handler of
  `updateEmail` reads both anew. A sign-up answered late changes the current user too:
  under a save, or under the open screen of a member, who then saves the
  password of one account and sets it for the other. With 7 acts no run gets that
  far; the proof found it.
* `LoadShowsCollection` is about a load that overlapped no other (`burst`) and
  whose answer is still true (`clean`); `ListedOncePerLoad` says how bad
  overlapping ones can be. `OpensTheTappedPhoto` and `CrashHasCause` except
  the gallery while it is loading, whose array is emptied under its table. For the
  rest `CrashHasCause` names for each trap the flaw in a row the table shows: a
  thumbnail's URL that is missing, a date, a photo that may be no image.
* `SyncIsForThisWatch` excepts a query in `kept`: one watched again, on the same
  connection, before the server acknowledged the end of its last watch and with the mark
  of that watch still there. Unwatch and watch then are both outstanding, the
  acknowledgement of the first leaves one, so `RemoveTarget` is not called, and the
  one of the second calls `ClearPendingChanges`, which leaves `current_` as it was
  (`remote_event.mm:86-89, 151-160`), although the comment there says "we need to
  reset any state that we had previously". The next snapshot that touches the
  target makes the new view synced on the word of the earlier watch. Without the exception TLC finds
  that in 19 states: a get is answered from the cache by the timer before CURRENT
  is read, its query is unwatched, and another get watches it again at once. The
  listener hears "from the server" of what may not be all of it yet.
* `TimerIsArmed` is about the state becoming unknown and the stream being started with
  queries listened to. A get that joins a stream left `Starting` by the one before it
  has no timer: `StopListening` stopped it (`remote_store.mm:169`), and only
  `StartWatchStream` arms one.

### Why the bounds are enough

* Two members with a tap each, or one with two, and one write of the
  administrator give every pair of concurrent writers of the list; a member's
  write never reads another member's entry, so a third adds more of the same.
  Three taps by one member are the fewest that leave an operation of each kind
  queued behind an answered one when the connection is lost. The theorems of
  section 5 have no bounds.
* Two uploads are the fewest that can share the screen's variables. One failure
  separates the halves, files and document of one operation in every way.
* Two rows in a section and two selected are the fewest for which removing by
  index in the wrong order removes a wrong row; a third item to add makes a load
  shift both.
* Two days, with two publications for one of them, give publishing, publishing
  again and deleting, and rows to sort. Five acts let a question be open
  while a second load adds rows.
* Two accounts let a handler find another user signed in than the one it was
  started for; seven acts are two complete attempts with an edit and a loss.
* Three documents are the fewest with a row between two others, one of them not the
  user's own and one with a date that cannot be read, in two sections in an order other than that of the documents. Three
  loads overlap in every way two can, and leave one for afterwards.
* A pipeline of two with a third write waiting distinguishes first, last and
  not taken yet; two user changes leave an account and come back to it while
  its writes are under way; the fault is a lost connection with any status, a
  failed token or a restart.
* Two gets share a query, or follow each other on it within one connection, or
  have one each. What the first one asks for is fixed, as the queries are alike. Two turns
  let a snapshot come early and the connection or the user change; with two
  queries one turn keeps the run within its time. The proofs are for every `MaxTurns`.

`CHECK_DEADLOCK FALSE` is given where acts are bounded and nothing else remains
to happen, or where the application has ended: users may stop.

## 4 Fairness

No user's act, no write of the administrator, no loss and no failure is fair
anywhere. Bounds on losses (`MaxDrops`, `MaxFaults`) say that a connection is
kept eventually.

* `EventAttendance!Fairness`: weak fairness of `ListenerFires`, since the main
  queue runs what is posted to it, of `Commit`, `Ack` and `Reject`, since a
  reachable server answers writes and the client sends its queue whenever it
  has a connection, and of `WatchUpdate` while a screen is open, since only then
  is there a listener.
* `GalleryUpload!FairSpec` has weak fairness of `Commit` alone: transfers may fail
  or hang for ever.
* `Listing!Fairness`: `RunMain`, the main queue, and `Answer`, which `QueryGets` justifies.
  It is said of `main`, `asked` and the end at a date alone, which no other action changes in
  that way.
* `WritePipeline!Fairness`: `RunTask` (the worker queue), `BackoffElapsed` (a
  delayed task of it), `OnStreamRead` and `OnStreamClosed` (the completion
  queue of gRPC), `GotToken` (Auth calls its completion block) and `Server`.
  `IdleTimeout` needs none: it helps no write.
* `QueryGets!Fairness`: `RunEvent`, `RunTask`, `OnWatchStreamChange`,
  `TokenArrives`, `BackoffElapsed`, `OnlineStateTimeout`. The server is fair only
  as the premise of `EveryGetAnswered`: gRPC's keepalive
  (`grpc_connection.cc:193`) ends a connection to a server that does not answer.
  `TimerEndsTheWait` does without: a timer that runs answers a get from the cache, and
  `TimerIsArmed` says when it runs.

## 5 The proofs

All theorems are for every value of the constants. TLC evaluates the
assumptions on constants in the runs of the module that states them.

| Module | Theorem | Statement |
|---|---|---|
| `EventAttendanceProofs` | `TypeCorrect` | `Spec => []TypeOK` |
| | `ScreenFollows` | `Spec => []ScreenFollowsView` |
| | `LastTapHolds` | `Spec => []LastTapWins` |
| | `CacheIsMonotone` | `Spec => CacheGoesForward` |
| | `ImplementsRegister` | `Spec => RegisterSpec` |
| | `ImplementsQueue` | `Spec => QueueSpec` |
| `GalleryUploadProofs` | `TypeCorrect` | `Spec => []TypeOK` |
| | `URLsLeadToFiles` | `Spec => []NoDanglingURL` |
| | `CompleteUploadsAreListed` | `Spec => []CompleteUploadListed` |
| | `ImplementsLibrary` | `Spec => LibrarySpec` |
| `FoodMenuAdminProofs` | `TypeCorrect` | `Spec => []TypeOK` |
| | `TableShowsTheMenu` | `Spec => []TableShowsMenu` |
| | `RemovalsNameRows` | `Spec => []RemovalsNameTheirRow` |
| | `ConfirmedRowsDeleted` | `Spec => ConfirmedRowDeleted` |
| `EventsAdminProofs` | `TypeCorrect` | `Spec => []TypeOK` |
| | `EventsKeepTheirImages` | `Spec => []EventKeepsItsImage` |
| | `RowsReliable` | `Spec => []RowsAreReliable` |
| | `CrashesNeedHalfLoad` | `Spec => CrashNeedsHalfLoad` |
| `ListingProofs` | `TypeCorrect` | `Spec => []TypeOK` |
| | `TableShowsTheCollection` | `Spec => []TableShowsCollection` |
| | `CrashesHaveCause` | `Spec => CrashHasCause` |
| | `RowsMeanWhatTheyShow` | `Spec => RowsActOnWhatTheyShow` |
| `WritePipelineProofs` | `TypeCorrect` | `Spec => []TypeOK` |
| | `OneUserPerConnection` | `Spec => []ConnectionOfOneUser` |
| | `AnswersFindTheirWrite` | `Spec => []AnswersMatchPipeline` |
| | `TokensOnlyWhileStarting` | at most one token, only for a stream that is `Starting` |
| | `PipelineStaysInStep` | `Spec => []PipelineInStep` |
| | `CompletionsTellTheTruth` | `Spec => []ToldTheTruth` |
| | `ImplementsWriteQueue` | `Spec => QueueSpec` |
| `UserAccountProofs` | `TypeCorrect` | `Spec => []TypeOK` |
| | `ProfilesHavePhotos` | `Spec => []ProfileHasPhoto` |
| | `PasswordsAreSubmitted` | `Spec => []PasswordAsSubmitted` |
| | `ProfilesAreCurrent` | `Spec => []ProfileIsCurrent` |
| `QueryGetsProofs` | `TypeCorrect` | `Spec => []TypeOK` |
| | `AnsweredAtMostOnce` | `Spec => []AnsweredOnce` |
| | `OnlineStateIsConsistent` | `Spec => []OnlineStateAgrees` |
| | `SnapshotsAreForThisWatch` | `Spec => SyncIsForThisWatch` |

**`EventAttendance`** (any users, devices, `Owner` and bounds: `OwnerAssumption`,
`BoundsAssumption`).

* `TypeOK` is inductive. Besides types it says that a cached version is one the
  server committed and that a device has at most as many answers as RSVPs, which
  the other proofs need.
* `ScreenFollowsView` is not inductive, as it says nothing while events are
  queued. `ScreenInv` says where the newest view is: in the last queued event, or, if none
  is queued, on the screen; `Notify` keeps it, since it queues an event exactly when
  the view changes, and `ListenerFires` moves the last event to the screen.
* `LastTapWins` says nothing while RSVPs are pending. `DeliveryInv` follows them: for
  a user with one device the last pending RSVP is what the last tap asked for, and
  when all pending ones are answered the server's list agrees with it. Executing
  a write twice keeps this, because the later ones are then executed again after it.
* `CacheGoesForward` is not a matter of comparing versions, since an authoritative document
  is applied blindly. `CacheInv` says which cached documents the stream may be behind: one that an
  acknowledgement made is newer than the stream's last snapshot, and any other is of
  that snapshot. So what is applied blindly meets a document of the last snapshot, which
  the stream is not behind; one an acknowledgement made has `committed` set and is
  replaced by a version at least as new only.
* `ImplementsRegister` shows that `Commit` maps to `Join` or `Leave` or a
  stutter, the administrator's writes to `Publish` and `Withdraw`, and every
  other step to a stutter under `event <- Current`. `ImplementsQueue` maps taps,
  `Commit`, `Ack` and `Reject`, and the two losses to the steps of `WriteQueue`.

**`GalleryUpload`** (any uploads, devices, administrators and failures:
`UploaderAssumption`, `GalleryAssumption`, `NoDocAssumption`).

* `NoDanglingURL` speaks of documents; the URLs in them come from queued saves,
  and those from the screen's store. `URLsHaveFiles` claims a file of all three,
  and `DeletionsKnown` that whatever takes a file away belongs to an upload in `deleted`.
* `CompleteUploadListed` needs that the save made last has both URLs. A save
  holds what the store held. While an upload is under way the store has the URL of
  each half saved so far (`StoreComplete`), along document, queued saves and
  store the URLs grow (`DocumentsGrow`), and so the last save of an upload, queued
  or executed, is complete (`LastSaveComplete`). `OverlapsKnown` says which
  uploads shared the store, and may have each other's URLs.
* `ImplementsLibrary` follows from `DocumentsGrow`: executing a save never takes a
  URL away.

**`FoodMenuAdmin`** (any items, any finite set of sections, any order of the
documents that lists an item once: `MenuAssumption`).

* `TableShowsMenu` needs to know where a load is. `Backed` says that the table
  is as the data or a load has emptied the data; `OneLoad` that, unless loads
  overlapped, a load is at one place only (a query, an answer or a filter block) and
  that the arrays it fills are still empty; `InPlace` that what it carries is part
  of the documents in their order, which filtering and removing rows keep
  (`AmongIsPart`, `RemoveAtIsPart`).
* For the part about deleted items, `Arriving` says that what a load carries
  stays in the collection, and `AllFollowed` that a listed item which is gone, or
  about to go, has a removal or a reload to come that takes it off the table.
* `RemovalsNameTheirRow` is about removals that have been answered and those still
  with the server together: `InTurn` says that both, one after the other, are in the
  order of the deletion, last row first, and `AllName` that each names its row. A
  removal leaves the later ones right because they are of a row further up or in
  another section.

**`EventsAdmin`** (any events, days and bounds: `EventsAssumption`).

* `EventKeepsItsImage` is about days that no second publication and no deletion
  disturbed. The invariant follows each of them: `Alone` says that, while work is under
  way for it, that is the work of one publication with nothing queued or being removed
  under it, and `Settled` that otherwise the document as it will be has both the
  title and the image in Storage, or there is none.
* `RowsAreReliable` needs that, unless a sort is due, the table shows the list and the
  list is sorted (`Rows`). Sorting is stated by rank; that each rank is taken once
  (`Ranks`), and so the list holds each row once and in order (`Ordered`), is
  proved with the library's theorems on cardinalities. The one induction it takes
  is made by the least number missing, which needs no rule with an operator.
* `CrashNeedsHalfLoad` follows: outside a half-finished load the rows a deletion
  names are there.

**`Listing`** (any finite collection, own photos, sections, number of loads,
changes and failures: `ListingAssumption`).

* `ListedOncePerLoad` counts rows, so the invariant counts what will become rows:
  of each photo there are, with the queries and answers that are still to append
  theirs, no more than loads (`Counted`). An answer lists a photo once, sorting and
  filtering add none (`PicksNoMore`), and emptying the array takes its rows away.
* `LoadShowsCollection` is about a load that overlapped none. `OneLoad` says that such
  a load is at one place only and that the array is empty until it appends; `Fresh`
  that, while the answer is still true, its block holds all documents there are, by name,
  and after the append the array does. `LoadShows` is the algorithm: sorting all
  documents by the screen's key, those alike as they stand, and filtering gives those
  that belong there, each once and in order. A deletion keeps this (`RowsOut`), since
  no two rows show the same photo.
* `CrashHasCause` and `RowsActOnWhatTheyShow` need that the screens but the gallery load once,
  before the table has a row (`ByKind`): whoever has a row to tap or to swipe then has a
  table that is its array, and an alert is about rows of such a table. A cell or tap then finds in the array
  the row the table shows, and its flaw there.

**`WritePipeline`** (any users and bounds, the pipeline's limit included:
`UsersAssumption`, `BoundsAssumption`).

* `ConnectionOfOneUser` is not inductive: a connection gets its user from a token
  that was queued before, and its writes from a queue they were put in by a
  task that was queued before. `TasksOK` says of the worker queue that each
  write stands behind the change to its author, and that a token that will be used
  and has no user change before it is the client's user's. `TokenOK` says that
  closing the stream has made every other token worthless.
* `AnswersMatchPipeline` needs `LinkOK`: answers, then requests, are the pipeline
  in order, also once the connection is closed as far as it held answers, and an
  answer always finds a write.
* `PipelineInStep`, `ToldTheTruth` and the refinement rest on a second invariant on
  top of that one, `FrontInv`. Batch ids grow along each queue, and every write on
  the worker queue is newer than all queued ones (`OrderOK`), so that what
  `FillWritePipeline` takes is the next part of the queue and what `Resolve` removes
  is its head (`IsFront`). The answers on a connection are the server's verdicts
  on the front of the pipeline, and a connection closed for good was closed by the write
  behind them, or before its handshake (`CarriesOK`). A write that was told its
  answer is in no queue, so the server never changes that answer (`Settled`).
* `ImplementsWriteQueue` maps `RunWrite` to `Enqueue`, an answer or a refusal after the
  handshake to `Answer`, `OnMutationResult` and the end of a refused connection to
  `Resolve`. Whatever closes the stream (a user change, a restart, a timer, a lost
  connection) is `Lose`; everything else stutters.

**`QueryGets`** (any gets, any finite set of queries, any bounds:
`QueryAssumption`, `BoundsAssumption`).

* `SyncIsForThisWatch` is about a mark set long before the snapshot that shows it. What
  is outstanding for a query is the number of its requests and acknowledgements on
  the connection (`CountedOK`), so with nothing outstanding server and client speak of one watch.
  `WatchInv` says what a mark then means. A target that is marked, listened to and not in `kept`
  has nothing outstanding and its present watch's CURRENT has been sent and read; one that is
  marked and not listened to has its unwatch outstanding (`MarksOK`). A CURRENT on the way is of the
  server's present watch or has an acknowledgement behind it (`SaidOK`), two of one query have one
  between them (`OnceOK`), and a query nobody listens to has an unwatch behind every watch
  (`EndsOK`): so a CURRENT that is read with nothing outstanding is of the present watch.
* `OnlineStateAgrees` is inductive with the types and `ClosedOK` (a connection
  there is not holds nothing). `AnsweredOnce` needs that a get with an answer
  is muted, and that events are of raised gets only (`EventsCounted`).

**`UserAccount`** (any accounts, emails, passwords, photos and acts:
`AccountAssumption`).

* The invariant `IInv` says of everything under way what it may be in the present
  state: `Tasks`, `Uploads`, `Writes` and the like are the handlers, uploads and
  documents that refer to views there are, to accounts there are and, once
  `downloadURL` has answered, to photos that are stored. None of these is ever taken
  back (`Grown`), except that a restart empties the sets, so what fitted goes on fitting
  (`Frame`). `ProfileHasPhoto` follows, as `Commit` takes a document from `Writes`.
  A new account gets a number no account has since they are numbered in order
  (`InOrder`).
* `PasswordAsSubmitted` needs `Submitted`: a queued password is one submitted for
  the account it is queued for, and a change of the email, or its handler, finds
  in its view a password submitted for that account and nobody else signed in
  (`Fits`), which the button ensures because a member's screen is that of the
  user signed in (`ScreenOfUser`). Whatever would end one of the two under a save,
  or the last, sets `late`.
* `ProfileIsCurrent` speaks of the end of an attempt, and `Followed` follows one
  that nothing interfered with from its start: Auth is asked (`Asked`), its handler waits
  on the main queue (`Handled`), the photo is on its way (`Uploading`), the document
  is queued for whoever was signed in (`Saved`) or written (`Done`). At each place
  there is nothing else of an attempt; the handler finds the account's email and the
  photo on its screen or in its own hands; and what changes either before the
  upload (an edit, a load, signing out or in) ends `clean`. What is beside the way stays beside it: loads,
  and the password set a second time behind the upload.

Only model-checked: liveness (`RsvpsSettle`, `DeleteSticks`, `TableCatchesUp`,
`QueueDrains`, `GetsAreAnswered`), as fairness and `ENABLED` are beyond the
prover. Each invariant that is proved inductive was checked by TLC first. No module declares a `RECURSIVE` operator.

## 6 Findings

Each is a comment of the program that a run refutes. Details are in
`PROJECT.json`.

1. **The attending button can contradict the list** (`att_button`). Listener
   events set the flag and never clear it. After two quick taps the event of the
   first sets it again, and the button offers to leave an event the user has left.
2. **A deleted photo comes back** (`gal_undeleted`), because each half of an upload
   saves the whole document.

What the code never claims, but a reader may expect, is in the conditions listed in
section 3: two uploads at once exchange files, a password field is read again
after its confirmation (and set for another account, if a sign-up is answered meanwhile), an item is deleted under a remembered index, and
overlapping loads list rows twice. One more comment of the code is not true, and
no run of its own refutes it: a target that is added again does keep its
CURRENT mark (`remote_event.mm:155`; `SyncIsForThisWatch` in section 3 has the trace).

## 7 What is not modelled

* `forgotPassword` (asks Auth for an e-mail), `VC_Contact` (mail and telephone),
  `VC_Admin`, `AppDelegate`, cells, model classes, `GlobalFunctions`: they
  keep no state, or only that of a view.
* Texts, images, layout, validation of single fields beyond what decides
  whether a handler goes on. The names and photos of an event's guests, which the
  details screen fetches for its cells.
* The server's security rules and indexes, Storage and Auth inside: they are the
  external actions of the modules.
* Dates an administrator cannot read: `EventsAdmin` assumes that the phone that publishes events
  reads the dates it wrote. That the members' phone may not is in `Listing`.
* Of the Firestore client: limbo documents, existence filters, rejected and reset targets,
  transactions, garbage collection, LevelDB, serialisation. The application uses
  neither transactions nor queries with limits.
* The other pods: gRPC, BoringSSL, Protobuf, leveldb, GoogleUtilities and the rest,
  480,000 of the 485,000 lines of the repository. They are third-party
  transport, cryptography and storage that the application reaches only through
  what is modelled, and no property above depends on how they work inside. So
  the part of the lines mapped is nearly all of the application's own code that
  keeps state, and a very small part of the repository.

## 8 Plan

Written in this order: `AttendanceRegister` and `EventAttendance` (what
several devices do at once), its proofs, `GalleryUpload`, `FoodMenuAdmin`,
`EventsAdmin`, `UserAccount`; then `PhotoLibrary` and `Listing`, `WriteQueue`,
`WritePipeline` and its proofs, `QueryGets`, and the proofs about
`GalleryUpload`, `QueryGets`, `UserAccount`, `EventsAdmin`, `FoodMenuAdmin` and `Listing`.

Next:

1. What the liveness properties rest on, as invariants within the prover's reach: in
   `Listing`, that with nothing loading the table is its array; in `QueryGets` and
   `WritePipeline`, that an unanswered get and a queued write always have something
   on its way that leads to their answer.
2. `QueryGets` with targets the server rejects or resets, with existence filters, and with
   documents, so that the overlay of pending writes of `EventAttendance` and the
   views become one model.

## 9 Running it

In this directory, for each run of `PROJECT.json`:
`tlc -workers 2 -config <cfg> <module>`; and `tlapm <module>` for each module
whose name ends in `Proofs`.
