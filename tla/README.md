# Musgravite: a TLA+ model of the application

Musgravite is an iOS application (Swift, XIBs, Firebase) for a school's
laboratories: students sign in, look up classrooms, see the groups and teams of
their courses and create teams. There is no server code: the application talks
to Firebase Authentication, Firestore and Storage through the vendored clients
under `src/Musgravite/Pods`, and everything that can go wrong goes wrong in the
callbacks. The repository has no tests of its own.

Paths below are relative to `src/Musgravite/Musgravite/` unless they start
with `Pods/`. The modules are checked with TLC and the proofs with TLAPS.

## 1. The system

### Components, their state and their operations

| Component | State | Operations | Modelled in |
|---|---|---|---|
| List loaders of `FirebaseController` | one optional array per call, captured by all of its callbacks; the requests still out | `getGroupsInCourse`, `getStudentsInCourse`, `getTeamsInCourse`, `getTasksInProject`, `getTareasData`, over `getGroupData`, `getStudentData`, `getTeamData`, `getTareaData` | `Loaders`, `FanOut`, `Gather` |
| Team creation (`TeamCreatorViewController`, `addTeamToGroup`, `createNewTeam`) | name field, selected rows, alert; the two writes of a request, Firestore's persistent queue; the HUD's delayed dismissal; the documents of `equipo` and the group's field `equipos` | type, select, deselect, create, go back; the two write callbacks; pop after success | `TeamCreation`, `TeamLedger` |
| Group screen (`GroupViewController`) | `teams`, `students`, the downloads of each appearance, the classroom request, the HUD, the navigation stack | `viewWillAppear`, `setupDynamicData`, `addTeam`, `selectableStudents`, `seeClassroom` | `GroupScreen` |
| Sign-in, onboarding, home (`ViewController`, `HomepageVM`, `TopBarSuperview`, the two bulletin pages) | the session, `launchedBefore`, the state listeners, the bulletin's item stack, the call in progress | onboarding pages, `signUp`, `signIn`, `userIsRegistered`, `logOut`, listener callbacks | `Onboarding` |
| Project menu, courses (`ProjectMenuViewController`, `CoursesViewController`) | the tables of courses, groups and teams, a course's groups, the requests out, the navigation stack | `viewWillAppear`, `didSelectRowAt`, `prepare`, going back; `getCourseData`, `getGroupData` | `ProjectMenu` |
| Classroom search and detail (`SchoolSearchViewController`, `SchoolSearchVM`, `LabDetailViewController`, the carrousel cells), downloads (`NetworkActionsController`) | classrooms, the floor's list, filtered list, `searchActive`, floors, what the table has drawn; the downloads out, the files on disk, the file of each carrousel, what the root controller presents, the HUD | appearing, filter by floor and by text, select a row; `downloadImage`, `downloadFile`, the panorama; the preview and closing it | `ClassroomSearch` |
| Firestore client, writes (`FSTLocalStore`, `LevelDbMutationQueue`, `FSTSyncEngine`, `RemoteStore`, `Stream`, `WriteStream`) | the mutation queue of each user on disk, completion blocks, `write_pipeline_`, the stream's state, its idleness timer and backoff | `writeMutations`, filling the pipeline, handshake, results, rejection, closing, credential changes, restart | `WritePipeline`, `DurableWrites` |
| Firestore client, document reads (`DocumentReference`, `EventManager`, `QueryListener`, `FSTView`, `RemoteStore`, `WatchChangeAggregator`, `OnlineStateTracker`) | listeners, the view, the cached document, the target's outstanding answers, the online state with its timer, the watch stream | `getDocument`, listen, stop listening, watch messages, the three timers, closing, credential changes | `DocumentRead`, `ReadPromise` |
| Writes no screen calls (`addParticipantToTeam`, `removeParticipantFromTeam`, `addNewProjectToTeam`, `changeTaskStatus`, `changeTaskResponsible`) | documents of `equipos`, `proyectos`, `tareas` | one or two writes each | not modelled |
| Vendored: `SVProgressHUD`, `BLTNItemManager`, Firebase Auth, Storage, QuickLook | | | only what the application observes of them, inside the modules above |
| Task and team screens, 360-degree image, AR, `AppDelegate`, models | no state of their own, or stubs | | not modelled |

### How they interact

The application's own code runs on the main thread, with one exception (a
video's thumbnail); what interleaves is callbacks. A screen calls
`FirebaseController` with a closure; the closure runs when Firestore answers,
whatever the user has done in the meantime. Screens share things without
coordination: the HUD, one for the whole application; the navigation stack,
which segues and `popViewController` change from callbacks; the root
controller, which presents one thing at a time; the directory of downloaded
files, where a name belongs to whoever wrote it last; and, on the group screen,
the arrays that several downloads assign.

Below that, the Firestore client runs every handler on a worker queue of its
own. A read becomes a listener that is removed at its first event; a write
becomes a row on disk, a batch of a pipeline of ten, a message on a stream.
What the screens rely on is stated by the abstract modules: `Gather` for a list
of documents, `ReadPromise` for one, `TeamLedger` for a team, `DurableWrites`
for a write. The last two are two levels of the same path: `TeamCreation` keeps
its writes in the queue that `DurableWrites` promises and `WritePipeline`
implements; the two are not composed in one run.

The only state that survives the process is the session, the `launchedBefore`
flag, Firestore's queues of writes, and what the server has.

### What is hard, and what makes it correct

* **Loaders.** N requests are answered in any order, some with errors. A caller
  must get the whole list once or hear of a failure, not a partial list, a list
  after a failure, or nothing.
* **Team creation.** Two writes with a callback in between, on several phones,
  with retries, crashes and a queue that outlives its callbacks. The group must
  never list a team that is not stored (each phone that opens the group would
  trap on the missing document), what the user was told must be true, and the
  dismissal three seconds later must find the screen it was meant for.
* **Group screen.** Downloads of several appearances overlap and share arrays
  and HUD. The lists must be whole, the HUD must come down, and the picker must
  offer the right students.
* **Project menu and courses.** Whatever was tapped is downloaded and pushed when
  it comes: twice, on top of something else, or after the screen was left. The
  tables must come from one reading of the student, a pushed screen must lie
  above what it belongs to, and the HUD must speak the truth.
* **Onboarding.** A session that begins and ends while pages are up, listeners
  that are called later and never removed, answers that are lost. The pages must
  agree with the session, and somebody without a session must be asked to sign in.
* **Classroom search.** The classrooms are downloaded at every appearance, while
  the user types and picks floors; a row must open what it shows. Downloads of
  several classrooms end in any order and share a directory, a HUD and a
  presenter; a preview must show what was tapped.
* **Writes.** An answer of the server does not say which batch it is for; it is
  taken for the first of the pipeline, after refills, refusals, lost streams,
  changes of user and crashes. A completion must be told the verdict of its own
  call, and the server must take a user's calls in order, though batches are
  sent twice and connections that were given up may still deliver.
* **Reads.** Listens of the same document share a target, so messages of a
  stopped listen arrive under the next one. A snapshot called synced must be of
  this listen, the tracker must not be confused by timers and failures that
  cross, and each read must be answered, if only from the cache.

`PROJECT.json` lists each hazard at its line, with the properties about it, or
why none covers it.

## 2. Modules and how they correspond to the code

| Module | What it is |
|---|---|
| `Loaders` | The state of one loader call and what one answer does to it, as operators without variables |
| `Gather` | Abstract: what a screen relies on when it calls a loader |
| `FanOut` | One loader call by itself, against every order of answers |
| `TeamLedger` | Abstract: a request is answered at most once and truthfully |
| `TeamCreation` | Team creation on several phones |
| `GroupScreen` | The group screen; uses `Loaders` for two of its calls per appearance |
| `ProjectMenu` | The project menu and the course screen; uses `Loaders` for a course's groups |
| `Onboarding` | Sign-in and the home screen |
| `ClassroomSearch` | The search, the classroom and its downloads |
| `DurableWrites` | Abstract: writes are kept, taken in order, and answered truthfully |
| `WritePipeline` | The write side of the Firestore client, with a server |
| `ReadPromise` | Abstract: a read is answered at most once, with a version that is not older than what was seen |
| `DocumentRead` | The read side of the Firestore client for one document, with a server |
| `FanOutProofs`, `TeamCreationProofs`, `GroupScreenProofs`, `ProjectMenuProofs`, `OnboardingProofs`, `ClassroomSearchProofs`, `WritePipelineProofs`, `DocumentReadProofs` | Theorems, see 4 |
| `MC...` | One for each checked module: values of the constants for TLC |

**Loaders and FanOut.** `load.waiting` is the set of requests without an answer,
`load.list` the array, holding positions of the reference list rather than
documents, because two references may name the same document. The empty
sequence stands for the initial `nil`: the array is never emptied again. The
five loaders differ in when they call `completionBlock`, which is
`GroupCallbacks`, `MemberCallbacks`, `TaskCallbacks` and `TareaCallbacks`. An
answer is `Arrives`, `Fails`, or, for a document that does not exist, `IsAbsent`:
`data()!` ends the program.

**TeamCreation.** One action per handler of the screen and per callback. A
write stays in `queue` until its answer is processed; the server may take it
before that (`ServerApplies`) and the callback may come later or, after a
crash, never (`SettledSilently`). A document's identifier is drawn by the phone
(`addDocument`), so a team belongs to the phone `Drawer` gives it and a repeated
write has no further effect; the same holds of `arrayUnion`. The HUD's delayed
dismissal is `FadeStarts` and then `PopCreator`, `PopTraps` or
`FadeEndsQuietly`: SVProgressHUD runs the completion only when nothing showed
the HUD again during the fade. `stack` is the navigation stack from the group's
screen upwards (empty: the process is dead), and `asker` the creator that the
closures of a request keep: the pop goes through that creator's navigation
controller (`Pushed`) and takes whatever is on top, which may be a classroom that
arrived meanwhile (`ClassroomArrives`). `PopTraps` is the creator that was left
by then: its `navigationController!` is nil. A creator on which no request
depends is used again for the next one (`Fresh`), so there is one more than the
requests of a phone. An offline phone is one
whose `ServerApplies` does not happen. That the group screen's own downloads
raise and lower the same HUD is the nondeterministic `GroupLoads`; `GroupScreen`
has the detail.

**GroupScreen.** `downloads` has an entry for each appearance, with its call for
teams and its call for students, the second starting when the first delivers.
Answers of earlier appearances keep coming. `AddTeam` computes
`selectableStudents` from what has arrived: the references in the group's order,
the rows in order of arrival (`Repeated`, with the number of times that the
nested loops append each). The creator and the classroom are only names on
the stack here. A group without teams starts a call that makes no request and
so is never answered (`StartLoad` of `Loaders`); it is one of the groups of both
runs.

**ProjectMenu.** `screens` holds every screen made, because the closure of a
request keeps the screen that asked; `stack` says which are still on the
navigation controller. `Filled` is the condition in `viewWillAppear` that empties
a table only for a nonempty answer. A request is answered by the document, or by
`FailureTraps` where nil is unwrapped (an absent document's data, whoever looks;
an error, by the screen that is pushed), or by `FailureUnseen`, an error that
nobody looks at any more. That `performSegue` of a
popped screen shows nothing (`Presents`) is UIKit's part. The row
"No se han encontrado cursos..." (`Ninguno`) can be tapped like a course, and is
asked for like one.

**Onboarding.** `listeners` counts what `viewWillAppear` has added; `fresh` and
`posted` are the calls that Firebase has queued on the main queue; `seen` is its
filter on an unchanged user. `bulletin.live` says that the manager of the
visible pages is still referenced: `bulletinManager` is replaced each time a
page is asked for, and `deinit` of the old manager tears its items down, which
is how a bulletin shown to two listeners stops responding. Passwords are not
modelled: an answer is right, wrong or missing.

**ClassroomSearch.** `rows` is what the table has drawn, apart from the arrays
that `numberOfRows` and `prepare` read (`Listed`): they agree only because every
change reloads the table. `FilterClassrooms` is `filterClassrooms`, which every
answer and every floor runs. `asked` are the appearances whose classrooms have
not come. A download is "running" until the session moves its file into the
directory (`FileMoves`, or `FileMoveFails`, which the callback cannot tell from it: the
name then holds what it held or is `Lost`; both off the main thread), then
"moved" until its callback (`DownloadCompletes`), then "done"; the closure keeps the cell it was tapped in
(`CellOf`), so `slsfile` has a carrousel for each time a classroom is shown.
A preview comes up first ("asking") and then asks its cell for the file
(`PreviewItem`). Failures of the downloads of classrooms and files end the
program in `fatalError`; a failed panorama leaves the HUD up until another answer
dismisses it (`abandoned`).
Two facts are UIKit's: a root controller that presents something presents
nothing else, and a new `UISearchController` does not call
`updateSearchResults` by itself. A text typed before the classrooms come finds
nothing, and says so after they have come: `ClassroomsCome` does not search again.

**WritePipeline.** `disk` holds the rows of the mutations table with the call of
`writeMutations` each came from, `blocks` the completion blocks by user and batch
id. `FillWritePipeline` takes the next rows by id, as the loop in
`RemoteStore::FillWritePipeline` does. A batch sent is appended to `wire`, and
the server's answers, in the same order, to `answers`; `AnswersMatch` states what
the code takes for granted, that these are the pipeline's batches.
`HandleWriteError` is the permanent error, `OnStreamFinish` the transient one,
`CredentialDidChange` the swap of queues with `_mutationCompletionBlocks` left as
they are. The process may end between any two steps (`Crash`) or in the middle
of two that do two things (`CrashBeforeAcknowledge`, `CrashBeforeCompletion`).
Assumed of the server, whose code is elsewhere: it answers a repeated batch as
at first; a permanent status comes only for the next batch that it has not
taken, after the answers to those before it; what a lost connection held it may
take at any time after, in order. Stream tokens are left out.

**DocumentRead.** `workerq` and `mainq` are the two queues between which a call
travels; an event of a listener that was muted meanwhile is dropped. `target` is
the aggregator's `TargetState`: while answers are outstanding the target is not
active, which keeps messages of a stopped listen out of the next one's snapshot.
`view.since` and `floor` only remember, for the properties, the version at the
beginning of a listen and the newest version answered before a call. A version is
odd when the document exists. The server either serves a reader or refuses it
(`denied`). The cache is empty at first and what is in it stays: the LRU
collector, queries of collections, limbo resolution, existence filters, resume
tokens, and the writes' effect on views are left out.

## 3. Runs

Each passing run has one mutant per property: a plausible bug in one mapped
definition, kept next to it as a "mistaken form", under which the property fails.

| Run | Shows |
|---|---|
| `fanout` | All five loaders, every order of up to three answers. The counted ones: never a partial list or two verdicts; they implement `Gather`. `getTasksInProject` ends with the whole list, `getTareasData` gives it if the last reference's task comes last; the weaker promises are what the code does, and no screen calls these two. All of them always say something. 5,130 states. |
| `creation_two_phones` | Two phones create a team each in the same group: listed teams are stored, verdicts are true, `TeamLedger` is implemented. 1,081,600 states. |
| `creation_crash` | One phone, two requests, the classroom over the creator, leaving and returning, one crash anywhere: the inductive invariant, no empty team, the delayed pop takes away the creator that asked or a classroom over it and nothing else, a request lost in a crash stays lost, every other one is answered. 247,524 states. |
| `group_shows` | Two overlapping appearances and a classroom, of groups with two teams, with one, without teams and without students: lists whole or empty; the picker offers exactly those who lack one of the teams, once the students have come, and nobody before; the HUD names what is awaited; every appearance of a group with teams and students ends with its lists or the failure. 123,590 states. |
| `group_rows` (violation) | The picker's rows and references are in different orders, so another student than the one tapped may join the team. |
| `menu_rows` | Four requests, tapped twice, left behind, answered in any order, and a student's document that changes in between: tables whole, screens above what they belong to, the HUD truthful and down in the end. 185,375 states. |
| `onboarding_pages` | Two addresses, right, wrong and lost answers, quitting and logging out anywhere: sign-in pages for accounts that exist, a bulletin that one listener cannot lose, the flag set once and within a session, an address asked for. 6,834 states. |
| `onboarding_retry` (violation) | After a failed lookup or a lost answer, every retry tries to create an account that exists. |
| `classrooms` | Three appearances answered in any order, texts and floors meanwhile, two downloads that end anywhere, their files moved or not: a row opens what it shows and every classroom can be reached, the HUD is up only for what is awaited or, until the next answer, for a panorama that failed; a preview shows what was tapped last in its carrousel, unless the move failed. 556,362 states. |
| `write_pipeline` | Three writes of two users, a pipeline of two, two faults anywhere: the inductive invariant, answers for the right batch, truthful completions, calls in order, `DurableWrites` implemented, writes settled in the end. 66,672 states. |
| `document_read` | Two reads of a document that is made and deleted meanwhile, one fault anywhere: the tracker's assertions, synced snapshots of their own listen, `ReadPromise` implemented, every read answered. 122,398 states. |
| `read_timer` (violation) | A read answered from the cache and removed while the stream starts clears the online-state timer; the next read is left in Unknown for ever by a silent server. 553 states. |

### Bounds

* Three references (`MaxRefs`): enough for a first, a middle and a last answer,
  a failure between two arrivals, and a document named twice. The theorems hold
  for any number.
* Two phones with one team each, or one phone with two: the interactions are
  between two writers of one group, and between one request's timer and a
  second request. One crash: a second meets only queues and requests that a
  first can leave behind. One student and the code's `limit` of 3: the alert of a
  fourth row is a modal alert like that of an empty form, which the runs have,
  and the row is selected all the same. One classroom request on the one phone
  (a second would lie over the first), none on the two, where the screens of one
  do not touch the other. The theorems hold for any number of phones, teams,
  students, creators, classrooms and crashes, and any limit.
* Two appearances and one classroom request: the second appearance overlaps the
  first at each of its points. Four groups: two teams, where one student belongs
  to both, one to one and one to none; one team; no team; no student.
* Four requests in `ProjectMenu`: the menu, a course, a group, and one more of any
  kind: a second tap, or the menu again. The two courses share a group.
* Three listeners and two addresses: one listener, the first duplicate and one
  more; one person signs out and another in.
* Three appearances of the search and two downloads: two answers of earlier
  appearances are out while the third is on the screen, and two downloads may
  be of one carrousel, of two, or of one classroom shown twice. Two classrooms
  on different floors; documents of different classrooms with the same name.
* Three writes, `kMaxPendingWrites` of 2 where the code has 10: the pipeline is
  then empty, in between, full, and full with a row waiting. Two users, and two
  faults among lost streams, refused tokens, credential changes and crashes: a
  change of user and back, or a crash after a lost stream.
* Two reads, two changes of the document, one fault; in `read_timer` no change
  and no fault, since none is needed.

Deadlock is not checked in `FanOut`, `GroupScreen`, `ProjectMenu`,
`ClassroomSearch`, `WritePipeline` and `DocumentRead`, where a call that has all
its answers, a program that trapped, or a bound that is used up is an end.

### Fairness

* `FanOut`, `GroupScreen`, `ProjectMenu`: each document request is answered in
  the end, if only with an error or from the cache. `EventuallyAnswered` of
  `DocumentRead` is this promise, for a server that reads what is sent to it;
  `read_timer` shows that without such a server it is not kept.
* `TeamCreation`: weak fairness of the server's taking a write and of the
  callbacks, per phone. `Crash` and `Rejected` may still happen but need not; a
  phone that is dead is not obliged to restart. The assumption says that a
  phone is not offline for ever; without it the code really waits for ever.
* `Onboarding`: the main queue runs the listener calls queued on it. Nothing is
  assumed of Firebase's answers or the user.
* `WritePipeline`: the worker queue runs what is on it, the backoff elapses, a
  dead process is started again, and the server answers what it is sent. Faults
  are only as many as `MaxFaults` allows.
* `DocumentRead`: `PhoneFairness` is what the phone does by itself (its queues,
  its messages, its token, its timers); the passing run adds weak fairness of
  `ServerReads`. The idleness timer is not assumed to elapse.
* `ClassroomSearch` has no liveness property: nothing there waits that a later
  appearance does not ask for again.

### Findings

The three violations are described with file and line in `PROJECT.json`. Each
quotes a message, a label or a comment of the source that the run refutes.

Other doubtful behaviour is a step of the models; the properties next to it say
how far the promise does hold:

* A creator left while its request is out, or in the three seconds after its
  success, has no navigation controller when the delayed completion unwraps it,
  and the program ends (`Controllers/TeamCreatorViewController.swift:108`;
  `PopTraps`). `ClosesItsCreator`: a pop that does happen is the right one.
* A group without teams is downloaded for ever: no request, no answer, the HUD
  stays up and the students are never asked for
  (`Controllers/FirebaseController.swift:256`; `StartLoad`); and its picker offers
  nobody, since students are offered once for every team that they are not in
  (`Controllers/GroupViewController.swift:97`; `Selectable`), so its first team
  cannot be made. `OffersWhoLacksATeam` says both; `EventuallyShown` is about
  groups with teams and students.
* With two listeners, which is after the first return to the home screen, logging
  out presents two pages and the one on the screen loses its manager: it cannot
  be used nor dismissed (`Controllers/ViewController.swift:41`; `Shown`).
  `OneListenerOneBulletin`: not before that.
* A panorama that fails leaves the HUD up
  (`Views/Cells/Lab Detail/ImageCarrouselTableViewCell.swift:61`; `PanoramaFails`).
  `HudSpeaksTruth`: until the next answer, of whatever it is.
* The row "No se han encontrado cursos..." is asked for like a course; a search
  typed before the classrooms come stays empty; a created team is not shown, and
  its members are offered again, until the group is opened anew.

In the Firestore client two more are steps of `DocumentRead` that do no harm
there: the aggregator forgets a target's outstanding answers when the target is
rejected (`OnTargetError`), and a watch stream that becomes open with no target
left is stopped by no timer (`ResumeStartWithCredentials`). One is outside the
models: a write stream whose send fails may drop answers that came before its
status (`Pods/FirebaseFirestore/Firestore/core/src/firebase/firestore/remote/grpc_stream.cc:306`).

## 4. Proofs

All theorems hold for every value of the constants that satisfies the `ASSUME`s
of the module: bounds are natural numbers, maps have the domains and ranges that
they need, `Drawer` gives each team a phone, `kMaxPendingWrites` is positive.

**FanOutProofs.** `OneVerdict` is not inductive: it says nothing of an array
that will become full after a nil was told. `VerdictInv` adds that positions are
appended once and only after their answer (`AppendedOnce`), that a nil stands
for an answered position that will never be in the array (`NilIsForGood`), and
that a list was handed over only when the array was full (`ListIsFull`). A full
array without repetitions names every position (`FullListCovers`, by counting),
so nothing is awaited and nothing more can be said. From it follow
`OneVerdictHolds` and `PromiseKept`: for the callers of the counted loaders
`FanOut` implements `Gather`; a call never changes its loader (`SameCall`). The
loaders that do not count have an invariant of their own, `SaidInv`, inductive
under `VerdictInv`: where `getTasksInProject` has not said nil, every answered
position was appended and its last word is the array as it is; where the
document of `getTareasData`'s last reference is not repeated, one list is handed
over, when that document comes, and it is the array up to it.
`TasksAlwaysEndWhole` and `TareasAlwaysWholeInOrder` follow.

**TeamCreationProofs.** The heart is `RequestInv`: a queued write belongs to a
request that waits for it or died waiting, a link is queued only for a team
that the server has, a team has at most one write queued, a request not made has
left no trace and one with a verdict is over. It is proved action by action
through lemmas about queues (`AppendWrites`, `TailWrites`, `DropHead`) and about
each kind of step (`Steady...`). `ListedTeamsExistHolds`, `TruthfulVerdictHolds`
and `TeamsHaveMembersHolds` are consequences; `LostStaysUnlistedHolds` is an
action property from the same invariant; `LedgerKept` is the refinement of
`TeamLedger`: at most one phone writes to a team, so each step lists it,
answers it or leaves it alone. `ClosesItsCreatorHolds` is about the stack:
`StackInv` says that the group's screen is at the bottom of it and nowhere else,
that at most one creator is on it and right above, so that what can be on top
of the creator that asked is only a classroom; `Pushing` and `Popping` are its
lemmas about sequences, `StackStep` its induction. That the pop comes only for a
team that is listed is `TruthfulVerdict`.

**WritePipelineProofs.** `PipelineInv` is inductive. `AnswersMatch` needs
`StreamInv` (with the handshake complete, answers and wire together are the
whole pipeline; otherwise there are none) and `PipelineIsHeadOfQueue`;
`CompletionsTruthful` needs that and `QueueInv` (a user's rows are in the order
of the calls, a call without a row has its verdict); `AppliedInOrder` needs that
the wire and every lost connection hold each earlier call before a later one
(`WireClosed`, `StraysInv`). `RefillHead` is the lemma that the fill loop keeps
the pipeline the head of the queue. From the invariant follow
`AnswersAlwaysMatch`, `NeverIdleInNeed` (the hard assertion on a stream that is
stopped when idle), `CompletionsAreTruthful`, `CallsAppliedInOrder` and
`PipelineKeepsPromise`, the refinement of `DurableWrites` with `pending` the
calls that have a row.

**GroupScreenProofs.** `CallInv` is what a call of a loader that counts every
answer keeps: what it appended was awaited, once, and the lengths of what is
appended and of what is awaited make up the length of the references. An array
that is handed over is therefore a permutation of the references (`Permutes`, an
injection between finite sets of the same size). `ShowInv` says it of every
appearance (`EntryInv`: students are asked for only once teams were told) and of
the arrays on the screen (`ListsInv`: students only with teams).
`ShowsAlwaysWhole` follows, and `AlwaysOffersWhoLacksATeam`, in both
directions and with no assumption on the group: it needs the lemma that
`Repeated` keeps exactly the members that are repeated at least once, that two
permutations of one list count the same teams, and that students are on the
screen only with teams. `SaidOnlyWhileDownloading` follows each of the HUD's
messages from the appearance, or the button, that raised it to the answer that
replaces it.

**DocumentReadProofs.** `TrackerInv` adds to `TrackerConsistent` that a
connection is empty when its stream is not open: only an open stream can turn
the client Online. It gives `TrackerAlwaysConsistent` and `NeverStoppedInNeed`.
`SnapshotsTruthful` needs the whole path of a listen, `ReadInv`. On the phone: a
call waits on the worker queue or is a listener, once (`AskedInv`, `PlacesInv`),
an error is the last that it hears (`LastWordInv`), a reader who is refused sees
nothing else (`RefusedInv`), and cache, view and events hold the document as it
was at some version (`DocInv`, `ToldInv`). On the wire: the target awaits
exactly the requests not yet served and the acknowledgements in the connection
(`AwaitedInv`), so a message is believed only when no newer listen is on its
way; versions only grow towards the cache, and what follows the last
acknowledgement is as new as the listen (`VersionsInv`); a document comes just
before its snapshot (`DocumentsInv`); a view that was restored as current and
awaits an answer awaits that of a new stream (`RestoredInv`). Each action is a
lemma of its own, for each conjunct that it disturbs. From it follow
`TypeCorrect`, where the count of outstanding answers is never negative,
`SnapshotsAlwaysTruthful`, and `ReadsKeepPromise`, the refinement of
`ReadPromise`.

**ClassroomSearchProofs.** `PreviewsTheTapped` speaks of a preview that is up;
inductive is `PreviewInv`, which says the same of one that is coming up
(`PresentedInv`: its carrousel's file is that of a download after whose answer
nothing was tapped, which stays so because the presenter takes no tap), that a
file under a moved name is that file, a namesake or what a failed move has left
(`DiskInv`), that whatever file is in the directory was tapped and is under its
own name (`NamesInv`, for the move that fails and leaves the old file), and that
what a tap noted was done (`AfterInv`). `HudSpeaksTruthHolds` needs only that each
download out is an entry of the list. `TableAlwaysTruthful` is by
`TableInv`, which speaks of the last answer's floor also while a search hides
it: the floors of a list (`GetFloors`) are those of its members, and filtering
(`Filtered`) an empty list gives nothing. Its one assumption on the data,
`CollectionsAssumption`, is that an answer of the query is a list of classrooms.

**OnboardingProofs.** `OnboardingInv` says of every page on the stack what it
rests on (`PageInv`), which is never taken away while the page is up: accounts
are not deleted, and logging out needs a screen without pages. `ListenerInv`
says that the first listener has seen the session under which it asked for an
address. It gives `SignInPageHasAccountHolds`, `OneListenerOneBulletinHolds`
and the action property `OnboardedOnceHolds`.

**ProjectMenuProofs.** `ParentInv`: a course's rows are its groups
(`ScreensInv`, `LoadsInv`), and a request comes from the screen where it can be
tapped (`RequestsInv`), so what its answer pushes lies above that screen as long
as `Presents` holds. Screens are only added, so what a request or a stack entry
refers to does not change (`Extends`). `HudSpeaksTruthHolds` is separate.
`TablesAlwaysWhole` is by `WholeInv`: `ParentInv`, requests typed by the screen
that made them (`AskedInv`), a document appended to its array only once and only
with its answer (`OnceInv`), so that a full array is a permutation of the
course's groups, and tables that are either the row "No se han encontrado..." or
one reading of the student (`RowsInv`).

**Loops.** A loop of the code over a list is a recursive function on the
natural numbers up to the list's length (`Among` of `DocumentRead`, `Filtered`
and `GetFloors` of `ClassroomSearch`, `Repeated` of `GroupScreen`). An induction
rule with a predicate for a parameter cannot be used, so such a lemma supposes
a length for which it fails, takes the least (`LeastNat`, from the
well-foundedness of the naturals) and refutes it from the length before.

**Only model-checked.** The liveness properties, since fairness and `ENABLED`
are out of the prover's reach: `EventuallyTold` of `FanOut` and of
`TeamCreation`, `EventuallyShown` of `GroupScreen`, `HudComesDown` of
`ProjectMenu`, `AsksForAddress` of `Onboarding`, `EventuallySettled` of
`WritePipeline`, `EventuallyAnswered` of `DocumentRead`. Every invariant, every
action property and every refinement of a passing run is a theorem.

## 5. Not modelled, and what is left to do

Left out for good: layout, wording, animations, the models' field lists, the
360-degree and augmented-reality screens, the stubs `TaskViewController` and
`TeamViewController`, the unused Core Data stack, and the insides of the vendored
libraries other than the two paths through Firestore that the application takes.
Most of the lines of the repository are such libraries (BoringSSL, gRPC,
Protobuf, leveldb): they are below what the application observes, and the map
covers the application and the Firestore client only. External code is modelled
by what is used of it, and marked so in the map. Of Firestore, transactions,
disabling the network, and queries of collections are not modelled: the first
two the application does not use, and of the third (`getClassroomData`) it sees
one answer, which `ClassroomSearch` has.

Still to do, in order:

1. `GroupVisit`: `TeamCreation` composed with `GroupScreen`. The group is the
   snapshot the screen was opened with, so a created team is not shown and its
   members are offered again. (The classroom that arrives over the creator and
   takes the pop meant for it is in `TeamCreation`.) Refinement to be stated: what `GroupLoads` of
   `TeamCreation` leaves open is what `GroupScreen` does.
2. With `GroupVisit`, its theorems: that a member of a created team is offered
   again only until the group is opened anew, from `ShowInv` and `RequestInv`.
3. `DocStore`: the writes that no screen calls; the collections `equipo` and
   `equipos` that the writes and the reads disagree on, and the kinds of value
   that they store (an identifier where a reference is read).
4. Thumbnails of videos, made off the main thread and set on reused cells
   (`Views/Cells/Lab Detail/VideoTableViewCell.swift:42-47`).
5. Logging out with writes in the queue: `WritePipeline` has the queue of each
   user; the screens of a user who comes back are to be composed with it.
