# A TLA+ model of Komai

Komai is a Matrix desktop client: a Qt/QML front end in C++ on top of the Rust
`matrix-sdk`. The C++ side is single-threaded (the UI thread and its event
loop, plus short-lived worker threads); the Rust side runs a tokio runtime, one
thread per opened room and one for the room list. The two talk through a CXX
bridge: C++ calls Rust functions, Rust posts notifications to the UI thread.
What is hard in this program is what happens between those threads: answers
that come late, notifications that overtake each other, rooms that are switched,
released and re-opened, and a logout in the middle of it all. That is what these
modules model.

All paths below are relative to the repository, `LC` stands for
`src/timeline/view/TimelineViewManagerMatrixTimelineLifecycle.cpp` and `RS` for
`src/rust/src/matrix_backend`.

## 1. The system

The parts that carry state of their own, how they interact, what is hard about
them, and what makes them correct. PROJECT.json lists the rest (conversions,
settings, presentation, single calls into the SDK) with the reason they are left out.

| component | state and operations | interacts with | hard behaviour | correct when |
| --- | --- | --- | --- | --- |
| Timeline refresh (`LC`, `TimelineViewManager*`) | a model per room, active room, pending rooms, one in-flight slot, queued flag, pagination and pinned state; notification handlers, schedule, fetch, apply, switch, release, clear | loops (notifications in, commands out), worker threads, timers, QML | answers of other rooms, other handles or released rooms; the slot taken over; notifications during a fetch; timers that outlive their room | a slot and a flag are always freed; no item of another session is shown; loading ends; the view catches up |
| Timeline loops (`RS/runtime_timeline`) | registry of tasks and snapshots under one mutex, a mutex per snapshot, a thread with command channel and stop token per room; select, stop, fetch, paginate, diffs, backfill, end | UI thread, workers, room list (previews), SDK | start and stop of the same room overlap; locks taken inside locks; joins on the UI thread | one writer per snapshot; what is fetched is of the newest loop; no loop forgotten; calls return |
| Room subscriptions (`RS/runtime_subscriptions.rs`) | reference counts, permit, reconciler, forwarders; subscribe, unsubscribe, reconcile, forward | UI thread, SDK sync, pinned-message view | lost wake-ups, debounce against A-B-A switches, abort against emission | rooms on screen are subscribed and others are not; the list shown is the active room's and arrives |
| Backend handle lifecycle (`MainWindow`, `ChatPageSessionLifecycle`, `RS/runtime_registry.rs`, `RS/bootstrap.rs`) | current handle, start request id; start (asynchronous), adopt, stop | everything that holds a handle id | an answer of a cancelled start; stop during a start; a stop that blocks on threads | no handle is leaked; a late start is stopped, not adopted |
| Bridge (`matrix/backend/MatrixBackendBridge.cpp`) | none; posts every Rust notification to the UI thread | Rust threads, UI thread | delivery after the receiver changed its mind | order per sender is kept; the handle is checked |
| Room list sync (`RS/runtime_room_list`) | snapshot of the list, reconciler and sync tasks; rebuild, enrich, preview | timeline loops (backfill), room-list models | a rebuild over a back-filled preview; break of the loop while the reconciler is awaited | a newer preview is not replaced by an older; stop terminates |
| Room list models (`timeline/RoomlistModel.cpp`, `timeline/roomlist`) | rows, filters, current space | room list sync, history | incremental updates against full resets | the view is the filter of the snapshot |
| Thread timelines (`RS/runtime_thread_timeline`) | the one subscribed thread, a cache of three warm threads, its snapshot; open, close, paginate | timeline view, workers | reuse of a loop that is ending; the snapshot or a page of another thread | what is shown is of the open thread; the cache keeps its limit |
| Jump to an event (`TimelineViewManagerRoomActions.cpp`) | pending event, requests left, awaiting flag per room | refresh, loops | a page that never comes; a switch in the middle | a jump ends: found, given up after 20 requests, or abandoned |
| Pool of timelines (`qml/timeline/TimelineView.qml`) | pool of QML timelines with an order of use | ensure/release of models | eviction of a room that a window still shows | a shown room has a model; the pool keeps its limit |
| Attachment queue (`...MatrixTimelineAttachments.cpp`) | one queue and its rows, the flag of the upload, reply and edit; saved and restored per room | composer, uploads, room switches | a switch or a clear during an upload; rows by index | rows match the queue; one upload at a time; no file is sent twice or with the caption of another |
| Preloader (`RS/runtime_preloader.rs`) | a semaphore and warm timelines | loops, cache | warm-up of a room that is being opened | the cache keeps its limit; no duplicate loop |
| Navigation history (`timeline/NavigationHistory.cpp`) | bounded list and cursor | room switches | back and forward across removed rooms | back undoes forward; the bound holds |
| Notifications (`notifications`) | pacing state; sound and pop-up decisions | room list, windows | bursts, read while queued | at most one sound per interval; nothing lost silently |
| Device verification (`RS/runtime_verification.rs`, `encryption/`) | flow state per request | the other device, SDK | both start, cancel against done, time-out | one outcome on both ends |
| Calls (`voip/`, `RS/runtime_voip.rs`) | call state, party, candidates, time-outs | peers, WebRTC | answer elsewhere, glare, hang-up before answer | one party answers; every call ends |
| Media proxy and downloads (`RS/runtime_media*.rs`) | running server, shared downloads | QML players, SDK | two requests for one file, stop in between | one download per file, all waiters answered |
| Login and discovery (`auth/`) | page state, request generation | home server | an answer for the previous server name | what is shown is of the current name |
| Session persistence (`RS/session_persistence.rs`) | tokens on disk and in the secret store | SDK token refresh, logout | a refresh that writes after logout | after logout nothing is stored |


## 2. Files

| file | what it is |
| --- | --- |
| `TimelineRefresh.tla` | the way of a room's timeline from its Rust loop to the screen |
| `MCTimelineRefresh.tla`, `refresh_*.cfg` | its instances for TLC |
| `TimelineRefresh_proofs.tla` | its invariants proved for every value of the constants |
| `LatestSet.tla` | what a debounced follower of a set promises |
| `RoomSubscriptions.tla` | the subscriptions of the rooms on screen and their pinned messages; implements `LatestSet` |
| `MCRoomSubscriptions.tla`, `subs_*.cfg` | its instances for TLC |
| `RoomSubscriptions_proofs.tla` | its safety properties, and that it steps like `LatestSet`, proved for every value of the constants |
| `TimelineTasks.tla` | life, stop and locks of the Rust timeline loops |
| `MCTimelineTasks.tla`, `tasks_*.cfg` | its instances for TLC |
| `TimelineTasks_proofs.tla` | its safety properties proved for every value of the constants |
| `RecentlyUsed.tla` | what a cache promises that gives up what was not used for the longest time |
| `ThreadTimelines.tla` | threads shown in place of their room: cache, loops, notes and models; its cache implements `RecentlyUsed` |
| `MCThreadTimelines.tla`, `threads_*.cfg` | its instances for TLC |
| `ThreadTimelines_proofs.tla` | its safety properties, that its cache is one of `RecentlyUsed` and that evicted loops end, proved for every value of the constants |
| `AttachmentQueue.tla` | the files staged in the composer, over uploads and room switches |
| `MCAttachmentQueue.tla`, `attach_*.cfg` | its instances for TLC |
| `AttachmentQueue_proofs.tla` | its safety properties proved for every value of the constants |
| `SequenceLemmas.tla` | lemmas about sequences without repetitions and their order, used by the two modules of proofs before |
| `PROJECT.json` | components, runs, mutants, source map, findings, hazards, theorems |

Operators whose comment starts with "Mutant:" are wrong variants of the
definition that follows them. They are used by no specification; replacing the
definition by its mutant must break the property PROJECT.json names, which shows
that the property depends on that piece of code.

Every configuration has `CHECK_DEADLOCK FALSE`: users, loops and the server do a bounded
number of things, after which each of these systems comes to rest.

## 3. TimelineRefresh

### State and actions

Each Rust timeline loop (`RS/runtime_timeline/task_loop.rs`) stores snapshots of
its room in `room_timeline_snapshots` and then notifies C++. `Store` and `Notify`
are two steps, because the notification is sent after the snapshot lock was
released and the UI thread, the workers and the loops of other rooms run in
between. `FinishPagination` serves a `PaginateBackwards` command and re-notifies
when it failed; `LoopEnds` is a loop that returns.

On the UI thread `TimelineViewManager` keeps a model per room. A handler runs to
completion before the next event is served, so each handler is one action:

| action | code |
| --- | --- |
| `AcceptNotification`, `IgnoreNotification` | `handleMatrixBackendRoomTimelineSnapshotUpdated` |
| `Schedule` (called by them and by every apply path) | `scheduleCurrentMatrixTimelineRefresh` |
| `RunDispatch`, `SkipDispatch` | the lambda it queues |
| `Refresh`, `ReadSnapshot`, `PostResult` | `refreshCurrentMatrixTimeline`: start of the worker, its read of the Rust snapshot, its post back |
| `DropForeignResult`, `DropEvictedResult`, `FailBackgroundFetch`, `FailActiveFetch`, `ApplyBackground`, `IgnoreShrink`, `Prefetch`, `ApplyActive` | the paths of the apply callback, in the order in which it tests for them |
| `PrefetchFallback`, `LoadingFallback`, `WarmupExpires` | its timers |
| `EnsureModel`, `ReleaseModel` | `ensureModelForRoom`, `releaseModelForRoom` with `stop_room_timeline` |
| `SelectRoom`, `CloseRoom` | `updateCurrentMatrixTimelineSelection` |
| `Logout`, `Login` | end of a backend handle, start of the next |

A snapshot is abstracted to the session it belongs to, a version, the number of
its items and the number of those that are rows of the model; these are the
parts the code's decisions depend on (the prefetch and the warm-up guard compare
counts). Worker threads answer in any order; posted events are FIFO, as Qt
delivers queued calls to one receiver thread. Which pending room is dispatched
next is a free choice, as the code takes the first of a `QSet`.

The request id is a 64-bit counter that is never reset; the model gives the
smallest id no worker, posted answer or slot still carries, which keeps the state
space finite and distinguishes the same requests.

### Bounds

`MaxVersion` snapshots stored, `MaxItems` items in one, `MaxRequests` requests at
a time, `MaxSession` sessions. `MaxEvents` is the length of the event queue at
which the environment (loops and user) is quiet; the handlers themselves are
never held back by it. Two rooms are enough for the in-flight slot to be taken
over by another room, two sessions for an answer to cross a logout, two
requests for two outstanding answers, and two versions for a stale and a fresh
snapshot. `PageSize` is set so that a snapshot can be below a page (the prefetch
path) and, with `PageSize = 1`, so that it cannot.

### Runs

* `refresh_rooms` (pass) - two rooms, two sessions: `InFlightIsOutstanding` (an
  occupied slot always has the answer that frees it on its way),
  `QueuedFlagHasDispatch`, `ActiveRoomHasModel`, `LoopsAreWatched`,
  `LoadingMeansEmpty`, `ResultsKeepTheirSession` and the action property
  `ShowsOnlyThisSession`.
* `refresh_settles` (pass) - liveness: `RefreshSettles`, prefetch, fallback and
  re-notification do not feed each other for ever.
* `refresh_lost_update` (violation) - `ModelsCatchUp`. A snapshot stored after
  the worker read the previous one and announced before that fetch is applied is
  never fetched: the dispatch takes the room off the pending set and
  `refreshCurrentMatrixTimeline` returns at once, because a fetch of that room is
  in flight. The view stays one snapshot behind until the room changes again.
  The property speaks of versions only, and from the moment the UI thread is told
  of one: a model before its first notification is not behind. The instance is
  the smallest room, with no prefetch, no failure and no switch, and QML releases
  nothing (`QuietSpec`); with a `RunDispatch` that keeps the room pending while its
  fetch is in flight the same run finds no violation.

Fairness (`Fairness`): weak fairness of the UI thread's event queue and timers,
of the workers, and of a loop that has something to announce or a command to
serve. The Qt event loop is FIFO, a detached thread gets to run, and a loop's
`select!` polls its command channel; a room need not change, and the user need not
act, so `Store` and the user's actions have no fairness.

### Proofs

`TimelineRefresh_proofs.tla` proves, for every set of rooms and every bound:

* `TypeCorrect` - `TypeOK`, which is inductive.
* `QueuedFlagIsSafe` - `QueuedFlagHasDispatch`. Inductive with `TypeOK`: the flag is
  set together with the post of a dispatch and only the dispatch is taken off
  the queue while the flag is reset (or all is cleared).
* `InFlightSlotIsSafe` - `InFlightIsOutstanding`. The induction follows the answer
  of the slot from a worker through its post to its handling; a new id is used by
  nobody else (`UsedIds`).
* `WatchedRoomsAreSafe` - `ActiveRoomHasModel /\ LoopsAreWatched`; each needs the
  other: releasing a model stops the loop, and only rooms other than the active
  one are released.
* `ResultsAreGenuine` - `NoHandleNoSnapshots /\ ResultsKeepTheirSession /\ RowsAreItems`.
  `ResultsKeepTheirSession` alone is not inductive: a login must not find
  snapshots of the handle before it, which is `NoHandleNoSnapshots`.
* `OnlyThisSessionIsShown` - the action property `ShowsOnlyThisSession`, from
  `ResultsAreGenuine`: an answer is only applied when its handle is the current
  one, and what it carries is of the handle it was asked from.
* `LoadingIsHonest` - `LoadingMeansEmpty`, from `RowsAreItems`: loading ends with
  the first snapshot that has items, so an applied snapshot that leaves it on has
  no rows.

The lemmas before them say what posting to and taking from the event queue does
(`PostedEvents`, `TakenEvent`), what `Schedule` does in all its callers
(`ScheduleEffect`), and what handling an event does to queue, models and slot
(`HandledQueue`, `HandledModels`, `HandledSlot`).

Liveness (`RefreshSettles`, `ModelsCatchUp`) is only model-checked.

## 4. RoomSubscriptions

### State and actions

Every surface that shows a room (the main window's active tab, a detached
window) holds a reference in `SubscribedRooms`. `SelectRoom`, `CloseRoom`,
`LoseActiveRoom`, `OpenWindow` and `CloseWindow` are the handlers of the UI thread;
the calls they make into Rust are queued in `calls` and executed by `DoCall` one at
a time, since the reconciler runs on another thread between two of them.
`Subscribe` and `Unsubscribe` change the count under the lock and wake the
reconciler after the lock was released, so the wake-up (`NotifyOne`) is a step of
its own too. `tokio::sync::Notify` is external: `notify_one` leaves at most one
permit, `notified` consumes it.

The reconciler waits (`Wake`), sleeps 150 ms, takes the set and starts and aborts
forwarders (`TakeSet`), and submits the set to the SDK if it changed (`Submit`). A
forwarder reads the pinned list and posts it (`Seed`), subscribes to changes
(`Listen`) and posts every list that differs from its last (`Emit`). An abort is
atomic in the model; tokio lets a poll that is under way finish, which could post
one more list of the aborted forwarder. The UI shows a list only when room and
session are the current ones (`ShowPins`).

All of this belongs to a backend handle, whose life runs through three threads.
`StartBackend` (a login, or a second try after a failed start) takes a new start request
id and leaves a detached thread to restore the session (`Restore`: a handle enters the
registry, or there is none). Its answer is handled on the UI thread: `Login` adopts the
handle and starts its sync, and with it the reconciler; `StartFails` shows the login page
or the reason; `DropStart` stops the handle of a start whose request id is no longer the
current one. `RequestLogout` leaves another detached thread to tell the server; when it
has answered, `Logout` (`finalizeLogout`) stops whatever handle is there by then and
takes a new request id, so that no start under way is adopted. The chat stays on
screen until then, so a user who is tired of waiting can ask twice, and the second answer
ends whatever session came after the first (the model has this step, see the hazards).
`page` is what the main window shows; the chat page, which opens one turn of the event loop
after `Login`, is counted as open from `Login` on. A local logout after an
authentication failure is a `RequestLogout` answered at once.

A pinned list is abstracted to its version in the state store; 0 is the empty
list, which is also what a switch leaves on screen.

### Bounds

Two rooms and a detached window give every overlap of two surfaces on a room and
every A-B-A switch. `MaxRefs` is the largest count (the surfaces' two), `MaxPins`
the changes of a pinned list, `MaxEvents` the posted lists at which forwarders
wait. `subs_sessions` has three handles, two logouts under way and start requests up to
`MaxRequests`, two starts after the first session: a start
replaced by another is answered before, between and after the logouts and the adoption
of the other one, and a window outlives the session it was opened in. Its rooms do not
change (`SessionsSpec`; pinned lists are told apart by their room); they do in the runs
with one session (`OneSessionSpec`, `HastySpec`), where messages are pinned in one of the two: the lists of two
rooms meet in the queue to the UI thread only, which tells them apart by their room
whatever their versions.

### Runs

* `subs_sessions` (pass) - `NoLostWakeup`, `ForwardersFollowTheSet`,
  `PinsAreOfActiveRoom`, `NoBackendIsLost` (a handle in the registry is in use or
  comes with an answer), `PagesFollowStarts` (one start can be adopted just while the
  startup page waits, none after a logout), `StepsLikeLatest` (the steps of the reconciler are those of
  `LatestSet` in every session; a logout replaces it), and `TypeOK`: with several sessions the references include
  those given back to a handle that never lent them, which must not count below
  zero.
* `subs_one_session` (pass) - `ShownRoomsAreSubscribed`, `PinsNeverGoBack`,
  `FollowsLatest`: the component implements `LatestSet`, with `wanted` the referenced
  rooms, `taken` the reconciler's snapshot and `applied` the set the SDK was given,
  and `HeardChangesAreAnnounced`: the forwarder of the room where the user comes to
  rest ends up on its stream, and what the state store has when the stream fires is
  emitted.
  This run has no logout, which replaces all three at once together with
  their owner.
  What is not promised: `Seed` reads the list and `Listen` opens the stream of its changes, and a
  list that changes in between is announced with the next change of the room only, which need not
  come. The comment in `runtime_subscriptions.rs:29-31`, that the forwarder "keeps emitting when
  the state-store value changes, until the room leaves the set", says more than the code does;
  with the stream opened first it would be true.
* `subs_hasty` (violation) - `PinnedListArrives`: what was emitted is also on
  screen. Leaving a room and returning within the debounce keeps the room's forwarder;
  the switch cleared the list, the forwarder has nothing new to say, and the pinned
  messages stay away although the comment at `LC`:193 counts on them. `HastySpec` assumes
  that every room changes again and again, which nothing guarantees: it keeps the gap
  between `Seed` and `Listen` out of this run, so that the list stays away for this reason alone.

Fairness (`Fairness`): the UI thread, the reconciler and the forwarders run. A room need
not change, in its pinned messages or otherwise (`RoomInfoChange`), and the user need
not act. Only the violation run `subs_hasty` adds an assumption, the one above.

### Proofs

`RoomSubscriptions_proofs.tla` proves, for every set of rooms, every finite set of
windows and every bound:

* `TypeCorrect` - `TypeOK`, inductive. `CallEffect` says what executing a call
  of a handler does to references, permit and calls.
* `WakeupsAreNotLost`, `ForwardersAreOfTheSet` - from `ReconcilerInv`: a set the
  reconciler has not seen leaves a permit or a `notify` still to be called
  (`ToldToLook`, which says so also while the reconciler submits the set it took and
  not only while it waits), forwarders run for the set taken last, and without a handle there are no
  references, so that a login starts from an empty set (`NoHandleNoSubscriptions`).
* `BackendsAreKept`, `LateStartsAreIgnored` - `NoBackendIsLost` and `PagesFollowStarts`,
  from `BackendInv`, which adds that no two starts share a request id or a handle, that none
  has an id beyond the current one, and that a handle is given out once
  (`StartsAreDistinct`). The reconciler's invariant needs the second: a handle is only
  adopted when there is none.
* `PinsStayInTheirRoom` - `PinsAreOfActiveRoom`, inductive.
* `PinsOnlyAdvance` - `PinsNeverGoBack`, from `OrderInv`: the posted lists of a room are
  in the order of their versions and none is newer than the state store
  (`ListsInOrder`), and the list on screen is not newer than any that is
  still to come (`ScreenIsNoNewer`). `PostInOrder` and `ShowInOrder` are the two ends of
  the queue.
* `ReconcilerImplementsLatestSet` - `StepsLikeLatest`: the initial state of `LatestSet`
  and its steps.
* `SurfacesKeepTheirRooms` - `ShownRoomsAreSubscribed` in behaviours without a logout,
  after which it does not hold (a window that outlives its session gives back what it
  never took). Between the calls of a handler the property is not true; `CountInv` adds
  the references that the calls still to be made take (`Coming`) and give back
  (`Going`), and needs the order of these calls (`CallsAreOrdered`).

`HeardChangesAreAnnounced` and the liveness of `LatestSet` (`FollowsLatest`) are only
model-checked.

## 5. TimelineTasks

### State and actions

The same loops as in section 3, seen from the inside. A handle keeps, under
one registry mutex, the task (`tasks`) and the snapshot (`slots`) of each opened
room; a snapshot is a vector behind a mutex of its own, which the map shares with the
loop. Three kinds of threads meet there: the UI thread, detached workers that fetch, and the
loops. Every critical section is one action. Only where the code takes a second lock
inside the first does the model hold a lock over a step: `registry` names the holder
of the registry mutex, `locked` is the set of snapshots whose mutex a loop
holds.

| actions | code |
| --- | --- |
| `BeginSelect`, `SelectCheck`, `SelectPrepare`, `SelectClear`, `SelectSpawn`, `SelectInsert` | `select_active_room_timeline`, which takes the registry lock three times and starts the thread before the task is in the map |
| `BeginStop`, `StopRemove`, `StopDrop`, `Stopper` | `stop_room_timeline` and the detached thread that cancels the loop |
| `BeginLogout`, `LogoutRemove`, `LogoutCancel`, `LogoutJoin`, `LogoutReturns` | `stop_backend`, which joins every loop on the caller's thread |
| `BeginFetch`, `FetchLock`, `FetchRead` | `fetch_room_timeline_snapshot` on a worker thread |
| `LoopStarts`, `FirstSnapshot`, `LoopHead`, `Diff`, `LockPreview`, `Backfill`, `Paginate`, `PageArrives`, `StreamEnds`, `StopArm`, `LoopEnds` | the arms of `run_room_timeline_loop` |

Snapshots are named after the loop they were created for; the content of one is
abstracted to the loop that wrote it last. The items in it are the subject of
section 3.

### Bounds

`MaxLoops` = 2 loops on two rooms with one worker in `tasks_calls`: a room is opened, released and opened
again while its first loop has not noticed, or each room has a loop. The
proofs cover every number of loops, rooms and workers. The model ends with a
logout, as a new handle has maps of its own.

### Runs

* `tasks_calls` (pass) - `TypeOK`, `OneWriter`, `SnapshotIsOfNewestLoop`,
  `LoopsAreOwned`, `NoOtherEmbrace` (whoever holds the registry can go on, but for a
  fetch and a loop that hold one lock each), and `UiReturnsUnlessLocksCross`: the calls of the UI thread
  return, joins of a logout included, unless a fetch and a loop hold one lock each and wait
  for the other's.
* `tasks_fetch` (violation) - `UiReturns` without that exception. The loop calls
  `maybe_backfill_room_list_preview` under the lock of its snapshot and takes the
  registry lock there; the fetch takes the snapshot's lock under the registry's.
  The diff that leads to the first is announced just before and starts the
  second. Both locks are lost for good, and the UI thread blocks in its next call.

Deadlock is not left to TLC's check, as after a logout and the end of all loops nothing is
left to do; `UiReturns` finds the one that matters.

Fairness: every thread runs when it can, and the server answers a pagination. A
diff, the end of a stream and the user's calls have no fairness.

### Proofs

`TimelineTasks_proofs.tla` proves for every set of rooms and workers and every
number of loops:

* `TypeCorrect` - `TypeOK`, inductive.
* `TasksAreSound` - the inductive invariant `TasksInv`. The three properties are not
  inductive. They also need how loops and snapshots are numbered (`LoopsAreNumbered`:
  a new snapshot has never been written), what a call finds of its earlier
  sections (`CallsAreSound`: between `SelectPrepare` and `SelectInsert` no
  running loop writes the snapshot of the room), and that a running loop whose snapshot is
  in the map is the newest of that room and in the task map, or its room is being
  released (`SlotsAreOwn`).
* `OneWriterAtATime`, `FetchesReadTheNewestLoop`, `NoLoopIsForgotten` - the three properties.
* `LocksHaveHolders` - `LocksAreHeld`, which says between which two steps each lock is
  held, and `OnlyOneEmbrace` - `NoOtherEmbrace`, from `LocksAreHeld` and `TasksInv`.
  A loop never waits for its own snapshot, because it is the only one that writes to it
  (`OneWriter`) and a loop that holds it does not wait for it. `SelectClear` waits for a snapshot
  with the registry locked as a fetch does; it is safe because no running loop has the snapshot
  (`CallsAreSound`), which rests on the check in `SelectCheck` two sections earlier. This is the
  safety half of `UiReturnsUnlessLocksCross`, for every number of threads: of the circles
  in which threads could wait for each other's locks, only the one of `tasks_fetch` exists.

The assumptions are those of the module: `MaxLoops` is a natural number and the names
of threads differ. The lemma `LoopEffect` reduces the eleven actions of a loop to
what they do to the rest; one lemma per other action follows. `UiReturns` and
`UiReturnsUnlessLocksCross` are liveness and only model-checked.

## 6. ThreadTimelines

### State and actions

A thread is shown in place of its room. The UI keeps a model of every thread that was
opened and the thread on screen; a room that is left keeps its thread and gets it back.
Rust keeps the loops of the threads used last in a cache, with a list of recent use and
the key of the active thread. Both sides move separately, and what connects them are
notes without content and calls without a thread.

| actions | code |
| --- | --- |
| `OpenThread`, `CloseThread`, `RefreshThread`, `BeginPage`, `HandleNote`, `Deliver`, `PageDone` | `TimelineViewManagerMatrixTimelineThreads.cpp` |
| `SelectRoom`, `CloseRoom`, `LoseRoom`, `ReleaseRoom` | the thread's share of `LC` and `releaseModelForRoom` |
| `SubscribeWarm`, `SubscribeCold`, `Unsubscribe`, `Fetch`, `SendPage` | `RS/runtime_thread_timeline/mod.rs` |
| `LoopStarts`, `ServerAnswers`, `RequestFails`, `AnswerArrives`, `DeadlineFires`, `Diff`, `StreamEnds`, `ChannelClosed` | `run_thread_timeline_loop` |
| `EventSent`, `SyncDelivers` | the home server and the sync, external |

The items of a thread are abstracted to the thread they are of, and how far a
loop has followed the server to a number of events. Subscribing is one action:
until its task is in the map a new loop has an empty snapshot and refuses commands, and
so does a loop that has ended. A page is sent in one step, as the loop serves it by
diffs. `due` stands for a command or an update in a channel and for the
deadline of 300 ms alike, since both lead to one request.

### Bounds and runs

`Cap` is 2 in `threads_cache`, and three threads in two rooms make it evict one of several; the
code's capacity is 3. `CacheSpec` joins two kinds of behaviours, as all at once is too much for TLC:

* `QuickNext` - the user opens, returns to, leaves and releases all three threads, with up to four
  loops, so that two are evicted. Threads are left before their notes are handled and no loop
  starts to run: the order of use and the cache do not depend on either.
* `LivelyNext` - everything runs: loops, notes, a worker and the sync, for two threads in different
  rooms and two loops. A room is released before the next thread is opened, so that beside
  the cached loop there is one that was stopped and still runs. One event for one of
  the threads is enough for a request to be late; a note may wait while another is
  handled. The event is sent to its thread while it is on screen, whatever the user did before,
  and the user is still from then on: the loops, the notes, the worker and the sync are what
  can lose it. Pages are asked for of that thread only.

`threads_mixed` and the theorems are about `Spec`, without these restrictions.

* `threads_cache` (pass) - `TypeOK`, `ActiveThreadsAgree` (what Rust has active
  is what is on screen), `CacheIsSound` (map and list hold the same, within the
  capacity), `LoopsAreOwned`, `NoLostRefresh` (no wake-up is lost beside a request),
  `LoadingIsServed` (a note or a worker is under way for a thread that loads) and
  `KeepsRecentThreads`: map and list together are a cache of
  `RecentlyUsed`, with `held` the cached threads and `before` the order of the list, and every
  step that makes a thread the active one is a use of it (`Uses`): also a return from the cache,
  which evicts nothing. A list drained from its other end, or not told of a return, evicts the wrong
  thread here. A release leaves at most one thread at this capacity; that it keeps the order
  of more is shown by the theorem `CacheIsLeastRecentlyUsed`.
* `threads_mixed` (violation) - `ModelsHoldTheirThread`. A worker reads the snapshot
  of the thread that is active by then; the callback checks only that the thread it was
  started for is on screen again.

The specification has no fairness: `NoLostRefresh` and `LoadingIsServed` say in every
state what will bring the next step, which is stronger than that something comes in
the end.

### Proofs

`ThreadTimelines_proofs.tla` proves, for every set of rooms, threads and workers, every
capacity of at least one and every bound:

* `ScreenAndRustAgree` - `ActiveThreadsAgree`. A release clears the active key only for
  threads of rooms that are not on screen; a switch attaches Rust again or leaves no
  thread on screen.
* `NoLoopIsForgotten` - `LoopsAreOwned`. Subscribing either wakes a cached loop (`Warm`)
  or starts one where the cache had none and stops what it evicts (`Cold`).
* `WakeupsReachTheLoop` - `NoLostRefresh`, and `LoadingEnds` - `LoadingIsServed`. The lemma
  `LoopEffect` reduces the eight actions of a loop to what both need: it stays the loop of its
  thread, announces what it shows for the first time, and lacks an event only if it
  lacked it before, is due, or was refused.
* `CacheStaysSound` - `CacheIsSound`, from `CacheInv`, which adds the type of the list. The code
  counts the map (`thread_subscriptions.len()`) and searches the list, so the proof needs that both
  agree: a list without repetitions is as long as the map is large (`CachedCounted`), hence one
  eviction is enough and the list has a victim. `TouchedOnce` and `RetainedOnly` say what
  `touch_lru` and `retain` leave of the list.
* `CacheIsLeastRecentlyUsed` - `KeepsRecentThreads`: the initial state and the steps of
  `RecentlyUsed`. A thread that is opened again moves behind all others, a new one does too and takes
  the place of the first of the list, before which no other was used (`SubscribeIsUse`);
  a release keeps the order of the rest (`ReleaseIsDrop`).
* `TypesHold` - `TypeOK`, from `TypeInv`, the conjunction of `Typed` (what the proofs above
  rest on), `CacheInv` and what is left of the types (`MoreTyped`). Only cached loops are
  stopped (`CacheStep`), and these were started.
* `FewLoopsLive` - at most `Cap` loops run without having been told to stop. It relates what
  no single variable shows: the loops themselves, which hold a timeline of the SDK each, and not
  the map, are bounded. By `NoLoopIsForgotten` the thread of a live loop names it in the cache, so the
  threads of live loops differ, and `CacheStaysSound` bounds the cache.
* `EvictedLoopsGo` - `EvictedLoopsEnd`, an action property: a loop that was told to stop is never taken
  back and ends after three more steps at the most (`StepsLeft`). It passes through the select once,
  may send one more request and look at the answer, then finds the stop flag
  (`StoppedLoopStep`); being woken or asked to refresh meanwhile adds no step (`WokenStepsLeft`).
  That it takes these steps is liveness, for which the specification states no fairness: a loop may
  wait in a request.

`SequenceLemmas.tla` has the facts about sequences these proofs and those of the attachment queue
share: what `RemoveAt`, `RemoveFirst` and `Append` do to the elements and the order of a
sequence without repetitions.

## 7. AttachmentQueue

### State and actions

One queue (`pending`) holds the staged files, with a row for each under the composer.
Sending starts the upload of the first; its end takes it out of the queue with the first
row and starts the next. A switch of rooms saves queue, reply and edit with the room
that is left and restores those of the new one, but leaves the first file in the queue
while an upload is under way.

| actions | code |
| --- | --- |
| `Stage`, `Send`, `Detach`, `DetachAll`, `Finish` (with `StartNext`) | `TimelineViewManagerMatrixTimelineAttachments.cpp` |
| `Reply`, `Edit`, `EndEdit` | `TimelineViewManagerMatrixTimelineCompose.cpp` |
| `SelectRoom`, `CloseRoom`, `LoseRoom`, `Logout`, `Login` | the composer's share of `LC` |

Files are numbered as they are staged. Name, text and content of a file are left out but for
whose caption it carries; the row lets the user edit it. A file that fails to
upload does what one that succeeds does. `tries` counts the uploads of a file and is
read by no action.

### Bounds

Three files, two rooms, two sessions and one path. Three files are needed for one
upload to shift the captions of two others; one path makes two files look alike
(`SameFile`), which more would only make less likely. In `attach_queue` (`QueueSpec`) files are
staged for the room on screen and only the second one for any room, as by a drop on the
window of another; that one is enough for the queue to hold files of two rooms, and for a file of
one room to be uploaded or restored while the other is on screen. `attach_captions` and the theorems are about
`Spec`, where every file may be for any room.

### Runs

* `attach_queue` (pass) - `TypeOK`, `RowsAreTheLastFiles`, `FlagIsTheUpload`,
  `UploadedOnce`, `EditExcludesFiles`, `RepliesStayInTheirRoom`, and under weak
  fairness of `UploadEnds` the liveness property `FilesHaveTheirTurn`. An upload
  ends because the SDK's request returns or times out; nothing else is fair, so the
  user need not send anything.
  The property says that a file of the queue leaves it while uploads run, and how: by
  the end of its own upload (`Uploaded`), by the user, who takes it out or leaves its room
  (`TakenOut`), or, in one case it names (`Mistaken`), in place of another. The end of an upload
  pops the first file if path, room and handle are those it was started for
  (`TimelineViewManagerMatrixTimelineAttachments.cpp:544-548`). After a send, a clear and a second
  staging of the same path, that file is the second one, which is gone without having been
  sent. Its content was sent, so what is lost is a caption typed on the second.
* `attach_captions` (violation) - `CaptionsStayWithTheirFile`. After the queue was
  cleared during an upload, or a switch left its file without a row, the end of that
  upload takes away the row of the next file, which goes out with the caption
  of the one after it.

### Proofs

`AttachmentQueue_proofs.tla` proves, for every set of rooms and files and
every bound:

* `TypeCorrect`, `RowsFollowTheQueue` - from `QueueInv`, the conjunction of
  `TypeOK` and `RowsAreTheLastFiles`, which is inductive. The lemmas before say what
  captions, replies, removals and switches do to a sequence of files.
* `OneUploadAtATime` - `FlagIsTheUpload`, inductive by itself.
* `RepliesAreOfTheirRoom`, `EditsAndFilesNeverMeet` - inductive with `QueueInv`.
* `NothingIsUploadedTwice` - `UploadedOnce`, which is not inductive: a file saved
  twice would break it later. `UploadInv` adds where the files are: each is in one
  place (the queue or a room that was left), once, and one that was tried can only be the
  first of the queue, with an upload under way that will take it out. A
  switch permutes the places (`Moved`, `SwitchUploads`); the end of an upload and a send
  start over from files that were not tried (`StartedOnce`).

* `QueueMovesOn` - `TurnsComeNearer`, an action property: why the wait of
  `FilesHaveTheirTurn` ends. `Wait(i)` counts the uploads that end before the i-th file has left the
  queue: those up to it, and one more when the upload under way is of a file that is not there.
  No step makes a file that stays wait longer, and the end of an upload makes it wait less
  (`FinishComesNearer`); as a file has one place (`UploadInv`), its places before and after a step
  can be compared (`OnePlaceInQueue`).

`FilesHaveTheirTurn` itself needs that uploads end (fairness) and a run through the values of `Wait`
(induction): it is liveness and only model-checked.


## 8. Plan

In this order; each comes with its MC module, one run where one answers its
questions, and, where the table says so, proofs.

Written, in this order: `TimelineRefresh` (the core: what is on screen), `RoomSubscriptions`
over the abstract `LatestSet`, `TimelineTasks`, `ThreadTimelines` over the abstract
`RecentlyUsed`, `AttachmentQueue`. To come:

| module | of | composes or refines | runs and bounds | proofs |
| --- | --- | --- | --- | --- |
| `EventJump` | jump to an event: pending jump, awaiting flag, request limit | the fetch path of `TimelineRefresh` as its environment | one room, 3 requests; a jump ends | the limit holds |
| `TimelinePool` | QML pool against ensure and release | an abstract "shown rooms have a model" | 3 rooms, pool of 2, one window | shown rooms have a model |
| `RoomListSync` | rebuild against backfill, stop against reconciler | `Backfill` of `TimelineTasks` as its input | 2 rooms, 3 preview versions | previews do not go back, where the code keeps it |
| `Preloader` | semaphore and warm cache | cache of `TimelineTasks` | 3 rooms, 2 permits | permits are conserved |
| `NavigationHistory` | pure operators and a state machine | a reference definition | histories of up to 4 rooms | bound and cursor |
| `NotificationPacing`, `Verification`, `LegacyCall`, media proxy, discovery, session persistence | as in the table of section 1 | - | two actors each | one safety invariant each |

What is known of these and not yet covered: a pending refresh is
stranded when an ignored shrink, a background error or a prefetch returns without
scheduling; `clearCurrentMatrixTimeline` drops the pending refreshes of all rooms; loading
lasts for ever when the first pagination fails with no item; models and interaction
state of rooms outlive a logout; the preloader may warm a room whose loop has just
been started; a timeline is not returned to the cache when its `Arc` is still shared.

## 9. What is not modelled

* The matrix-sdk (sync, crypto, send queue, event cache) and Qt are external;
  they appear as the values and events they give to the modelled code.
* Conversions of events to rows and HTML, formatting, theming, translations and
  logging: no protocol state.
* Time. Timers and debounces fire at any moment after they were armed; a property
  that needs a real duration is not stated.
* In `ThreadTimelines`: an exception of `subscribe_to_thread_timeline` (an id that does not
  parse, a handle that is gone), after which the UI shows the thread without loading it, and
  `RecvError::Closed`, after which a loop no longer listens to that event cache.
* In `TimelineTasks`: `stop_backend` joins the sync task of the handle before it stops the
  loops. That this join ends is not shown; what `LogoutReturns` needs of the loops begins after it.
* Jumps and the read marker of a room: they live in the same files as the refresh
  protocol but touch none of its variables. Jumps are in the plan.
* Memory exhaustion and panics (a poisoned mutex ends the program's Rust side).
