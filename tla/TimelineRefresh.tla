--------------------------- MODULE TimelineRefresh ---------------------------
(***************************************************************************)
(* How the timeline of a room reaches the screen.                          *)
(*                                                                         *)
(* In Rust every opened room has a timeline loop on a thread of its own.   *)
(* The loop stores snapshots of the room in room_timeline_snapshots and    *)
(* notifies C++, which posts the notification to the UI thread.  On the UI *)
(* thread TimelineViewManager keeps one MatrixTimelineModel per room; a    *)
(* notification marks the room pending, a queued dispatch picks one        *)
(* pending room and starts a detached worker thread that reads the Rust    *)
(* snapshot and posts what it read back to the UI thread, which replaces   *)
(* the model of the room with it.                                          *)
(*                                                                         *)
(* A snapshot is abstracted to the backend session it belongs to, a        *)
(* version that grows with every snapshot stored, the number of items in   *)
(* it and the number of those that become rows of the model (dividers and  *)
(* hidden items do not).  UI-thread code runs to completion, so every      *)
(* handler is one action; the events posted to the UI thread are a FIFO.   *)
(***************************************************************************)
EXTENDS Integers, Sequences, Functions

CONSTANTS
    Rooms,        \* the rooms the user opens
    NoRoom,       \* the empty room id
    NoSnapshot,   \* no entry in room_timeline_snapshots
    NoModel,      \* no entry in perRoomModels_
    Unread,       \* a worker that has not read the Rust snapshot yet
    MaxSession,   \* bound: backend handles started
    MaxVersion,   \* bound: snapshots stored
    MaxItems,     \* bound: items in a snapshot
    MaxRequests,  \* bound: request ids; the smallest unused one stands for the
                  \* next value of the 64-bit counter
    MaxEvents,    \* bound: posted events at which the environment is quiet
    PageSize      \* preferredInitialMatrixTimelinePageSize_

Snapshot == [session : 0..MaxSession, version : 0..MaxVersion,
             items : 0..MaxItems, rows : 0..MaxItems]

ASSUME BoundsAssumption ==
    /\ MaxSession \in Nat \ {0} /\ MaxVersion \in Nat /\ MaxItems \in Nat
    /\ MaxRequests \in Nat /\ MaxEvents \in Nat /\ PageSize \in Nat

ASSUME SentinelAssumption ==
    /\ NoRoom \notin Rooms
    /\ NoSnapshot \notin Snapshot /\ NoModel \notin Snapshot
    /\ Unread \notin Snapshot \cup {NoSnapshot}

VARIABLES
    session,       \* MainWindow::matrixBackendHandleId_, 0 when there is none
    started,       \* handles given out so far
    loops,         \* rooms whose timeline loop runs
    snaps,         \* room_timeline_snapshots of the current handle
    published,     \* version of the last snapshot stored
    unnotified,    \* rooms whose loop stored a snapshot and has not notified yet
    paginating,    \* rooms whose loop has a PaginateBackwards command to serve
    models,        \* perRoomModels_, each model abstracted to what it shows
    active,        \* activeMatrixTimelineRoomId_
    pending,       \* matrixTimelineRefreshPendingRoomIds_
    queued,        \* matrixTimelineRefreshQueued_
    inFlight,      \* matrixTimelineRefreshInFlightRequestId_ and ...RoomId_
    loading,       \* matrixTimelineLoading_
    prefetched,    \* matrixTimelineInitialPrefetchAttempted_
    guardOn,       \* matrixTimelineWarmupGuardActive_
    fallbacks,     \* armed timers: the 500 ms prefetch and 10 s loading fallbacks
    workers,       \* the detached fetch threads that have not posted yet
    uiQueue        \* the events posted to the UI thread, oldest first

rustVars  == <<loops, snaps, published, unnotified, paginating>>
sessVars  == <<session, started>>
viewVars  == <<active, loading, prefetched, guardOn>>
fetchVars == <<inFlight, workers>>
vars == <<sessVars, rustVars, models, viewVars, pending, queued, fetchVars,
          fallbacks, uiQueue>>

Empty(s)  == [session |-> s, version |-> 0, items |-> 0, rows |-> 0]
Idle      == [id |-> 0, room |-> NoRoom]

SnapshotEvents == [type : {"snapshot"}, session : 0..MaxSession, room : Rooms]
DispatchEvents == [type : {"dispatch"}, room : Rooms]
FetchedEvents  == [type : {"fetched"}, id : 1..MaxRequests, room : Rooms,
                   session : 0..MaxSession, result : Snapshot \cup {NoSnapshot}]
RequestIds == 1..MaxRequests

UiEvents == SnapshotEvents \cup DispatchEvents \cup FetchedEvents

Notification(r) == [type |-> "snapshot", session |-> session, room |-> r]
Dispatch(r)     == [type |-> "dispatch", room |-> r]
Posted(w)       == [type |-> "fetched", id |-> w.id, room |-> w.room,
                    session |-> w.session, result |-> w.result]

\* The request ids something still carries.
UsedIds == {w.id : w \in workers} \cup {inFlight.id} \cup
           {e.id : e \in {p \in Range(uiQueue) : p.type = "fetched"}}

\* The environment adds work only within the bounds of the model.
Quota == Len(uiQueue) < MaxEvents

Init ==
    /\ session = 1 /\ started = 1
    /\ loops = {} /\ snaps = [r \in Rooms |-> NoSnapshot] /\ published = 0
    /\ unnotified = {} /\ paginating = {}
    /\ models = [r \in Rooms |-> NoModel]
    /\ active = NoRoom /\ loading = FALSE /\ prefetched = FALSE /\ guardOn = FALSE
    /\ pending = {} /\ queued = FALSE
    /\ inFlight = Idle /\ workers = {}
    /\ fallbacks = {} /\ uiQueue = <<>>
-----------------------------------------------------------------------------
(* The Rust timeline loops *)

\* The loop applied a batch of diffs and replaced the snapshot under its lock.
\* The first snapshot of a loop is not announced when it is empty.
Store(r) ==
    /\ r \in loops \ unnotified /\ published < MaxVersion /\ Quota
    /\ published' = published + 1
    /\ \E n \in 0..MaxItems : \E k \in 0..n :
        /\ snaps' = [snaps EXCEPT ![r] =
             [session |-> session, version |-> published', items |-> n, rows |-> k]]
        /\ unnotified' = IF snaps[r].version = 0 /\ n = 0
                         THEN unnotified ELSE unnotified \cup {r}
    /\ UNCHANGED <<sessVars, loops, paginating, models, viewVars, pending, queued,
                   fetchVars, fallbacks, uiQueue>>

\* matrix_notify_room_timeline_snapshot_updated: post to the UI thread.
Notify(r) ==
    /\ r \in unnotified /\ Quota
    /\ unnotified' = unnotified \ {r}
    /\ uiQueue' = Append(uiQueue, Notification(r))
    /\ UNCHANGED <<sessVars, loops, snaps, published, paginating, models, viewVars,
                   pending, queued, fetchVars, fallbacks>>

\* The loop served PaginateBackwards.  When the pagination failed it notifies
\* again; when it succeeded the items arrive as diffs (Store).
FinishPagination(r) ==
    /\ r \in paginating \ unnotified
    /\ paginating' = paginating \ {r}
    /\ unnotified' \in {unnotified, unnotified \cup {r}}
    /\ UNCHANGED <<sessVars, loops, snaps, published, models, viewVars, pending,
                   queued, fetchVars, fallbacks, uiQueue>>

\* The timeline could not be built or its stream ended: the thread returns and
\* leaves the snapshot where it is.
LoopEnds(r) ==
    /\ r \in loops \ unnotified
    /\ loops' = loops \ {r}
    /\ paginating' = paginating \ {r}
    /\ UNCHANGED <<sessVars, snaps, published, unnotified, models, viewVars, pending,
                   queued, fetchVars, fallbacks, uiQueue>>
-----------------------------------------------------------------------------
(* Scheduling on the UI thread *)

\* Mutant: the active room is dispatched without asking whether it waits.
ScheduleActive(p, f, q) ==
    IF p = {} \/ f
    THEN queued' = f /\ uiQueue' = q
    ELSE queued' = TRUE /\ uiQueue' = Append(q, Dispatch(active))

\* scheduleCurrentMatrixTimelineRefresh called with pending set p, queued flag
\* f and event queue q: at most one dispatch, for the active room if it waits.
Schedule(p, f, q) ==
    IF p = {} \/ f
    THEN queued' = f /\ uiQueue' = q
    ELSE /\ queued' = TRUE
         /\ \E r \in (IF active \in p THEN {active} ELSE p) :
                uiQueue' = Append(q, Dispatch(r))

\* handleMatrixBackendRoomTimelineSnapshotUpdated
AcceptNotification(e) ==
    /\ e.type = "snapshot" /\ e.session = session /\ models[e.room] # NoModel
    /\ pending' = pending \cup {e.room}
    /\ Schedule(pending \cup {e.room}, queued, Tail(uiQueue))
    /\ UNCHANGED <<sessVars, rustVars, models, viewVars, fetchVars, fallbacks>>

\* ... its early returns: another session's event, or a room without a model.
IgnoreNotification(e) ==
    /\ e.type = "snapshot"
    /\ e.session # session \/ models[e.room] = NoModel
    /\ uiQueue' = Tail(uiQueue)
    /\ UNCHANGED <<sessVars, rustVars, models, viewVars, pending, queued, fetchVars,
                   fallbacks>>

\* refreshCurrentMatrixTimeline: nothing when a fetch of the same room is in
\* flight, else a new request takes the in-flight slot and a worker starts.
Refresh(r) ==
    IF inFlight.id # 0 /\ inFlight.room = r
    THEN UNCHANGED fetchVars
    ELSE /\ RequestIds \ UsedIds # {}
         /\ LET id == CHOOSE i \in RequestIds \ UsedIds : TRUE IN
             /\ inFlight' = [id |-> id, room |-> r]
             /\ workers' = workers \cup {[id |-> id, room |-> r,
                                          session |-> session, result |-> Unread]}

\* Mutant: the flag is kept when a fetch of the room is already in flight.
RunDispatchKeepsFlag(e) ==
    /\ e.type = "dispatch" /\ e.room \in pending
    /\ pending' = pending \ {e.room}
    /\ Refresh(e.room)
    /\ queued' = (inFlight.room = e.room)
    /\ uiQueue' = Tail(uiQueue)
    /\ UNCHANGED <<sessVars, rustVars, models, viewVars, fallbacks>>

\* The dispatch runs and its room still waits.
RunDispatch(e) ==
    /\ e.type = "dispatch" /\ e.room \in pending
    /\ pending' = pending \ {e.room}
    /\ Refresh(e.room)
    /\ queued' = FALSE
    /\ uiQueue' = Tail(uiQueue)
    /\ UNCHANGED <<sessVars, rustVars, models, viewVars, fallbacks>>

\* The dispatch runs and its room no longer waits: schedule what remains.
SkipDispatch(e) ==
    /\ e.type = "dispatch" /\ e.room \notin pending
    /\ Schedule(pending, FALSE, Tail(uiQueue))
    /\ UNCHANGED <<sessVars, rustVars, models, viewVars, pending, fetchVars, fallbacks>>
-----------------------------------------------------------------------------
(* The fetch worker *)

\* fetch_room_timeline_snapshot clones the snapshot under the registry lock;
\* without a handle or an entry it is an error.
ReadSnapshot(w) ==
    /\ w \in workers /\ w.result = Unread
    /\ workers' = (workers \ {w}) \cup
         {[w EXCEPT !.result = IF w.session = session THEN snaps[w.room]
                               ELSE NoSnapshot]}
    /\ UNCHANGED <<sessVars, rustVars, models, viewVars, pending, queued, inFlight,
                   fallbacks, uiQueue>>

PostResult(w) ==
    /\ w \in workers /\ w.result # Unread
    /\ workers' = workers \ {w}
    /\ uiQueue' = Append(uiQueue, Posted(w))
    /\ UNCHANGED <<sessVars, rustVars, models, viewVars, pending, queued, inFlight,
                   fallbacks>>
-----------------------------------------------------------------------------
(* The result of a fetch on the UI thread *)

\* Every result first gives back the in-flight slot, if the slot is still its own.
Fetched(e) ==
    /\ e.type = "fetched"
    /\ inFlight' = IF inFlight = [id |-> e.id, room |-> e.room] THEN Idle ELSE inFlight
    /\ UNCHANGED <<sessVars, loops, snaps, published, unnotified, workers>>

\* Mutant: the handle of the answer is not compared.
ApplicableAnySession(e) == models[e.room] # NoModel /\ e.result # NoSnapshot

Applicable(e) ==
    e.session = session /\ models[e.room] # NoModel /\ e.result # NoSnapshot

Show(e) == models' = [models EXCEPT ![e.room] = e.result]

\* shouldIgnoreMatrixTimelineWarmupShrink
WarmupShrink(current, next) ==
    LET accepted == (current * 8) \div 10
    IN  current > 0 /\ next < current /\ next < (IF accepted < 1 THEN 1 ELSE accepted)

IgnoredShrink(e) ==
    guardOn /\ WarmupShrink(models[e.room].rows, e.result.items)

DelaysFirstPaint(e) ==
    /\ loading /\ models[e.room].rows = 0 /\ ~prefetched
    /\ e.result.items > 0 /\ e.result.items < PageSize

\* Another session's result: dropped, nothing is scheduled.
DropForeignResult(e) ==
    /\ Fetched(e)
    /\ e.session # session
    /\ uiQueue' = Tail(uiQueue)
    /\ UNCHANGED <<paginating, models, viewVars, pending, queued, fallbacks>>

\* Mutant: the in-flight slot is given back after the look-up of the model.
DropEvictedKeepsSlot(e) ==
    /\ e.type = "fetched"
    /\ e.session = session /\ models[e.room] = NoModel
    /\ Schedule(pending, queued, Tail(uiQueue))
    /\ UNCHANGED <<sessVars, rustVars, models, viewVars, pending, fetchVars, fallbacks>>

\* The model was released while the fetch was in flight.
DropEvictedResult(e) ==
    /\ Fetched(e)
    /\ e.session = session /\ models[e.room] = NoModel
    /\ Schedule(pending, queued, Tail(uiQueue))
    /\ UNCHANGED <<paginating, models, viewVars, pending, fallbacks>>

\* The fetch of a room in the background failed: nothing is scheduled.
FailBackgroundFetch(e) ==
    /\ Fetched(e)
    /\ e.session = session /\ models[e.room] # NoModel /\ e.result = NoSnapshot
    /\ e.room # active
    /\ uiQueue' = Tail(uiQueue)
    /\ UNCHANGED <<paginating, models, viewVars, pending, queued, fallbacks>>

\* clearCurrentMatrixTimeline on the C++ side, called with in-flight slot and
\* event queue already up to date; the models stay.
Clear ==
    /\ active' = NoRoom /\ loading' = FALSE /\ prefetched' = FALSE /\ guardOn' = FALSE
    /\ pending' = {} /\ queued' = FALSE

\* The fetch of the active room failed: the whole selection is cleared, the
\* in-flight slot with it.
FailActiveFetch(e) ==
    /\ e.type = "fetched"
    /\ e.session = session /\ models[e.room] # NoModel /\ e.result = NoSnapshot
    /\ e.room = active
    /\ Clear
    /\ inFlight' = Idle
    /\ uiQueue' = Tail(uiQueue)
    /\ UNCHANGED <<sessVars, rustVars, models, workers, fallbacks>>

ApplyBackground(e) ==
    /\ Fetched(e)
    /\ Applicable(e) /\ e.room # active
    /\ Show(e)
    /\ Schedule(pending, queued, Tail(uiQueue))
    /\ UNCHANGED <<paginating, viewVars, pending, fallbacks>>

\* Shortly after a room switch a much smaller snapshot is not shown, and only
\* this room's own pending refresh is scheduled.
IgnoreShrink(e) ==
    /\ Fetched(e)
    /\ Applicable(e) /\ e.room = active /\ IgnoredShrink(e)
    /\ IF active \in pending
       THEN Schedule(pending, queued, Tail(uiQueue))
       ELSE queued' = queued /\ uiQueue' = Tail(uiQueue)
    /\ UNCHANGED <<paginating, models, viewVars, pending, fallbacks>>

\* paginate_active_timeline_backwards: the command is queued for the loop.
RequestPage == paginating' = paginating \cup {active}

\* Mutant: the attempt is not remembered.
PrefetchAgain(e) ==
    /\ Fetched(e)
    /\ Applicable(e) /\ e.room = active /\ ~IgnoredShrink(e)
    /\ DelaysFirstPaint(e) /\ active \in loops
    /\ RequestPage
    /\ fallbacks' = fallbacks \cup {<<"prefetch", active>>}
    /\ uiQueue' = Tail(uiQueue)
    /\ UNCHANGED <<models, viewVars, pending, queued>>

\* First paint of a short page: ask for more and wait for it, with a fallback.
\* The command is accepted when the loop of the active room still runs.
Prefetch(e) ==
    /\ Fetched(e)
    /\ Applicable(e) /\ e.room = active /\ ~IgnoredShrink(e)
    /\ DelaysFirstPaint(e) /\ active \in loops
    /\ RequestPage
    /\ prefetched' = TRUE
    /\ fallbacks' = fallbacks \cup {<<"prefetch", active>>}
    /\ uiQueue' = Tail(uiQueue)
    /\ UNCHANGED <<models, active, loading, guardOn, pending, queued>>

\* The active room shows the snapshot; a non-empty one ends the loading state,
\* an empty one arms the loading fallback.
ApplyActive(e) ==
    /\ Fetched(e)
    /\ Applicable(e) /\ e.room = active /\ ~IgnoredShrink(e)
    /\ DelaysFirstPaint(e) => active \notin loops
    /\ Show(e)
    /\ loading' = (loading /\ e.result.items = 0)
    /\ prefetched' = (prefetched \/ DelaysFirstPaint(e))
    /\ fallbacks' = IF loading' THEN fallbacks \cup {<<"loading", active>>}
                    ELSE fallbacks
    /\ Schedule(pending, queued, Tail(uiQueue))
    /\ UNCHANGED <<paginating, active, guardOn, pending>>
-----------------------------------------------------------------------------
(* Timers on the UI thread *)

PrefetchFallback(r) ==
    /\ <<"prefetch", r>> \in fallbacks
    /\ fallbacks' = fallbacks \ {<<"prefetch", r>>}
    /\ IF active = r /\ models[r].rows = 0
       THEN pending' = pending \cup {r} /\ Schedule(pending \cup {r}, queued, uiQueue)
       ELSE UNCHANGED <<pending, queued, uiQueue>>
    /\ UNCHANGED <<sessVars, rustVars, models, viewVars, fetchVars>>

LoadingFallback(r) ==
    /\ <<"loading", r>> \in fallbacks
    /\ fallbacks' = fallbacks \ {<<"loading", r>>}
    /\ loading' = (loading /\ active # r)
    /\ UNCHANGED <<sessVars, rustVars, models, active, prefetched, guardOn, pending,
                   queued, fetchVars, uiQueue>>

\* The newest 1.5 s warmup timer; older generations do nothing.
WarmupExpires ==
    /\ guardOn /\ guardOn' = FALSE
    /\ UNCHANGED <<sessVars, rustVars, models, active, loading, prefetched, pending,
                   queued, fetchVars, fallbacks, uiQueue>>
-----------------------------------------------------------------------------
(* The user *)

\* select_active_room_timeline: a running loop is reused, else a new one starts
\* from a cleared snapshot.
StartLoop(r) ==
    /\ loops' = loops \cup {r}
    /\ snaps' = IF r \in loops THEN snaps ELSE [snaps EXCEPT ![r] = Empty(session)]

\* stop_room_timeline: the loop is cancelled and its snapshot dropped.
StopLoop(r) ==
    /\ loops' = loops \ {r}
    /\ paginating' = paginating \ {r}
    /\ snaps' = [snaps EXCEPT ![r] = NoSnapshot]

Ensured(r) == IF models[r] = NoModel THEN Empty(0) ELSE models[r]

\* ensureModelForRoom, called by the QML timeline pool before the selection.
EnsureModel(r) ==
    /\ session # 0 /\ models[r] = NoModel /\ Quota
    /\ models' = [models EXCEPT ![r] = Ensured(r)]
    /\ UNCHANGED <<sessVars, rustVars, viewVars, pending, queued, fetchVars, fallbacks,
                   uiQueue>>

\* Mutant: the active room can be released.
ReleaseAnyModel(r) ==
    /\ models[r] # NoModel /\ Quota
    /\ models' = [models EXCEPT ![r] = NoModel]
    /\ StopLoop(r)
    /\ UNCHANGED <<sessVars, published, unnotified, viewVars, pending, queued,
                   fetchVars, fallbacks, uiQueue>>

\* Mutant: the timeline loop of a released room is left running.
ReleaseModelOnly(r) ==
    /\ r # active /\ models[r] # NoModel /\ Quota
    /\ models' = [models EXCEPT ![r] = NoModel]
    /\ UNCHANGED <<sessVars, rustVars, viewVars, pending, queued, fetchVars, fallbacks,
                   uiQueue>>

\* releaseModelForRoom with the stop_room_timeline it calls: never the active
\* room.  A notification of the stopped loop may still be on its way.
ReleaseModel(r) ==
    /\ r # active /\ models[r] # NoModel /\ Quota
    /\ models' = [models EXCEPT ![r] = NoModel]
    /\ StopLoop(r)
    /\ UNCHANGED <<sessVars, published, unnotified, viewVars, pending, queued,
                   fetchVars, fallbacks, uiQueue>>

\* Mutant: every selection starts in the loading state.
SelectLoading(r) ==
    /\ session # 0 /\ r # active /\ Quota
    /\ StartLoop(r)
    /\ models' = [models EXCEPT ![r] = Ensured(r)]
    /\ active' = r
    /\ loading' = TRUE
    /\ prefetched' = FALSE /\ guardOn' = TRUE
    /\ UNCHANGED <<sessVars, published, unnotified, paginating, pending, queued,
                   fetchVars, fallbacks, uiQueue>>

\* updateCurrentMatrixTimelineSelection
SelectRoom(r) ==
    /\ session # 0 /\ r # active /\ Quota
    /\ StartLoop(r)
    /\ models' = [models EXCEPT ![r] = Ensured(r)]
    /\ active' = r
    /\ loading' = (Ensured(r).rows = 0)
    /\ prefetched' = FALSE /\ guardOn' = TRUE
    /\ UNCHANGED <<sessVars, published, unnotified, paginating, pending, queued,
                   fetchVars, fallbacks, uiQueue>>

\* The selection becomes empty: the last tab was closed.
CloseRoom ==
    /\ session # 0 /\ active # NoRoom /\ Quota
    /\ Clear
    /\ inFlight' = Idle
    /\ UNCHANGED <<sessVars, rustVars, models, workers, fallbacks, uiQueue>>

\* Mutant: the snapshots outlive the handle.
LogoutKeepsSnapshots ==
    /\ session # 0
    /\ session' = 0
    /\ loops' = {} /\ paginating' = {} /\ unnotified' = {}
    /\ Clear
    /\ inFlight' = Idle
    /\ UNCHANGED <<started, snaps, published, models, workers, fallbacks, uiQueue>>

\* finalizeLogout: stop_backend drops the handle and joins the loops, then the
\* selection is cleared.
Logout ==
    /\ session # 0
    /\ session' = 0
    /\ loops' = {} /\ paginating' = {} /\ unnotified' = {}
    /\ snaps' = [r \in Rooms |-> NoSnapshot]
    /\ Clear
    /\ inFlight' = Idle
    /\ UNCHANGED <<started, published, models, workers, fallbacks, uiQueue>>

\* startMatrixBackendHandleForActiveSession: a new handle.
Login ==
    /\ session = 0 /\ started < MaxSession
    /\ started' = started + 1
    /\ session' = started + 1
    /\ UNCHANGED <<rustVars, models, viewVars, pending, queued, fetchVars, fallbacks,
                   uiQueue>>
-----------------------------------------------------------------------------
HandleEvent ==
    /\ uiQueue # <<>>
    /\ LET e == Head(uiQueue) IN
        \/ AcceptNotification(e) \/ IgnoreNotification(e)
        \/ RunDispatch(e) \/ SkipDispatch(e)
        \/ DropForeignResult(e) \/ DropEvictedResult(e)
        \/ FailBackgroundFetch(e) \/ FailActiveFetch(e)
        \/ ApplyBackground(e) \/ IgnoreShrink(e) \/ Prefetch(e) \/ ApplyActive(e)

Worker == \E w \in workers : ReadSnapshot(w) \/ PostResult(w)

Timers == WarmupExpires \/ \E r \in Rooms : PrefetchFallback(r) \/ LoadingFallback(r)

Loops == \E r \in Rooms : Store(r) \/ Notify(r) \/ FinishPagination(r) \/ LoopEnds(r)

User ==
    \/ \E r \in Rooms : EnsureModel(r) \/ ReleaseModel(r) \/ SelectRoom(r)
    \/ CloseRoom \/ Logout \/ Login

Next == HandleEvent \/ Worker \/ Timers \/ Loops \/ User

Spec == Init /\ [][Next]_vars

\* The UI thread serves its events and timers, a worker thread and a loop that
\* has something to say get to run.  Nothing forces a room to change or the
\* user to act.
Fairness ==
    /\ WF_vars(HandleEvent) /\ WF_vars(Worker) /\ WF_vars(Timers)
    /\ \A r \in Rooms : WF_vars(Notify(r)) /\ WF_vars(FinishPagination(r))
-----------------------------------------------------------------------------
(* Properties *)

\* Types.  Beyond them: only rooms are scheduled for a refresh, never the
\* absence of one.
TypeOK ==
    /\ session \in 0..MaxSession /\ started \in 0..MaxSession
    /\ loops \subseteq Rooms /\ snaps \in [Rooms -> Snapshot \cup {NoSnapshot}]
    /\ published \in 0..MaxVersion
    /\ unnotified \subseteq Rooms /\ paginating \subseteq Rooms
    /\ models \in [Rooms -> Snapshot \cup {NoModel}]
    /\ active \in Rooms \cup {NoRoom}
    /\ pending \subseteq Rooms /\ queued \in BOOLEAN
    /\ inFlight \in [id : 0..MaxRequests, room : Rooms \cup {NoRoom}]
    /\ loading \in BOOLEAN /\ prefetched \in BOOLEAN /\ guardOn \in BOOLEAN
    /\ fallbacks \subseteq ({"prefetch", "loading"} \X Rooms)
    /\ workers \subseteq [id : RequestIds, room : Rooms, session : 0..MaxSession,
                          result : Snapshot \cup {NoSnapshot, Unread}]
    /\ uiQueue \in Seq(UiEvents)

\* matrixTimelineRefreshQueued_ blocks every further dispatch while it is set:
\* whenever it is, a posted dispatch will clear it.
QueuedFlagHasDispatch ==
    queued => \E e \in Range(uiQueue) : e.type = "dispatch"

\* An occupied in-flight slot blocks every refresh of its room: whenever it is
\* occupied, the fetch that will free it is still on its way, through room
\* switches, releases, logouts and the slot being taken over for another room.
InFlightIsOutstanding ==
    inFlight.id # 0 =>
        \/ \E w \in workers : w.id = inFlight.id /\ w.room = inFlight.room
        \/ \E e \in Range(uiQueue) :
              e.type = "fetched" /\ e.id = inFlight.id /\ e.room = inFlight.room

\* The model the view is bound to (matrixTimelineModel_) is never a released one.
ActiveRoomHasModel == active # NoRoom => models[active] # NoModel

\* No timeline loop runs for a room nobody listens to.
LoopsAreWatched == \A r \in loops : models[r] # NoModel

\* The loading state is never shown over rows that are there.
LoadingMeansEmpty == loading => active # NoRoom /\ models[active].rows = 0

\* A snapshot read for a session holds items of that session, whether it is
\* still in Rust, in the hands of a worker or already posted.
ResultsKeepTheirSession ==
    /\ \A r \in Rooms : snaps[r] # NoSnapshot => snaps[r].session = session
    /\ \A w \in workers : w.result \notin {NoSnapshot, Unread} =>
          w.result.session = w.session
    /\ \A e \in Range(uiQueue) : e.type = "fetched" /\ e.result # NoSnapshot =>
          e.result.session = e.session

\* What ResultsKeepTheirSession and LoadingMeansEmpty rest on: between two
\* sessions no loop runs and no snapshot is left, and rows are drawn from items.
NoHandleNoSnapshots ==
    session = 0 => loops = {} /\ snaps = [r \in Rooms |-> NoSnapshot]

RowsAreItems ==
    /\ \A r \in Rooms : snaps[r] # NoSnapshot => snaps[r].rows <= snaps[r].items
    /\ \A w \in workers : w.result \notin {NoSnapshot, Unread} =>
          w.result.rows <= w.result.items
    /\ \A e \in Range(uiQueue) : e.type = "fetched" /\ e.result # NoSnapshot =>
          e.result.rows <= e.result.items

\* A model never takes over items of another backend session, however late the
\* fetch that read them answers.
ShowsOnlyThisSession ==
    [][\A r \in Rooms : models'[r] # models[r] =>
          models'[r] = NoModel \/ models'[r].session \in {0, session}]_vars

\* When rooms and user are quiet the refresh machinery comes to rest: prefetch,
\* fallback and re-notification do not feed each other for ever.
RefreshSettles == <>[](uiQueue = <<>> /\ workers = {} /\ paginating = {})

\* A notification of room r is on its way to the UI thread.
Told(r) == Notification(r) \in Range(uiQueue)

\* The model of r has caught up with version v, unless there is no longer a loop
\* or a model to speak of.
CaughtUp(r, v) ==
    \/ r \notin loops \/ models[r] = NoModel
    \/ models[r].version >= v

\* An announced snapshot reaches the model: once the UI thread is told of a room
\* whose loop has stored version v, the model comes to show v or a newer one.
ModelsCatchUp ==
    \A r \in Rooms, v \in 1..MaxVersion :
        (Told(r) /\ snaps[r] # NoSnapshot /\ snaps[r].version = v) ~> CaughtUp(r, v)

=============================================================================
