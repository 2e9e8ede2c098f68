---------------------------- MODULE ThreadTimelines ----------------------------
(***************************************************************************)
(* Threads shown in place of their room: the cache of thread loops in Rust *)
(* (runtime_thread_timeline) and the models of the threads in the UI       *)
(* (TimelineViewManagerMatrixTimelineThreads.cpp).                         *)
(*                                                                         *)
(* Opening a thread subscribes to it: a loop that is still cached is used  *)
(* again, else one is started and the least recently used one is stopped.  *)
(* A loop publishes its snapshot and posts a note; the UI thread starts a  *)
(* worker for a note of the thread on screen, and the worker reads the     *)
(* snapshot of whichever thread is active in Rust by then.                 *)
(*                                                                         *)
(* Subscribing is one action: until its task is in the map a new loop has  *)
(* an empty snapshot and refuses commands, as a loop does that ended.      *)
(* The items of a thread are abstracted to the thread they are of; how far *)
(* a loop follows the server is the number of events it has fetched.       *)
(***************************************************************************)
EXTENDS Integers, SequencesExt

CONSTANTS
    Rooms,      \* the rooms the user opens
    NoRoom,     \* no room
    Threads,    \* the threads the user opens
    NoThread,   \* no thread
    RoomOf,     \* the room of each thread
    Cap,        \* THREAD_SUBSCRIPTION_CACHE_CAP
    Workers,    \* the detached worker threads
    MaxLoops,   \* bound: loops started
    MaxNotes,   \* bound: posted notes at which who posts them waits
    MaxEvents   \* bound: events sent to each thread

ASSUME ThreadsAssumption ==
    /\ NoRoom \notin Rooms /\ NoThread \notin Threads
    /\ RoomOf \in [Threads -> Rooms]

ASSUME BoundsAssumption ==
    Cap \in Nat \ {0} /\ MaxLoops \in Nat /\ MaxNotes \in Nat /\ MaxEvents \in [Threads -> Nat]

VARIABLES
    room,        \* activeMatrixTimelineRoomId_
    thread,      \* matrixTimelineThreadEventId_
    saved,       \* perRoomInteractionState_: the thread of a room that was left
    entries,     \* matrixThreadTimelineEntries_: loading, and the thread the items are of
    cache,       \* thread_subscriptions: the loop of each thread, 0 for none
    lru,         \* thread_subscription_lru, oldest first
    activeKey,   \* active_thread_key
    spawned,     \* loops started so far
    loops,       \* the loop threads
    stopped,     \* loops told to stop
    notes,       \* snapshot notifications posted to the UI thread
    workers,     \* the workers and what they found
    server,      \* events of each thread on the server
    undelivered  \* threads with an event the sync has not brought yet

Loops == 1..MaxLoops

viewVars   == <<room, thread, saved>>
cacheVars  == <<cache, lru, activeKey>>
loopVars   == <<spawned, loops, stopped>>
serverVars == <<server, undelivered>>
vars == <<viewVars, entries, cacheVars, loopVars, notes, workers, serverVars>>

NewEntry(k) == [loading |-> FALSE, items |-> k]
Unborn == [pc |-> "unborn", thread |-> NoThread, seen |-> 0, failed |-> FALSE,
           filled |-> FALSE, due |-> FALSE]
Idle == [op |-> "idle", thread |-> NoThread, items |-> NoThread]

Init ==
    /\ room = NoRoom /\ thread = NoThread
    /\ saved = [r \in Rooms |-> NoThread]
    /\ entries = [k \in Threads |-> NewEntry(k)]
    /\ cache = [k \in Threads |-> 0] /\ lru = <<>> /\ activeKey = NoThread
    /\ spawned = 0 /\ loops = [i \in Loops |-> Unborn] /\ stopped = {}
    /\ notes = <<>> /\ workers = [w \in Workers |-> Idle]
    /\ server = [k \in Threads |-> 0] /\ undelivered = {}
-----------------------------------------------------------------------------
(* The registry of the handle: called by the UI thread and by workers *)

Running(i) == loops[i].pc \notin {"unborn", "done"}

\* The loop that commands go to, 0 for none.
ActiveLoop == IF activeKey = NoThread THEN 0 ELSE cache[activeKey]

\* send_thread_command: the channel of a loop that ended refuses.
CanSend == ActiveLoop # 0 /\ Running(ActiveLoop)

\* Mutant: the old place in the list stays.
TouchedAgain(k) == Append(lru, k)

\* touch_lru
Touched(k) == Append(RemoveFirst(lru, k), k)

\* Mutant: a loop that is reused is only asked to refresh.
SubscribeSilently(k) ==
    /\ cache[k] # 0
    /\ activeKey' = k /\ lru' = Touched(k)
    /\ loops' = IF Running(cache[k]) THEN [loops EXCEPT ![cache[k]].due = TRUE] ELSE loops
    /\ UNCHANGED <<cache, spawned, stopped, notes>>

\* The cached loop is active again; Refresh is sent to it, whether it still
\* runs or not, and the UI told to read what there is.
SubscribeWarm(k) ==
    /\ cache[k] # 0 /\ Len(notes) < MaxNotes
    /\ activeKey' = k /\ lru' = Touched(k)
    /\ loops' = IF Running(cache[k]) THEN [loops EXCEPT ![cache[k]].due = TRUE] ELSE loops
    /\ notes' = Append(notes, k)
    /\ UNCHANGED <<cache, spawned, stopped>>

\* The threads with a loop in the cache.
Cached == {k \in Threads : cache[k] # 0}

\* Mutant: the list is drained from its other end.
SubscribeColdNewest(k) ==
    LET victim  == SelectLastInSeq(Touched(k), LAMBDA t : t # k)
        full    == Cardinality(Cached \cup {k}) > Cap /\ victim # 0
        evicted == IF full THEN {Touched(k)[victim]} ELSE {} IN
    /\ cache[k] = 0 /\ spawned < MaxLoops
    /\ activeKey' = k
    /\ lru' = IF full THEN RemoveAt(Touched(k), victim) ELSE Touched(k)
    /\ cache' = [t \in Threads |->
         IF t = k THEN spawned + 1 ELSE IF t \in evicted THEN 0 ELSE cache[t]]
    /\ stopped' = stopped \cup {cache[t] : t \in evicted}
    /\ spawned' = spawned + 1
    /\ loops' = [loops EXCEPT ![spawned + 1] = [Unborn EXCEPT !.pc = "starting", !.thread = k]]
    /\ UNCHANGED notes

\* A loop is started; drain_lru_overflow: beyond the capacity the oldest thread
\* that is not the active one leaves the cache and its loop is stopped.
SubscribeCold(k) ==
    LET victim  == SelectInSeq(Touched(k), LAMBDA t : t # k)
        full    == Cardinality(Cached \cup {k}) > Cap /\ victim # 0
        evicted == IF full THEN {Touched(k)[victim]} ELSE {} IN
    /\ cache[k] = 0 /\ spawned < MaxLoops
    /\ activeKey' = k
    /\ lru' = IF full THEN RemoveAt(Touched(k), victim) ELSE Touched(k)
    /\ cache' = [t \in Threads |->
         IF t = k THEN spawned + 1 ELSE IF t \in evicted THEN 0 ELSE cache[t]]
    /\ stopped' = stopped \cup {cache[t] : t \in evicted}
    /\ spawned' = spawned + 1
    /\ loops' = [loops EXCEPT ![spawned + 1] = [Unborn EXCEPT !.pc = "starting", !.thread = k]]
    /\ UNCHANGED notes

\* subscribe_to_thread_timeline
Subscribe(k) == SubscribeWarm(k) \/ SubscribeCold(k)

\* unsubscribe_from_thread_timeline: the loop stays in the cache.
Unsubscribe ==
    /\ activeKey' = NoThread
    /\ UNCHANGED <<cache, lru, loopVars, notes>>
-----------------------------------------------------------------------------
(* The UI thread *)

\* The thread is shown with the rows it had; it loads until a snapshot arrives.
Show(k) ==
    /\ thread' = k
    /\ entries' = [entries EXCEPT ![k].loading = TRUE]
    /\ Subscribe(k)

\* queueActiveMatrixThread: the thread on screen is not subscribed to again.
OpenThread(k) ==
    /\ RoomOf[k] = room /\ thread # k
    /\ Show(k)
    /\ UNCHANGED <<room, saved, workers, serverVars>>

\* clearActiveMatrixThread
CloseThread ==
    /\ thread # NoThread
    /\ thread' = NoThread
    /\ Unsubscribe
    /\ UNCHANGED <<room, saved, entries, workers, serverVars>>

\* The room that is left keeps its thread.
Kept == IF room = NoRoom THEN saved ELSE [saved EXCEPT ![room] = thread]

\* Mutant: the thread before stays on screen.
SelectRoomOnly(r) ==
    /\ r # room
    /\ room' = r /\ saved' = [Kept EXCEPT ![r] = NoThread]
    /\ IF saved[r] # NoThread
       THEN Show(saved[r])
       ELSE UNCHANGED <<thread, entries, cacheVars, loopVars, notes>>
    /\ UNCHANGED <<workers, serverVars>>

\* Mutant: Rust is not attached to the thread that comes back.
SelectRoomDetached(r) ==
    /\ r # room
    /\ room' = r /\ saved' = [Kept EXCEPT ![r] = NoThread]
    /\ thread' = saved[r]
    /\ UNCHANGED <<entries, cacheVars, loopVars, notes, workers, serverVars>>

\* updateCurrentMatrixTimelineSelection: the thread of the new room comes back
\* and Rust is attached to it again; without one Rust keeps the thread before.
SelectRoom(r) ==
    /\ r # room
    /\ room' = r /\ saved' = [Kept EXCEPT ![r] = NoThread]
    /\ IF saved[r] # NoThread
       THEN Show(saved[r])
       ELSE thread' = NoThread /\ UNCHANGED <<entries, cacheVars, loopVars, notes>>
    /\ UNCHANGED <<workers, serverVars>>

\* clearCurrentMatrixTimeline: every model is destroyed.
Clear ==
    /\ room' = NoRoom /\ thread' = NoThread
    /\ entries' = [k \in Threads |-> NewEntry(k)]
    /\ Unsubscribe
    /\ UNCHANGED <<workers, serverVars>>

\* The last room is closed, or the next one cannot be selected.
CloseRoom == room # NoRoom /\ saved' = Kept /\ Clear

\* The first fetch of the room failed.
LoseRoom == room # NoRoom /\ UNCHANGED saved /\ Clear

\* Vec::retain: what is left of the list without the threads S, in the same order.
Retained(s, S) ==
    LET kept == {n \in 1..Len(s) : s[n] \notin S} IN
    {[i \in 1..Cardinality(kept) |-> s[f[i]]] :
        f \in {g \in [1..Cardinality(kept) -> kept] : \A i, j \in DOMAIN g : i < j => g[i] < g[j]}}

\* Mutant: the loops leave the cache without being stopped.
ReleaseOnly(r) ==
    LET gone == {k \in Cached : RoomOf[k] = r} IN
    /\ r # room /\ gone # {}
    /\ cache' = [k \in Threads |-> IF k \in gone THEN 0 ELSE cache[k]]
    /\ lru' \in Retained(lru, gone)
    /\ activeKey' = IF activeKey \in gone THEN NoThread ELSE activeKey
    /\ UNCHANGED <<viewVars, entries, loopVars, notes, workers, serverVars>>

\* releaseModelForRoom, evict_thread_subscriptions_for_room: the loops of the
\* room's threads are stopped, also that of a thread Rust still has active.
ReleaseRoom(r) ==
    LET gone == {k \in Cached : RoomOf[k] = r} IN
    /\ r # room /\ gone # {}
    /\ cache' = [k \in Threads |-> IF k \in gone THEN 0 ELSE cache[k]]
    /\ lru' \in Retained(lru, gone)
    /\ activeKey' = IF activeKey \in gone THEN NoThread ELSE activeKey
    /\ stopped' = stopped \cup {cache[k] : k \in gone}
    /\ UNCHANGED <<viewVars, entries, spawned, loops, notes, workers, serverVars>>

\* handleMatrixBackendRoomTimelineSnapshotUpdated: the room on screen changed and
\* the thread is asked to refresh.
RefreshThread ==
    /\ thread # NoThread
    /\ CanSend /\ loops' = [loops EXCEPT ![ActiveLoop].due = TRUE]
    /\ UNCHANGED <<viewVars, entries, cacheVars, spawned, stopped, notes, workers, serverVars>>

StartWorker(w, op, k) ==
    workers[w] = Idle /\ workers' = [workers EXCEPT ![w] = [Idle EXCEPT !.op = op, !.thread = k]]

\* handleMatrixBackendThreadTimelineSnapshotUpdated: a note of another thread
\* than the one on screen is dropped.
HandleNote ==
    /\ notes # <<>>
    /\ notes' = Tail(notes)
    /\ IF thread = Head(notes)
       THEN \E w \in Workers : StartWorker(w, "fetch", thread)
       ELSE UNCHANGED workers
    /\ UNCHANGED <<viewVars, entries, cacheVars, loopVars, serverVars>>

\* Its callback: dropped too when another thread is on screen by now.
Deliver(w) ==
    LET k == workers[w].thread IN
    /\ workers[w].op \in {"fetched", "failed"}
    /\ workers' = [workers EXCEPT ![w] = Idle]
    /\ entries' = IF thread # k THEN entries
         ELSE [entries EXCEPT ![k] =
                [loading |-> FALSE,
                 items   |-> IF workers[w].op = "failed" THEN @.items ELSE workers[w].items]]
    /\ UNCHANGED <<viewVars, cacheVars, loopVars, notes, serverVars>>

\* paginateActiveMatrixThreadTimelineBackwards
BeginPage ==
    /\ thread # NoThread /\ ~entries[thread].loading
    /\ entries' = [entries EXCEPT ![thread].loading = TRUE]
    /\ \E w \in Workers : StartWorker(w, "page", thread)
    /\ UNCHANGED <<viewVars, cacheVars, loopVars, notes, serverVars>>

\* Its callback: the thread it was asked for stops loading.
PageDone(w) ==
    /\ workers[w].op = "paged"
    /\ workers' = [workers EXCEPT ![w] = Idle]
    /\ entries' = [entries EXCEPT ![workers[w].thread].loading = FALSE]
    /\ UNCHANGED <<viewVars, cacheVars, loopVars, notes, serverVars>>
-----------------------------------------------------------------------------
(* The worker threads *)

\* fetch_thread_timeline_snapshot: the snapshot of the active thread.
Fetch(w) ==
    /\ workers[w].op = "fetch"
    /\ workers' = [workers EXCEPT ![w] =
         IF ActiveLoop = 0 THEN [@ EXCEPT !.op = "failed"]
         ELSE [@ EXCEPT !.op = "fetched", !.items = activeKey]]
    /\ UNCHANGED <<viewVars, entries, cacheVars, loopVars, notes, serverVars>>

\* paginate_thread_timeline_backwards, to the loop of the active thread: the page
\* comes as diffs; when it fails the loop announces its snapshot again.
SendPage(w) ==
    /\ workers[w].op = "page"
    /\ workers' = [workers EXCEPT ![w].op = "paged"]
    /\ \/ UNCHANGED notes
       \/ CanSend /\ Len(notes) < MaxNotes /\ notes' = Append(notes, activeKey)
    /\ UNCHANGED <<viewVars, entries, cacheVars, loopVars, serverVars>>

Worker(w) == Deliver(w) \/ PageDone(w) \/ Fetch(w) \/ SendPage(w)
-----------------------------------------------------------------------------
(* run_thread_timeline_loop *)

\* All that is left of a loop that ended is its snapshot.
Ended(l) == [Unborn EXCEPT !.pc = "done", !.thread = l.thread, !.filled = l.filled]

\* The head of the loop looks at the stop flag.
Resume(i, l) == IF i \in stopped THEN Ended(l) ELSE [l EXCEPT !.pc = "select"]

\* The snapshot merges the events of the SDK, once there are any, and the answer.
Filled(l) == [l EXCEPT !.filled = @ \/ l.seen > 0]

\* publish_merged_snapshot: an empty snapshot is not announced.
Publish(l) ==
    IF Filled(l).filled
    THEN Len(notes) < MaxNotes /\ notes' = Append(notes, l.thread)
    ELSE UNCHANGED notes

Becomes(i, l) ==
    /\ loops' = [loops EXCEPT ![i] = l]
    /\ UNCHANGED <<viewVars, entries, cacheVars, spawned, stopped, workers, serverVars>>

\* The timeline is built, with or without events it has stored, the caches are
\* subscribed to; when one of it fails the loop has ended before it began.
LoopStarts(i) ==
    /\ loops[i].pc = "starting"
    /\ \/ \E stored \in BOOLEAN :
             LET l == [loops[i] EXCEPT !.pc = "first", !.filled = stored] IN
             Publish(l) /\ Becomes(i, l)
       \/ Becomes(i, Ended(loops[i])) /\ UNCHANGED notes

\* The server answers the request for /relations with what it has.
ServerAnswers(i) ==
    /\ loops[i].pc \in {"first", "fetch"}
    /\ Becomes(i, [loops[i] EXCEPT !.pc = "answer", !.seen = server[loops[i].thread],
                                   !.failed = FALSE])
    /\ UNCHANGED notes

\* The request fails and the answer before stays.  The first time nothing is
\* published then.
RequestFails(i) ==
    LET l == [loops[i] EXCEPT !.failed = loops[i].seen < server[loops[i].thread]] IN
    /\ loops[i].pc \in {"first", "fetch"}
    /\ Becomes(i, IF l.pc = "first" THEN Resume(i, l) ELSE [l EXCEPT !.pc = "answer"])
    /\ UNCHANGED notes

\* Mutant: the deadline is reset after the request and not before it.
AnswerAbsorbs(i) ==
    /\ loops[i].pc = "answer"
    /\ Publish(loops[i])
    /\ Becomes(i, Resume(i, [Filled(loops[i]) EXCEPT !.due = FALSE]))

AnswerArrives(i) ==
    /\ loops[i].pc = "answer"
    /\ Publish(loops[i])
    /\ Becomes(i, Resume(i, Filled(loops[i])))

\* The arms of the select.  What is due, an update of a cache or a Refresh, arms
\* the deadline as soon as the loop is back in the select; what arrives during the
\* request stays in its channel.
DeadlineFires(i) ==
    /\ loops[i].pc = "select" /\ loops[i].due
    /\ Becomes(i, [loops[i] EXCEPT !.due = FALSE, !.failed = FALSE, !.pc = "fetch"])
    /\ UNCHANGED notes

Diff(i) ==
    LET l == [loops[i] EXCEPT !.filled = TRUE] IN
    /\ l.pc = "select"
    /\ Publish(l)
    /\ Becomes(i, Resume(i, l))

\* The stream ends, or the sender of the commands is gone.
StreamEnds(i) ==
    /\ loops[i].pc = "select"
    /\ Becomes(i, Ended(loops[i]))
    /\ UNCHANGED notes

ChannelClosed(i) ==
    /\ loops[i].pc = "select" /\ i \in stopped
    /\ Becomes(i, Ended(loops[i]))
    /\ UNCHANGED notes
-----------------------------------------------------------------------------
(* The server *)

EventSent(k) ==
    /\ server[k] < MaxEvents[k]
    /\ server' = [server EXCEPT ![k] = @ + 1]
    /\ undelivered' = undelivered \cup {k}
    /\ UNCHANGED <<viewVars, entries, cacheVars, loopVars, notes, workers>>

\* The sync brings the event: the caches wake every loop of the room that has
\* subscribed to them.  A loop that lags behind is woken all the same.
SyncDelivers(k) ==
    /\ k \in undelivered
    /\ undelivered' = undelivered \ {k}
    /\ loops' = [i \in Loops |->
         IF /\ Running(i) /\ loops[i].pc # "starting"
            /\ RoomOf[loops[i].thread] = RoomOf[k]
         THEN [loops[i] EXCEPT !.due = TRUE] ELSE loops[i]]
    /\ UNCHANGED <<viewVars, entries, cacheVars, spawned, stopped, notes, workers, server>>
-----------------------------------------------------------------------------
User ==
    \/ \E k \in Threads : OpenThread(k)
    \/ \E r \in Rooms : SelectRoom(r) \/ ReleaseRoom(r)
    \/ CloseThread \/ CloseRoom \/ LoseRoom \/ RefreshThread \/ BeginPage

LoopStep(i) ==
    \/ LoopStarts(i) \/ ServerAnswers(i) \/ RequestFails(i) \/ AnswerArrives(i)
    \/ DeadlineFires(i) \/ Diff(i) \/ StreamEnds(i) \/ ChannelClosed(i)

Next ==
    \/ User \/ HandleNote
    \/ \E w \in Workers : Worker(w)
    \/ \E i \in Loops : LoopStep(i)
    \/ \E k \in Threads : EventSent(k) \/ SyncDelivers(k)

Spec == Init /\ [][Next]_vars
-----------------------------------------------------------------------------
(* Properties *)

LoopPcs == {"unborn", "starting", "first", "fetch", "answer", "select", "done"}
WorkerOps == {"idle", "fetch", "fetched", "failed", "page", "paged"}

\* Types.  Beyond them: only loops that were started are cached and stopped, and
\* the thread on screen is one of the room on screen.
TypeOK ==
    /\ room \in Rooms \cup {NoRoom} /\ thread \in Threads \cup {NoThread}
    /\ thread # NoThread => RoomOf[thread] = room
    /\ saved \in [Rooms -> Threads \cup {NoThread}]
    /\ \A r \in Rooms : saved[r] # NoThread => RoomOf[saved[r]] = r
    /\ entries \in [Threads -> [loading : BOOLEAN, items : Threads]]
    /\ cache \in [Threads -> 0..MaxLoops] /\ lru \in Seq(Threads)
    /\ activeKey \in Threads \cup {NoThread}
    /\ spawned \in 0..MaxLoops /\ stopped \subseteq 1..spawned
    /\ loops \in [Loops -> [pc : LoopPcs, thread : Threads \cup {NoThread},
                            seen : Nat, failed : BOOLEAN, filled : BOOLEAN,
                            due : BOOLEAN]]
    /\ \A i \in Loops : IF i <= spawned THEN loops[i].thread \in Threads
                                        ELSE loops[i] = Unborn
    /\ notes \in Seq(Threads) /\ Len(notes) <= MaxNotes
    /\ workers \in [Workers -> [op : WorkerOps, thread : Threads \cup {NoThread},
                                items : Threads \cup {NoThread}]]
    /\ \A w \in Workers : workers[w].op # "idle" => workers[w].thread \in Threads
    /\ server \in [Threads -> Nat] /\ undelivered \subseteq Threads

\* The thread on screen is the one Rust serves snapshots of and sends commands to,
\* through every switch of room and thread: "Without this resubscribe, /relations
\* refreshes route to the wrong thread (issue #82)".
ActiveThreadsAgree == thread # NoThread => activeKey = thread

\* The list of recent use holds every cached thread once, the cache never outgrows
\* its capacity, and the active thread is never evicted.
CacheIsSound ==
    /\ \A k \in Threads : k \in Cached <=> Contains(lru, k)
    /\ IsInjective(lru)
    /\ Cardinality(Cached) <= Cap
    /\ activeKey # NoThread => activeKey \in Cached

\* Of two threads in the list the first was not used since the second was.
UsedBefore ==
    {p \in Threads \X Threads :
        \E i, j \in 1..Len(lru) : i < j /\ lru[i] = p[1] /\ lru[j] = p[2]}

Recent == INSTANCE RecentlyUsed WITH Keys <- Threads, held <- Cached, before <- UsedBefore

\* The step is a use of the thread k.
Uses(k) == Recent!Keep(k) \/ Recent!Replace(k)

\* "Bounded LRU": whatever is opened, left and released, a thread only makes room for
\* another when the cache is full and it is the one not used for the longest time; to
\* become the active thread is to be used, also for one that is in the cache, and a
\* release keeps the order of the others.
KeepsRecentThreads ==
    /\ Recent!Spec
    /\ [][activeKey' \notin {activeKey, NoThread} => Uses(activeKey')]_vars

\* No loop is forgotten: one that runs without having been told to stop is the
\* cached loop of its thread, and the only one.
LoopsAreOwned ==
    \A i \in Loops : Running(i) /\ i \notin stopped => cache[loops[i].thread] = i

\* No event is missed for want of a wake-up: a loop that lacks one will be told of
\* it, was told, or has just been refused by the server.
NoLostRefresh ==
    \A i \in Loops : LET l == loops[i] IN
        l.pc \in {"answer", "select"} /\ l.seen < server[l.thread] =>
            l.thread \in undelivered \/ l.due \/ l.failed

\* A thread does not load for ever: once its loop has something to show, a note or
\* a worker is on its way that ends the loading, whichever notes were dropped and
\* whichever workers were late before.
LoadingIsServed ==
    \A k \in Threads :
        /\ thread = k /\ entries[k].loading
        /\ cache[k] # 0 /\ loops[cache[k]].filled
        => \/ \E n \in 1..Len(notes) : notes[n] = k
           \/ \E w \in Workers : workers[w].op # "idle" /\ workers[w].thread = k

\* "Re-check active state at callback time ... `fetchThreadTimelineSnapshot` returns
\* Rust's currently-active snapshot which would no longer match": a model never
\* holds the items of another thread.
ModelsHoldTheirThread ==
    \A k \in Threads : entries[k].items = k

=============================================================================
