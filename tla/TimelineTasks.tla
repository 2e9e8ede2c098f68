---------------------------- MODULE TimelineTasks ----------------------------
(***************************************************************************)
(* The life of the Rust timeline loops and the locks they share with the   *)
(* callers from C++ (runtime_timeline/mod.rs and task_loop.rs).            *)
(*                                                                         *)
(* A backend handle keeps, under one registry mutex, the task and the      *)
(* snapshot of every opened room.  A snapshot is a vector behind a mutex   *)
(* of its own that the map shares with the loop of the room.  The UI       *)
(* thread starts and stops loops, detached worker threads fetch snapshots, *)
(* and every loop runs on a thread of its own, so all of them interleave   *)
(* between any two critical sections.  A section under one lock is one     *)
(* action; where a thread takes a second lock inside the first, taking     *)
(* each of them is.                                                        *)
(*                                                                         *)
(* Every loop and every snapshot has a number: a snapshot is named after   *)
(* the loop it was created for, and its content is abstracted to the loop  *)
(* that wrote it last.                                                     *)
(***************************************************************************)
EXTENDS Integers

CONSTANTS
    Rooms,      \* the rooms the user opens
    NoRoom,     \* no room
    Fetchers,   \* the detached worker threads
    Ui,         \* the UI thread
    Free,       \* the registry mutex has no holder
    MaxLoops    \* bound: loops started

ASSUME LoopBoundAssumption == MaxLoops \in Nat

ASSUME ThreadAssumption ==
    /\ NoRoom \notin Rooms
    /\ Ui \notin Fetchers \cup {Free} /\ Free \notin Fetchers

VARIABLES
    alive,      \* the handle is in the registry
    active,     \* active_room_id
    tasks,      \* room_timeline_tasks: the loop of each room, 0 for none
    slots,      \* room_timeline_snapshots: the snapshot of each room, 0 for none
    content,    \* the loop that wrote each snapshot last, 0 when it is empty
    spawned,    \* loops started so far
    loops,      \* the loop threads
    cancelled,  \* loops whose stop token is cancelled
    stoppers,   \* loops a stop thread was started for that has not cancelled yet
    joining,    \* loops stop_backend still has to join
    ui,         \* the call the UI thread is in
    fetch,      \* the worker threads
    registry,   \* holder of the registry mutex
    locked      \* snapshots whose mutex a loop holds across a call

Loops == 1..MaxLoops

mapVars  == <<alive, active, tasks, slots>>
loopVars == <<spawned, loops>>
stopVars == <<cancelled, stoppers, joining>>
lockVars == <<registry, locked>>
vars == <<mapVars, content, loopVars, stopVars, ui, fetch, lockVars>>

Idle == [op |-> "idle", room |-> NoRoom]

Init ==
    /\ alive = TRUE /\ active = NoRoom
    /\ tasks = [r \in Rooms |-> 0] /\ slots = [r \in Rooms |-> 0]
    /\ content = [a \in Loops |-> 0]
    /\ spawned = 0
    /\ loops = [i \in Loops |-> [pc |-> "unborn", room |-> NoRoom, slot |-> 0,
                                 diffed |-> FALSE]]
    /\ cancelled = {} /\ stoppers = {} /\ joining = {}
    /\ ui = Idle /\ fetch = [f \in Fetchers |-> Idle]
    /\ registry = Free /\ locked = {}
-----------------------------------------------------------------------------
(* select_active_room_timeline, called by the UI thread *)

UiCalls(op, r) == ui = Idle /\ alive /\ ui' = [op |-> op, room |-> r]

\* An empty room id only takes the selection back.
BeginSelect ==
    /\ \E r \in Rooms \cup {NoRoom} :
          r # active /\ UiCalls("select", r)
    /\ spawned < MaxLoops
    /\ UNCHANGED <<mapVars, content, loopVars, stopVars, fetch, lockVars>>

\* thread.is_finished() of the task of the room
Running(r) == tasks[r] # 0 /\ loops[tasks[r]].pc # "done"

\* Mutant: a second loop is started beside a running one.
SelectCheckNothing ==
    /\ ui.op = "select" /\ registry = Free
    /\ active' = ui.room
    /\ ui' = IF ui.room = NoRoom THEN Idle ELSE [ui EXCEPT !.op = "prepare"]
    /\ UNCHANGED <<alive, tasks, slots, content, loopVars, stopVars, fetch, lockVars>>

\* First section: a running loop is reused.
SelectCheck ==
    /\ ui.op = "select" /\ registry = Free
    /\ active' = ui.room
    /\ ui' = IF ui.room = NoRoom \/ Running(ui.room)
             THEN Idle ELSE [ui EXCEPT !.op = "prepare"]
    /\ UNCHANGED <<alive, tasks, slots, content, loopVars, stopVars, fetch, lockVars>>

\* Second section, under the registry lock: a finished task is removed, the
\* snapshot of the room is found or created ...
SelectPrepare ==
    /\ ui.op = "prepare" /\ registry = Free
    /\ registry' = Ui
    /\ tasks' = [tasks EXCEPT ![ui.room] = 0]
    /\ slots' = [slots EXCEPT ![ui.room] = IF @ = 0 THEN spawned + 1 ELSE @]
    /\ ui' = [ui EXCEPT !.op = "clear"]
    /\ UNCHANGED <<alive, active, content, loopVars, stopVars, fetch, locked>>

\* Mutant: the snapshot of the loop before is left in place.
SelectClearNothing ==
    /\ ui.op = "clear" /\ slots[ui.room] \notin locked
    /\ registry' = Free
    /\ ui' = [ui EXCEPT !.op = "spawn"]
    /\ UNCHANGED <<mapVars, content, loopVars, stopVars, fetch, locked>>

\* ... and cleared under its own lock.
SelectClear ==
    /\ ui.op = "clear" /\ slots[ui.room] \notin locked
    /\ content' = [content EXCEPT ![slots[ui.room]] = 0]
    /\ registry' = Free
    /\ ui' = [ui EXCEPT !.op = "spawn"]
    /\ UNCHANGED <<mapVars, loopVars, stopVars, fetch, locked>>

\* The thread starts before its task is in the map.
SelectSpawn ==
    /\ ui.op = "spawn"
    /\ spawned' = spawned + 1
    /\ loops' = [loops EXCEPT ![spawned + 1] =
         [pc |-> "starting", room |-> ui.room, slot |-> slots[ui.room], diffed |-> FALSE]]
    /\ ui' = [ui EXCEPT !.op = "insert"]
    /\ UNCHANGED <<mapVars, content, stopVars, fetch, lockVars>>

\* Third section.
SelectInsert ==
    /\ ui.op = "insert" /\ registry = Free
    /\ tasks' = [tasks EXCEPT ![ui.room] = spawned]
    /\ ui' = Idle
    /\ UNCHANGED <<alive, active, slots, content, loopVars, stopVars, fetch, lockVars>>
-----------------------------------------------------------------------------
(* stop_room_timeline and stop_backend, called by the UI thread *)

\* releaseModelForRoom never releases the active room.
BeginStop ==
    /\ \E r \in Rooms : r # active /\ UiCalls("stop", r)
    /\ UNCHANGED <<mapVars, content, loopVars, stopVars, fetch, lockVars>>

\* The task leaves the map; a thread that is started now will cancel it.
StopRemove ==
    /\ ui.op = "stop" /\ registry = Free
    /\ stoppers' = stoppers \cup ({tasks[ui.room]} \ {0})
    /\ tasks' = [tasks EXCEPT ![ui.room] = 0]
    /\ ui' = [ui EXCEPT !.op = "drop"]
    /\ UNCHANGED <<alive, active, slots, content, loopVars, cancelled, joining, fetch,
                   lockVars>>

\* Mutant: the snapshot stays in the map.
StopDropNothing ==
    /\ ui.op = "drop" /\ registry = Free
    /\ ui' = Idle
    /\ UNCHANGED <<mapVars, content, loopVars, stopVars, fetch, lockVars>>

\* The snapshot leaves the map; the loop may still be writing to it.
StopDrop ==
    /\ ui.op = "drop" /\ registry = Free
    /\ slots' = [slots EXCEPT ![ui.room] = 0]
    /\ ui' = Idle
    /\ UNCHANGED <<alive, active, tasks, content, loopVars, stopVars, fetch, lockVars>>

\* stop_room_timeline_task on a thread of its own.
Stopper(i) ==
    /\ i \in stoppers
    /\ stoppers' = stoppers \ {i} /\ cancelled' = cancelled \cup {i}
    /\ UNCHANGED <<mapVars, content, loopVars, joining, ui, fetch, lockVars>>

BeginLogout ==
    /\ UiCalls("logout", NoRoom)
    /\ UNCHANGED <<mapVars, content, loopVars, stopVars, fetch, lockVars>>

\* Mutant: the registry stays locked while the loops are joined.
LogoutRemoveLocked ==
    /\ ui.op = "logout" /\ registry = Free
    /\ registry' = Ui
    /\ alive' = FALSE /\ active' = NoRoom
    /\ joining' = {tasks[r] : r \in Rooms} \ {0}
    /\ tasks' = [r \in Rooms |-> 0] /\ slots' = [r \in Rooms |-> 0]
    /\ ui' = [ui EXCEPT !.op = "join"]
    /\ UNCHANGED <<content, loopVars, cancelled, stoppers, fetch, locked>>

\* Mutant: rooms without a task are joined too.
LogoutRemoveEvery ==
    /\ ui.op = "logout" /\ registry = Free
    /\ alive' = FALSE /\ active' = NoRoom
    /\ joining' = {tasks[r] : r \in Rooms}
    /\ tasks' = [r \in Rooms |-> 0] /\ slots' = [r \in Rooms |-> 0]
    /\ ui' = [ui EXCEPT !.op = "join"]
    /\ UNCHANGED <<content, loopVars, cancelled, stoppers, fetch, lockVars>>

\* The handle leaves the registry with all that is in it.
LogoutRemove ==
    /\ ui.op = "logout" /\ registry = Free
    /\ alive' = FALSE /\ active' = NoRoom
    /\ joining' = {tasks[r] : r \in Rooms} \ {0}
    /\ tasks' = [r \in Rooms |-> 0] /\ slots' = [r \in Rooms |-> 0]
    /\ ui' = [ui EXCEPT !.op = "join"]
    /\ UNCHANGED <<content, loopVars, cancelled, stoppers, fetch, lockVars>>

\* One loop after the other is cancelled ...
LogoutCancel ==
    /\ ui.op = "join" /\ joining \cap cancelled = {}
    /\ \E i \in joining : cancelled' = cancelled \cup {i}
    /\ UNCHANGED <<mapVars, content, loopVars, stoppers, joining, ui, fetch, lockVars>>

\* ... and joined.
LogoutJoin ==
    /\ ui.op = "join"
    /\ \E i \in joining \cap cancelled :
          loops[i].pc = "done" /\ joining' = joining \ {i}
    /\ UNCHANGED <<mapVars, content, loopVars, cancelled, stoppers, ui, fetch, lockVars>>

LogoutReturns ==
    /\ ui.op = "join" /\ joining = {}
    /\ ui' = Idle
    /\ UNCHANGED <<mapVars, content, loopVars, stopVars, fetch, lockVars>>
-----------------------------------------------------------------------------
(* fetch_room_timeline_snapshot on a worker thread *)

BeginFetch(f) ==
    /\ ui = Idle /\ alive /\ fetch[f] = Idle
    /\ \E r \in Rooms : fetch' = [fetch EXCEPT ![f] = [op |-> "lock", room |-> r]]
    /\ UNCHANGED <<mapVars, content, loopVars, stopVars, ui, lockVars>>

\* The registry is locked; without a snapshot the call is an error.
FetchLock(f) ==
    /\ fetch[f].op = "lock" /\ registry = Free
    /\ IF slots[fetch[f].room] = 0
       THEN fetch' = [fetch EXCEPT ![f] = Idle] /\ UNCHANGED registry
       ELSE fetch' = [fetch EXCEPT ![f].op = "read"] /\ registry' = f
    /\ UNCHANGED <<mapVars, content, loopVars, stopVars, ui, locked>>

\* With the registry still locked the snapshot is locked and cloned.
FetchRead(f) ==
    /\ fetch[f].op = "read" /\ slots[fetch[f].room] \notin locked
    /\ fetch' = [fetch EXCEPT ![f] = Idle]
    /\ registry' = Free
    /\ UNCHANGED <<mapVars, content, loopVars, stopVars, ui, locked>>
-----------------------------------------------------------------------------
(* run_room_timeline_loop *)

Goto(i, pc) == loops' = [loops EXCEPT ![i].pc = pc]

\* The timeline is taken from the cache or built; an unknown room or a failed
\* build ends the loop.
LoopStarts(i) ==
    /\ loops[i].pc = "starting"
    /\ Goto(i, "first") \/ Goto(i, "done")
    /\ UNCHANGED <<mapVars, content, spawned, stopVars, ui, fetch, lockVars>>

Write(i) ==
    /\ loops[i].slot \notin locked
    /\ content' = [content EXCEPT ![loops[i].slot] = i]

FirstSnapshot(i) ==
    /\ loops[i].pc = "first"
    /\ Write(i)
    /\ Goto(i, "head")
    /\ UNCHANGED <<mapVars, spawned, stopVars, ui, fetch, lockVars>>

\* while !stop.is_cancelled()
LoopHead(i) ==
    /\ loops[i].pc = "head"
    /\ Goto(i, IF i \in cancelled THEN "ending" ELSE "select")
    /\ UNCHANGED <<mapVars, content, spawned, stopVars, ui, fetch, lockVars>>

\* The stream has diffs: the snapshot is replaced; after the first time the
\* room-list preview is filled in from it.
Diff(i) ==
    /\ loops[i].pc = "select"
    /\ Write(i)
    /\ loops' = [loops EXCEPT ![i].diffed = TRUE,
                              ![i].pc = IF loops[i].diffed THEN "head" ELSE "preview"]
    /\ UNCHANGED <<mapVars, spawned, stopVars, ui, fetch, lockVars>>

\* The snapshot is locked again; one without a message needs no more.
LockPreview(i) ==
    /\ loops[i].pc = "preview" /\ loops[i].slot \notin locked
    /\ \/ Goto(i, "backfill") /\ locked' = locked \cup {loops[i].slot}
       \/ Goto(i, "head") /\ UNCHANGED locked
    /\ UNCHANGED <<mapVars, content, spawned, stopVars, ui, fetch, registry>>

\* maybe_backfill_room_list_preview locks the registry, still under the lock of
\* the snapshot.
Backfill(i) ==
    /\ loops[i].pc = "backfill" /\ registry = Free
    /\ Goto(i, "head") /\ locked' = locked \ {loops[i].slot}
    /\ UNCHANGED <<mapVars, content, spawned, stopVars, ui, fetch, registry>>

\* The other arms: a pagination, which is awaited and not cancelled; the end of
\* the stream or of the commands; the stop token.
Paginate(i) ==
    /\ loops[i].pc = "select"
    /\ Goto(i, "paginate")
    /\ UNCHANGED <<mapVars, content, spawned, stopVars, ui, fetch, lockVars>>

PageArrives(i) ==
    /\ loops[i].pc = "paginate"
    /\ Goto(i, "head")
    /\ UNCHANGED <<mapVars, content, spawned, stopVars, ui, fetch, lockVars>>

StreamEnds(i) ==
    /\ loops[i].pc = "select"
    /\ Goto(i, "ending")
    /\ UNCHANGED <<mapVars, content, spawned, stopVars, ui, fetch, lockVars>>

StopArm(i) ==
    /\ loops[i].pc = "select" /\ i \in cancelled
    /\ Goto(i, "ending")
    /\ UNCHANGED <<mapVars, content, spawned, stopVars, ui, fetch, lockVars>>

\* The timeline goes back to the cache and the thread ends.
LoopEnds(i) ==
    /\ loops[i].pc = "ending"
    /\ Goto(i, "done")
    /\ UNCHANGED <<mapVars, content, spawned, stopVars, ui, fetch, lockVars>>
-----------------------------------------------------------------------------
UiStep ==
    \/ SelectCheck \/ SelectPrepare \/ SelectClear \/ SelectSpawn \/ SelectInsert
    \/ StopRemove \/ StopDrop
    \/ LogoutRemove \/ LogoutCancel \/ LogoutJoin \/ LogoutReturns

FetchStep(f) == FetchLock(f) \/ FetchRead(f)

\* What a loop does of itself ...
LoopStep(i) ==
    \/ LoopStarts(i) \/ FirstSnapshot(i) \/ LoopHead(i) \/ LockPreview(i)
    \/ Backfill(i) \/ PageArrives(i) \/ StopArm(i) \/ LoopEnds(i)

\* ... and what happens to it.
LoopInput(i) == Diff(i) \/ Paginate(i) \/ StreamEnds(i)

Next ==
    \/ BeginSelect \/ BeginStop \/ BeginLogout \/ UiStep
    \/ \E f \in Fetchers : BeginFetch(f) \/ FetchStep(f)
    \/ \E i \in Loops : Stopper(i) \/ LoopStep(i) \/ LoopInput(i)

Spec == Init /\ [][Next]_vars

\* Every thread runs when it can, and a request to the server is answered.
Fairness ==
    /\ WF_vars(UiStep)
    /\ \A f \in Fetchers : WF_vars(FetchStep(f))
    /\ \A i \in Loops : WF_vars(Stopper(i)) /\ WF_vars(LoopStep(i))

FairSpec == Spec /\ Fairness
-----------------------------------------------------------------------------
(* Properties *)

UiOps == {"idle", "select", "prepare", "clear", "spawn", "insert", "stop", "drop",
          "logout", "join"}
LoopPcs == {"unborn", "starting", "first", "head", "select", "preview", "backfill",
            "paginate", "ending", "done"}

\* The parts of the type invariant: the maps of the handle, the loops and what
\* they write, the loops to be stopped, the calls, the locks.
MapsTyped ==
    /\ alive \in BOOLEAN /\ active \in Rooms \cup {NoRoom}
    /\ tasks \in [Rooms -> 0..MaxLoops] /\ slots \in [Rooms -> 0..MaxLoops]

LoopsTyped ==
    /\ content \in [Loops -> 0..MaxLoops] /\ spawned \in 0..MaxLoops
    /\ loops \in [Loops -> [pc : LoopPcs, room : Rooms \cup {NoRoom},
                            slot : 0..MaxLoops, diffed : BOOLEAN]]
    /\ \A i \in Loops : loops[i].pc # "unborn" => loops[i].slot \in Loops

StopsTyped ==
    cancelled \subseteq Loops /\ stoppers \subseteq Loops /\ joining \subseteq Loops

\* A call that may start a loop finds room for it, a call knows its room, and
\* the snapshot it found or created is still there.
CallsTyped ==
    /\ ui \in [op : UiOps, room : Rooms \cup {NoRoom}]
    /\ ui.op \in {"select", "prepare", "clear", "spawn"} => spawned < MaxLoops
    /\ ui.op \in {"prepare", "clear", "spawn", "insert", "stop", "drop"} =>
          ui.room \in Rooms
    /\ ui.op \in {"clear", "spawn"} => slots[ui.room] # 0
    /\ fetch \in [Fetchers -> [op : {"idle", "lock", "read"}, room : Rooms \cup {NoRoom}]]

LocksTyped == registry \in Fetchers \cup {Ui, Free} /\ locked \subseteq Loops

\* Types.  Beyond them: only loops that were started own a snapshot, are stopped,
\* cancelled or joined; stop_backend joins no room that has no task.
TypeOK == MapsTyped /\ LoopsTyped /\ StopsTyped /\ CallsTyped /\ LocksTyped

Live(i) == loops[i].pc \notin {"unborn", "done"}

\* Two loops that are both still running never write to the same snapshot, also
\* when a room is released and opened again before its old loop has noticed.
OneWriter ==
    \A i, j \in Loops : Live(i) /\ Live(j) /\ i # j => loops[i].slot # loops[j].slot

\* What a fetch of a room can read was written by the newest loop of the room.
SnapshotIsOfNewestLoop ==
    \A r \in Rooms : slots[r] # 0 /\ content[slots[r]] # 0 =>
        LET w == content[slots[r]] IN
            /\ loops[w].room = r
            /\ \A i \in Loops : loops[i].room = r => i <= w

\* No loop is forgotten: one that has not been told to stop is in the map, or a
\* call is just about to put it there or to stop it.
LoopsAreOwned ==
    \A i \in Loops : Live(i) =>
        \/ i \in cancelled \cup stoppers \cup joining
        \/ \E r \in Rooms : tasks[r] = i
        \/ ui.op = "insert" /\ i = spawned

\* What the three rest on.  Loops and snapshots are numbered in the order of their
\* creation, and a snapshot is never older than its room's last stop.
LoopsAreNumbered ==
    /\ \A i \in Loops :
          IF i <= spawned
          THEN loops[i].pc # "unborn" /\ loops[i].slot \in 1..i
          ELSE loops[i].pc = "unborn" /\ loops[i].room = NoRoom
    /\ \A a \in Loops : content[a] # 0 =>
          content[a] <= spawned /\ loops[content[a]].slot = a

\* Between its sections a call of the UI thread still finds what it left.
CallsAreSound ==
    /\ ui.op = "prepare" => ~Running(ui.room)
    /\ ui.op \in {"clear", "spawn"} =>
          \A i \in Loops : Live(i) => loops[i].slot # slots[ui.room]
    /\ ui.op = "spawn" => content[slots[ui.room]] = 0
    /\ ui.op \in {"clear", "spawn", "insert"} => tasks[ui.room] = 0
    /\ joining # {} => ui.op = "join"

\* A snapshot in the map is of one room only, and a live loop that writes to it
\* is the loop of that room.
SlotsAreOwn ==
    /\ \A r, q \in Rooms : slots[r] # 0 /\ slots[r] = slots[q] => r = q
    /\ \A r \in Rooms :
          slots[r] > spawned =>
              slots[r] = spawned + 1 /\ ui.op \in {"clear", "spawn"} /\ ui.room = r
    /\ \A r \in Rooms, i \in Loops : Live(i) /\ loops[i].slot = slots[r] =>
          /\ loops[i].room = r
          /\ \A j \in Loops : loops[j].room = r => j <= i
          /\ \/ tasks[r] = i
             \/ ui.op = "insert" /\ ui.room = r /\ i = spawned
             \/ ui.op = "drop" /\ ui.room = r

\* Who holds which lock: the registry is held while a snapshot is cleared or read, a
\* snapshot while the preview of its room is filled in.
LocksAreHeld ==
    /\ registry = Ui <=> ui.op = "clear"
    /\ \A f \in Fetchers : registry = f <=> fetch[f].op = "read"
    /\ \A a \in locked : \E i \in Loops : loops[i].pc = "backfill" /\ loops[i].slot = a

\* The one embrace of the two locks: a fetch holds the registry and waits for the
\* snapshot that a loop has locked while it waits for the registry.
LocksCross ==
    \E f \in Fetchers, i \in Loops :
        /\ fetch[f].op = "read" /\ slots[fetch[f].room] = loops[i].slot
        /\ loops[i].pc = "backfill"

\* But for that embrace a held lock is given back: a loop never waits for its own
\* snapshot, the UI thread waits for none while it holds the registry, and a fetch
\* that does waits for a loop in the embrace.
NoOtherEmbrace ==
    /\ \A i \in Loops :
          loops[i].pc \in {"first", "select", "preview"} => loops[i].slot \notin locked
    /\ registry = Ui => slots[ui.room] \notin locked
    /\ registry \in Fetchers /\ slots[fetch[registry].room] \in locked => LocksCross

\* The calls of the UI thread return, the logout with the join of every loop among
\* them: nothing but that embrace ever stops them.
UiReturnsUnlessLocksCross == ui.op # "idle" ~> (ui.op = "idle" \/ LocksCross)

\* "Selecting the active Rust timeline now just kicks off a background task":
\* the calls of the UI thread return.
UiReturns == ui.op # "idle" ~> ui.op = "idle"

=============================================================================
