--------------------------- MODULE RoomSubscriptions ---------------------------
(***************************************************************************)
(* The sliding-sync subscriptions of the rooms on screen and the pinned    *)
(* messages that come with them (runtime_subscriptions.rs and its callers).*)
(*                                                                         *)
(* The main window shows one active room, a detached window one room each. *)
(* Each of them holds a reference in SubscribedRooms; the first and last   *)
(* reference of a room wake the reconciler, a task of the sync loop, that  *)
(* waits, debounces, takes the set of referenced rooms, starts and aborts  *)
(* one forwarder of pinned messages per room, and submits the set to the   *)
(* SDK.  A forwarder posts the pinned messages to the UI thread, which     *)
(* shows them for the active room only.                                    *)
(*                                                                         *)
(* The calls a UI handler makes into Rust are steps of their own: the      *)
(* reconciler runs on another thread between them.  A list of pinned       *)
(* messages is abstracted to its version in the state store.               *)
(*                                                                         *)
(* All of it belongs to a backend handle.  A handle is restored by a       *)
(* detached thread and adopted when its answer is handled; a logout waits  *)
(* for the server on another one (MainWindow.cpp and                       *)
(* ChatPageSessionLifecycle.cpp).                                          *)
(***************************************************************************)
EXTENDS Integers, Sequences, FiniteSets

CONSTANTS
    Rooms,       \* the rooms the user opens
    NoRoom,      \* no room
    Windows,     \* the detached room windows
    MaxSession,  \* bound: backend handles given out
    MaxRequests, \* bound: the start request id at which no start is asked for
    MaxLogouts,  \* bound: logouts the server has not answered
    MaxRefs,     \* bound: references of one room
    MaxPins,     \* bound: changes of the pinned messages of a room
    MaxEvents    \* bound: posted pinned lists at which the forwarders are quiet

ASSUME BoundsAssumption ==
    /\ MaxSession \in Nat \ {0} /\ MaxRefs \in Nat
    /\ MaxRequests \in Nat /\ MaxLogouts \in Nat
    /\ MaxPins \in Nat /\ MaxEvents \in Nat
    /\ NoRoom \notin Rooms /\ IsFiniteSet(Windows)

VARIABLES
    session,     \* MainWindow::matrixBackendHandleId_, 0 when there is none
    started,     \* handles given out so far
    page,        \* the page of the main window
    request,     \* matrixBackendStartupRequestId_
    starts,      \* starts whose answer was not handled yet
    live,        \* the handles in the Rust registry
    logouts,     \* logouts whose answer was not handled yet
    active,      \* activeMatrixTimelineRoomId_
    windows,     \* roomWindows_: the room each detached window shows
    calls,       \* what is left of the calls the UI handler makes into Rust
    refs,        \* SubscribedRoomsState::refs, 0 for an absent room
    permit,      \* the permit tokio's Notify holds for the reconciler
    pc,          \* where the reconciler is
    desired,     \* its snapshot of the referenced rooms
    submitted,   \* last_submitted, the rooms the SDK was given
    forwarders,  \* pinned_forwarders: absent, or how far the task of the room is
    emitted,     \* last_emitted of each forwarder
    pins,        \* the pinned messages in the state store
    uiQueue,     \* pinned lists posted to the UI thread
    shown        \* matrixTimelinePinnedEventIds_ with the room it is of

uiVars    == <<active, windows>>
sessVars  == <<session, started, page, request, starts, live, logouts>>
reconVars == <<pc, desired, submitted>>
fwdVars   == <<forwarders, emitted>>
vars == <<sessVars, uiVars, calls, refs, permit, reconVars, fwdVars, pins, uiQueue, shown>>

Call(op, r) == [op |-> op, room |-> r]
NoPins == [room |-> NoRoom, version |-> 0]
Start(id, done, handle) == [request |-> id, done |-> done, handle |-> handle]

Init ==
    /\ session = 1 /\ started = 1 /\ page = "chat"
    /\ request = 2 /\ starts = {} /\ live = {1} /\ logouts = 0
    /\ active = NoRoom /\ windows = [w \in Windows |-> NoRoom] /\ calls = <<>>
    /\ refs = [r \in Rooms |-> 0] /\ permit = FALSE
    /\ pc = "waiting" /\ desired = {} /\ submitted = {}
    /\ forwarders = [r \in Rooms |-> "absent"] /\ emitted = [r \in Rooms |-> 0]
    /\ pins = [r \in Rooms |-> 0]
    /\ uiQueue = <<>> /\ shown = NoPins
-----------------------------------------------------------------------------
(* SubscribedRooms *)

\* The rooms some surface holds a reference of (SubscribedRooms::snapshot).
Referenced == {r \in Rooms : refs[r] > 0}

\* subscribe: the first reference of a room wakes the reconciler, after the
\* lock was released.
Subscribe(r) ==
    /\ refs[r] < MaxRefs
    /\ refs' = [refs EXCEPT ![r] = @ + 1]
    /\ calls' = IF refs[r] = 0 THEN <<Call("notify", r)>> \o Tail(calls) ELSE Tail(calls)
    /\ UNCHANGED permit

\* Mutant: dropping the last reference does not wake the reconciler.
UnsubscribeQuietly(r) ==
    /\ refs' = [refs EXCEPT ![r] = IF @ = 0 THEN 0 ELSE @ - 1]
    /\ calls' = Tail(calls)
    /\ UNCHANGED permit

\* Mutant: an absent room is counted down too.
UnsubscribeBelowZero(r) ==
    /\ refs' = [refs EXCEPT ![r] = @ - 1]
    /\ calls' = IF refs[r] = 1 THEN <<Call("notify", r)>> \o Tail(calls) ELSE Tail(calls)
    /\ UNCHANGED permit

\* Mutant: the entry is removed whatever its count.
UnsubscribeAll(r) ==
    /\ refs' = [refs EXCEPT ![r] = 0]
    /\ calls' = IF refs[r] > 0 THEN <<Call("notify", r)>> \o Tail(calls) ELSE Tail(calls)
    /\ UNCHANGED permit

\* unsubscribe: dropping the last reference wakes it too; an absent room is
\* left alone.
Unsubscribe(r) ==
    /\ refs' = [refs EXCEPT ![r] = IF @ = 0 THEN 0 ELSE @ - 1]
    /\ calls' = IF refs[r] = 1 THEN <<Call("notify", r)>> \o Tail(calls) ELSE Tail(calls)
    /\ UNCHANGED permit

\* Mutant: notify_waiters in the place of notify_one keeps no permit for later.
NotifyWaiters ==
    /\ permit' = (permit \/ pc = "waiting")
    /\ calls' = Tail(calls)
    /\ UNCHANGED refs

\* Notify::notify_one keeps at most one permit.
NotifyOne ==
    /\ permit' = TRUE
    /\ calls' = Tail(calls)
    /\ UNCHANGED refs

\* The next call of the UI handler.  Without the handle the call is an error.
DoCall ==
    /\ calls # <<>>
    /\ LET c == Head(calls) IN
        \/ c.op = "subscribe" /\ Subscribe(c.room)
        \/ c.op = "unsubscribe" /\ Unsubscribe(c.room)
        \/ c.op = "notify" /\ NotifyOne
    /\ UNCHANGED <<sessVars, uiVars, reconVars, fwdVars, pins, uiQueue, shown>>
-----------------------------------------------------------------------------
(* The UI thread; a handler starts when the one before it has returned *)

UiIdle == calls = <<>>

\* updateCurrentMatrixTimelineSelection
SelectRoom(r) ==
    /\ UiIdle /\ session # 0 /\ r # active
    /\ refs[r] < MaxRefs
    /\ calls' = (IF active # NoRoom THEN <<Call("unsubscribe", active)>> ELSE <<>>)
                \o <<Call("subscribe", r)>>
    /\ active' = r
    /\ shown' = NoPins
    /\ UNCHANGED <<sessVars, windows, refs, permit, reconVars, fwdVars, pins, uiQueue>>

\* clearCurrentMatrixTimeline(true): the last tab was closed.
CloseRoom ==
    /\ UiIdle /\ session # 0 /\ active # NoRoom
    /\ calls' = <<Call("unsubscribe", active)>>
    /\ active' = NoRoom
    /\ shown' = NoPins
    /\ UNCHANGED <<sessVars, windows, refs, permit, reconVars, fwdVars, pins, uiQueue>>

\* clearCurrentMatrixTimeline(false), after the fetch of the active room or the
\* selection of another one failed: nothing is unsubscribed.
LoseActiveRoom ==
    /\ UiIdle /\ session # 0 /\ active # NoRoom
    /\ active' = NoRoom
    /\ shown' = NoPins
    /\ UNCHANGED <<sessVars, windows, calls, refs, permit, reconVars, fwdVars, pins,
                   uiQueue>>

\* addPerRoomWindow
OpenWindow(w, r) ==
    /\ UiIdle /\ session # 0 /\ windows[w] = NoRoom /\ refs[r] < MaxRefs
    /\ windows' = [windows EXCEPT ![w] = r]
    /\ calls' = <<Call("subscribe", r)>>
    /\ UNCHANGED <<sessVars, active, refs, permit, reconVars, fwdVars, pins, uiQueue,
                   shown>>

\* removePerRoomWindow, when the window object is destroyed: whatever handle is
\* there now is told, and none when there is none.
CloseWindow(w) ==
    /\ UiIdle /\ windows[w] # NoRoom
    /\ windows' = [windows EXCEPT ![w] = NoRoom]
    /\ calls' = IF session # 0 THEN <<Call("unsubscribe", windows[w])>> ELSE <<>>
    /\ UNCHANGED <<sessVars, active, refs, permit, reconVars, fwdVars, pins, uiQueue,
                   shown>>

-----------------------------------------------------------------------------
(* The backend handle *)

\* performLogout: a thread asks the server; the chat stays until it answered, so
\* the user may ask twice.
RequestLogout ==
    /\ UiIdle /\ page = "chat" /\ logouts < MaxLogouts
    /\ logouts' = logouts + 1
    /\ UNCHANGED <<session, started, page, request, starts, live, uiVars, calls, refs,
                   permit, reconVars, fwdVars, pins, uiQueue, shown>>

\* The handle with its SubscribedRooms is dropped, its reconciler aborts the
\* forwarders (stop_backend), and clearCurrentMatrixTimeline(false) follows.
StopHandle ==
    /\ session' = 0 /\ live' = live \ {session}
    /\ active' = NoRoom /\ shown' = NoPins
    /\ refs' = [r \in Rooms |-> 0] /\ permit' = FALSE
    /\ pc' = "stopped" /\ desired' = {} /\ submitted' = {}
    /\ forwarders' = [r \in Rooms |-> "absent"]

\* Mutant: the request id only moves when there is a handle to stop.
LogoutKeepsStart ==
    /\ UiIdle /\ logouts > 0
    /\ logouts' = logouts - 1
    /\ StopHandle
    /\ request' = request + (IF session = 0 THEN 0 ELSE 1)
    /\ page' = "login"
    /\ UNCHANGED <<started, starts, windows, calls, emitted, pins, uiQueue>>

\* finalizeLogout, whatever the server said and whatever handle is there by now;
\* transitionToLoginPage stops once more.
Logout ==
    /\ UiIdle /\ logouts > 0
    /\ logouts' = logouts - 1
    /\ StopHandle
    /\ request' = request + 2
    /\ page' = "login"
    /\ UNCHANGED <<started, starts, windows, calls, emitted, pins, uiQueue>>

\* startMatrixBackendHandleForActiveSession, after a login or to try again; it stops
\* whatever was started before.
StartBackend ==
    /\ UiIdle /\ page \in {"login", "failed"} /\ request < MaxRequests
    /\ request' = request + 2
    /\ starts' = starts \cup {Start(request', FALSE, 0)}
    /\ page' = "restoring"
    /\ UNCHANGED <<session, started, live, logouts, uiVars, calls, refs, permit, reconVars,
                   fwdVars, pins, uiQueue, shown>>

\* start_restored_backend on its thread: a new handle, or none.
Restore(s) ==
    /\ ~s.done
    /\ \/ /\ started < MaxSession
          /\ started' = started + 1 /\ live' = live \cup {started'}
          /\ starts' = (starts \ {s}) \cup {Start(s.request, TRUE, started')}
       \/ /\ starts' = (starts \ {s}) \cup {Start(s.request, TRUE, 0)}
          /\ UNCHANGED <<started, live>>
    /\ UNCHANGED <<session, page, request, logouts, uiVars, calls, refs, permit, reconVars,
                   fwdVars, pins, uiQueue, shown>>

\* Mutant: the handle of a start that was replaced is forgotten.
ForgetStart(s) ==
    /\ UiIdle /\ s.done /\ s.request # request
    /\ starts' = starts \ {s}
    /\ UNCHANGED <<session, started, page, request, live, logouts, uiVars, calls, refs,
                   permit, reconVars, fwdVars, pins, uiQueue, shown>>

\* The answer of a start that was replaced: its handle is stopped.
DropStart(s) ==
    /\ UiIdle /\ s.done /\ s.request # request
    /\ starts' = starts \ {s} /\ live' = live \ {s.handle}
    /\ UNCHANGED <<session, started, page, request, logouts, uiVars, calls, refs, permit,
                   reconVars, fwdVars, pins, uiQueue, shown>>

\* No handle: back to the login page, or the startup page stays with the reason.
StartFails(s) ==
    /\ UiIdle /\ s.done /\ s.request = request /\ s.handle = 0
    /\ starts' = starts \ {s}
    /\ \/ page' = "login" /\ request' = request + 1
       \/ page' = "failed" /\ UNCHANGED request
    /\ UNCHANGED <<session, started, live, logouts, uiVars, calls, refs, permit, reconVars,
                   fwdVars, pins, uiQueue, shown>>

\* The handle is adopted and its sync started with a new reconciler; the windows
\* stay.
Login(s) ==
    /\ UiIdle /\ s.done /\ s.request = request /\ s.handle # 0
    /\ starts' = starts \ {s}
    /\ session' = s.handle /\ page' = "chat"
    /\ pc' = "waiting"
    /\ UNCHANGED <<started, request, live, logouts, uiVars, calls, refs, permit, desired,
                   submitted, fwdVars, pins, uiQueue, shown>>
-----------------------------------------------------------------------------
(* The pinned messages on screen *)

\* Mutant: a list is shown whatever room it is of.
ShowAnyPins ==
    /\ UiIdle /\ uiQueue # <<>>
    /\ LET e == Head(uiQueue) IN
        shown' = IF e.session = session
                 THEN [room |-> e.room, version |-> e.version]
                 ELSE shown
    /\ uiQueue' = Tail(uiQueue)
    /\ UNCHANGED <<sessVars, uiVars, calls, refs, permit, reconVars, fwdVars, pins>>

\* handleMatrixBackendRoomPinnedEventsChanged
ShowPins ==
    /\ UiIdle /\ uiQueue # <<>>
    /\ LET e == Head(uiQueue) IN
        shown' = IF e.session = session /\ e.room = active
                 THEN [room |-> e.room, version |-> e.version]
                 ELSE shown
    /\ uiQueue' = Tail(uiQueue)
    /\ UNCHANGED <<sessVars, uiVars, calls, refs, permit, reconVars, fwdVars, pins>>
-----------------------------------------------------------------------------
(* The reconciler *)

\* notified() consumes the permit; then the debounce of 150 ms starts.
Wake ==
    /\ pc = "waiting" /\ permit
    /\ permit' = FALSE
    /\ pc' = "debouncing"
    /\ UNCHANGED <<sessVars, uiVars, calls, refs, desired, submitted, fwdVars, pins,
                   uiQueue, shown>>

\* Mutant: the forwarders of rooms that left are kept.
TakeSetKeepForwarders ==
    /\ pc = "debouncing"
    /\ desired' = Referenced
    /\ forwarders' = [r \in Rooms |->
         IF r \in Referenced /\ forwarders[r] = "absent" THEN "starting" ELSE forwarders[r]]
    /\ pc' = IF desired' # submitted THEN "submitting" ELSE "waiting"
    /\ UNCHANGED <<sessVars, uiVars, calls, refs, permit, submitted, emitted, pins,
                   uiQueue, shown>>

\* The debounce is over: take the set, start the forwarders of new rooms and
\* abort those of rooms that left; only a changed set is submitted.
TakeSet ==
    /\ pc = "debouncing"
    /\ desired' = Referenced
    /\ forwarders' = [r \in Rooms |->
         IF r \notin Referenced THEN "absent"
         ELSE IF forwarders[r] = "absent" THEN "starting" ELSE forwarders[r]]
    /\ pc' = IF desired' # submitted THEN "submitting" ELSE "waiting"
    /\ UNCHANGED <<sessVars, uiVars, calls, refs, permit, submitted, emitted, pins,
                   uiQueue, shown>>

\* Mutant: the rooms are read again for the record.
SubmitReread ==
    /\ pc = "submitting"
    /\ submitted' = Referenced
    /\ pc' = "waiting"
    /\ UNCHANGED <<sessVars, uiVars, calls, refs, permit, desired, fwdVars, pins, uiQueue,
                   shown>>

\* set_room_subscriptions returned.
Submit ==
    /\ pc = "submitting"
    /\ submitted' = desired
    /\ pc' = "waiting"
    /\ UNCHANGED <<sessVars, uiVars, calls, refs, permit, desired, fwdVars, pins, uiQueue,
                   shown>>
-----------------------------------------------------------------------------
(* The forwarders of pinned messages *)

Post(r, version) ==
    /\ Len(uiQueue) < MaxEvents
    /\ uiQueue' = Append(uiQueue, [session |-> session, room |-> r, version |-> version])

\* Mutant: the UI is seeded with an empty list.
SeedEmpty(r) ==
    /\ forwarders[r] = "starting"
    /\ forwarders' = [forwarders EXCEPT ![r] = "seeded"]
    /\ emitted' = [emitted EXCEPT ![r] = 0]
    /\ Post(r, 0)
    /\ UNCHANGED <<sessVars, uiVars, calls, refs, permit, reconVars, pins, shown>>

\* The client knows the room: the UI is given the list of the state store.
Seed(r) ==
    /\ forwarders[r] = "starting"
    /\ forwarders' = [forwarders EXCEPT ![r] = "seeded"]
    /\ emitted' = [emitted EXCEPT ![r] = pins[r]]
    /\ Post(r, pins[r])
    /\ UNCHANGED <<sessVars, uiVars, calls, refs, permit, reconVars, pins, shown>>

\* pinned_event_ids_stream: only changes of the room from now on are seen.
Listen(r) ==
    /\ forwarders[r] = "seeded"
    /\ forwarders' = [forwarders EXCEPT ![r] = "listening"]
    /\ UNCHANGED <<sessVars, uiVars, calls, refs, permit, reconVars, emitted, pins,
                   uiQueue, shown>>

\* Mutant: the task reads one item of the stream.
EmitFirst(r) ==
    /\ forwarders[r] = "stirred"
    /\ forwarders' = [forwarders EXCEPT ![r] = "ended"]
    /\ \/ pins[r] # emitted[r] /\ Post(r, pins[r])
       \/ pins[r] = emitted[r] /\ UNCHANGED uiQueue
    /\ emitted' = [emitted EXCEPT ![r] = pins[r]]
    /\ UNCHANGED <<sessVars, uiVars, calls, refs, permit, reconVars, pins, shown>>

\* The stream fired: a list that moved is posted, the same list is skipped.
Emit(r) ==
    /\ forwarders[r] = "stirred"
    /\ forwarders' = [forwarders EXCEPT ![r] = "listening"]
    /\ \/ pins[r] # emitted[r] /\ Post(r, pins[r])
       \/ pins[r] = emitted[r] /\ UNCHANGED uiQueue
    /\ emitted' = [emitted EXCEPT ![r] = pins[r]]
    /\ UNCHANGED <<sessVars, uiVars, calls, refs, permit, reconVars, pins, shown>>

\* "The stream fires on every RoomInfo change"
Stirred(r) == IF forwarders[r] = "listening"
              THEN [forwarders EXCEPT ![r] = "stirred"] ELSE forwarders

\* Somebody pins or unpins a message.
PinsChange(r) ==
    /\ session # 0 /\ pins[r] < MaxPins
    /\ pins' = [pins EXCEPT ![r] = @ + 1]
    /\ forwarders' = Stirred(r)
    /\ UNCHANGED <<sessVars, uiVars, calls, refs, permit, reconVars, emitted, uiQueue,
                   shown>>

\* Anything else about the room changes.
RoomInfoChange(r) ==
    /\ session # 0 /\ forwarders' = Stirred(r)
    /\ UNCHANGED <<sessVars, uiVars, calls, refs, permit, reconVars, emitted, pins,
                   uiQueue, shown>>
-----------------------------------------------------------------------------
Reconciler == Wake \/ TakeSet \/ Submit

Forwarder(r) == Seed(r) \/ Listen(r) \/ Emit(r)

User ==
    \/ \E r \in Rooms : SelectRoom(r)
    \/ CloseRoom \/ LoseActiveRoom \/ RequestLogout \/ StartBackend
    \/ \E w \in Windows : CloseWindow(w) \/ \E r \in Rooms : OpenWindow(w, r)

StartEnds(s) == DropStart(s) \/ StartFails(s) \/ Login(s)

Backend == Logout \/ \E s \in starts : Restore(s) \/ StartEnds(s)

Next ==
    \/ DoCall \/ User \/ Backend \/ ShowPins \/ Reconciler
    \/ \E r \in Rooms : Forwarder(r) \/ PinsChange(r) \/ RoomInfoChange(r)

\* The threads run.  Nothing forces the user to do anything or a room to change,
\* in its pinned messages or otherwise.
Fairness ==
    /\ WF_vars(DoCall) /\ WF_vars(ShowPins) /\ WF_vars(Reconciler)
    /\ \A r \in Rooms : WF_vars(Forwarder(r))

Spec == Init /\ [][Next]_vars /\ Fairness
-----------------------------------------------------------------------------
(* Properties *)

\* Types.  Beyond them: unsubscribe never counts a room below zero.
TypeOK ==
    /\ session \in 0..MaxSession /\ started \in 1..MaxSession
    /\ page \in {"login", "restoring", "failed", "chat"} /\ request \in Nat
    /\ starts \subseteq [request : Nat, done : BOOLEAN, handle : 0..MaxSession]
    /\ live \subseteq 1..MaxSession /\ logouts \in 0..MaxLogouts
    /\ active \in Rooms \cup {NoRoom} /\ windows \in [Windows -> Rooms \cup {NoRoom}]
    /\ calls \in Seq([op : {"subscribe", "unsubscribe", "notify"}, room : Rooms])
    /\ refs \in [Rooms -> 0..MaxRefs] /\ permit \in BOOLEAN
    /\ pc \in {"waiting", "debouncing", "submitting", "stopped"}
    /\ desired \subseteq Rooms /\ submitted \subseteq Rooms
    /\ forwarders \in [Rooms -> {"absent", "starting", "seeded", "listening", "stirred"}]
    /\ emitted \in [Rooms -> 0..MaxPins] /\ pins \in [Rooms -> 0..MaxPins]
    /\ uiQueue \in Seq([session : 0..MaxSession, room : Rooms, version : 0..MaxPins])
    /\ shown \in [room : Rooms \cup {NoRoom}, version : 0..MaxPins]

\* No backend is lost: every handle in the registry, each with its threads and its
\* store, is the one in use or is on its way in the answer of a start.  Two handles
\* are only alive while a start was replaced and has not answered.
NoBackendIsLost ==
    live = ({session} \cup {s.handle : s \in starts}) \ {0}

\* The page and the start requests agree: the chat is open just while there is a
\* handle, and one start can still be adopted just while the startup page waits for
\* it.  So no start, however late, leads away from the login page a logout showed.
PagesFollowStarts ==
    /\ page = "chat" <=> session # 0
    /\ page = "restoring" <=> \E s \in starts : s.request = request

Surfaces(r) == Cardinality({w \in Windows : windows[w] = r})
               + (IF active = r THEN 1 ELSE 0)

\* A room that is on screen is subscribed: its references never run out while a
\* surface shows it, whatever the order in which surfaces open and close.
ShownRoomsAreSubscribed ==
    session # 0 /\ UiIdle => \A r \in Rooms : refs[r] >= Surfaces(r)

\* A change of the referenced rooms is never lost between two turns of the
\* reconciler: if it sleeps on another set, a permit or a notify is on its way.
NoLostWakeup ==
    pc = "waiting" /\ ~permit /\ Referenced # desired =>
        \E i \in DOMAIN calls : calls[i].op = "notify"

\* Forwarders run for the rooms taken last and for no others.
ForwardersFollowTheSet ==
    pc # "debouncing" => {r \in Rooms : forwarders[r] # "absent"} = desired

\* The pinned messages on screen are those of the room on screen, although a
\* list posted before a room switch is handled after it.
PinsAreOfActiveRoom == shown.room \in {NoRoom, active}

\* While a room stays on screen its pinned messages never go back to an older
\* list.
PinsNeverGoBack ==
    [][active' = active /\ active # NoRoom => shown'.version >= shown.version]_vars

Latest == INSTANCE LatestSet
              WITH wanted <- Referenced, taken <- desired, applied <- submitted

\* The subscriptions given to the SDK follow the rooms on screen.
FollowsLatest == Latest!Spec

\* In every session, logouts apart: a set is only submitted after it was taken, and
\* only one that was wanted is taken.
StepsLikeLatest == Latest!Init /\ [][Logout \/ Latest!Next]_(Latest!vars)

\* The forwarder "keeps emitting when the state-store value changes, until the room
\* leaves the set": where the user comes to rest the room's forwarder comes to rest
\* on its stream, whichever surfaces opened and closed the room before, and a list the
\* state store has when the stream fires is announced, or a newer one.  Only then: a
\* list that changes after Seed and before Listen is announced with the room's next
\* change, and there need not be one.
HeardChangesAreAnnounced ==
    \A r \in Rooms : <>[](active = r /\ UiIdle) =>
        /\ <>[](forwarders[r] \in {"listening", "stirred"})
        /\ \A v \in 1..MaxPins :
              (forwarders[r] = "stirred" /\ pins[r] = v) ~> (emitted[r] >= v)

\* "The new room's pinned event list will arrive via
\* `handleMatrixBackendRoomPinnedEventsChanged`": the pinned messages of the room
\* on screen are shown in the end, once the user stays in it.
PinnedListArrives ==
    \A r \in Rooms : <>[](active = r) => <>[](shown.version = pins[r])

=============================================================================
