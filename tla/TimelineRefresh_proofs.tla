------------------------ MODULE TimelineRefresh_proofs ------------------------
(***************************************************************************)
(* What TimelineRefresh guarantees for every set of rooms and every bound. *)
(***************************************************************************)
EXTENDS TimelineRefresh, SequenceTheorems, TLAPS

\* What a selection, a release and a prefetch do to the loops is always expanded.
USE DEF StartLoop, StopLoop, RequestPage

-----------------------------------------------------------------------------
(* The queue of posted events *)

\* Posting keeps every event that is already there and adds the new one.
LEMMA PostedEvents ==
    ASSUME NEW S, NEW q \in Seq(S), NEW e \in S
    PROVE  Append(q, e) \in Seq(S) /\ Range(Append(q, e)) = Range(q) \cup {e}
<1>1. Append(q, e) \in Seq(S)
  OBVIOUS
<1>2. ASSUME NEW x \in Range(q) PROVE x \in Range(Append(q, e))
  BY DEF Range
<1>3. e \in Range(Append(q, e))
  <2>1. Append(q, e)[Len(q) + 1] = e /\ Len(q) + 1 \in DOMAIN Append(q, e)
    OBVIOUS
  <2> QED BY <2>1 DEF Range
<1>4. ASSUME NEW x \in Range(Append(q, e)) PROVE x \in Range(q) \cup {e}
  <2>1. PICK i \in DOMAIN Append(q, e) : x = Append(q, e)[i]
    BY DEF Range
  <2>2. CASE i = Len(q) + 1
    BY <2>1, <2>2
  <2>3. CASE i # Len(q) + 1
    <3>1. i \in DOMAIN q /\ x = q[i]
      BY <2>1, <2>3
    <3> QED BY <3>1 DEF Range
  <2> QED BY <2>2, <2>3
<1> QED BY <1>1, <1>2, <1>3, <1>4

\* Taking the oldest event leaves all the others.
LEMMA TakenEvent ==
    ASSUME NEW S, NEW q \in Seq(S), q # <<>>
    PROVE  /\ Head(q) \in S /\ Tail(q) \in Seq(S)
           /\ Range(q) = Range(Tail(q)) \cup {Head(q)}
<1>1. Head(q) \in S /\ Tail(q) \in Seq(S)
  OBVIOUS
<1>2. ASSUME NEW x \in Range(Tail(q)) PROVE x \in Range(q)
  <2>1. PICK i \in DOMAIN Tail(q) : x = Tail(q)[i]
    BY DEF Range
  <2>2. i + 1 \in DOMAIN q /\ x = q[i + 1]
    BY <2>1
  <2> QED BY <2>2 DEF Range
<1>3. Head(q) \in Range(q)
  <2>1. 1 \in DOMAIN q /\ Head(q) = q[1]
    OBVIOUS
  <2> QED BY <2>1 DEF Range
<1>4. ASSUME NEW x \in Range(q) PROVE x \in Range(Tail(q)) \cup {Head(q)}
  <2>1. PICK i \in DOMAIN q : x = q[i]
    BY DEF Range
  <2>2. CASE i = 1
    BY <2>1, <2>2
  <2>3. CASE i # 1
    <3>1. i - 1 \in DOMAIN Tail(q) /\ x = Tail(q)[i - 1]
      BY <2>1, <2>3
    <3> QED BY <3>1 DEF Range
  <2> QED BY <2>2, <2>3
<1> QED BY <1>1, <1>2, <1>3, <1>4
-----------------------------------------------------------------------------
(* Type correctness *)

HasDispatch(q) == \E e \in Range(q) : e.type = "dispatch"

\* Scheduling never loses an event and posts nothing but a dispatch; the flag it
\* leaves set has a dispatch behind it.
LEMMA ScheduleEffect ==
    ASSUME NEW p \in SUBSET Rooms, NEW f \in BOOLEAN, NEW q \in Seq(UiEvents),
           Schedule(p, f, q)
    PROVE  /\ queued' \in BOOLEAN /\ uiQueue' \in Seq(UiEvents)
           /\ Range(q) \subseteq Range(uiQueue')
           /\ \A e \in Range(uiQueue') : e.type = "fetched" => e \in Range(q)
           /\ queued' => (f /\ uiQueue' = q) \/ HasDispatch(uiQueue')
<1>1. CASE p = {} \/ f
  BY <1>1 DEF Schedule
<1>2. CASE ~(p = {} \/ f)
  <2>1. queued' = TRUE
    BY <1>2 DEF Schedule
  <2>2. PICK r \in (IF active \in p THEN {active} ELSE p) :
            uiQueue' = Append(q, Dispatch(r))
    BY <1>2 DEF Schedule
  <2>3. r \in Rooms
    OBVIOUS
  <2>4. Dispatch(r) \in UiEvents /\ Dispatch(r).type = "dispatch"
    BY <2>3 DEF Dispatch, UiEvents, DispatchEvents
  <2>5. uiQueue' \in Seq(UiEvents) /\ Range(uiQueue') = Range(q) \cup {Dispatch(r)}
    BY <2>2, <2>4, PostedEvents
  <2> QED BY <2>1, <2>4, <2>5 DEF HasDispatch
<1> QED BY <1>1, <1>2

\* The event being handled has the shape its type promises.
LEMMA EventShape ==
    ASSUME NEW e \in UiEvents
    PROVE  /\ e.type = "snapshot" => e \in SnapshotEvents
           /\ e.type = "dispatch" => e \in DispatchEvents
           /\ e.type = "fetched" => e \in FetchedEvents
BY DEF UiEvents, SnapshotEvents, DispatchEvents, FetchedEvents

\* Clearing the selection leaves well-typed variables.
LEMMA ClearTyped ==
    ASSUME Clear
    PROVE  /\ active' \in Rooms \cup {NoRoom}
           /\ loading' \in BOOLEAN /\ prefetched' \in BOOLEAN /\ guardOn' \in BOOLEAN
           /\ pending' \subseteq Rooms /\ queued' \in BOOLEAN
BY Zenon DEF Clear

\* The empty in-flight slot is well typed.
LEMMA IdleTyped == Idle \in [id : 0..MaxRequests, room : Rooms \cup {NoRoom}]
BY BoundsAssumption DEF Idle

\* Every variable has its type in every reachable state.
THEOREM TypeCorrect == Spec => []TypeOK
<1> USE BoundsAssumption, SentinelAssumption
<1>1. Init => TypeOK
  <2> SUFFICES ASSUME Init PROVE TypeOK
    OBVIOUS
  <2>1. loading \in BOOLEAN /\ prefetched \in BOOLEAN /\ guardOn \in BOOLEAN
        /\ queued \in BOOLEAN
    BY Zenon DEF Init
  <2>2. session \in 0..MaxSession /\ started \in 0..MaxSession
    BY DEF Init
  <2>3. uiQueue \in Seq(UiEvents)
    BY DEF Init
  <2> QED BY <2>1, <2>2, <2>3, IdleTyped DEF Init, TypeOK
<1>2. TypeOK /\ [Next]_vars => TypeOK'
  <2> SUFFICES ASSUME TypeOK, [Next]_vars PROVE TypeOK'
    OBVIOUS
  <2>1. CASE HandleEvent
    <3> DEFINE e == Head(uiQueue)
    <3>1. uiQueue # <<>> /\ e \in UiEvents /\ Tail(uiQueue) \in Seq(UiEvents)
      BY <2>1, TakenEvent DEF HandleEvent, TypeOK
    <3> HIDE DEF e
    <3>2. CASE AcceptNotification(e)
      <4>1. e \in SnapshotEvents
        BY <3>1, <3>2, EventShape DEF AcceptNotification
      <4>2. queued' \in BOOLEAN /\ uiQueue' \in Seq(UiEvents)
        <5>1. Schedule(pending \cup {e.room}, queued, Tail(uiQueue)) /\ pending \cup {e.room} \in SUBSET Rooms
          BY <4>1, <3>2 DEF AcceptNotification, TypeOK, SnapshotEvents, e
        <5>2. queued \in BOOLEAN
          BY DEF TypeOK
        <5> QED BY <3>1, <5>1, <5>2, ScheduleEffect
      <4> QED BY <3>1, <4>1, <4>2, <3>2 DEF AcceptNotification, TypeOK, SnapshotEvents, sessVars, rustVars, viewVars, fetchVars
    <3>3. CASE IgnoreNotification(e)
      <4>1. e \in SnapshotEvents
        BY <3>1, <3>3, EventShape DEF IgnoreNotification
      <4> QED BY <3>1, <4>1, <3>3 DEF IgnoreNotification, TypeOK, SnapshotEvents, sessVars, rustVars, viewVars, fetchVars, RequestIds
    <3>4. CASE RunDispatch(e)
      <4>1. e \in DispatchEvents
        BY <3>1, <3>4, EventShape DEF RunDispatch
      <4>2. inFlight' \in [id : 0..MaxRequests, room : Rooms \cup {NoRoom}]
            /\ workers' \subseteq [id : RequestIds, room : Rooms,
                  session : 0..MaxSession, result : Snapshot \cup {NoSnapshot, Unread}]
        <5>1. CASE inFlight.id # 0 /\ inFlight.room = e.room
          BY <3>4, <5>1 DEF RunDispatch, Refresh, TypeOK, fetchVars
        <5>2. CASE ~(inFlight.id # 0 /\ inFlight.room = e.room)
          <6> DEFINE id == CHOOSE i \in RequestIds \ UsedIds : TRUE
          <6>1. id \in RequestIds
            BY <3>4, <5>2 DEF RunDispatch, Refresh
          <6>2. inFlight' = [id |-> id, room |-> e.room]
                /\ workers' = workers \cup {[id |-> id, room |-> e.room,
                                             session |-> session, result |-> Unread]}
            BY <3>4, <5>2 DEF RunDispatch, Refresh
          <6> HIDE DEF id
          <6> QED BY <4>1, <6>1, <6>2 DEF TypeOK, DispatchEvents, RequestIds
        <5> QED BY <5>1, <5>2
      <4> QED BY <3>1, <3>4, <4>2, Zenon DEF RunDispatch, TypeOK, sessVars, rustVars, viewVars
    <3>5. CASE SkipDispatch(e)
      <4>1. e \in DispatchEvents
        BY <3>1, <3>5, EventShape DEF SkipDispatch
      <4>2. queued' \in BOOLEAN /\ uiQueue' \in Seq(UiEvents)
        <5>1. Schedule(pending, FALSE, Tail(uiQueue)) /\ pending \in SUBSET Rooms
          BY <4>1, <3>5 DEF SkipDispatch, TypeOK, SnapshotEvents, e
        <5>2. queued \in BOOLEAN
          BY DEF TypeOK
        <5> QED BY <3>1, <5>1, <5>2, ScheduleEffect
      <4> QED BY <3>1, <4>1, <4>2, <3>5 DEF SkipDispatch, TypeOK, DispatchEvents, sessVars, rustVars, viewVars, fetchVars
    <3>6. CASE DropForeignResult(e)
      <4>1. e \in FetchedEvents
        BY <3>1, <3>6, EventShape DEF DropForeignResult, Fetched
      <4> QED BY <3>1, <4>1, <3>6 DEF DropForeignResult, Fetched, Idle, TypeOK, FetchedEvents, sessVars, rustVars, viewVars, fetchVars, RequestIds
    <3>7. CASE DropEvictedResult(e)
      <4>1. e \in FetchedEvents
        BY <3>1, <3>7, EventShape DEF DropEvictedResult, Fetched
      <4>2. queued' \in BOOLEAN /\ uiQueue' \in Seq(UiEvents)
        <5>1. Schedule(pending, queued, Tail(uiQueue)) /\ pending \in SUBSET Rooms
          BY <4>1, <3>7 DEF DropEvictedResult, TypeOK, SnapshotEvents, e
        <5>2. queued \in BOOLEAN
          BY DEF TypeOK
        <5> QED BY <3>1, <5>1, <5>2, ScheduleEffect
      <4> QED BY <3>1, <4>1, <4>2, <3>7 DEF DropEvictedResult, Fetched, Idle, TypeOK, FetchedEvents, sessVars, rustVars, viewVars, fetchVars
    <3>8. CASE FailBackgroundFetch(e)
      <4>1. e \in FetchedEvents
        BY <3>1, <3>8, EventShape DEF FailBackgroundFetch, Fetched
      <4> QED BY <3>1, <4>1, <3>8 DEF FailBackgroundFetch, Fetched, Idle, TypeOK, FetchedEvents, sessVars, rustVars, viewVars, fetchVars, RequestIds
    <3>9. CASE FailActiveFetch(e)
      <4>1. e \in FetchedEvents
        BY <3>1, <3>9, EventShape DEF FailActiveFetch
      <4> QED BY <3>1, <4>1, <3>9, ClearTyped, IdleTyped DEF FailActiveFetch, TypeOK, sessVars, rustVars, viewVars, fetchVars, e
    <3>10. CASE ApplyBackground(e)
      <4>1. e \in FetchedEvents
        BY <3>1, <3>10, EventShape DEF ApplyBackground, Fetched
      <4>2. queued' \in BOOLEAN /\ uiQueue' \in Seq(UiEvents)
        <5>1. Schedule(pending, queued, Tail(uiQueue)) /\ pending \in SUBSET Rooms
          BY <4>1, <3>10 DEF ApplyBackground, TypeOK, SnapshotEvents, e
        <5>2. queued \in BOOLEAN
          BY DEF TypeOK
        <5> QED BY <3>1, <5>1, <5>2, ScheduleEffect
      <4> QED BY <3>1, <4>1, <4>2, <3>10 DEF ApplyBackground, Fetched, Applicable, Show, Idle, TypeOK, FetchedEvents, sessVars, rustVars, viewVars, fetchVars
    <3>11. CASE IgnoreShrink(e)
      <4>1. e \in FetchedEvents
        BY <3>1, <3>11, EventShape DEF IgnoreShrink, Fetched
      <4>2. queued' \in BOOLEAN /\ uiQueue' \in Seq(UiEvents)
        <5>1. \/ Schedule(pending, queued, Tail(uiQueue))
              \/ queued' = queued /\ uiQueue' = Tail(uiQueue)
          BY <3>11 DEF IgnoreShrink, e
        <5>2. pending \in SUBSET Rooms /\ queued \in BOOLEAN
          BY DEF TypeOK
        <5> QED BY <3>1, <5>1, <5>2, ScheduleEffect
      <4> QED BY <3>1, <4>1, <4>2, <3>11 DEF IgnoreShrink, Fetched, Idle, TypeOK, FetchedEvents, sessVars, rustVars, viewVars, fetchVars
    <3>12. CASE Prefetch(e)
      <4>1. e \in FetchedEvents
        BY <3>1, <3>12, EventShape DEF Prefetch, Fetched
      <4> QED BY <3>1, <4>1, <3>12 DEF Prefetch, Fetched, Applicable, Idle, TypeOK, FetchedEvents, sessVars, rustVars, viewVars, fetchVars, RequestIds
    <3>13. CASE ApplyActive(e)
      <4>1. e \in FetchedEvents
        BY <3>1, <3>13, EventShape DEF ApplyActive, Fetched
      <4>2. queued' \in BOOLEAN /\ uiQueue' \in Seq(UiEvents)
        <5>1. Schedule(pending, queued, Tail(uiQueue)) /\ pending \in SUBSET Rooms
          BY <4>1, <3>13 DEF ApplyActive, TypeOK, SnapshotEvents, e
        <5>2. queued \in BOOLEAN
          BY DEF TypeOK
        <5> QED BY <3>1, <5>1, <5>2, ScheduleEffect
      <4> QED BY <3>1, <4>1, <4>2, <3>13 DEF ApplyActive, Fetched, Applicable, Show, Idle, TypeOK, FetchedEvents, sessVars, rustVars, viewVars, fetchVars
    <3> QED BY <2>1, <3>1, <3>2, <3>3, <3>4, <3>5, <3>6, <3>7, <3>8, <3>9, <3>10, <3>11, <3>12, <3>13 DEF HandleEvent, e
  <2>2. CASE Worker
    <3>1. ASSUME NEW w \in workers, ReadSnapshot(w) PROVE TypeOK'
      BY <3>1 DEF ReadSnapshot, TypeOK, sessVars, rustVars, viewVars, fetchVars
    <3>2. ASSUME NEW w \in workers, PostResult(w) PROVE TypeOK'
      <4>1. Posted(w) \in UiEvents
        BY <3>2 DEF PostResult, Posted, TypeOK, UiEvents, FetchedEvents, RequestIds
      <4>2. uiQueue' \in Seq(UiEvents)
        BY <3>2, <4>1, PostedEvents DEF PostResult, TypeOK
      <4> QED BY <3>2, <4>2 DEF PostResult, TypeOK, sessVars, rustVars, viewVars, fetchVars
    <3> QED BY <2>2, <3>1, <3>2 DEF Worker
  <2>3. CASE Timers
    <3>1. CASE WarmupExpires
      BY <3>1 DEF WarmupExpires, TypeOK, sessVars, rustVars, viewVars, fetchVars
    <3>2. ASSUME NEW r \in Rooms, PrefetchFallback(r) PROVE TypeOK'
      <4>1. queued' \in BOOLEAN /\ uiQueue' \in Seq(UiEvents)
        <5>1. Schedule(pending \cup {r}, queued, uiQueue) \/ UNCHANGED <<queued, uiQueue>>
          BY <3>2 DEF PrefetchFallback
        <5>2. /\ pending \cup {r} \in SUBSET Rooms /\ queued \in BOOLEAN
              /\ uiQueue \in Seq(UiEvents)
          BY DEF TypeOK
        <5> QED BY <5>1, <5>2, ScheduleEffect
      <4> QED BY <3>2, <4>1 DEF PrefetchFallback, TypeOK, sessVars, rustVars, viewVars, fetchVars
    <3>3. ASSUME NEW r \in Rooms, LoadingFallback(r) PROVE TypeOK'
      BY <3>3 DEF LoadingFallback, TypeOK, sessVars, rustVars, viewVars, fetchVars
    <3> QED BY <2>3, <3>1, <3>2, <3>3 DEF Timers
  <2>4. CASE Loops
    <3>1. ASSUME NEW r \in Rooms, Store(r) PROVE TypeOK'
      <4>1. published' \in 1..MaxVersion
        BY <3>1 DEF Store, TypeOK
      <4>2. snaps' \in [Rooms -> Snapshot \cup {NoSnapshot}]
        <5>1. PICK n \in 0..MaxItems : \E k \in 0..n : snaps' = [snaps EXCEPT ![r] =
                [session |-> session, version |-> published', items |-> n, rows |-> k]]
          BY <3>1 DEF Store
        <5>2. PICK k \in 0..n : snaps' = [snaps EXCEPT ![r] =
                [session |-> session, version |-> published', items |-> n, rows |-> k]]
          BY <5>1
        <5>3. k \in 0..MaxItems
          OBVIOUS
        <5>4. [session |-> session, version |-> published', items |-> n, rows |-> k]
                \in Snapshot
          BY <4>1, <5>3 DEF Snapshot, TypeOK
        <5> QED BY <5>2, <5>4 DEF TypeOK
      <4> QED BY <3>1, <4>1, <4>2 DEF Store, TypeOK, sessVars, rustVars, viewVars, fetchVars
    <3>2. ASSUME NEW r \in Rooms, Notify(r) PROVE TypeOK'
      <4>1. Notification(r) \in UiEvents
        BY DEF Notification, TypeOK, UiEvents, SnapshotEvents
      <4>2. uiQueue' \in Seq(UiEvents)
        BY <3>2, <4>1, PostedEvents DEF Notify, TypeOK
      <4> QED BY <3>2, <4>2 DEF Notify, TypeOK, sessVars, rustVars, viewVars, fetchVars
    <3>3. ASSUME NEW r \in Rooms, FinishPagination(r) PROVE TypeOK'
      BY <3>3 DEF FinishPagination, TypeOK, sessVars, rustVars, viewVars, fetchVars
    <3>4. ASSUME NEW r \in Rooms, LoopEnds(r) PROVE TypeOK'
      BY <3>4 DEF LoopEnds, TypeOK, sessVars, rustVars, viewVars, fetchVars
    <3> QED BY <2>4, <3>1, <3>2, <3>3, <3>4 DEF Loops
  <2>5. CASE User
    <3> USE DEF TypeOK, Snapshot, Empty, Ensured, sessVars, rustVars, viewVars, fetchVars
    <3>1. ASSUME NEW r \in Rooms, EnsureModel(r) PROVE TypeOK'
      BY <3>1 DEF EnsureModel
    <3>2. ASSUME NEW r \in Rooms, ReleaseModel(r) PROVE TypeOK'
      BY <3>2 DEF ReleaseModel
    <3>3. ASSUME NEW r \in Rooms, SelectRoom(r) PROVE TypeOK'
      <4>1. loading' \in BOOLEAN /\ prefetched' \in BOOLEAN /\ guardOn' \in BOOLEAN
        BY <3>3, Zenon DEF SelectRoom
      <4>2. loops' \subseteq Rooms /\ snaps' \in [Rooms -> Snapshot \cup {NoSnapshot}]
        BY <3>3 DEF SelectRoom
      <4>3. models' \in [Rooms -> Snapshot \cup {NoModel}] /\ active' \in Rooms
        BY <3>3 DEF SelectRoom
      <4>4. UNCHANGED <<session, started, published, unnotified, paginating, pending, queued,
                        inFlight, workers, fallbacks, uiQueue>>
        BY <3>3 DEF SelectRoom
      <4> QED BY <4>1, <4>2, <4>3, <4>4
    <3>4. CASE CloseRoom
      BY <3>4, ClearTyped, IdleTyped DEF CloseRoom
    <3>5. CASE Logout
      BY <3>5, ClearTyped, IdleTyped DEF Logout
    <3>6. CASE Login
      BY <3>6 DEF Login
    <3> QED BY <2>5, <3>1, <3>2, <3>3, <3>4, <3>5, <3>6 DEF User
  <2>6. CASE UNCHANGED vars
    BY <2>6 DEF vars, TypeOK, sessVars, rustVars, viewVars, fetchVars
  <2> QED BY <2>1, <2>2, <2>3, <2>4, <2>5, <2>6 DEF Next
<1> QED BY <1>1, <1>2, PTL DEF Spec
-----------------------------------------------------------------------------
(* What handling one event does to the queue and to the models *)

\* The queue after an event was handled: every later event is still there, no
\* result of a fetch was added, and a queued flag that is left set has a
\* dispatch behind it or was set before by a dispatch still to come.
LEMMA HandledQueue ==
    ASSUME TypeOK, HandleEvent
    PROVE  /\ uiQueue # <<>> /\ Head(uiQueue) \in UiEvents
           /\ Range(uiQueue) = Range(Tail(uiQueue)) \cup {Head(uiQueue)}
           /\ Range(Tail(uiQueue)) \subseteq Range(uiQueue')
           /\ \A x \in Range(uiQueue') : x.type = "fetched" => x \in Range(Tail(uiQueue))
           /\ queued' =>
                HasDispatch(uiQueue') \/ (queued /\ Head(uiQueue).type # "dispatch")
<1> DEFINE e == Head(uiQueue)
           t == Tail(uiQueue)
           Kept == /\ Range(t) \subseteq Range(uiQueue')
                   /\ \A x \in Range(uiQueue') : x.type = "fetched" => x \in Range(t)
                   /\ queued' => (HasDispatch(uiQueue') \/ (queued /\ e.type # "dispatch"))
<1>1. /\ uiQueue # <<>> /\ e \in UiEvents /\ t \in Seq(UiEvents)
      /\ Range(uiQueue) = Range(t) \cup {e}
  BY TakenEvent DEF HandleEvent, TypeOK
<1>2. pending \in SUBSET Rooms /\ queued \in BOOLEAN
  BY DEF TypeOK
<1> SUFFICES Kept
  BY <1>1
<1> HIDE DEF e, t
<1>3. ASSUME uiQueue' = t, queued' => queued /\ e.type # "dispatch" PROVE Kept
  BY <1>3
<1>4. ASSUME NEW p \in SUBSET Rooms, NEW f \in BOOLEAN, Schedule(p, f, t),
             f => queued /\ e.type # "dispatch"
      PROVE  Kept
  BY <1>1, <1>4, ScheduleEffect
<1>5. CASE AcceptNotification(e)
  <2>1. e \in SnapshotEvents /\ e.type # "dispatch"
    BY <1>1, <1>5, EventShape DEF AcceptNotification
  <2>2. pending \cup {e.room} \in SUBSET Rooms
        /\ Schedule(pending \cup {e.room}, queued, t)
    BY <1>2, <1>5, <2>1 DEF AcceptNotification, SnapshotEvents, t
  <2> QED BY <1>1, <1>2, <1>4, <2>1, <2>2
<1>6. CASE IgnoreNotification(e)
  BY <1>1, <1>3, <1>6 DEF IgnoreNotification, t
<1>7. CASE RunDispatch(e)
  BY <1>1, <1>3, <1>7 DEF RunDispatch, t
<1>8. CASE SkipDispatch(e)
  BY <1>1, <1>2, <1>4, <1>8 DEF SkipDispatch, t
<1>9. CASE DropForeignResult(e)
  BY <1>1, <1>3, <1>9 DEF DropForeignResult, Fetched, t
<1>10. CASE DropEvictedResult(e)
  BY <1>1, <1>2, <1>4, <1>10 DEF DropEvictedResult, Fetched, t
<1>11. CASE FailBackgroundFetch(e)
  BY <1>1, <1>3, <1>11 DEF FailBackgroundFetch, Fetched, t
<1>12. CASE FailActiveFetch(e)
  BY <1>1, <1>3, <1>12 DEF FailActiveFetch, Clear, t
<1>13. CASE ApplyBackground(e)
  BY <1>1, <1>2, <1>4, <1>13 DEF ApplyBackground, Fetched, t
<1>14. CASE IgnoreShrink(e)
  BY <1>1, <1>2, <1>3, <1>4, <1>14 DEF IgnoreShrink, Fetched, t
<1>15. CASE Prefetch(e)
  BY <1>1, <1>3, <1>15 DEF Prefetch, Fetched, t
<1>16. CASE ApplyActive(e)
  BY <1>1, <1>2, <1>4, <1>16 DEF ApplyActive, Fetched, t
<1> QED
  BY <1>5, <1>6, <1>7, <1>8, <1>9, <1>10, <1>11, <1>12, <1>13, <1>14, <1>15, <1>16
  DEF HandleEvent, e

\* The models after an event was handled: only an applicable result changes one,
\* and then it becomes the result.
LEMMA HandledModels ==
    ASSUME HandleEvent
    PROVE  /\ UNCHANGED <<session, loops, snaps>>
           /\ active' \in {active, NoRoom}
           /\ \/ models' = models
              \/ /\ Head(uiQueue).type = "fetched" /\ Applicable(Head(uiQueue))
                 /\ Show(Head(uiQueue))
<1> DEFINE e == Head(uiQueue)
<1> HIDE DEF e
<1> USE DEF sessVars, rustVars, viewVars, fetchVars
<1>1. CASE AcceptNotification(e) \/ IgnoreNotification(e)
  BY <1>1 DEF AcceptNotification, IgnoreNotification, e
<1>2. CASE RunDispatch(e) \/ SkipDispatch(e)
  BY <1>2 DEF RunDispatch, SkipDispatch, e
<1>3. CASE DropForeignResult(e) \/ DropEvictedResult(e) \/ FailBackgroundFetch(e)
  BY <1>3 DEF DropForeignResult, DropEvictedResult, FailBackgroundFetch, Fetched, e
<1>4. CASE FailActiveFetch(e)
  BY <1>4 DEF FailActiveFetch, Clear, e
<1>5. CASE ApplyBackground(e)
  BY <1>5 DEF ApplyBackground, Fetched, e
<1>6. CASE IgnoreShrink(e)
  BY <1>6 DEF IgnoreShrink, Fetched, e
<1>7. CASE Prefetch(e)
  BY <1>7 DEF Prefetch, Fetched, e
<1>8. CASE ApplyActive(e)
  BY <1>8 DEF ApplyActive, Fetched, e
<1> QED
  BY <1>1, <1>2, <1>3, <1>4, <1>5, <1>6, <1>7, <1>8 DEF HandleEvent, e

\* The in-flight slot and the workers after an event was handled: no worker is
\* lost, and the slot is empty, taken by a new worker, or untouched by an event
\* that was not the answer it waits for.
LEMMA HandledSlot ==
    ASSUME TypeOK, HandleEvent
    PROVE  /\ workers \subseteq workers'
           /\ \/ inFlight'.id = 0
              \/ \E w \in workers' : w.id = inFlight'.id /\ w.room = inFlight'.room
              \/ /\ inFlight' = inFlight
                 /\ Head(uiQueue).type = "fetched" =>
                      inFlight # [id |-> Head(uiQueue).id, room |-> Head(uiQueue).room]
<1> DEFINE e == Head(uiQueue)
<1> HIDE DEF e
<1> USE DEF fetchVars, Idle
<1>1. CASE AcceptNotification(e) \/ IgnoreNotification(e) \/ SkipDispatch(e)
  BY <1>1 DEF AcceptNotification, IgnoreNotification, SkipDispatch, e
<1>2. CASE RunDispatch(e)
  <2>1. CASE inFlight.id # 0 /\ inFlight.room = e.room
    BY <1>2, <2>1 DEF RunDispatch, Refresh, e
  <2>2. CASE ~(inFlight.id # 0 /\ inFlight.room = e.room)
    <3> DEFINE id == CHOOSE i \in RequestIds \ UsedIds : TRUE
               w == [id |-> id, room |-> e.room, session |-> session, result |-> Unread]
    <3>1. inFlight' = [id |-> id, room |-> e.room] /\ workers' = workers \cup {w}
      BY <1>2, <2>2 DEF RunDispatch, Refresh
    <3>2. w \in workers' /\ w.id = inFlight'.id /\ w.room = inFlight'.room
      BY <3>1
    <3> HIDE DEF id, w
    <3> QED BY <3>1, <3>2
  <2> QED BY <2>1, <2>2
<1>3. CASE FailActiveFetch(e)
  BY <1>3 DEF FailActiveFetch
<1>4. CASE Fetched(e)
  BY <1>4 DEF Fetched, e
<1> QED
  BY <1>1, <1>2, <1>3, <1>4
  DEF HandleEvent, DropForeignResult, DropEvictedResult, FailBackgroundFetch,
      ApplyBackground, IgnoreShrink, Prefetch, ApplyActive, e
-----------------------------------------------------------------------------
(* The scheduling flags never block for ever *)

\* A set matrixTimelineRefreshQueued_ has a posted dispatch that will clear it:
\* no handler, clear or logout leaves the flag set without one.
THEOREM QueuedFlagIsSafe == Spec => []QueuedFlagHasDispatch
<1>1. Init => QueuedFlagHasDispatch
  BY DEF Init, QueuedFlagHasDispatch
<1>2. TypeOK /\ QueuedFlagHasDispatch /\ [Next]_vars => QueuedFlagHasDispatch'
  <2> SUFFICES ASSUME TypeOK, QueuedFlagHasDispatch, [Next]_vars, queued'
               PROVE  HasDispatch(uiQueue')
    BY DEF QueuedFlagHasDispatch, HasDispatch
  <2>1. queued => HasDispatch(uiQueue)
    BY DEF QueuedFlagHasDispatch, HasDispatch
  <2>2. CASE HandleEvent
    BY <2>1, <2>2, HandledQueue DEF HasDispatch
  <2>3. CASE Worker
    <3>1. ASSUME NEW w \in workers, ReadSnapshot(w) PROVE HasDispatch(uiQueue')
      BY <2>1, <3>1 DEF ReadSnapshot
    <3>2. ASSUME NEW w \in workers, PostResult(w) PROVE HasDispatch(uiQueue')
      <4>1. Posted(w) \in UiEvents
        BY <3>2 DEF PostResult, Posted, TypeOK, UiEvents, FetchedEvents, RequestIds
      <4> QED BY <2>1, <3>2, <4>1, PostedEvents DEF PostResult, TypeOK, HasDispatch
    <3> QED BY <2>3, <3>1, <3>2 DEF Worker
  <2>4. CASE Timers
    <3>1. ASSUME NEW r \in Rooms, PrefetchFallback(r) PROVE HasDispatch(uiQueue')
      <4>1. CASE active = r /\ models[r].rows = 0
        <5>1. pending \cup {r} \in SUBSET Rooms /\ queued \in BOOLEAN
              /\ uiQueue \in Seq(UiEvents) /\ Schedule(pending \cup {r}, queued, uiQueue)
          BY <3>1, <4>1 DEF PrefetchFallback, TypeOK
        <5> QED BY <2>1, <5>1, ScheduleEffect
      <4>2. CASE ~(active = r /\ models[r].rows = 0)
        BY <2>1, <3>1, <4>2 DEF PrefetchFallback
      <4> QED BY <4>1, <4>2
    <3>2. CASE WarmupExpires \/ \E r \in Rooms : LoadingFallback(r)
      BY <2>1, <3>2 DEF WarmupExpires, LoadingFallback
    <3> QED BY <2>4, <3>1, <3>2 DEF Timers
  <2>5. CASE Loops
    <3>1. ASSUME NEW r \in Rooms, Notify(r) PROVE HasDispatch(uiQueue')
      <4>1. Notification(r) \in UiEvents
        BY DEF Notification, TypeOK, UiEvents, SnapshotEvents
      <4> QED BY <2>1, <3>1, <4>1, PostedEvents DEF Notify, TypeOK, HasDispatch
    <3>2. ASSUME NEW r \in Rooms, Store(r) \/ FinishPagination(r) \/ LoopEnds(r)
          PROVE  HasDispatch(uiQueue')
      BY <2>1, <3>2 DEF Store, FinishPagination, LoopEnds
    <3> QED BY <2>5, <3>1, <3>2 DEF Loops
  <2>6. CASE User
    BY <2>1, <2>6 DEF User, EnsureModel, ReleaseModel, SelectRoom, CloseRoom, Logout,
       Login, Clear
  <2>7. CASE UNCHANGED vars
    BY <2>1, <2>7 DEF vars
  <2> QED BY <2>2, <2>3, <2>4, <2>5, <2>6, <2>7 DEF Next
<1> QED BY <1>1, <1>2, TypeCorrect, PTL DEF Spec

\* An occupied in-flight slot has a fetch that will free it: a worker that still
\* has to answer, or an answer in the queue of the UI thread.
THEOREM InFlightSlotIsSafe == Spec => []InFlightIsOutstanding
<1> DEFINE Answering(w, s) == w.id = s.id /\ w.room = s.room
           Answer(x, s) == x.type = "fetched" /\ x.id = s.id /\ x.room = s.room
           Outstanding(s, ws, q) == \/ \E w \in ws : Answering(w, s)
                                    \/ \E x \in Range(q) : Answer(x, s)
<1>1. Init => InFlightIsOutstanding
  BY DEF Init, Idle, InFlightIsOutstanding
<1>2. TypeOK /\ InFlightIsOutstanding /\ [Next]_vars => InFlightIsOutstanding'
  <2> SUFFICES ASSUME TypeOK, InFlightIsOutstanding, [Next]_vars, inFlight'.id # 0
               PROVE  Outstanding(inFlight', workers', uiQueue')
    BY DEF InFlightIsOutstanding
  <2>1. inFlight.id # 0 => Outstanding(inFlight, workers, uiQueue)
    BY DEF InFlightIsOutstanding
  <2>2. CASE HandleEvent
    <3>1. CASE \E w \in workers' : Answering(w, inFlight')
      BY <3>1
    <3>2. CASE /\ inFlight' = inFlight
               /\ Head(uiQueue).type = "fetched" =>
                    inFlight # [id |-> Head(uiQueue).id, room |-> Head(uiQueue).room]
      <4>1. CASE \E w \in workers : Answering(w, inFlight)
        BY <2>2, <3>2, <4>1, HandledSlot
      <4>2. CASE \E x \in Range(uiQueue) : Answer(x, inFlight)
        <5>1. PICK x \in Range(uiQueue) : Answer(x, inFlight)
          BY <4>2
        <5>2. x # Head(uiQueue)
          <6>1. inFlight = [id |-> inFlight.id, room |-> inFlight.room]
            BY DEF TypeOK
          <6> QED BY <3>2, <5>1, <6>1
        <5>3. x \in Range(uiQueue')
          BY <2>2, <5>1, <5>2, HandledQueue
        <5> QED BY <3>2, <5>1, <5>3
      <4> QED BY <2>1, <3>2, <4>1, <4>2
    <3> QED BY <2>2, <3>1, <3>2, HandledSlot
  <2>3. CASE Worker
    <3>1. ASSUME NEW w \in workers, ReadSnapshot(w)
          PROVE  Outstanding(inFlight', workers', uiQueue')
      <4> DEFINE v == [w EXCEPT !.result = IF w.session = session THEN snaps[w.room]
                                           ELSE NoSnapshot]
      <4>1. workers' = (workers \ {w}) \cup {v}
        BY <3>1 DEF ReadSnapshot
      <4>2. v.id = w.id /\ v.room = w.room
        BY DEF TypeOK
      <4> HIDE DEF v
      <4> QED BY <2>1, <3>1, <4>1, <4>2 DEF ReadSnapshot
    <3>2. ASSUME NEW w \in workers, PostResult(w)
          PROVE  Outstanding(inFlight', workers', uiQueue')
      <4>1. Posted(w) \in UiEvents
        BY <3>2 DEF PostResult, Posted, TypeOK, UiEvents, FetchedEvents, RequestIds
      <4>2. Range(uiQueue') = Range(uiQueue) \cup {Posted(w)}
        BY <3>2, <4>1, PostedEvents DEF PostResult, TypeOK
      <4>3. Answering(w, inFlight) => Answer(Posted(w), inFlight)
        BY DEF Posted
      <4> QED BY <2>1, <3>2, <4>2, <4>3 DEF PostResult
    <3> QED BY <2>3, <3>1, <3>2 DEF Worker
  <2>4. CASE Timers
    <3>1. ASSUME NEW r \in Rooms, PrefetchFallback(r)
          PROVE  Outstanding(inFlight', workers', uiQueue')
      <4>1. Range(uiQueue) \subseteq Range(uiQueue')
        BY <3>1, ScheduleEffect DEF PrefetchFallback, TypeOK
      <4> QED BY <2>1, <3>1, <4>1 DEF PrefetchFallback, fetchVars
    <3>2. CASE WarmupExpires \/ \E r \in Rooms : LoadingFallback(r)
      BY <2>1, <3>2 DEF WarmupExpires, LoadingFallback, fetchVars
    <3> QED BY <2>4, <3>1, <3>2 DEF Timers
  <2>5. CASE Loops
    <3>1. ASSUME NEW r \in Rooms, Notify(r)
          PROVE  Outstanding(inFlight', workers', uiQueue')
      <4>1. Notification(r) \in UiEvents
        BY DEF Notification, TypeOK, UiEvents, SnapshotEvents
      <4>2. Range(uiQueue) \subseteq Range(uiQueue')
        BY <3>1, <4>1, PostedEvents DEF Notify, TypeOK
      <4> QED BY <2>1, <3>1, <4>2 DEF Notify, fetchVars
    <3>2. ASSUME NEW r \in Rooms, Store(r) \/ FinishPagination(r) \/ LoopEnds(r)
          PROVE  Outstanding(inFlight', workers', uiQueue')
      BY <2>1, <3>2 DEF Store, FinishPagination, LoopEnds, fetchVars
    <3> QED BY <2>5, <3>1, <3>2 DEF Loops
  <2>6. CASE User
    <3>1. CASE CloseRoom \/ Logout
      BY <3>1 DEF CloseRoom, Logout, Idle
    <3>2. CASE Login \/ \E r \in Rooms : EnsureModel(r) \/ ReleaseModel(r) \/ SelectRoom(r)
      BY <2>1, <3>2 DEF Login, EnsureModel, ReleaseModel, SelectRoom, fetchVars
    <3> QED BY <2>6, <3>1, <3>2 DEF User
  <2>7. CASE UNCHANGED vars
    BY <2>1, <2>7 DEF vars, fetchVars
  <2> QED BY <2>2, <2>3, <2>4, <2>5, <2>6, <2>7 DEF Next
<1> QED BY <1>1, <1>2, TypeCorrect, PTL DEF Spec
-----------------------------------------------------------------------------
(* Models, loops and the active room *)

\* The room on screen has a model, and so has every room whose loop runs:
\* releasing refuses the active room and stops the loop it releases.
THEOREM WatchedRoomsAreSafe == Spec => [](ActiveRoomHasModel /\ LoopsAreWatched)
<1> DEFINE Watched == ActiveRoomHasModel /\ LoopsAreWatched
<1> USE SentinelAssumption DEF ActiveRoomHasModel, LoopsAreWatched
<1>1. Init => Watched
  BY DEF Init
<1>2. TypeOK /\ Watched /\ [Next]_vars => Watched'
  <2> SUFFICES ASSUME TypeOK, Watched, [Next]_vars PROVE Watched'
    OBVIOUS
  <2>1. CASE HandleEvent
    <3>1. CASE models' = models
      BY <2>1, <3>1, HandledModels
    <3>2. CASE /\ Head(uiQueue).type = "fetched" /\ Applicable(Head(uiQueue))
               /\ Show(Head(uiQueue))
      <4>1. Head(uiQueue) \in FetchedEvents
        BY <2>1, <3>2, HandledQueue, EventShape
      <4>2. Head(uiQueue).result # NoModel
        BY <3>2, <4>1 DEF Applicable, FetchedEvents
      <4>3. \A r \in Rooms : models[r] # NoModel => models'[r] # NoModel
        BY <3>2, <4>2 DEF Show, TypeOK
      <4> QED BY <2>1, <4>3, HandledModels DEF TypeOK
    <3> QED BY <2>1, <3>1, <3>2, HandledModels
  <2>2. CASE Worker
    BY <2>2 DEF Worker, ReadSnapshot, PostResult, rustVars, viewVars
  <2>3. CASE Timers
    BY <2>3 DEF Timers, PrefetchFallback, LoadingFallback, WarmupExpires, rustVars,
       viewVars
  <2>4. CASE Loops
    BY <2>4 DEF Loops, Store, Notify, FinishPagination, LoopEnds, rustVars, viewVars
  <2>5. CASE User
    <3> USE DEF TypeOK, Ensured, Empty, Snapshot, BoundsAssumption, rustVars, viewVars
    <3> USE BoundsAssumption
    <3>0. Empty(0) # NoModel
      OBVIOUS
    <3>1. ASSUME NEW r \in Rooms, EnsureModel(r) PROVE Watched'
      BY <3>0, <3>1 DEF EnsureModel
    <3>2. ASSUME NEW r \in Rooms, ReleaseModel(r) PROVE Watched'
      BY <3>2 DEF ReleaseModel
    <3>3. ASSUME NEW r \in Rooms, SelectRoom(r) PROVE Watched'
      BY <3>0, <3>3 DEF SelectRoom
    <3>4. CASE CloseRoom
      BY <3>4 DEF CloseRoom, Clear
    <3>5. CASE Logout
      BY <3>5 DEF Logout, Clear
    <3>6. CASE Login
      BY <3>6 DEF Login
    <3> QED BY <2>5, <3>1, <3>2, <3>3, <3>4, <3>5, <3>6 DEF User
  <2>6. CASE UNCHANGED vars
    BY <2>6 DEF vars, rustVars, viewVars
  <2> QED BY <2>1, <2>2, <2>3, <2>4, <2>5, <2>6 DEF Next
<1> QED BY <1>1, <1>2, TypeCorrect, PTL DEF Spec
-----------------------------------------------------------------------------
(* Results and sessions *)

\* Where the answers of the fetches come from: in a step that starts from a
\* well-typed state a result in the queue was there before or is what a worker
\* had read, and what a worker has read was read before or is read now from the
\* snapshots of the session the fetch was started for.
LEMMA ResultsFlow ==
    ASSUME TypeOK, [Next]_vars
    PROVE  /\ \A x \in Range(uiQueue') : x.type = "fetched" =>
                x \in Range(uiQueue)
                \/ (\E w \in workers : w.result # Unread /\ x = Posted(w))
           /\ \A v \in workers' : v.result # Unread =>
                v \in workers
                \/ (v.result = NoSnapshot)
                \/ (v.room \in Rooms /\ v.session = session /\ v.result = snaps[v.room])
<1> DEFINE Queued == \A x \in Range(uiQueue') : x.type = "fetched" =>
                        x \in Range(uiQueue)
                        \/ (\E w \in workers : w.result # Unread /\ x = Posted(w))
           Read == \A v \in workers' : v.result # Unread =>
                        v \in workers
                        \/ (v.result = NoSnapshot)
                        \/ (v.room \in Rooms /\ v.session = session
                            /\ v.result = snaps[v.room])
<1>1. CASE HandleEvent
  <2>1. Queued
    BY <1>1, HandledQueue
  <2>2. Read
    <3> DEFINE e == Head(uiQueue)
    <3>1. CASE RunDispatch(e)
      <4>1. workers' = workers \/ \E w : w.result = Unread /\ workers' = workers \cup {w}
        <5>1. CASE inFlight.id # 0 /\ inFlight.room = e.room
          BY <3>1, <5>1 DEF RunDispatch, Refresh, fetchVars
        <5>2. CASE ~(inFlight.id # 0 /\ inFlight.room = e.room)
          <6> DEFINE id == CHOOSE i \in RequestIds \ UsedIds : TRUE
                     w == [id |-> id, room |-> e.room, session |-> session,
                           result |-> Unread]
          <6>1. workers' = workers \cup {w}
            BY <3>1, <5>2 DEF RunDispatch, Refresh
          <6>2. w.result = Unread
            OBVIOUS
          <6> QED BY <6>1, <6>2
        <5> QED BY <5>1, <5>2
      <4> QED BY <4>1
    <3>2. CASE ~RunDispatch(e)
      <4>1. workers' = workers
        BY <1>1, <3>2
        DEF HandleEvent, AcceptNotification, IgnoreNotification, SkipDispatch,
            DropForeignResult, DropEvictedResult, FailBackgroundFetch, FailActiveFetch,
            ApplyBackground, IgnoreShrink, Prefetch, ApplyActive, Fetched, fetchVars
      <4> QED BY <4>1
    <3> QED BY <3>1, <3>2
  <2> QED BY <2>1, <2>2
<1>2. CASE Worker
  <2>1. ASSUME NEW w \in workers, ReadSnapshot(w) PROVE Queued /\ Read
    <3> DEFINE v == [w EXCEPT !.result = IF w.session = session THEN snaps[w.room]
                                         ELSE NoSnapshot]
    <3>1. workers' = (workers \ {w}) \cup {v} /\ uiQueue' = uiQueue
      BY <2>1 DEF ReadSnapshot
    <3>2. v.room \in Rooms /\ v.session = w.session
          /\ v.result = IF w.session = session THEN snaps[v.room] ELSE NoSnapshot
      BY DEF TypeOK
    <3> HIDE DEF v
    <3> QED BY <3>1, <3>2
  <2>2. ASSUME NEW w \in workers, PostResult(w) PROVE Queued /\ Read
    <3>1. Posted(w) \in UiEvents /\ uiQueue \in Seq(UiEvents)
      BY <2>2 DEF PostResult, Posted, TypeOK, UiEvents, FetchedEvents, RequestIds
    <3>2. Range(uiQueue') = Range(uiQueue) \cup {Posted(w)} /\ w.result # Unread
          /\ workers' = workers \ {w}
      BY <2>2, <3>1, PostedEvents DEF PostResult
    <3> QED BY <3>2
  <2> QED BY <1>2, <2>1, <2>2 DEF Worker
<1>3. CASE Timers
  <2>1. ASSUME NEW r \in Rooms, PrefetchFallback(r) PROVE Queued /\ Read
    <3>1. CASE active = r /\ models[r].rows = 0
      <4>1. pending \cup {r} \in SUBSET Rooms /\ queued \in BOOLEAN
            /\ uiQueue \in Seq(UiEvents) /\ Schedule(pending \cup {r}, queued, uiQueue)
            /\ workers' = workers
        BY <2>1, <3>1 DEF PrefetchFallback, TypeOK, fetchVars
      <4> QED BY <4>1, ScheduleEffect
    <3>2. CASE ~(active = r /\ models[r].rows = 0)
      BY <2>1, <3>2 DEF PrefetchFallback, fetchVars
    <3> QED BY <3>1, <3>2
  <2>2. CASE WarmupExpires \/ \E r \in Rooms : LoadingFallback(r)
    BY <2>2 DEF WarmupExpires, LoadingFallback, fetchVars
  <2> QED BY <1>3, <2>1, <2>2 DEF Timers
<1>4. CASE Loops
  <2>1. ASSUME NEW r \in Rooms, Notify(r) PROVE Queued /\ Read
    <3>1. Notification(r) \in UiEvents /\ Notification(r).type = "snapshot"
      BY DEF Notification, TypeOK, UiEvents, SnapshotEvents
    <3>2. Range(uiQueue') = Range(uiQueue) \cup {Notification(r)} /\ workers' = workers
      BY <2>1, <3>1, PostedEvents DEF Notify, TypeOK, fetchVars
    <3> QED BY <3>1, <3>2
  <2>2. ASSUME NEW r \in Rooms, Store(r) \/ FinishPagination(r) \/ LoopEnds(r)
        PROVE  Queued /\ Read
    BY <2>2 DEF Store, FinishPagination, LoopEnds, fetchVars
  <2> QED BY <1>4, <2>1, <2>2 DEF Loops
<1>5. CASE User
  BY <1>5 DEF User, EnsureModel, ReleaseModel, SelectRoom, CloseRoom, Logout, Login,
     fetchVars
<1>6. CASE UNCHANGED vars
  BY <1>6 DEF vars, fetchVars
<1> QED BY <1>1, <1>2, <1>3, <1>4, <1>5, <1>6 DEF Next

\* Every snapshot in Rust is of the current session and has no more rows than
\* items, and there is none without a handle.
Genuine(s) == s # NoSnapshot => s.session = session /\ s.rows <= s.items

LEMMA SnapshotsStep ==
    ASSUME TypeOK, NoHandleNoSnapshots, [Next]_vars, \A r \in Rooms : Genuine(snaps[r])
    PROVE  NoHandleNoSnapshots' /\ \A r \in Rooms : Genuine(snaps[r])'
<1> USE DEF NoHandleNoSnapshots, Genuine
<1>1. CASE HandleEvent
  BY <1>1, HandledModels
<1>2. CASE Worker \/ Timers
  BY <1>2 DEF Worker, ReadSnapshot, PostResult, Timers, PrefetchFallback,
     LoadingFallback, WarmupExpires, rustVars, sessVars
<1>3. CASE Loops
  <2>1. ASSUME NEW r \in Rooms, Store(r)
        PROVE  NoHandleNoSnapshots' /\ \A q \in Rooms : Genuine(snaps[q])'
    <3>1. PICK n \in 0..MaxItems : \E k \in 0..n : snaps' = [snaps EXCEPT ![r] =
            [session |-> session, version |-> published', items |-> n, rows |-> k]]
      BY <2>1 DEF Store
    <3>2. PICK k \in 0..n : snaps' = [snaps EXCEPT ![r] =
            [session |-> session, version |-> published', items |-> n, rows |-> k]]
      BY <3>1
    <3>3. k <= n /\ session' = session /\ loops' = loops /\ loops # {}
      BY <2>1 DEF Store, sessVars
    <3> QED BY <3>2, <3>3 DEF TypeOK
  <2>2. ASSUME NEW r \in Rooms, Notify(r) \/ FinishPagination(r) \/ LoopEnds(r)
        PROVE  NoHandleNoSnapshots' /\ \A q \in Rooms : Genuine(snaps[q])'
    BY <2>2 DEF Notify, FinishPagination, LoopEnds, sessVars
  <2> QED BY <1>3, <2>1, <2>2 DEF Loops
<1>4. CASE User
  <2>1. ASSUME NEW r \in Rooms, SelectRoom(r)
        PROVE  NoHandleNoSnapshots' /\ \A q \in Rooms : Genuine(snaps[q])'
    BY <2>1 DEF SelectRoom, Empty, TypeOK, sessVars
  <2>2. ASSUME NEW r \in Rooms, ReleaseModel(r)
        PROVE  NoHandleNoSnapshots' /\ \A q \in Rooms : Genuine(snaps[q])'
    <3>1. \A q \in Rooms : snaps'[q] = IF q = r THEN NoSnapshot ELSE snaps[q]
      BY <2>2 DEF ReleaseModel, TypeOK
    <3>2. session = 0 => snaps' = [q \in Rooms |-> NoSnapshot]
      BY <2>2, <3>1 DEF ReleaseModel, TypeOK
    <3> QED BY <2>2, <3>1, <3>2 DEF ReleaseModel, sessVars
  <2>3. ASSUME NEW r \in Rooms, EnsureModel(r)
        PROVE  NoHandleNoSnapshots' /\ \A q \in Rooms : Genuine(snaps[q])'
    BY <2>3 DEF EnsureModel, sessVars, rustVars
  <2>4. CASE CloseRoom \/ Login
    BY <2>4 DEF CloseRoom, Login, TypeOK, sessVars, rustVars
  <2>5. CASE Logout
    BY <2>5 DEF Logout
  <2> QED BY <1>4, <2>1, <2>2, <2>3, <2>4, <2>5 DEF User
<1>5. CASE UNCHANGED vars
  BY <1>5 DEF vars, sessVars, rustVars
<1> QED BY <1>1, <1>2, <1>3, <1>4, <1>5 DEF Next

\* A snapshot keeps the session it was read for on its whole way from Rust over
\* a worker into the queue of the UI thread, and its rows never exceed its items.
THEOREM ResultsAreGenuine ==
    Spec => [](NoHandleNoSnapshots /\ ResultsKeepTheirSession /\ RowsAreItems)
<1> DEFINE Inv == NoHandleNoSnapshots /\ ResultsKeepTheirSession /\ RowsAreItems
           Held(x) == x.result # NoSnapshot =>
                        x.result.session = x.session /\ x.result.rows <= x.result.items
<1> USE DEF ResultsKeepTheirSession, RowsAreItems
<1>1. Init => Inv
  BY DEF Init, NoHandleNoSnapshots, Range
<1>2. TypeOK /\ Inv /\ [Next]_vars => Inv'
  <2> SUFFICES ASSUME TypeOK, Inv, [Next]_vars PROVE Inv'
    OBVIOUS
  <2>1. \A r \in Rooms : Genuine(snaps[r])
    BY DEF Genuine
  <2>2. NoHandleNoSnapshots' /\ \A r \in Rooms : Genuine(snaps[r])'
    BY <2>1, SnapshotsStep
  <2>3. \A w \in workers : w.result # Unread => Held(w)
    OBVIOUS
  <2>4. \A x \in Range(uiQueue) : x.type = "fetched" => Held(x)
    OBVIOUS
  <2>5. ASSUME NEW v \in workers', v.result # Unread PROVE Held(v)
    <3>1. CASE v \in workers
      BY <2>3, <2>5, <3>1
    <3>2. CASE v.result = NoSnapshot
      BY <3>2
    <3>3. CASE v.room \in Rooms /\ v.session = session /\ v.result = snaps[v.room]
      BY <2>1, <3>3 DEF Genuine
    <3> QED BY <2>5, <3>1, <3>2, <3>3, ResultsFlow
  <2>6. ASSUME NEW x \in Range(uiQueue'), x.type = "fetched" PROVE Held(x)
    <3>1. CASE x \in Range(uiQueue)
      BY <2>4, <2>6, <3>1
    <3>2. ASSUME NEW w \in workers, w.result # Unread, x = Posted(w) PROVE Held(x)
      <4>1. x.result = w.result /\ x.session = w.session
        BY <3>2 DEF Posted
      <4> QED BY <2>3, <3>2, <4>1
    <3> QED BY <2>6, <3>1, <3>2, ResultsFlow
  <2> QED BY <2>2, <2>5, <2>6 DEF Genuine
<1> QED BY <1>1, <1>2, TypeCorrect, PTL DEF Spec

\* A model never takes over items of another backend session, however late the
\* fetch that read them answers: the handle check on apply is enough because a
\* result is of the session it was requested for.
THEOREM OnlyThisSessionIsShown == Spec => ShowsOnlyThisSession
<1> DEFINE Step == \A r \in Rooms : models'[r] # models[r] =>
                      models'[r] = NoModel \/ models'[r].session \in {0, session}
<1>1. TypeOK /\ ResultsKeepTheirSession /\ [Next]_vars => [Step]_vars
  <2> SUFFICES ASSUME TypeOK, ResultsKeepTheirSession, [Next]_vars PROVE Step
    OBVIOUS
  <2>1. CASE HandleEvent
    <3>1. CASE models' = models
      BY <3>1
    <3>2. CASE /\ Head(uiQueue).type = "fetched" /\ Applicable(Head(uiQueue))
               /\ Show(Head(uiQueue))
      <4>1. Head(uiQueue) \in Range(uiQueue)
        BY <2>1, HandledQueue
      <4>2. Head(uiQueue).result.session = session
        BY <3>2, <4>1 DEF ResultsKeepTheirSession, Applicable
      <4> QED BY <3>2, <4>2 DEF Show, TypeOK
    <3> QED BY <2>1, <3>1, <3>2, HandledModels
  <2>2. CASE Worker \/ Timers \/ Loops
    BY <2>2 DEF Worker, ReadSnapshot, PostResult, Timers, PrefetchFallback,
       LoadingFallback, WarmupExpires, Loops, Store, Notify, FinishPagination, LoopEnds
  <2>3. CASE User
    BY <2>3 DEF User, EnsureModel, ReleaseModel, SelectRoom, CloseRoom, Logout, Login,
       Ensured, Empty, TypeOK
  <2>4. CASE UNCHANGED vars
    BY <2>4 DEF vars
  <2> QED BY <2>1, <2>2, <2>3, <2>4 DEF Next
<1> QED BY <1>1, TypeCorrect, ResultsAreGenuine, PTL DEF Spec, ShowsOnlyThisSession
-----------------------------------------------------------------------------
(* The loading state *)

\* The loading state is never shown over rows: whatever puts rows into the model
\* of the active room also ends its loading state, and selecting a room starts
\* it only when the cached model has none.
THEOREM LoadingIsHonest == Spec => []LoadingMeansEmpty
<1> USE DEF LoadingMeansEmpty
<1>1. Init => LoadingMeansEmpty
  BY DEF Init
<1>2. /\ TypeOK /\ ActiveRoomHasModel /\ RowsAreItems
      /\ LoadingMeansEmpty /\ [Next]_vars
      => LoadingMeansEmpty'
  <2> SUFFICES ASSUME TypeOK, ActiveRoomHasModel, RowsAreItems, LoadingMeansEmpty,
                      [Next]_vars, loading'
               PROVE  active' # NoRoom /\ models'[active'].rows = 0
    OBVIOUS
  <2> DEFINE Good == active' # NoRoom /\ models'[active'].rows = 0
  <2>1. CASE HandleEvent
    <3> DEFINE e == Head(uiQueue)
    <3>1. CASE ApplyBackground(e)
      BY <3>1 DEF ApplyBackground, Show, TypeOK, viewVars
    <3>2. CASE ApplyActive(e)
      <4>1. e \in FetchedEvents /\ e.result \in Snapshot
        BY <2>1, <3>2, HandledQueue, EventShape
        DEF ApplyActive, Fetched, Applicable, FetchedEvents
      <4>2. loading /\ e.result.items = 0 /\ active' = active /\ e.room = active
        BY <3>2 DEF ApplyActive
      <4>3. e.result.rows <= e.result.items
        BY <2>1, <3>2, HandledQueue DEF RowsAreItems, ApplyActive, Fetched, Applicable
      <4>4. e.result.rows = 0
        BY <4>1, <4>2, <4>3, BoundsAssumption DEF Snapshot
      <4> QED BY <3>2, <4>1, <4>2, <4>4 DEF ApplyActive, Show, TypeOK, FetchedEvents
    <3>3. CASE ~ApplyBackground(e) /\ ~ApplyActive(e)
      BY <2>1, <3>3
      DEF HandleEvent, AcceptNotification, IgnoreNotification, RunDispatch, SkipDispatch,
          DropForeignResult, DropEvictedResult, FailBackgroundFetch, FailActiveFetch,
          IgnoreShrink, Prefetch, Clear, viewVars
    <3> QED BY <3>1, <3>2, <3>3
  <2>2. CASE Worker
    BY <2>2 DEF Worker, ReadSnapshot, PostResult, viewVars
  <2>3. CASE Timers
    BY <2>3 DEF Timers, PrefetchFallback, LoadingFallback, WarmupExpires, viewVars
  <2>4. CASE Loops
    BY <2>4 DEF Loops, Store, Notify, FinishPagination, LoopEnds, viewVars
  <2>5. CASE User
    <3>1. ASSUME NEW r \in Rooms, EnsureModel(r) PROVE Good
      BY <3>1 DEF EnsureModel, ActiveRoomHasModel, TypeOK, viewVars
    <3>2. ASSUME NEW r \in Rooms, ReleaseModel(r) PROVE Good
      BY <3>2 DEF ReleaseModel, TypeOK, viewVars
    <3>3. ASSUME NEW r \in Rooms, SelectRoom(r) PROVE Good
      <4>1. active' = r /\ r # NoRoom /\ models'[r] = Ensured(r)
        BY <3>3, SentinelAssumption DEF SelectRoom, TypeOK
      <4>2. Ensured(r).rows = 0
        BY <3>3 DEF SelectRoom
      <4> QED BY <4>1, <4>2
    <3>4. CASE CloseRoom \/ Logout
      BY <3>4 DEF CloseRoom, Logout, Clear
    <3>5. CASE Login
      BY <3>5 DEF Login, viewVars
    <3> QED BY <2>5, <3>1, <3>2, <3>3, <3>4, <3>5 DEF User
  <2>6. CASE UNCHANGED vars
    BY <2>6 DEF vars, viewVars
  <2> QED BY <2>1, <2>2, <2>3, <2>4, <2>5, <2>6 DEF Next
<1> QED
  BY <1>1, <1>2, TypeCorrect, WatchedRoomsAreSafe, ResultsAreGenuine, PTL DEF Spec
=============================================================================
