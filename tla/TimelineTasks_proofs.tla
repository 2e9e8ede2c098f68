------------------------- MODULE TimelineTasks_proofs -------------------------
(***************************************************************************)
(* What TimelineTasks guarantees for every set of rooms and workers and    *)
(* every number of loops.                                                  *)
(***************************************************************************)
EXTENDS TimelineTasks, TLAPS

USE LoopBoundAssumption, ThreadAssumption

-----------------------------------------------------------------------------
(* Types *)

\* A step of a loop keeps the types of the loops and of the locks.
LEMMA LoopStepTyped ==
  ASSUME TypeOK, NEW i \in Loops, LoopStep(i) \/ LoopInput(i)
  PROVE  LoopsTyped' /\ LocksTyped'
<1> USE DEF TypeOK, LoopsTyped, LocksTyped
<1>1. /\ i \in 1..MaxLoops /\ loops[i].pc # "unborn" /\ loops[i].slot \in Loops
      /\ spawned' = spawned /\ registry' = registry
      /\ content' = content \/ content' = [content EXCEPT ![loops[i].slot] = i]
      /\ \/ locked' = locked
         \/ locked' = locked \cup {loops[i].slot}
         \/ locked' = locked \ {loops[i].slot}
  BY DEF LoopStep, LoopInput, LoopStarts, FirstSnapshot, LoopHead, LockPreview,
         Backfill, PageArrives, StopArm, LoopEnds, Diff, Paginate, StreamEnds, Goto,
         Write, lockVars, Loops
<1>2. PICK pc \in LoopPcs :
        Goto(i, pc) \/ loops' = [loops EXCEPT ![i].diffed = TRUE, ![i].pc = pc]
  BY DEF LoopStep, LoopInput, LoopStarts, FirstSnapshot, LoopHead, LockPreview,
         Backfill, PageArrives, StopArm, LoopEnds, Diff, Paginate, StreamEnds, LoopPcs
<1>3. content' \in [Loops -> 0..MaxLoops]
  BY <1>1
<1>4. loops' \in [Loops -> [pc : LoopPcs, room : Rooms \cup {NoRoom},
                            slot : 0..MaxLoops, diffed : BOOLEAN]]
  <2>1. CASE Goto(i, pc)
    BY <2>1 DEF Goto
  <2>2. CASE loops' = [loops EXCEPT ![i].diffed = TRUE, ![i].pc = pc]
    BY <2>2
  <2> QED
    BY <1>2, <2>1, <2>2
<1>5. \A j \in Loops : loops'[j].slot = loops[j].slot /\ (j # i => loops'[j] = loops[j])
  BY <1>2 DEF Goto
<1>6. \A j \in Loops : loops'[j].pc # "unborn" => loops'[j].slot \in Loops
  BY <1>1, <1>5
<1> QED
  BY <1>1, <1>3, <1>4, <1>6

\* Type correctness: in particular a call that may start a loop finds room for it,
\* and only loops that were started are stopped, cancelled and joined.
THEOREM TypeCorrect == Spec => []TypeOK
<1>1. Init => TypeOK
  BY DEF Init, TypeOK, MapsTyped, LoopsTyped, StopsTyped, CallsTyped, LocksTyped, Idle,
         UiOps, LoopPcs, Loops
<1>2. TypeOK /\ [Next]_vars => TypeOK'
  <2> SUFFICES ASSUME TypeOK, [Next]_vars
               PROVE  TypeOK'
    OBVIOUS
  <2> USE DEF TypeOK, mapVars, loopVars, stopVars, lockVars
  <2>1. CASE BeginSelect
    <3>1. MapsTyped' /\ LoopsTyped' /\ StopsTyped' /\ LocksTyped'
      BY <2>1 DEF BeginSelect, MapsTyped, LoopsTyped, StopsTyped, LocksTyped
    <3>2. CallsTyped'
      BY <2>1 DEF BeginSelect, MapsTyped, LoopsTyped, CallsTyped, UiCalls, Idle, UiOps
    <3> QED
      BY <3>1, <3>2
  <2>2. CASE SelectCheck
    <3>1. LoopsTyped' /\ StopsTyped' /\ LocksTyped'
      BY <2>2 DEF SelectCheck, LoopsTyped, StopsTyped, LocksTyped
    <3>2. MapsTyped'
      BY <2>2 DEF SelectCheck, MapsTyped, LoopsTyped, CallsTyped, Idle, UiOps
    <3>3. CallsTyped'
      BY <2>2 DEF SelectCheck, MapsTyped, LoopsTyped, CallsTyped, Idle, UiOps
    <3> QED
      BY <3>1, <3>2, <3>3
  <2>3. CASE SelectPrepare
    <3>1. LoopsTyped' /\ StopsTyped'
      BY <2>3 DEF SelectPrepare, LoopsTyped, StopsTyped
    <3>2. MapsTyped'
      BY <2>3 DEF SelectPrepare, MapsTyped, LoopsTyped, CallsTyped, UiOps, Loops
    <3>3. ui.room \in Rooms /\ ui'.op = "clear" /\ ui'.room = ui.room /\ spawned < MaxLoops
      BY <2>3 DEF SelectPrepare, CallsTyped
    <3>4. slots'[ui.room] # 0
      BY <2>3, <3>3 DEF SelectPrepare, MapsTyped, LoopsTyped
    <3>5. CallsTyped'
      BY <2>3, <3>3, <3>4 DEF SelectPrepare, CallsTyped, UiOps
    <3>6. LocksTyped'
      BY <2>3 DEF SelectPrepare, LocksTyped, UiOps, Loops
    <3> QED
      BY <3>1, <3>2, <3>5, <3>6
  <2>4. CASE SelectClear
    <3>1. MapsTyped' /\ StopsTyped'
      BY <2>4 DEF SelectClear, MapsTyped, StopsTyped
    <3>2. LoopsTyped'
      BY <2>4 DEF SelectClear, MapsTyped, LoopsTyped, CallsTyped, UiOps, Loops
    <3>3. CallsTyped'
      BY <2>4 DEF SelectClear, MapsTyped, LoopsTyped, CallsTyped, UiOps, Loops
    <3>4. LocksTyped'
      BY <2>4 DEF SelectClear, LocksTyped, UiOps, Loops
    <3> QED
      BY <3>1, <3>2, <3>3, <3>4
  <2>5. CASE SelectSpawn
    <3>1. MapsTyped' /\ StopsTyped' /\ LocksTyped'
      BY <2>5 DEF SelectSpawn, MapsTyped, StopsTyped, LocksTyped
    <3>2. LoopsTyped'
      BY <2>5 DEF SelectSpawn, MapsTyped, LoopsTyped, CallsTyped, UiOps, Loops, LoopPcs
    <3>3. CallsTyped'
      BY <2>5 DEF SelectSpawn, MapsTyped, LoopsTyped, CallsTyped, UiOps, Loops, LoopPcs
    <3> QED
      BY <3>1, <3>2, <3>3
  <2>6. CASE SelectInsert
    <3>1. LoopsTyped' /\ StopsTyped' /\ LocksTyped'
      BY <2>6 DEF SelectInsert, LoopsTyped, StopsTyped, LocksTyped
    <3>2. MapsTyped'
      BY <2>6 DEF SelectInsert, MapsTyped, LoopsTyped, CallsTyped, Idle, UiOps
    <3>3. CallsTyped'
      BY <2>6 DEF SelectInsert, MapsTyped, LoopsTyped, CallsTyped, Idle, UiOps
    <3> QED
      BY <3>1, <3>2, <3>3
  <2>7. CASE BeginStop
    <3>1. MapsTyped' /\ LoopsTyped' /\ StopsTyped' /\ LocksTyped'
      BY <2>7 DEF BeginStop, MapsTyped, LoopsTyped, StopsTyped, LocksTyped
    <3>2. CallsTyped'
      BY <2>7 DEF BeginStop, MapsTyped, LoopsTyped, CallsTyped, UiCalls, UiOps
    <3> QED
      BY <3>1, <3>2
  <2>8. CASE StopRemove
    <3>1. LoopsTyped' /\ LocksTyped'
      BY <2>8 DEF StopRemove, LoopsTyped, LocksTyped
    <3>2. MapsTyped'
      BY <2>8 DEF StopRemove, MapsTyped, LoopsTyped, CallsTyped, UiOps, Loops
    <3>3. StopsTyped'
      BY <2>8 DEF StopRemove, MapsTyped, StopsTyped, CallsTyped, UiOps, Loops
    <3>4. CallsTyped'
      BY <2>8 DEF StopRemove, MapsTyped, LoopsTyped, CallsTyped, UiOps, Loops
    <3> QED
      BY <3>1, <3>2, <3>3, <3>4
  <2>9. CASE StopDrop
    <3>1. LoopsTyped' /\ StopsTyped' /\ LocksTyped'
      BY <2>9 DEF StopDrop, LoopsTyped, StopsTyped, LocksTyped
    <3>2. MapsTyped'
      BY <2>9 DEF StopDrop, MapsTyped, LoopsTyped, CallsTyped, Idle, UiOps
    <3>3. CallsTyped'
      BY <2>9 DEF StopDrop, MapsTyped, LoopsTyped, CallsTyped, Idle, UiOps
    <3> QED
      BY <3>1, <3>2, <3>3
  <2>10. CASE BeginLogout
    <3>1. MapsTyped' /\ LoopsTyped' /\ StopsTyped' /\ LocksTyped'
      BY <2>10 DEF BeginLogout, MapsTyped, LoopsTyped, StopsTyped, LocksTyped
    <3>2. CallsTyped'
      BY <2>10 DEF BeginLogout, MapsTyped, LoopsTyped, CallsTyped, UiCalls, UiOps
    <3> QED
      BY <3>1, <3>2
  <2>11. CASE LogoutRemove
    <3>1. LoopsTyped' /\ LocksTyped'
      BY <2>11 DEF LogoutRemove, LoopsTyped, LocksTyped
    <3>2. MapsTyped'
      BY <2>11, 0 \in 0..MaxLoops DEF LogoutRemove, MapsTyped
    <3>3. \A r \in Rooms : tasks[r] = 0 \/ tasks[r] \in Loops
      BY DEF MapsTyped, Loops
    <3>4. StopsTyped'
      BY <2>11, <3>3 DEF LogoutRemove, StopsTyped
    <3>5. CallsTyped'
      BY <2>11 DEF LogoutRemove, MapsTyped, LoopsTyped, CallsTyped, UiOps, Loops
    <3> QED
      BY <3>1, <3>2, <3>4, <3>5
  <2>12. CASE LogoutCancel
    <3>1. MapsTyped' /\ LoopsTyped' /\ CallsTyped' /\ LocksTyped'
      BY <2>12 DEF LogoutCancel, MapsTyped, LoopsTyped, CallsTyped, LocksTyped
    <3>2. StopsTyped'
      BY <2>12 DEF LogoutCancel, MapsTyped, StopsTyped, CallsTyped
    <3> QED
      BY <3>1, <3>2
  <2>13. CASE LogoutJoin
    <3>1. MapsTyped' /\ LoopsTyped' /\ CallsTyped' /\ LocksTyped'
      BY <2>13 DEF LogoutJoin, MapsTyped, LoopsTyped, CallsTyped, LocksTyped
    <3>2. StopsTyped'
      BY <2>13 DEF LogoutJoin, MapsTyped, StopsTyped, CallsTyped
    <3> QED
      BY <3>1, <3>2
  <2>14. CASE LogoutReturns
    <3>1. MapsTyped' /\ LoopsTyped' /\ StopsTyped' /\ LocksTyped'
      BY <2>14 DEF LogoutReturns, MapsTyped, LoopsTyped, StopsTyped, LocksTyped
    <3>2. CallsTyped'
      BY <2>14 DEF LogoutReturns, MapsTyped, LoopsTyped, CallsTyped, Idle, UiOps
    <3> QED
      BY <3>1, <3>2
  <2>15. ASSUME NEW f \in Fetchers, BeginFetch(f) \/ FetchStep(f)
         PROVE  TypeOK'
    <3>1. MapsTyped' /\ LoopsTyped' /\ StopsTyped'
      BY <2>15 DEF BeginFetch, FetchStep, FetchLock, FetchRead, MapsTyped, LoopsTyped,
                   StopsTyped
    <3>2. LocksTyped'
      BY <2>15 DEF BeginFetch, FetchStep, FetchLock, FetchRead, LocksTyped
    <3>3. /\ UNCHANGED <<ui, spawned, slots>>
          /\ \E c \in [op : {"idle", "lock", "read"}, room : Rooms \cup {NoRoom}] :
                fetch' = [fetch EXCEPT ![f] = c]
      BY <2>15 DEF BeginFetch, FetchStep, FetchLock, FetchRead, CallsTyped, Idle
    <3>4. CallsTyped'
      BY <3>3 DEF CallsTyped
    <3> QED
      BY <3>1, <3>2, <3>4
  <2>16. ASSUME NEW i \in Loops, Stopper(i)
         PROVE  TypeOK'
    BY <2>16 DEF Stopper, MapsTyped, LoopsTyped, StopsTyped, CallsTyped, LocksTyped
  <2>17. ASSUME NEW i \in Loops, LoopStep(i) \/ LoopInput(i)
         PROVE  TypeOK'
    <3>1. UNCHANGED <<mapVars, stopVars, spawned, ui, fetch>>
      BY <2>17 DEF LoopStep, LoopInput, LoopStarts, FirstSnapshot, LoopHead,
                   LockPreview, Backfill, PageArrives, StopArm, LoopEnds, Diff,
                   Paginate, StreamEnds
    <3>2. MapsTyped' /\ StopsTyped' /\ CallsTyped'
      BY <3>1 DEF MapsTyped, StopsTyped, CallsTyped
    <3> QED
      BY <2>17, <3>2, LoopStepTyped
  <2>18. CASE UNCHANGED vars
    BY <2>18 DEF vars, MapsTyped, LoopsTyped, StopsTyped, CallsTyped, LocksTyped
  <2> QED
    BY <2>1, <2>2, <2>3, <2>4, <2>5, <2>6, <2>7, <2>8, <2>9, <2>10, <2>11, <2>12,
       <2>13, <2>14, <2>15, <2>16, <2>17, <2>18 DEF Next, UiStep
<1> QED
  BY <1>1, <1>2, PTL DEF Spec

-----------------------------------------------------------------------------
(* One writer, and the snapshot it writes *)

\* What a step of a loop does to the rest: the thread keeps its room and its
\* snapshot, a thread that has ended stays ended, and only its own snapshot changes.
LEMMA LoopEffect ==
  ASSUME TypeOK, NEW i \in Loops, LoopStep(i) \/ LoopInput(i)
  PROVE  /\ UNCHANGED <<mapVars, stopVars, spawned, ui, fetch>>
         /\ Live(i)
         /\ content' = content \/ content' = [content EXCEPT ![loops[i].slot] = i]
         /\ \A j \in Loops :
               /\ loops'[j].room = loops[j].room /\ loops'[j].slot = loops[j].slot
               /\ loops'[j].pc = "unborn" <=> loops[j].pc = "unborn"
               /\ loops[j].pc = "done" => loops'[j].pc = "done"
<1>1. UNCHANGED <<mapVars, stopVars, spawned, ui, fetch>>
  BY DEF LoopStep, LoopInput, LoopStarts, FirstSnapshot, LoopHead, LockPreview,
         Backfill, PageArrives, StopArm, LoopEnds, Diff, Paginate, StreamEnds
<1>2. /\ loops[i].pc \notin {"unborn", "done"}
      /\ content' = content \/ content' = [content EXCEPT ![loops[i].slot] = i]
  BY DEF LoopStep, LoopInput, LoopStarts, FirstSnapshot, LoopHead, LockPreview,
         Backfill, PageArrives, StopArm, LoopEnds, Diff, Paginate, StreamEnds, Write
<1>3. \E pc \in LoopPcs \ {"unborn"} :
        Goto(i, pc) \/ loops' = [loops EXCEPT ![i].diffed = TRUE, ![i].pc = pc]
  BY DEF LoopStep, LoopInput, LoopStarts, FirstSnapshot, LoopHead, LockPreview,
         Backfill, PageArrives, StopArm, LoopEnds, Diff, Paginate, StreamEnds, LoopPcs
<1>4. \A j \in Loops :
        /\ loops'[j].room = loops[j].room /\ loops'[j].slot = loops[j].slot
        /\ loops'[j].pc = "unborn" <=> loops[j].pc = "unborn"
        /\ loops[j].pc = "done" => loops'[j].pc = "done"
  BY <1>2, <1>3 DEF TypeOK, LoopsTyped, Goto
<1> QED
  BY <1>1, <1>2, <1>4 DEF Live

\* The inductive invariant.
TasksInv ==
    /\ TypeOK /\ LoopsAreNumbered /\ CallsAreSound /\ SlotsAreOwn
    /\ OneWriter /\ SnapshotIsOfNewestLoop /\ LoopsAreOwned

\* A step of a loop keeps the invariant.
LEMMA LoopKeepsInv ==
  ASSUME TasksInv, TypeOK', NEW i \in Loops, LoopStep(i) \/ LoopInput(i)
  PROVE  TasksInv'
<1> USE DEF TasksInv
<1>1. /\ UNCHANGED <<alive, active, tasks, slots, cancelled, stoppers, joining, spawned, ui>>
      /\ Live(i)
      /\ content' = content \/ content' = [content EXCEPT ![loops[i].slot] = i]
      /\ \A j \in Loops :
            /\ loops'[j].room = loops[j].room /\ loops'[j].slot = loops[j].slot
            /\ loops'[j].pc = "unborn" <=> loops[j].pc = "unborn"
            /\ loops[j].pc = "done" => loops'[j].pc = "done"
  BY LoopEffect DEF mapVars, stopVars
<1>2. \A j \in Loops : Live(j)' => Live(j)
  BY <1>1 DEF Live
<1>3. /\ tasks \in [Rooms -> 0..MaxLoops] /\ slots \in [Rooms -> 0..MaxLoops]
      /\ content \in [Loops -> 0..MaxLoops] /\ spawned \in 0..MaxLoops
      /\ loops[i].slot \in Loops
  BY <1>1 DEF TypeOK, MapsTyped, LoopsTyped, Live
<1>4. \A a \in Loops : content'[a] = content[a] \/ (content'[a] = i /\ a = loops[i].slot)
  BY <1>1, <1>3
<1>5. i <= spawned
  BY <1>1 DEF LoopsAreNumbered, Live
<1>6. LoopsAreNumbered'
  <2>1. \A j \in Loops :
          IF j <= spawned'
          THEN loops'[j].pc # "unborn" /\ loops'[j].slot \in 1..j
          ELSE loops'[j].pc = "unborn" /\ loops'[j].room = NoRoom
    BY <1>1 DEF LoopsAreNumbered
  <2>2. \A a \in Loops : content'[a] # 0 =>
          content'[a] <= spawned' /\ loops'[content'[a]].slot = a
    <3> SUFFICES ASSUME NEW a \in Loops, content'[a] # 0
                 PROVE  content'[a] <= spawned /\ loops'[content'[a]].slot = a
      BY <1>1
    <3>1. CASE content'[a] = content[a]
      <4>1. content[a] \in Loops
        BY <1>3, <3>1 DEF Loops
      <4> QED
        BY <1>1, <3>1, <4>1 DEF LoopsAreNumbered
    <3>2. CASE content'[a] = i /\ a = loops[i].slot
      BY <1>1, <1>5, <3>2
    <3> QED
      BY <1>4, <3>1, <3>2
  <2> QED
    BY <2>1, <2>2 DEF LoopsAreNumbered
<1>7. CallsAreSound'
  <2>1. ui.op = "prepare" => ~Running(ui.room)'
    BY <1>1, <1>3 DEF CallsAreSound, Running, TypeOK, CallsTyped, Loops
  <2>2. ui.op = "spawn" => content'[slots[ui.room]] = 0
    <3> SUFFICES ASSUME ui.op = "spawn" PROVE content'[slots[ui.room]] = 0
      OBVIOUS
    <3>1. ui.room \in Rooms /\ slots[ui.room] # 0
      BY DEF TypeOK, CallsTyped
    <3> QED
      BY <1>1, <1>3, <1>4, <3>1 DEF CallsAreSound, Loops
  <2> QED
    BY <1>1, <1>2, <2>1, <2>2 DEF CallsAreSound
<1>8. SlotsAreOwn'
  BY <1>1, <1>2 DEF SlotsAreOwn
<1>9. OneWriter'
  BY <1>1, <1>2 DEF OneWriter
<1>10. SnapshotIsOfNewestLoop'
  <2> SUFFICES ASSUME NEW r \in Rooms, slots[r] # 0, content'[slots[r]] # 0
               PROVE  /\ loops'[content'[slots[r]]].room = r
                      /\ \A j \in Loops : loops'[j].room = r => j <= content'[slots[r]]
    BY <1>1 DEF SnapshotIsOfNewestLoop
  <2>1. slots[r] \in Loops
    BY <1>3 DEF Loops
  <2>2. CASE content'[slots[r]] = content[slots[r]]
    <3>1. content[slots[r]] \in Loops
      BY <1>3, <2>1, <2>2 DEF Loops
    <3> QED
      BY <1>1, <2>1, <2>2, <3>1 DEF SnapshotIsOfNewestLoop
  <2>3. CASE content'[slots[r]] = i /\ slots[r] = loops[i].slot
    BY <1>1, <2>3 DEF SlotsAreOwn
  <2> QED
    BY <1>4, <2>1, <2>2, <2>3
<1>11. LoopsAreOwned'
  BY <1>1, <1>2 DEF LoopsAreOwned
<1> QED
  BY <1>6, <1>7, <1>8, <1>9, <1>10, <1>11

\* The parts of the type invariant that the steps below use.
LEMMA Shapes ==
  ASSUME TypeOK
  PROVE  /\ tasks \in [Rooms -> 0..MaxLoops] /\ slots \in [Rooms -> 0..MaxLoops]
         /\ content \in [Loops -> 0..MaxLoops] /\ spawned \in 0..MaxLoops
         /\ DOMAIN loops = Loops /\ \A i \in Loops : Live(i) => loops[i].slot \in Loops
         /\ DOMAIN ui = {"op", "room"} /\ ui.room \in Rooms \cup {NoRoom}
  BY DEF TypeOK, MapsTyped, LoopsTyped, CallsTyped, Live

\* A call begins.
LEMMA BeginKeepsInv ==
  ASSUME TasksInv, TypeOK', BeginSelect \/ BeginStop \/ BeginLogout
  PROVE  TasksInv'
<1> USE DEF TasksInv, mapVars, loopVars, stopVars, lockVars
<1>1. LoopsAreNumbered' /\ OneWriter' /\ SnapshotIsOfNewestLoop'
  BY DEF BeginSelect, BeginStop, BeginLogout, UiCalls, LoopsAreNumbered, OneWriter,
         SnapshotIsOfNewestLoop, Live, Running
<1>2. CallsAreSound'
  BY Shapes DEF BeginSelect, BeginStop, BeginLogout, UiCalls, CallsAreSound, Live,
                Running, SlotsAreOwn, Idle
<1>3. SlotsAreOwn'
  BY Shapes DEF BeginSelect, BeginStop, BeginLogout, UiCalls, SlotsAreOwn, Live,
                Running, CallsAreSound, Idle
<1>4. LoopsAreOwned'
  BY Shapes DEF BeginSelect, BeginStop, BeginLogout, UiCalls, LoopsAreOwned, Live,
                Running, CallsAreSound, SlotsAreOwn, Idle
<1> QED
  BY <1>1, <1>2, <1>3, <1>4

\* The first section of a selection finds no running loop.
LEMMA CheckKeepsInv ==
  ASSUME TasksInv, TypeOK', SelectCheck
  PROVE  TasksInv'
<1> USE DEF TasksInv, mapVars, loopVars, stopVars, lockVars
<1>1. LoopsAreNumbered' /\ OneWriter' /\ SnapshotIsOfNewestLoop'
  BY DEF SelectCheck, LoopsAreNumbered, OneWriter, SnapshotIsOfNewestLoop, Live, Running
<1>2. CallsAreSound'
  BY Shapes DEF SelectCheck, CallsAreSound, Live, Running, SlotsAreOwn, Idle
<1>3. SlotsAreOwn'
  BY Shapes DEF SelectCheck, SlotsAreOwn, Live, Running, CallsAreSound, Idle
<1>4. LoopsAreOwned'
  BY Shapes DEF SelectCheck, LoopsAreOwned, Live, Running, CallsAreSound, SlotsAreOwn,
                Idle
<1> QED
  BY <1>1, <1>2, <1>3, <1>4

\* The snapshot of the room is found or created: no running loop writes to it.
LEMMA PrepareKeepsInv ==
  ASSUME TasksInv, TypeOK', SelectPrepare
  PROVE  TasksInv'
<1> USE DEF TasksInv, mapVars, loopVars, stopVars, lockVars
<1>1. /\ ui.op = "prepare" /\ ui.room \in Rooms /\ spawned < MaxLoops
      /\ ui'.op = "clear" /\ ui'.room = ui.room
      /\ UNCHANGED <<alive, active, content, spawned, loops, cancelled, stoppers, joining>>
  BY Shapes DEF SelectPrepare, TypeOK, CallsTyped
<1>2. /\ tasks'[ui.room] = 0
      /\ slots'[ui.room] = IF slots[ui.room] = 0 THEN spawned + 1 ELSE slots[ui.room]
      /\ \A q \in Rooms \ {ui.room} : tasks'[q] = tasks[q] /\ slots'[q] = slots[q]
  BY Shapes, <1>1 DEF SelectPrepare
<1>3. \A q \in Rooms : slots[q] <= spawned
  BY Shapes, <1>1 DEF SlotsAreOwn
<1>4. \A i \in Loops : Live(i) => loops[i].slot # slots'[ui.room]
  <2> SUFFICES ASSUME NEW i \in Loops, Live(i)
               PROVE  loops[i].slot # slots'[ui.room]
    OBVIOUS
  <2>1. loops[i].slot \in 1..i /\ i <= spawned
    BY DEF Live, LoopsAreNumbered
  <2>2. CASE slots[ui.room] = 0
    BY Shapes, <1>2, <2>1, <2>2 DEF Loops
  <2>3. CASE slots[ui.room] # 0
    BY <1>1, <1>2, <2>3 DEF SlotsAreOwn, CallsAreSound, Running, Live, Loops
  <2> QED
    BY <2>2, <2>3
<1>5. LoopsAreNumbered' /\ OneWriter'
  BY <1>1 DEF LoopsAreNumbered, OneWriter, Live
<1>6. CallsAreSound'
  BY <1>1, <1>2, <1>4 DEF CallsAreSound, Live
<1>7. SlotsAreOwn'
  <2>1. ASSUME NEW r \in Rooms, NEW q \in Rooms, slots'[r] # 0, slots'[r] = slots'[q], r # q
        PROVE  FALSE
    BY Shapes, <1>2, <1>3, <2>1 DEF SlotsAreOwn
  <2>2. ASSUME NEW r \in Rooms, slots'[r] > spawned
        PROVE  slots'[r] = spawned + 1 /\ r = ui.room
    BY Shapes, <1>2, <1>3, <2>2
  <2>3. ASSUME NEW r \in Rooms, NEW i \in Loops, Live(i), loops[i].slot = slots'[r]
        PROVE  /\ loops[i].room = r
               /\ \A j \in Loops : loops[j].room = r => j <= i
               /\ tasks'[r] = i
    BY <1>1, <1>2, <1>4, <2>3 DEF SlotsAreOwn
  <2> QED
    BY <1>1, <2>1, <2>2, <2>3 DEF SlotsAreOwn, Live
<1>8. SnapshotIsOfNewestLoop'
  <2>1. spawned + 1 \in Loops /\ content[spawned + 1] = 0
    <3>1. spawned + 1 \in Loops
      BY Shapes, <1>1 DEF Loops
    <3>2. content[spawned + 1] # 0 => content[spawned + 1] \in Loops
      BY Shapes, <3>1 DEF Loops
    <3> QED
      BY Shapes, <3>1, <3>2 DEF LoopsAreNumbered
  <2> QED
    BY <1>1, <1>2, <2>1 DEF SnapshotIsOfNewestLoop
<1>9. LoopsAreOwned'
  BY <1>1, <1>2 DEF LoopsAreOwned, CallsAreSound, Running, Live, Loops
<1> QED
  BY <1>5, <1>6, <1>7, <1>8, <1>9

\* It is cleared.
LEMMA ClearKeepsInv ==
  ASSUME TasksInv, TypeOK', SelectClear
  PROVE  TasksInv'
<1> USE DEF TasksInv, mapVars, loopVars, stopVars, lockVars
<1>1. OneWriter'
  BY DEF SelectClear, OneWriter, Live, Running
<1>2. LoopsAreNumbered'
  BY Shapes DEF SelectClear, LoopsAreNumbered, Live, Running, CallsAreSound, SlotsAreOwn
<1>3. CallsAreSound'
  <2>1. ui.op = "clear" /\ ui'.op = "spawn" /\ ui'.room = ui.room
    BY Shapes DEF SelectClear
  <2>2. slots[ui.room] \in Loops /\ ui.room \in Rooms
    BY Shapes, <2>1 DEF TypeOK, CallsTyped, Loops
  <2>3. content'[slots[ui.room]] = 0
    BY Shapes, <2>2 DEF SelectClear
  <2> QED
    BY <2>1, <2>3 DEF SelectClear, CallsAreSound, Live
<1>4. SlotsAreOwn'
  BY Shapes DEF SelectClear, SlotsAreOwn, Live, Running, CallsAreSound, LoopsAreNumbered
<1>5. SnapshotIsOfNewestLoop'
  BY Shapes DEF SelectClear, SnapshotIsOfNewestLoop, Live, Running, CallsAreSound,
                SlotsAreOwn, LoopsAreNumbered
<1>6. LoopsAreOwned'
  BY Shapes DEF SelectClear, LoopsAreOwned, Live, Running, CallsAreSound, SlotsAreOwn,
                LoopsAreNumbered
<1> QED
  BY <1>1, <1>2, <1>3, <1>4, <1>5, <1>6

\* The new loop is the newest of its room and the only one that writes to the snapshot.
LEMMA SpawnKeepsInv ==
  ASSUME TasksInv, TypeOK', SelectSpawn
  PROVE  TasksInv'
<1> USE DEF TasksInv, mapVars, loopVars, stopVars, lockVars
<1>0. spawned \in 0..MaxLoops /\ content \in [Loops -> 0..MaxLoops]
  BY Shapes
<1>1. /\ ui.op = "spawn" /\ ui.room \in Rooms /\ spawned < MaxLoops
      /\ ui'.op = "insert" /\ ui'.room = ui.room /\ spawned' = spawned + 1
      /\ UNCHANGED <<alive, active, tasks, slots, content, cancelled, stoppers, joining>>
  BY Shapes DEF SelectSpawn, TypeOK, CallsTyped
<1>2. /\ spawned + 1 \in Loops /\ loops'[spawned + 1].pc = "starting"
      /\ loops'[spawned + 1].room = ui.room /\ loops'[spawned + 1].slot = slots[ui.room]
      /\ \A i \in Loops \ {spawned + 1} : loops'[i] = loops[i]
  <2>1. spawned + 1 \in Loops
    BY Shapes, <1>1 DEF Loops
  <2>2. loops'[spawned + 1] = [pc |-> "starting", room |-> ui.room, slot |-> slots[ui.room],
                               diffed |-> FALSE]
    BY Shapes, <2>1 DEF SelectSpawn
  <2>3. \A i \in Loops \ {spawned + 1} : loops'[i] = loops[i]
    BY Shapes DEF SelectSpawn
  <2> QED
    BY <2>1, <2>2, <2>3
<1>3. /\ slots[ui.room] \in 1..(spawned + 1) /\ content[slots[ui.room]] = 0
      /\ tasks[ui.room] = 0
      /\ \A i \in Loops : Live(i) => loops[i].slot # slots[ui.room]
  BY Shapes, <1>1 DEF TypeOK, CallsTyped, CallsAreSound, SlotsAreOwn
<1>4. LoopsAreNumbered'
  <2>1. \A j \in Loops :
          IF j <= spawned + 1
          THEN loops'[j].pc # "unborn" /\ loops'[j].slot \in 1..j
          ELSE loops'[j].pc = "unborn" /\ loops'[j].room = NoRoom
    <3> SUFFICES ASSUME NEW j \in Loops
                 PROVE  IF j <= spawned + 1
                        THEN loops'[j].pc # "unborn" /\ loops'[j].slot \in 1..j
                        ELSE loops'[j].pc = "unborn" /\ loops'[j].room = NoRoom
      OBVIOUS
    <3>1. CASE j = spawned + 1
      BY Shapes, <1>2, <1>3, <3>1
    <3>2. CASE j # spawned + 1
      <4>1. loops'[j] = loops[j] /\ (j <= spawned + 1 <=> j <= spawned)
        BY Shapes, <1>2, <3>2 DEF Loops
      <4> QED
        BY <4>1 DEF LoopsAreNumbered
    <3> QED
      BY <3>1, <3>2
  <2>2. \A a \in Loops : content[a] # 0 =>
          content[a] <= spawned + 1 /\ loops'[content[a]].slot = a
    <3> SUFFICES ASSUME NEW a \in Loops, content[a] # 0
                 PROVE  content[a] <= spawned + 1 /\ loops'[content[a]].slot = a
      OBVIOUS
    <3>1. content[a] \in Loops
      BY Shapes DEF Loops
    <3>2. content[a] <= spawned /\ loops[content[a]].slot = a
      BY DEF LoopsAreNumbered
    <3> QED
      BY <1>0, <1>2, <3>1, <3>2 DEF Loops
  <2> QED
    BY <1>1, <2>1, <2>2 DEF LoopsAreNumbered
<1>5. CallsAreSound'
  BY <1>1, <1>3 DEF CallsAreSound
<1>6. SlotsAreOwn'
  <2>1. \A r, q \in Rooms : slots[r] # 0 /\ slots[r] = slots[q] => r = q
    BY DEF SlotsAreOwn
  <2>2. \A r \in Rooms : ~(slots[r] > spawned + 1)
    BY Shapes DEF SlotsAreOwn
  <2>3. ASSUME NEW r \in Rooms, NEW i \in Loops, Live(i)', loops'[i].slot = slots[r]
        PROVE  /\ loops'[i].room = r
               /\ \A j \in Loops : loops'[j].room = r => j <= i
               /\ tasks[r] = i \/ (ui.room = r /\ i = spawned + 1)
    <3>1. CASE i = spawned + 1
      <4>1. r = ui.room
        BY <1>1, <1>2, <1>3, <2>1, <2>3, <3>1
      <4>2. \A j \in Loops : j > spawned + 1 => loops'[j].room = NoRoom
        <5> SUFFICES ASSUME NEW j \in Loops, j > spawned + 1
                     PROVE  loops'[j].room = NoRoom
          OBVIOUS
        <5>1. loops'[j] = loops[j] /\ ~(j <= spawned)
          BY <1>0, <1>2 DEF Loops
        <5> QED
          BY <5>1 DEF LoopsAreNumbered
      <4>3. \A j \in Loops : loops'[j].room = r => j <= i
        BY <1>0, <3>1, <4>2, ThreadAssumption DEF Loops
      <4> QED
        BY <1>2, <3>1, <4>1, <4>3
    <3>2. CASE i # spawned + 1
      <4>1. Live(i) /\ loops[i] = loops'[i]
        BY <1>2, <2>3, <3>2 DEF Live
      <4>2. r # ui.room
        BY <1>3, <2>3, <4>1
      <4>3. loops[i].room = r /\ tasks[r] = i /\ \A j \in Loops : loops[j].room = r => j <= i
        BY <1>1, <2>3, <4>1 DEF SlotsAreOwn
      <4> QED
        BY <1>2, <4>1, <4>2, <4>3
    <3> QED
      BY <3>1, <3>2
  <2> QED
    BY <1>1, <2>1, <2>2, <2>3 DEF SlotsAreOwn, Live
<1>7. OneWriter'
  BY <1>2, <1>3 DEF OneWriter, Live
<1>8. SnapshotIsOfNewestLoop'
  <2> SUFFICES ASSUME NEW r \in Rooms, slots[r] # 0, content[slots[r]] # 0
               PROVE  /\ loops'[content[slots[r]]].room = r
                      /\ \A j \in Loops : loops'[j].room = r => j <= content[slots[r]]
    BY <1>1 DEF SnapshotIsOfNewestLoop
  <2>1. r # ui.room
    BY <1>3
  <2>2. content[slots[r]] \in Loops /\ content[slots[r]] <= spawned
    BY Shapes DEF LoopsAreNumbered, Loops
  <2>3. /\ loops[content[slots[r]]].room = r
        /\ \A j \in Loops : loops[j].room = r => j <= content[slots[r]]
    BY DEF SnapshotIsOfNewestLoop
  <2>4. loops'[content[slots[r]]] = loops[content[slots[r]]]
    BY <1>0, <1>2, <2>2
  <2> QED
    BY <1>2, <2>1, <2>3, <2>4
<1>9. LoopsAreOwned'
  BY <1>1, <1>2 DEF LoopsAreOwned, Live
<1> QED
  BY <1>4, <1>5, <1>6, <1>7, <1>8, <1>9

\* Its task enters the map.
LEMMA InsertKeepsInv ==
  ASSUME TasksInv, TypeOK', SelectInsert
  PROVE  TasksInv'
<1> USE DEF TasksInv, mapVars, loopVars, stopVars, lockVars
<1>1. /\ ui.op = "insert" /\ ui.room \in Rooms /\ tasks[ui.room] = 0 /\ ui' = Idle
      /\ UNCHANGED <<slots, content, spawned, loops, cancelled, stoppers, joining>>
  BY DEF SelectInsert, TypeOK, CallsTyped, CallsAreSound
<1>2. tasks'[ui.room] = spawned /\ \A q \in Rooms \ {ui.room} : tasks'[q] = tasks[q]
  BY Shapes, <1>1 DEF SelectInsert
<1>3. LoopsAreNumbered' /\ OneWriter' /\ SnapshotIsOfNewestLoop'
  BY <1>1 DEF LoopsAreNumbered, OneWriter, SnapshotIsOfNewestLoop, Live
<1>4. CallsAreSound'
  BY <1>1 DEF CallsAreSound, Idle
<1>5. SlotsAreOwn'
  <2>1. \A r \in Rooms : ~(slots[r] > spawned)
    BY <1>1 DEF SlotsAreOwn
  <2>2. ASSUME NEW r \in Rooms, NEW i \in Loops, Live(i), loops[i].slot = slots[r]
        PROVE  tasks'[r] = i
    <3>1. tasks[r] = i \/ (ui.room = r /\ i = spawned)
      BY <1>1, <2>2 DEF SlotsAreOwn
    <3>2. r = ui.room => tasks[r] # i
      BY <1>1 DEF Loops
    <3> QED
      BY <1>2, <3>1, <3>2
  <2> QED
    BY <1>1, <2>1, <2>2 DEF SlotsAreOwn, Live
<1>6. LoopsAreOwned'
  <2> SUFFICES ASSUME NEW i \in Loops, Live(i), i \notin cancelled \cup stoppers \cup joining
               PROVE  \E r \in Rooms : tasks'[r] = i
    BY <1>1 DEF LoopsAreOwned, Live
  <2>1. (\E r \in Rooms : tasks[r] = i) \/ i = spawned
    BY DEF LoopsAreOwned
  <2>2. i # 0
    BY DEF Loops
  <2> QED
    BY <1>1, <1>2, <2>1, <2>2
<1> QED
  BY <1>3, <1>4, <1>5, <1>6

\* A task leaves the map; its loop still writes to a snapshot in it.
LEMMA RemoveKeepsInv ==
  ASSUME TasksInv, TypeOK', StopRemove
  PROVE  TasksInv'
<1> USE DEF TasksInv, mapVars, loopVars, stopVars, lockVars
<1>1. LoopsAreNumbered' /\ OneWriter' /\ SnapshotIsOfNewestLoop'
  BY DEF StopRemove, LoopsAreNumbered, OneWriter, SnapshotIsOfNewestLoop, Live, Running
<1>2. CallsAreSound'
  BY Shapes DEF StopRemove, CallsAreSound, Live, Running, SlotsAreOwn
<1>3. SlotsAreOwn'
  BY Shapes DEF StopRemove, SlotsAreOwn, Live, Running, CallsAreSound
<1>4. LoopsAreOwned'
  BY Shapes DEF StopRemove, LoopsAreOwned, Live, Running, CallsAreSound, SlotsAreOwn
<1> QED
  BY <1>1, <1>2, <1>3, <1>4

\* The snapshot leaves the map too.
LEMMA DropKeepsInv ==
  ASSUME TasksInv, TypeOK', StopDrop
  PROVE  TasksInv'
<1> USE DEF TasksInv, mapVars, loopVars, stopVars, lockVars
<1>1. /\ ui.op = "drop" /\ ui.room \in Rooms /\ ui' = Idle
      /\ UNCHANGED <<tasks, content, spawned, loops, cancelled, stoppers, joining>>
  BY DEF StopDrop, TypeOK, CallsTyped
<1>2. slots'[ui.room] = 0 /\ \A q \in Rooms \ {ui.room} : slots'[q] = slots[q]
  BY Shapes, <1>1 DEF StopDrop
<1>3. LoopsAreNumbered' /\ OneWriter'
  BY <1>1 DEF LoopsAreNumbered, OneWriter, Live
<1>4. CallsAreSound'
  BY <1>1 DEF CallsAreSound, Idle
<1>5. SlotsAreOwn'
  <2>1. \A r, q \in Rooms : slots'[r] # 0 /\ slots'[r] = slots'[q] => r = q
    BY <1>2 DEF SlotsAreOwn
  <2>2. \A r \in Rooms : ~(slots'[r] > spawned)
    BY Shapes, <1>1, <1>2 DEF SlotsAreOwn
  <2>3. ASSUME NEW r \in Rooms, NEW i \in Loops, Live(i), loops[i].slot = slots'[r]
        PROVE  /\ loops[i].room = r
               /\ \A j \in Loops : loops[j].room = r => j <= i
               /\ tasks[r] = i
    <3>1. r # ui.room
      BY Shapes, <1>2, <2>3 DEF Loops
    <3> QED
      BY <1>1, <1>2, <2>3, <3>1 DEF SlotsAreOwn
  <2> QED
    BY <1>1, <2>1, <2>2, <2>3 DEF SlotsAreOwn, Live
<1>6. SnapshotIsOfNewestLoop'
  BY <1>1, <1>2 DEF SnapshotIsOfNewestLoop
<1>7. LoopsAreOwned'
  BY <1>1 DEF LoopsAreOwned, Live
<1> QED
  BY <1>3, <1>4, <1>5, <1>6, <1>7

\* Everything leaves the map.
LEMMA LogoutKeepsInv ==
  ASSUME TasksInv, TypeOK', LogoutRemove
  PROVE  TasksInv'
<1> USE DEF TasksInv, mapVars, loopVars, stopVars, lockVars
<1>1. LoopsAreNumbered' /\ OneWriter'
  BY DEF LogoutRemove, LoopsAreNumbered, OneWriter, Live, Running
<1>2. CallsAreSound'
  BY Shapes DEF LogoutRemove, CallsAreSound, Live, Running, SlotsAreOwn
<1>3. SlotsAreOwn'
  <2>1. \A r \in Rooms : slots'[r] = 0
    BY DEF LogoutRemove
  <2>2. \A i \in Loops : Live(i)' => loops'[i].slot # 0
    BY Shapes DEF LogoutRemove, Live, Loops
  <2>3. spawned' \in Nat
    BY Shapes DEF LogoutRemove
  <2> QED
    BY <2>1, <2>2, <2>3 DEF SlotsAreOwn
<1>4. SnapshotIsOfNewestLoop'
  BY Shapes DEF LogoutRemove, SnapshotIsOfNewestLoop, Live, Running, CallsAreSound,
                SlotsAreOwn
<1>5. LoopsAreOwned'
  BY Shapes DEF LogoutRemove, LoopsAreOwned, Live, Running, CallsAreSound, SlotsAreOwn
<1> QED
  BY <1>1, <1>2, <1>3, <1>4, <1>5

\* The loops are cancelled and joined.
LEMMA JoinKeepsInv ==
  ASSUME TasksInv, TypeOK', LogoutCancel \/ LogoutJoin \/ LogoutReturns
  PROVE  TasksInv'
<1> USE DEF TasksInv, mapVars, loopVars, stopVars, lockVars
<1>1. LoopsAreNumbered' /\ OneWriter' /\ SnapshotIsOfNewestLoop'
  BY DEF LogoutCancel, LogoutJoin, LogoutReturns, LoopsAreNumbered, OneWriter,
         SnapshotIsOfNewestLoop, Live, Running
<1>2. CallsAreSound'
  BY Shapes DEF LogoutCancel, LogoutJoin, LogoutReturns, CallsAreSound, Live, Running,
                SlotsAreOwn, Idle
<1>3. SlotsAreOwn'
  BY Shapes DEF LogoutCancel, LogoutJoin, LogoutReturns, SlotsAreOwn, Live, Running,
                CallsAreSound, Idle
<1>4. LoopsAreOwned'
  BY Shapes DEF LogoutCancel, LogoutJoin, LogoutReturns, LoopsAreOwned, Live, Running,
                CallsAreSound, SlotsAreOwn, Idle
<1> QED
  BY <1>1, <1>2, <1>3, <1>4

\* A stop thread cancels its loop.
LEMMA StopperKeepsInv ==
  ASSUME TasksInv, TypeOK', NEW i \in Loops, Stopper(i)
  PROVE  TasksInv'
<1> USE DEF TasksInv, mapVars, loopVars, stopVars, lockVars
<1>1. /\ LoopsAreNumbered' /\ CallsAreSound' /\ SlotsAreOwn'
      /\ OneWriter' /\ SnapshotIsOfNewestLoop'
  BY DEF Stopper, LoopsAreNumbered, CallsAreSound, SlotsAreOwn, OneWriter,
         SnapshotIsOfNewestLoop, Live, Running
<1>2. LoopsAreOwned'
  BY Shapes DEF Stopper, LoopsAreOwned, Live, Running, CallsAreSound, SlotsAreOwn
<1> QED
  BY <1>1, <1>2

\* A fetch only reads.
LEMMA FetchKeepsInv ==
  ASSUME TasksInv, TypeOK', NEW f \in Fetchers, BeginFetch(f) \/ FetchStep(f)
  PROVE  TasksInv'
<1> USE DEF TasksInv, mapVars, loopVars, stopVars, lockVars
<1>1. /\ LoopsAreNumbered' /\ CallsAreSound' /\ SlotsAreOwn'
      /\ OneWriter' /\ SnapshotIsOfNewestLoop' /\ LoopsAreOwned'
  BY DEF BeginFetch, FetchStep, FetchLock, FetchRead, LoopsAreNumbered, CallsAreSound,
         SlotsAreOwn, OneWriter, SnapshotIsOfNewestLoop, LoopsAreOwned, Live, Running
<1> QED
  BY <1>1

\* The inductive invariant behind the three theorems below: what select, stop and
\* logout leave in the maps between their critical sections.
THEOREM TasksAreSound == Spec => []TasksInv
<1>1. Init => TasksInv
  <2> SUFFICES ASSUME Init
               PROVE  TasksInv
    OBVIOUS
  <2>1. TypeOK
    BY DEF Init, TypeOK, MapsTyped, LoopsTyped, StopsTyped, CallsTyped, LocksTyped,
           Idle, UiOps, LoopPcs, Loops
  <2>2. \A i \in Loops : ~Live(i)
    BY DEF Init, Live
  <2>3. LoopsAreNumbered
    BY DEF Init, LoopsAreNumbered, Loops
  <2>4. CallsAreSound
    BY DEF Init, CallsAreSound, Idle
  <2>5. SlotsAreOwn
    BY <2>2 DEF Init, SlotsAreOwn
  <2>6. OneWriter /\ SnapshotIsOfNewestLoop /\ LoopsAreOwned
    BY <2>2 DEF Init, OneWriter, SnapshotIsOfNewestLoop, LoopsAreOwned
  <2> QED
    BY <2>1, <2>3, <2>4, <2>5, <2>6 DEF TasksInv
<1>2. TasksInv /\ TypeOK' /\ [Next]_vars => TasksInv'
  <2> SUFFICES ASSUME TasksInv, TypeOK', [Next]_vars
               PROVE  TasksInv'
    OBVIOUS
  <2>1. CASE UNCHANGED vars
    BY <2>1 DEF vars, mapVars, loopVars, stopVars, lockVars, TasksInv,
                LoopsAreNumbered, CallsAreSound, SlotsAreOwn, OneWriter,
                SnapshotIsOfNewestLoop, LoopsAreOwned, Live, Running
  <2>2. CASE BeginSelect \/ BeginStop \/ BeginLogout
    BY <2>2, BeginKeepsInv
  <2>3. CASE UiStep
    BY <2>3, CheckKeepsInv, PrepareKeepsInv, ClearKeepsInv, SpawnKeepsInv, InsertKeepsInv,
       RemoveKeepsInv, DropKeepsInv, LogoutKeepsInv, JoinKeepsInv DEF UiStep
  <2>4. ASSUME NEW f \in Fetchers, BeginFetch(f) \/ FetchStep(f)
        PROVE  TasksInv'
    BY <2>4, FetchKeepsInv
  <2>5. ASSUME NEW i \in Loops, Stopper(i) \/ LoopStep(i) \/ LoopInput(i)
        PROVE  TasksInv'
    BY <2>5, StopperKeepsInv, LoopKeepsInv
  <2> QED
    BY <2>1, <2>2, <2>3, <2>4, <2>5 DEF Next
<1> QED
  BY <1>1, <1>2, TypeCorrect, PTL DEF Spec

\* At no time do two running loops write to one snapshot.
THEOREM OneWriterAtATime == Spec => []OneWriter
  BY TasksAreSound, PTL DEF TasksInv

\* A fetch of a room never reads what an older loop of the room left.
THEOREM FetchesReadTheNewestLoop == Spec => []SnapshotIsOfNewestLoop
  BY TasksAreSound, PTL DEF TasksInv

\* No running loop is forgotten.
THEOREM NoLoopIsForgotten == Spec => []LoopsAreOwned
  BY TasksAreSound, PTL DEF TasksInv

-----------------------------------------------------------------------------
(* The two locks *)

\* A step of a loop keeps the locks and their holders together.
LEMMA LoopKeepsLocks ==
  ASSUME TypeOK, LocksAreHeld, NEW i \in Loops, LoopStep(i) \/ LoopInput(i)
  PROVE  LocksAreHeld'
<1>1. UNCHANGED <<registry, ui, fetch>>
  BY LoopEffect DEF LoopStep, LoopInput, LoopStarts, FirstSnapshot, LoopHead, LockPreview,
         Backfill, PageArrives, StopArm, LoopEnds, Diff, Paginate, StreamEnds, lockVars
<1>2. \A j \in Loops : loops'[j].slot = loops[j].slot
  BY LoopEffect
<1>3. \A j \in Loops : j # i => loops'[j].pc = loops[j].pc
  BY DEF LoopStep, LoopInput, LoopStarts, FirstSnapshot, LoopHead, LockPreview, Backfill,
         PageArrives, StopArm, LoopEnds, Diff, Paginate, StreamEnds, Goto, TypeOK, LoopsTyped
<1>4. \/ loops[i].pc # "backfill" /\ locked' = locked
      \/ loops'[i].pc = "backfill" /\ locked' = locked \cup {loops[i].slot}
      \/ locked' = locked \ {loops[i].slot}
  BY DEF LoopStep, LoopInput, LoopStarts, FirstSnapshot, LoopHead, LockPreview, Backfill,
         PageArrives, StopArm, LoopEnds, Diff, Paginate, StreamEnds, Goto, TypeOK, LoopsTyped,
         lockVars
<1>5. ASSUME NEW a \in locked'
      PROVE  \E j \in Loops : loops'[j].pc = "backfill" /\ loops'[j].slot = a
  <2>1. CASE a \in locked
    <3>1. PICK j \in Loops : loops[j].pc = "backfill" /\ loops[j].slot = a
      BY <2>1 DEF LocksAreHeld
    <3>2. CASE j # i
      BY <1>2, <1>3, <3>1, <3>2
    <3>3. CASE j = i
      BY <1>2, <1>4, <1>5, <3>1, <3>3
    <3> QED
      BY <3>2, <3>3
  <2>2. CASE a \notin locked
    BY <1>2, <1>4, <1>5, <2>2
  <2> QED
    BY <2>1, <2>2
<1> QED
  BY <1>1, <1>5 DEF LocksAreHeld

\* A step of the UI thread keeps them together: it holds the registry only between
\* SelectPrepare and SelectClear.
LEMMA UiKeepsLocks ==
  ASSUME TypeOK, LoopsAreNumbered, LocksAreHeld, UiStep
  PROVE  LocksAreHeld'
<1>1. /\ UNCHANGED <<fetch, locked>>
      /\ \A j \in Loops : loops[j].pc = "backfill" => loops'[j] = loops[j]
  <2>1. CASE SelectSpawn
    <3>1. /\ loops[spawned + 1].pc = "unborn" /\ spawned + 1 \in Loops
      BY <2>1 DEF SelectSpawn, TypeOK, CallsTyped, LoopsTyped, Loops, LoopsAreNumbered
    <3> QED
      BY <2>1, <3>1 DEF SelectSpawn, lockVars, TypeOK, LoopsTyped
  <2>2. CASE ~SelectSpawn
    BY <2>2 DEF UiStep, SelectCheck, SelectPrepare, SelectClear, SelectInsert, StopRemove,
            StopDrop, LogoutRemove, LogoutCancel, LogoutJoin, LogoutReturns, loopVars,
            lockVars
  <2> QED
    BY <2>1, <2>2
<1>2. /\ registry' = Ui <=> ui'.op = "clear"
      /\ \A f \in Fetchers : registry' = f <=> registry = f
  <2>1. ui \in [op : UiOps, room : Rooms \cup {NoRoom}]
    BY DEF TypeOK, CallsTyped
  <2>2. CASE SelectPrepare \/ SelectClear
    BY <2>1, <2>2 DEF SelectPrepare, SelectClear, LocksAreHeld
  <2>3. CASE ~(SelectPrepare \/ SelectClear)
    <3>1. registry' = registry /\ ui.op # "clear" /\ ui'.op # "clear"
      BY <2>1, <2>3 DEF UiStep, SelectCheck, SelectClear, SelectSpawn, SelectInsert,
         StopRemove, StopDrop, LogoutRemove, LogoutCancel, LogoutJoin, LogoutReturns,
         lockVars, Idle
    <3> QED
      BY <3>1 DEF LocksAreHeld
  <2> QED
    BY <2>2, <2>3
<1> QED
  BY <1>1, <1>2 DEF LocksAreHeld

\* So does a fetch, which holds it between its two sections.
LEMMA FetchKeepsLocks ==
  ASSUME TypeOK, LocksAreHeld, NEW f \in Fetchers, BeginFetch(f) \/ FetchStep(f)
  PROVE  LocksAreHeld'
<1>1. UNCHANGED <<ui, loops, locked>>
  BY DEF BeginFetch, FetchStep, FetchLock, FetchRead, loopVars, lockVars
<1>2. fetch \in [Fetchers -> [op : {"idle", "lock", "read"}, room : Rooms \cup {NoRoom}]]
  BY DEF TypeOK, CallsTyped
<1>3. \A g \in Fetchers : g # f => fetch'[g] = fetch[g]
  BY <1>2 DEF BeginFetch, FetchStep, FetchLock, FetchRead
<1>4. \/ registry' = registry /\ fetch[f].op # "read" /\ fetch'[f].op # "read"
      \/ registry = Free /\ registry' = f /\ fetch'[f].op = "read"
      \/ registry = f /\ registry' = Free /\ fetch'[f].op # "read"
  BY <1>2 DEF BeginFetch, FetchStep, FetchLock, FetchRead, Idle, LocksAreHeld, lockVars
<1> QED
  BY <1>1, <1>3, <1>4 DEF LocksAreHeld

\* Every lock has the holder the code gives it to.
THEOREM LocksHaveHolders == Spec => []LocksAreHeld
<1>1. Init => LocksAreHeld
  BY DEF Init, LocksAreHeld, Idle
<1>2. TasksInv /\ LocksAreHeld /\ [Next]_vars => LocksAreHeld'
  <2> SUFFICES ASSUME TasksInv, LocksAreHeld, [Next]_vars
               PROVE  LocksAreHeld'
    OBVIOUS
  <2> USE DEF TasksInv
  <2>1. CASE UNCHANGED vars
    BY <2>1 DEF vars, loopVars, lockVars, LocksAreHeld
  <2>2. CASE BeginSelect \/ BeginStop \/ BeginLogout
    <3>1. UNCHANGED <<loops, fetch, registry, locked>> /\ ui.op # "clear" /\ ui'.op # "clear"
      BY <2>2 DEF BeginSelect, BeginStop, BeginLogout, UiCalls, Idle, loopVars, lockVars
    <3> QED
      BY <3>1 DEF LocksAreHeld
  <2>3. CASE UiStep
    BY <2>3, UiKeepsLocks
  <2>4. ASSUME NEW f \in Fetchers, BeginFetch(f) \/ FetchStep(f)
        PROVE  LocksAreHeld'
    BY <2>4, FetchKeepsLocks
  <2>5. ASSUME NEW i \in Loops, Stopper(i)
        PROVE  LocksAreHeld'
    BY <2>5 DEF Stopper, loopVars, lockVars, LocksAreHeld
  <2>6. ASSUME NEW i \in Loops, LoopStep(i) \/ LoopInput(i)
        PROVE  LocksAreHeld'
    BY <2>6, LoopKeepsLocks
  <2> QED
    BY <2>1, <2>2, <2>3, <2>4, <2>5, <2>6 DEF Next
<1> QED
  BY <1>1, <1>2, TasksAreSound, PTL DEF Spec

\* NoOtherEmbrace: two locks are waited for in a circle by a fetch and a loop or by
\* nobody.  A loop is the only writer of its snapshot, and a room that is selected has
\* no running loop which could hold the snapshot that is cleared.
THEOREM OnlyOneEmbrace == Spec => []NoOtherEmbrace
<1>1. TasksInv /\ LocksAreHeld => NoOtherEmbrace
  <2> SUFFICES ASSUME TasksInv, LocksAreHeld
               PROVE  NoOtherEmbrace
    OBVIOUS
  <2>1. ASSUME NEW i \in Loops, loops[i].pc \in {"first", "select", "preview"}
        PROVE  loops[i].slot \notin locked
    <3> SUFFICES ASSUME loops[i].slot \in locked
                 PROVE  FALSE
      OBVIOUS
    <3>1. PICK j \in Loops : loops[j].pc = "backfill" /\ loops[j].slot = loops[i].slot
      BY DEF LocksAreHeld
    <3>2. Live(i) /\ Live(j) /\ i # j
      BY <2>1, <3>1 DEF Live
    <3> QED
      BY <3>1, <3>2 DEF TasksInv, OneWriter
  <2>2. ASSUME registry = Ui
        PROVE  slots[ui.room] \notin locked
    <3> SUFFICES ASSUME slots[ui.room] \in locked
                 PROVE  FALSE
      OBVIOUS
    <3>1. PICK j \in Loops : loops[j].pc = "backfill" /\ loops[j].slot = slots[ui.room]
      BY DEF LocksAreHeld
    <3>2. ui.op = "clear" /\ Live(j)
      BY <2>2, <3>1 DEF LocksAreHeld, Live
    <3> QED
      BY <3>1, <3>2 DEF TasksInv, CallsAreSound
  <2>3. ASSUME registry \in Fetchers, slots[fetch[registry].room] \in locked
        PROVE  LocksCross
    <3>1. PICK j \in Loops :
            loops[j].pc = "backfill" /\ loops[j].slot = slots[fetch[registry].room]
      BY <2>3 DEF LocksAreHeld
    <3>2. fetch[registry].op = "read"
      BY <2>3 DEF LocksAreHeld
    <3> QED
      BY <2>3, <3>1, <3>2 DEF LocksCross
  <2> QED
    BY <2>1, <2>2, <2>3 DEF NoOtherEmbrace
<1> QED
  BY <1>1, TasksAreSound, LocksHaveHolders, PTL

=============================================================================
