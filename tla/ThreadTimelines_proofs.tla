------------------------ MODULE ThreadTimelines_proofs ------------------------
(***************************************************************************)
(* What ThreadTimelines guarantees for every set of rooms, threads and     *)
(* workers, every capacity and every number of loops and events.           *)
(***************************************************************************)
EXTENDS ThreadTimelines, SequenceLemmas

USE ThreadsAssumption, BoundsAssumption
USE DEF viewVars, cacheVars, loopVars, serverVars

LoopSet == [pc : LoopPcs, thread : Threads \cup {NoThread}, seen : Nat, failed : BOOLEAN,
            filled : BOOLEAN, due : BOOLEAN]
EntrySet == [loading : BOOLEAN, items : Threads \cup {NoThread}]
WorkerSet == [op : WorkerOps, thread : Threads \cup {NoThread}, items : Threads \cup {NoThread}]

\* The types of what the UI shows: the thread of a room is one of that room.
ViewTyped ==
    /\ room \in Rooms \cup {NoRoom} /\ thread \in Threads \cup {NoThread}
    /\ thread # NoThread => RoomOf[thread] = room
    /\ saved \in [Rooms -> Threads \cup {NoThread}]
    /\ \A r \in Rooms : saved[r] # NoThread => RoomOf[saved[r]] = r
    /\ entries \in [Threads -> EntrySet]

\* The types of cache and loops: a cached loop is one of its thread.
LoopsTyped ==
    /\ cache \in [Threads -> 0..MaxLoops] /\ activeKey \in Threads \cup {NoThread}
    /\ spawned \in 0..MaxLoops /\ loops \in [Loops -> LoopSet]
    /\ \A i \in Loops : IF i <= spawned THEN loops[i].thread \in Threads
                                        ELSE loops[i] = Unborn
    /\ \A k \in Threads : cache[k] # 0 => cache[k] <= spawned /\ loops[cache[k]].thread = k

\* The types of what is under way.
WorkTyped ==
    /\ notes \in Seq(Threads)
    /\ workers \in [Workers -> WorkerSet]
    /\ \A w \in Workers : workers[w].op # "idle" => workers[w].thread \in Threads
    /\ server \in [Threads -> Nat] /\ undelivered \subseteq Threads

Typed == ViewTyped /\ LoopsTyped /\ WorkTyped

-----------------------------------------------------------------------------
(* The notes *)

\* Posting a note.
LEMMA Posted ==
  ASSUME NEW s \in Seq(Threads), NEW k \in Threads
  PROVE  /\ Append(s, k) \in Seq(Threads) /\ Contains(Append(s, k), k)
         /\ \A t : Contains(s, t) => Contains(Append(s, k), t)
<1>1. /\ Append(s, k) \in Seq(Threads) /\ Len(s) \in Nat /\ Len(Append(s, k)) = Len(s) + 1
      /\ Append(s, k)[Len(s) + 1] = k
      /\ \A n \in 1..Len(s) : Append(s, k)[n] = s[n]
  OBVIOUS
<1>2. Len(s) + 1 \in 1..(Len(s) + 1) /\ \A n \in 1..Len(s) : n \in 1..(Len(s) + 1)
  BY <1>1
<1> QED
  BY <1>1, <1>2 DEF Contains

\* Taking a note.
LEMMA Taken ==
  ASSUME NEW s \in Seq(Threads), s # <<>>, NEW t, Contains(s, t)
  PROVE  t = Head(s) \/ Contains(Tail(s), t)
<1>1. /\ Len(s) \in Nat \ {0} /\ Head(s) = s[1] /\ Len(Tail(s)) = Len(s) - 1
      /\ \A n \in 1..(Len(s) - 1) : Tail(s)[n] = s[n + 1]
  OBVIOUS
<1>2. PICK n \in 1..Len(s) : s[n] = t
  BY DEF Contains
<1>3. CASE n = 1
  BY <1>1, <1>2, <1>3
<1>4. CASE n # 1
  <2>1. n - 1 \in 1..(Len(s) - 1) /\ (n - 1) + 1 = n
    BY <1>1, <1>4
  <2> QED
    BY <1>1, <1>2, <2>1 DEF Contains
<1> QED
  BY <1>3, <1>4

-----------------------------------------------------------------------------
(* The steps of loops and calls, by what they do to the rest *)

\* Whatever a loop does, it changes itself, stays the loop of its thread, and
\* announces it when it has something to show that it had not before.
LEMMA LoopEffect ==
  ASSUME Typed, NEW i \in Loops, LoopStep(i)
  PROVE  \E l \in LoopSet :
            /\ i <= spawned /\ l.thread = loops[i].thread
            /\ loops' = [loops EXCEPT ![i] = l]
            /\ UNCHANGED <<viewVars, entries, cacheVars, spawned, stopped, workers, serverVars>>
            /\ notes' = notes \/ notes' = Append(notes, l.thread)
            /\ l.filled => loops[i].filled \/ notes' = Append(notes, l.thread)
            /\ Running(i) /\ l.pc # "unborn"
            /\ l.pc \in {"answer", "select"} /\ l.seen < server[l.thread] =>
                  \/ l.failed \/ l.due
                  \/ /\ loops[i].pc \in {"answer", "select"} /\ loops[i].seen = l.seen
                     /\ loops[i].due = l.due /\ loops[i].failed = l.failed
<1> DEFINE old == loops[i]
<1>1. /\ old \in LoopSet /\ old.pc \in LoopPcs /\ old.seen \in Nat
      /\ old.failed \in BOOLEAN /\ old.filled \in BOOLEAN /\ old.due \in BOOLEAN
      /\ old.thread \in Threads \cup {NoThread}
  BY DEF Typed, LoopsTyped, LoopSet
<1>2. old.pc # "unborn" => i <= spawned /\ old.thread \in Threads
  BY DEF Typed, LoopsTyped, Unborn
<1> DEFINE Effect(l) ==
              /\ i <= spawned /\ l.thread = loops[i].thread
              /\ loops' = [loops EXCEPT ![i] = l]
              /\ UNCHANGED <<viewVars, entries, cacheVars, spawned, stopped, workers, serverVars>>
              /\ notes' = notes \/ notes' = Append(notes, l.thread)
              /\ l.filled => loops[i].filled \/ notes' = Append(notes, l.thread)
              /\ Running(i) /\ l.pc # "unborn"
              /\ l.pc \in {"answer", "select"} /\ l.seen < server[l.thread] =>
                    \/ l.failed \/ l.due
                    \/ /\ loops[i].pc \in {"answer", "select"} /\ loops[i].seen = l.seen
                       /\ loops[i].due = l.due /\ loops[i].failed = l.failed
<1>3. ASSUME NEW l \in LoopSet
      PROVE  /\ Ended(l) \in LoopSet /\ Ended(l).pc = "done" /\ Ended(l).thread = l.thread
             /\ Ended(l).filled = l.filled
  BY DEF Ended, Unborn, LoopSet, LoopPcs
<1>4. ASSUME NEW l \in LoopSet
      PROVE  /\ Resume(i, l) \in LoopSet /\ Resume(i, l).thread = l.thread
             /\ Resume(i, l).filled = l.filled
             /\ \/ Resume(i, l).pc = "done"
                \/ /\ Resume(i, l).pc = "select" /\ Resume(i, l).seen = l.seen
                   /\ Resume(i, l).due = l.due /\ Resume(i, l).failed = l.failed
  BY <1>3 DEF Resume, LoopSet, LoopPcs
<1>5. ASSUME NEW l \in LoopSet
      PROVE  /\ Filled(l) \in LoopSet /\ Filled(l).thread = l.thread /\ Filled(l).pc = l.pc
             /\ Filled(l).seen = l.seen /\ Filled(l).due = l.due /\ Filled(l).failed = l.failed
             /\ (l.filled => Filled(l).filled)
  BY DEF Filled, LoopSet
<1>6. CASE LoopStarts(i)
  <2>1. old.pc = "starting"
    BY <1>6 DEF LoopStarts
  <2>2. ASSUME NEW stored \in BOOLEAN,
               LET l == [old EXCEPT !.pc = "first", !.filled = stored] IN
               Publish(l) /\ Becomes(i, l)
        PROVE  \E l \in LoopSet : Effect(l)
    <3> DEFINE l == [old EXCEPT !.pc = "first", !.filled = stored]
    <3>1. /\ l \in LoopSet /\ l.pc = "first" /\ l.thread = old.thread /\ l.filled = stored
      BY <1>1 DEF LoopSet, LoopPcs
    <3>2. Publish(l) /\ Becomes(i, l)
      BY <2>2
    <3> HIDE DEF l
    <3>3. /\ notes' = notes \/ notes' = Append(notes, l.thread)
          /\ l.filled => notes' = Append(notes, l.thread)
      BY <3>1, <3>2, <1>5 DEF Publish
    <3>4. Effect(l)
      BY <1>2, <2>1, <3>1, <3>2, <3>3 DEF Becomes, Running
    <3> QED
      BY <3>1, <3>4
  <2>3. ASSUME Becomes(i, Ended(old)), UNCHANGED notes
        PROVE  \E l \in LoopSet : Effect(l)
    <3>1. Effect(Ended(old))
      BY <1>1, <1>2, <1>3, <2>1, <2>3 DEF Becomes, Running
    <3> QED
      BY <1>1, <1>3, <3>1
  <2> QED
    BY <1>6, <2>2, <2>3 DEF LoopStarts
<1>7. CASE ServerAnswers(i)
  <2> DEFINE l == [old EXCEPT !.pc = "answer", !.seen = server[old.thread], !.failed = FALSE]
  <2>1. old.pc \in {"first", "fetch"} /\ Becomes(i, l) /\ UNCHANGED notes
    BY <1>7 DEF ServerAnswers
  <2>2. server[old.thread] \in Nat
    BY <1>2, <2>1 DEF Typed, WorkTyped
  <2>3. /\ l \in LoopSet /\ l.pc = "answer" /\ l.thread = old.thread /\ l.filled = old.filled
        /\ l.seen = server[l.thread]
    BY <1>1, <2>2 DEF LoopSet, LoopPcs
  <2> HIDE DEF l
  <2>4. ~(l.seen < server[l.thread])
    BY <2>2, <2>3
  <2>5. Effect(l)
    BY <1>2, <2>1, <2>3, <2>4 DEF Becomes, Running
  <2> QED
    BY <2>3, <2>5
<1>8. CASE RequestFails(i)
  <2> DEFINE late == old.seen < server[old.thread]
             l == [old EXCEPT !.failed = late]
             m == IF l.pc = "first" THEN Resume(i, l) ELSE [l EXCEPT !.pc = "answer"]
  <2>1. old.pc \in {"first", "fetch"} /\ Becomes(i, m) /\ UNCHANGED notes
    BY <1>8 DEF RequestFails
  <2>0. late \in BOOLEAN
    OBVIOUS
  <2> HIDE DEF late
  <2>2. /\ l \in LoopSet /\ l.pc = old.pc /\ l.thread = old.thread /\ l.filled = old.filled
        /\ l.seen = old.seen /\ l.failed = late
    BY <1>1, <2>0 DEF LoopSet
  <2> HIDE DEF l
  <2>3. /\ m \in LoopSet /\ m.thread = old.thread /\ m.filled = old.filled
        /\ \/ m.pc = "done"
           \/ m.pc \in {"answer", "select"} /\ m.seen = old.seen /\ m.failed = l.failed
    BY <1>4, <2>2 DEF LoopSet, LoopPcs
  <2> HIDE DEF m
  <2>4. m.pc \in {"answer", "select"} /\ m.seen < server[m.thread] => m.failed
    BY <2>2, <2>3 DEF late
  <2>5. m.pc # "unborn"
    BY <2>3
  <2>6. Effect(m)
    BY <1>2, <2>1, <2>3, <2>4, <2>5 DEF Becomes, Running
  <2> QED
    BY <2>3, <2>6
<1>9. CASE AnswerArrives(i)
  <2> DEFINE m == Resume(i, Filled(old))
  <2>1. old.pc = "answer" /\ Publish(old) /\ Becomes(i, m)
    BY <1>9 DEF AnswerArrives
  <2>2. /\ m \in LoopSet /\ m.thread = old.thread /\ m.filled = Filled(old).filled
        /\ m.pc \in {"done", "select"}
        /\ m.pc = "select" => m.seen = old.seen /\ m.due = old.due /\ m.failed = old.failed
    BY <1>1, <1>4, <1>5
  <2> HIDE DEF m
  <2>3. /\ notes' = notes \/ notes' = Append(notes, m.thread)
        /\ m.filled => notes' = Append(notes, m.thread)
    BY <2>1, <2>2 DEF Publish
  <2>4. Effect(m)
    BY <1>2, <2>1, <2>2, <2>3 DEF Becomes, Running
  <2> QED
    BY <2>2, <2>4
<1>10. CASE DeadlineFires(i)
  <2> DEFINE l == [old EXCEPT !.due = FALSE, !.failed = FALSE, !.pc = "fetch"]
  <2>1. old.pc = "select" /\ Becomes(i, l) /\ UNCHANGED notes
    BY <1>10 DEF DeadlineFires
  <2>2. l \in LoopSet /\ l.pc = "fetch" /\ l.thread = old.thread /\ l.filled = old.filled
    BY <1>1 DEF LoopSet, LoopPcs
  <2> HIDE DEF l
  <2>3. Effect(l)
    BY <1>2, <2>1, <2>2 DEF Becomes, Running
  <2> QED
    BY <2>2, <2>3
<1>11. CASE Diff(i)
  <2> DEFINE l == [old EXCEPT !.filled = TRUE]
             m == Resume(i, l)
  <2>1. old.pc = "select" /\ Publish(l) /\ Becomes(i, m)
    BY <1>1, <1>11 DEF Diff, LoopSet
  <2>2. /\ l \in LoopSet /\ l.thread = old.thread /\ l.filled = TRUE /\ l.seen = old.seen
        /\ l.due = old.due /\ l.failed = old.failed
    BY <1>1 DEF LoopSet
  <2> HIDE DEF l
  <2>3. /\ m \in LoopSet /\ m.thread = old.thread
        /\ m.pc \in {"done", "select"}
        /\ m.pc = "select" => m.seen = old.seen /\ m.due = old.due /\ m.failed = old.failed
    BY <1>4, <2>2
  <2> HIDE DEF m
  <2>4. notes' = Append(notes, m.thread)
    BY <1>5, <2>1, <2>2, <2>3 DEF Publish
  <2>5. Effect(m)
    BY <1>2, <2>1, <2>3, <2>4 DEF Becomes, Running
  <2> QED
    BY <2>3, <2>5
<1>12. CASE StreamEnds(i) \/ ChannelClosed(i)
  <2>1. old.pc = "select" /\ Becomes(i, Ended(old)) /\ UNCHANGED notes
    BY <1>12 DEF StreamEnds, ChannelClosed
  <2>2. Effect(Ended(old))
    BY <1>1, <1>2, <1>3, <2>1 DEF Becomes, Running
  <2> QED
    BY <1>1, <1>3, <2>2
<1> QED
  BY <1>6, <1>7, <1>8, <1>9, <1>10, <1>11, <1>12 DEF LoopStep

\* A loop that is only woken stays what it is.
OnlyWoken(i) ==
    /\ loops'[i].pc = loops[i].pc /\ loops'[i].thread = loops[i].thread
    /\ loops'[i].seen = loops[i].seen /\ loops'[i].failed = loops[i].failed
    /\ loops'[i].filled = loops[i].filled /\ (loops[i].due => loops'[i].due)
    /\ loops'[i] \in LoopSet

\* Waking a loop.
LEMMA Woken ==
  ASSUME Typed, NEW i \in Loops, loops'[i] = loops[i] \/ loops'[i] = [loops[i] EXCEPT !.due = TRUE]
  PROVE  OnlyWoken(i)
<1>1. loops[i] \in LoopSet
  BY DEF Typed, LoopsTyped
<1> QED
  BY <1>1 DEF OnlyWoken, LoopSet

\* Loops that are woken at most keep their types.
LEMMA WokenTyped ==
  ASSUME Typed, UNCHANGED <<cache, spawned>>, activeKey' \in Threads \cup {NoThread},
         loops' \in [Loops -> LoopSet], \A i \in Loops : OnlyWoken(i) /\ (i > spawned => loops'[i] = loops[i])
  PROVE  LoopsTyped'
<1>1. ASSUME NEW i \in Loops
      PROVE  IF i <= spawned THEN loops'[i].thread \in Threads ELSE loops'[i] = Unborn
  <2>1. i \in Nat /\ spawned \in Nat
    BY DEF Loops, Typed, LoopsTyped
  <2> QED
    BY <2>1 DEF Typed, LoopsTyped, OnlyWoken
<1>2. ASSUME NEW k \in Threads, cache[k] # 0
      PROVE  cache[k] <= spawned /\ loops'[cache[k]].thread = k
  <2>1. cache[k] \in Loops
    BY <1>2 DEF Loops, Typed, LoopsTyped
  <2> QED
    BY <1>2, <2>1 DEF Typed, LoopsTyped, OnlyWoken
<1> QED
  BY <1>1, <1>2 DEF Typed, LoopsTyped

\* Only loops that were started run.
LEMMA RunningStarted ==
  ASSUME Typed, NEW i \in Loops, Running(i)
  PROVE  i <= spawned
BY DEF Typed, LoopsTyped, Running, Unborn

\* What waking the active or a cached loop does.
LEMMA WakeOne ==
  ASSUME Typed, NEW i \in Loops, i <= spawned, UNCHANGED <<cache, spawned>>,
         activeKey' \in Threads \cup {NoThread},
         loops' = loops \/ loops' = [loops EXCEPT ![i].due = TRUE]
  PROVE  LoopsTyped' /\ \A j \in Loops : OnlyWoken(j)
<1>1. loops \in [Loops -> LoopSet]
  BY DEF Typed, LoopsTyped
<1>2. ASSUME NEW j \in Loops
      PROVE  /\ loops'[j] = loops[j] \/ (j = i /\ loops'[j] = [loops[j] EXCEPT !.due = TRUE])
             /\ OnlyWoken(j)
  <2>1. loops'[j] = loops[j] \/ (j = i /\ loops'[j] = [loops[j] EXCEPT !.due = TRUE])
    BY <1>1
  <2> QED
    BY <2>1, Woken
<1>3. loops' \in [Loops -> LoopSet]
  <2> DEFINE woken == [loops[i] EXCEPT !.due = TRUE]
  <2>1. woken \in LoopSet
    <3>1. loops[i] \in LoopSet
      BY <1>1
    <3> QED
      BY <3>1 DEF LoopSet
  <2>2. loops' = loops \/ loops' = [loops EXCEPT ![i] = woken]
    OBVIOUS
  <2> HIDE DEF woken
  <2>3. [loops EXCEPT ![i] = woken] \in [Loops -> LoopSet]
    BY <1>1, <2>1
  <2> QED
    BY <1>1, <2>2, <2>3
<1>4. \A j \in Loops : OnlyWoken(j) /\ (j > spawned => loops'[j] = loops[j])
  <2>1. ~(i > spawned)
    BY DEF Loops, Typed, LoopsTyped
  <2>2. ASSUME NEW j \in Loops, j > spawned
        PROVE  loops'[j] = loops[j]
    <3>1. j # i
      BY <2>1, <2>2
    <3> QED
      BY <1>2, <3>1
  <2> QED
    BY <1>2, <2>2
<1> QED
  BY <1>3, <1>4, WokenTyped

\* What the sync brings wakes the loops of the room.
LEMMA DeliverWakes ==
  ASSUME Typed, NEW k \in Threads, SyncDelivers(k)
  PROVE  LoopsTyped' /\ \A i \in Loops : OnlyWoken(i)
<1>1. /\ UNCHANGED <<cache, spawned, activeKey>>
      /\ loops' = [i \in Loops |->
           IF /\ Running(i) /\ loops[i].pc # "starting"
              /\ RoomOf[loops[i].thread] = RoomOf[k]
           THEN [loops[i] EXCEPT !.due = TRUE] ELSE loops[i]]
  BY DEF SyncDelivers
<1>2. ASSUME NEW i \in Loops
      PROVE  OnlyWoken(i) /\ (i > spawned => loops'[i] = loops[i])
  <2>1. loops'[i] = loops[i] \/ (Running(i) /\ loops'[i] = [loops[i] EXCEPT !.due = TRUE])
    BY <1>1
  <2>2. OnlyWoken(i)
    BY <2>1, Woken
  <2>3. Running(i) => ~(i > spawned)
    <3>1. i \in Nat /\ spawned \in Nat
      BY DEF Loops, Typed, LoopsTyped
    <3> QED
      BY <3>1, RunningStarted
  <2> QED
    BY <2>1, <2>2, <2>3
<1>3. \A i \in Loops : loops'[i] \in LoopSet
  BY <1>2 DEF OnlyWoken
<1>4. loops' \in [Loops -> LoopSet]
  <2> DEFINE f == [i \in Loops |-> loops'[i]]
  <2>1. loops' = f
    BY <1>1
  <2>2. f \in [Loops -> LoopSet]
    BY <1>3
  <2> HIDE DEF f
  <2> QED
    BY <2>1, <2>2
<1> QED
  BY <1>1, <1>2, <1>4, WokenTyped DEF Typed, LoopsTyped

\* Subscribing wakes a cached loop and tells the UI, or starts a loop and stops
\* the one it evicts.
Warm(k) ==
    /\ cache[k] # 0 /\ UNCHANGED <<cache, spawned, stopped>> /\ notes' = Append(notes, k)
    /\ \A i \in Loops : OnlyWoken(i)

Cold(k) ==
    /\ cache[k] = 0 /\ spawned + 1 \in Loops /\ spawned' = spawned + 1 /\ notes' = notes
    /\ loops' = [loops EXCEPT ![spawned + 1] = [Unborn EXCEPT !.pc = "starting", !.thread = k]]
    /\ cache'[k] = spawned + 1 /\ stopped \subseteq stopped'
    /\ \A t \in Threads \ {k} : cache'[t] = cache[t] \/ (cache'[t] = 0 /\ cache[t] \in stopped')

\* What subscribing does to cache and loops.
LEMMA SubscribeEffect ==
  ASSUME Typed, NEW k \in Threads, Subscribe(k)
  PROVE  /\ activeKey' = k /\ LoopsTyped'
         /\ Warm(k) \/ Cold(k)
<1>1. CASE SubscribeWarm(k)
  <2>1. cache[k] \in Loops /\ cache[k] <= spawned /\ cache[k] # 0
    BY <1>1 DEF SubscribeWarm, Typed, LoopsTyped, Loops
  <2>2. /\ activeKey' = k /\ UNCHANGED <<cache, spawned, stopped>> /\ notes' = Append(notes, k)
        /\ loops' = loops \/ loops' = [loops EXCEPT ![cache[k]].due = TRUE]
    BY <1>1 DEF SubscribeWarm
  <2>3. LoopsTyped' /\ \A j \in Loops : OnlyWoken(j)
    BY <2>1, <2>2, WakeOne
  <2> QED
    BY <2>1, <2>2, <2>3 DEF Warm
<1>2. CASE SubscribeCold(k)
  <2> DEFINE victim == SelectInSeq(Touched(k), LAMBDA t : t # k)
             full == Cardinality(Cached \cup {k}) > Cap /\ victim # 0
             evicted == IF full THEN {Touched(k)[victim]} ELSE {}
             new == [Unborn EXCEPT !.pc = "starting", !.thread = k]
  <2>1. /\ cache[k] = 0 /\ spawned < MaxLoops /\ activeKey' = k /\ notes' = notes
        /\ cache' = [t \in Threads |->
              IF t = k THEN spawned + 1 ELSE IF t \in evicted THEN 0 ELSE cache[t]]
        /\ stopped' = stopped \cup {cache[t] : t \in evicted}
        /\ spawned' = spawned + 1
        /\ loops' = [loops EXCEPT ![spawned + 1] = new]
    BY <1>2 DEF SubscribeCold
  <2> HIDE DEF evicted
  <2>2. spawned \in Nat /\ spawned + 1 \in Loops /\ spawned + 1 \in 0..MaxLoops /\ spawned + 1 # 0
    BY <2>1 DEF Loops, Typed, LoopsTyped
  <2>3. new \in LoopSet /\ new.thread = k
    BY DEF Unborn, LoopSet, LoopPcs
  <2>5. \A t \in Threads \ {k} : cache'[t] = cache[t] \/ (cache'[t] = 0 /\ cache[t] \in stopped')
    BY <2>1
  <2>6. LoopsTyped'
    <3>1. cache' \in [Threads -> 0..MaxLoops] /\ activeKey' \in Threads /\ spawned' \in 0..MaxLoops
      BY <2>1, <2>2 DEF Typed, LoopsTyped
    <3>2. loops' \in [Loops -> LoopSet]
      BY <2>1, <2>3 DEF Typed, LoopsTyped
    <3> HIDE DEF new
    <3>3. ASSUME NEW i \in Loops
          PROVE  IF i <= spawned' THEN loops'[i].thread \in Threads ELSE loops'[i] = Unborn
      <4>1. i \in Nat
        BY DEF Loops
      <4>2. CASE i = spawned + 1
        BY <2>1, <2>2, <2>3, <4>2 DEF Typed, LoopsTyped
      <4>3. CASE i # spawned + 1
        BY <2>1, <2>2, <4>1, <4>3 DEF Typed, LoopsTyped
      <4> QED
        BY <4>2, <4>3
    <3>4. ASSUME NEW t \in Threads, cache'[t] # 0
          PROVE  cache'[t] <= spawned' /\ loops'[cache'[t]].thread = t
      <4>1. CASE t = k
        BY <2>1, <2>2, <2>3, <4>1 DEF Typed, LoopsTyped
      <4>2. CASE t # k
        <5>1. cache'[t] = cache[t]
          BY <2>1, <3>4, <4>2
        <5>2. cache[t] \in Loops /\ cache[t] <= spawned /\ loops[cache[t]].thread = t
          BY <3>4, <5>1 DEF Typed, LoopsTyped, Loops
        <5>3. cache[t] # spawned + 1 /\ cache[t] <= spawned + 1
          BY <2>2, <5>2 DEF Loops
        <5> QED
          BY <2>1, <5>1, <5>2, <5>3 DEF Typed, LoopsTyped
      <4> QED
        BY <4>1, <4>2
    <3> QED
      BY <3>1, <3>2, <3>3, <3>4 DEF LoopsTyped
  <2> QED
    BY <2>1, <2>2, <2>5, <2>6 DEF Cold
<1> QED
  BY <1>1, <1>2 DEF Subscribe

-----------------------------------------------------------------------------
(* Types *)

\* Showing a thread of the room that is on screen.
LEMMA ShowTyped ==
  ASSUME Typed, NEW k \in Threads, Show(k), room' = RoomOf[k],
         saved' \in [Rooms -> Threads \cup {NoThread}],
         \A r \in Rooms : saved'[r] # NoThread => RoomOf[saved'[r]] = r,
         UNCHANGED <<workers, serverVars>>
  PROVE  Typed'
<1>1. LoopsTyped' /\ (notes' = notes \/ notes' = Append(notes, k))
  BY SubscribeEffect DEF Show, Warm, Cold
<1>2. notes' \in Seq(Threads)
  <2>1. notes \in Seq(Threads)
    BY DEF Typed, WorkTyped
  <2>2. Append(notes, k) \in Seq(Threads)
    BY <2>1
  <2> QED
    BY <1>1, <2>1, <2>2
<1>3. entries' \in [Threads -> EntrySet]
  <2> DEFINE e == [entries[k] EXCEPT !.loading = TRUE]
  <2>1. entries' = [entries EXCEPT ![k] = e]
    BY DEF Show
  <2>2. e \in EntrySet
    <3>1. entries[k] \in EntrySet
      BY DEF Typed, ViewTyped
    <3> QED
      BY <3>1 DEF EntrySet
  <2> HIDE DEF e
  <2> QED
    BY <2>1, <2>2 DEF Typed, ViewTyped
<1>4. room' \in Rooms /\ thread' = k
  BY DEF Show
<1> QED
  BY <1>1, <1>2, <1>3, <1>4 DEF Typed, ViewTyped, WorkTyped

\* Every room keeps a thread of its own.
LEMMA KeptTyped ==
  ASSUME Typed
  PROVE  /\ Kept \in [Rooms -> Threads \cup {NoThread}]
         /\ \A r \in Rooms : Kept[r] # NoThread => RoomOf[Kept[r]] = r
         /\ \A r \in Rooms : r # room => Kept[r] = saved[r]
BY DEF Typed, ViewTyped, Kept

\* The user's steps keep the types.
LEMMA UserTyped ==
  ASSUME Typed, User
  PROVE  Typed'
<1>1. ASSUME NEW k \in Threads, OpenThread(k)
      PROVE  Typed'
  BY <1>1, ShowTyped DEF OpenThread, Typed, ViewTyped
<1>2. CASE CloseThread
  <2>1. UNCHANGED <<room, saved, entries, workers, serverVars, cache, loopVars, notes>>
        /\ thread' = NoThread /\ activeKey' = NoThread
    BY <1>2 DEF CloseThread, Unsubscribe
  <2> QED
    BY <2>1 DEF Typed, ViewTyped, LoopsTyped, WorkTyped
<1>3. ASSUME NEW r \in Rooms, SelectRoom(r)
      PROVE  Typed'
  <2>1. r # room /\ room' = r /\ saved' = [Kept EXCEPT ![r] = NoThread]
        /\ UNCHANGED <<workers, serverVars>>
    BY <1>3 DEF SelectRoom
  <2>2. /\ saved' \in [Rooms -> Threads \cup {NoThread}]
        /\ \A q \in Rooms : saved'[q] # NoThread => RoomOf[saved'[q]] = q
    BY <2>1, KeptTyped
  <2>3. CASE saved[r] # NoThread
    <3>1. saved[r] \in Threads /\ RoomOf[saved[r]] = r /\ Show(saved[r])
      BY <1>3, <2>3 DEF SelectRoom, Typed, ViewTyped
    <3> QED
      BY <2>1, <2>2, <3>1, ShowTyped
  <2>4. CASE saved[r] = NoThread
    <3>1. thread' = NoThread /\ UNCHANGED <<entries, cacheVars, loopVars, notes>>
      BY <1>3, <2>4 DEF SelectRoom
    <3> QED
      BY <2>1, <2>2, <3>1 DEF Typed, ViewTyped, LoopsTyped, WorkTyped
  <2> QED
    BY <2>3, <2>4
<1>4. CASE CloseRoom \/ LoseRoom
  <2>1. /\ saved' \in {saved, Kept} /\ room' = NoRoom /\ thread' = NoThread /\ activeKey' = NoThread
        /\ entries' = [k \in Threads |-> NewEntry(k)]
        /\ UNCHANGED <<workers, serverVars, cache, loopVars, notes>>
    BY <1>4 DEF CloseRoom, LoseRoom, Clear, Unsubscribe
  <2>2. entries' \in [Threads -> EntrySet]
    BY <2>1 DEF NewEntry, EntrySet
  <2>3. ViewTyped'
    BY <2>1, <2>2, KeptTyped DEF Typed, ViewTyped
  <2> QED
    BY <2>1, <2>3 DEF Typed, LoopsTyped, WorkTyped
<1>5. ASSUME NEW r \in Rooms, ReleaseRoom(r)
      PROVE  Typed'
  <2>1. /\ activeKey' \in {activeKey, NoThread}
        /\ \E gone \in SUBSET Threads : cache' = [k \in Threads |-> IF k \in gone THEN 0 ELSE cache[k]]
        /\ UNCHANGED <<viewVars, entries, spawned, loops, notes, workers, serverVars>>
    BY <1>5 DEF ReleaseRoom, Cached
  <2>2. /\ cache' \in [Threads -> 0..MaxLoops]
        /\ \A k \in Threads : cache'[k] # 0 => cache'[k] = cache[k]
    BY <2>1 DEF Typed, LoopsTyped
  <2> QED
    BY <2>1, <2>2 DEF Typed, ViewTyped, LoopsTyped, WorkTyped
<1>6. CASE RefreshThread
  <2>1. /\ ActiveLoop \in Loops /\ ActiveLoop <= spawned
    BY <1>6 DEF RefreshThread, CanSend, ActiveLoop, Typed, LoopsTyped, Loops
  <2>2. /\ loops' = [loops EXCEPT ![ActiveLoop].due = TRUE]
        /\ UNCHANGED <<viewVars, entries, cacheVars, spawned, notes, workers, serverVars>>
    BY <1>6 DEF RefreshThread
  <2>3. LoopsTyped'
    BY <2>1, <2>2, WakeOne DEF Typed, LoopsTyped
  <2> QED
    BY <2>2, <2>3 DEF Typed, ViewTyped, WorkTyped
<1>7. CASE BeginPage
  <2>1. PICK w \in Workers : StartWorker(w, "page", thread)
    BY <1>7 DEF BeginPage
  <2>2. /\ thread \in Threads /\ entries' = [entries EXCEPT ![thread].loading = TRUE]
        /\ UNCHANGED <<viewVars, cacheVars, loopVars, notes, serverVars>>
    BY <1>7 DEF BeginPage, Typed, ViewTyped
  <2>3. entries' \in [Threads -> EntrySet]
    <3> DEFINE e == [entries[thread] EXCEPT !.loading = TRUE]
    <3>1. entries' = [entries EXCEPT ![thread] = e]
      BY <2>2
    <3>2. e \in EntrySet
      <4>1. entries[thread] \in EntrySet
        BY <2>2 DEF Typed, ViewTyped
      <4> QED
        BY <4>1 DEF EntrySet
    <3> HIDE DEF e
    <3> QED
      BY <3>1, <3>2 DEF Typed, ViewTyped
  <2>4. /\ workers' \in [Workers -> WorkerSet]
        /\ \A v \in Workers : workers'[v].op # "idle" => workers'[v].thread \in Threads
    <3> DEFINE busy == [Idle EXCEPT !.op = "page", !.thread = thread]
    <3>1. busy \in WorkerSet /\ busy.thread = thread
      BY <2>2 DEF Idle, WorkerSet, WorkerOps
    <3>2. workers' = [workers EXCEPT ![w] = busy]
      BY <2>1 DEF StartWorker
    <3> HIDE DEF busy
    <3> QED
      BY <2>2, <3>1, <3>2 DEF Typed, WorkTyped
  <2> QED
    BY <2>2, <2>3, <2>4 DEF Typed, ViewTyped, LoopsTyped, WorkTyped
<1> QED
  BY <1>1, <1>2, <1>3, <1>4, <1>5, <1>6, <1>7 DEF User

\* So do the steps of workers and of the handler of notes.
LEMMA WorkTypes ==
  ASSUME Typed, HandleNote \/ \E w \in Workers : Worker(w)
  PROVE  Typed'
<1>1. CASE HandleNote
  <2>1. notes \in Seq(Threads) /\ notes # <<>>
    BY <1>1 DEF HandleNote, Typed, WorkTyped
  <2>2. Tail(notes) \in Seq(Threads)
    BY <2>1
  <2>3. /\ notes' = Tail(notes)
        /\ UNCHANGED <<viewVars, entries, cacheVars, loopVars, serverVars>>
    BY <1>1 DEF HandleNote
  <2>4. CASE workers' = workers
    BY <2>2, <2>3, <2>4 DEF Typed, ViewTyped, LoopsTyped, WorkTyped
  <2>5. ASSUME thread = Head(notes), NEW w \in Workers, StartWorker(w, "fetch", thread)
        PROVE  Typed'
    <3> DEFINE busy == [Idle EXCEPT !.op = "fetch", !.thread = thread]
    <3>1. thread \in Threads
      BY <2>1, <2>5
    <3>2. busy \in WorkerSet /\ busy.thread = thread
      BY <3>1 DEF Idle, WorkerSet, WorkerOps
    <3>3. workers' = [workers EXCEPT ![w] = busy]
      BY <2>5 DEF StartWorker
    <3> HIDE DEF busy
    <3>4. /\ workers' \in [Workers -> WorkerSet]
          /\ \A v \in Workers : workers'[v].op # "idle" => workers'[v].thread \in Threads
      BY <3>1, <3>2, <3>3 DEF Typed, WorkTyped
    <3> QED
      BY <2>2, <2>3, <3>4 DEF Typed, ViewTyped, LoopsTyped, WorkTyped
  <2> QED
    BY <1>1, <2>4, <2>5 DEF HandleNote
<1>2. ASSUME NEW w \in Workers, NEW e \in WorkerSet, workers' = [workers EXCEPT ![w] = e],
             e.op # "idle" => e.thread \in Threads,
             notes' \in Seq(Threads), entries' \in [Threads -> EntrySet],
             UNCHANGED <<viewVars, cacheVars, loopVars, serverVars>>
      PROVE  Typed'
  <2>1. /\ workers' \in [Workers -> WorkerSet]
        /\ \A v \in Workers : workers'[v].op # "idle" => workers'[v].thread \in Threads
    BY <1>2 DEF Typed, WorkTyped
  <2> QED
    BY <1>2, <2>1 DEF Typed, ViewTyped, LoopsTyped, WorkTyped
<1>3. ASSUME NEW w \in Workers, Worker(w)
      PROVE  Typed'
  <2> DEFINE old == workers[w]
  <2>1. /\ old \in WorkerSet /\ old.op \in WorkerOps /\ old.thread \in Threads \cup {NoThread}
        /\ old.items \in Threads \cup {NoThread} /\ (old.op # "idle" => old.thread \in Threads)
    BY DEF Typed, WorkTyped, WorkerSet
  <2>2. Idle \in WorkerSet /\ Idle.op = "idle"
    BY DEF Idle, WorkerSet, WorkerOps
  <2>3. notes \in Seq(Threads) /\ entries \in [Threads -> EntrySet]
    BY DEF Typed, WorkTyped, ViewTyped
  <2>4. CASE Deliver(w)
    <3>1. old.thread \in Threads
      BY <2>1, <2>4 DEF Deliver
    <3> DEFINE e == [loading |-> FALSE,
                     items |-> IF old.op = "failed" THEN entries[old.thread].items ELSE old.items]
    <3>2. e \in EntrySet
      BY <2>1, <2>3, <3>1 DEF EntrySet
    <3>3. /\ workers' = [workers EXCEPT ![w] = Idle] /\ notes' = notes
          /\ UNCHANGED <<viewVars, cacheVars, loopVars, serverVars>>
          /\ entries' = entries \/ entries' = [entries EXCEPT ![old.thread] = e]
      BY <2>4 DEF Deliver
    <3> HIDE DEF e
    <3>4. entries' \in [Threads -> EntrySet]
      BY <2>3, <3>2, <3>3
    <3> QED
      BY <1>2, <2>2, <2>3, <3>3, <3>4
  <2>5. CASE PageDone(w)
    <3> DEFINE e == [entries[old.thread] EXCEPT !.loading = FALSE]
    <3>1. old.thread \in Threads
      BY <2>1, <2>5 DEF PageDone
    <3>2. e \in EntrySet
      <4>1. entries[old.thread] \in EntrySet
        BY <2>3, <3>1
      <4> QED
        BY <4>1 DEF EntrySet
    <3>3. /\ workers' = [workers EXCEPT ![w] = Idle] /\ notes' = notes
          /\ UNCHANGED <<viewVars, cacheVars, loopVars, serverVars>>
          /\ entries' = [entries EXCEPT ![old.thread] = e]
      BY <2>5 DEF PageDone
    <3> HIDE DEF e
    <3>4. entries' \in [Threads -> EntrySet]
      BY <2>3, <3>2, <3>3
    <3> QED
      BY <1>2, <2>2, <2>3, <3>3, <3>4
  <2>6. CASE Fetch(w)
    <3> DEFINE e == IF ActiveLoop = 0 THEN [old EXCEPT !.op = "failed"]
                    ELSE [old EXCEPT !.op = "fetched", !.items = activeKey]
    <3>1. old.op = "fetch" /\ workers' = [workers EXCEPT ![w] = e] /\ UNCHANGED <<notes, entries>>
          /\ UNCHANGED <<viewVars, cacheVars, loopVars, serverVars>>
      BY <2>6 DEF Fetch
    <3>2. activeKey \in Threads \cup {NoThread}
      BY DEF Typed, LoopsTyped
    <3>3. e \in WorkerSet /\ e.thread = old.thread
      BY <2>1, <3>2 DEF WorkerSet, WorkerOps
    <3> HIDE DEF e
    <3> QED
      BY <1>2, <2>1, <2>3, <3>1, <3>3
  <2>7. CASE SendPage(w)
    <3> DEFINE e == [old EXCEPT !.op = "paged"]
    <3>1. /\ old.op = "page" /\ workers' = [workers EXCEPT ![w] = e] /\ UNCHANGED entries
          /\ UNCHANGED <<viewVars, cacheVars, loopVars, serverVars>>
          /\ notes' = notes \/ (CanSend /\ notes' = Append(notes, activeKey))
      BY <2>7 DEF SendPage
    <3>2. CanSend => activeKey \in Threads
      BY DEF CanSend, ActiveLoop, Typed, LoopsTyped
    <3>3. notes' \in Seq(Threads)
      BY <2>3, <3>1, <3>2, Posted
    <3>4. e \in WorkerSet /\ e.thread = old.thread
      BY <2>1 DEF WorkerSet, WorkerOps
    <3> HIDE DEF e
    <3> QED
      BY <1>2, <2>1, <2>3, <3>1, <3>3, <3>4
  <2> QED
    BY <1>3, <2>4, <2>5, <2>6, <2>7 DEF Worker
<1> QED
  BY <1>1, <1>3

\* And so do the loops and the server.
LEMMA LoopsTypes ==
  ASSUME Typed, \/ \E i \in Loops : LoopStep(i)
                \/ \E k \in Threads : EventSent(k) \/ SyncDelivers(k)
  PROVE  Typed'
<1>1. ASSUME NEW i \in Loops, LoopStep(i)
      PROVE  Typed'
  <2>1. PICK l \in LoopSet :
          /\ i <= spawned /\ l.thread = loops[i].thread
          /\ loops' = [loops EXCEPT ![i] = l]
          /\ UNCHANGED <<viewVars, entries, cacheVars, spawned, stopped, workers, serverVars>>
          /\ notes' = notes \/ notes' = Append(notes, l.thread)
    BY <1>1, LoopEffect
  <2>2. l.thread \in Threads /\ loops \in [Loops -> LoopSet] /\ notes \in Seq(Threads)
    BY <2>1 DEF Typed, LoopsTyped, WorkTyped
  <2>3. notes' \in Seq(Threads)
    BY <2>1, <2>2, Posted
  <2>4. /\ loops' \in [Loops -> LoopSet]
        /\ \A j \in Loops : loops'[j].thread = loops[j].thread /\ (j # i => loops'[j] = loops[j])
    BY <2>1, <2>2
  <2>5. \A j \in Loops : IF j <= spawned THEN loops'[j].thread \in Threads ELSE loops'[j] = Unborn
    BY <2>1, <2>4 DEF Typed, LoopsTyped
  <2>6. \A k \in Threads : cache[k] # 0 => cache[k] <= spawned /\ loops'[cache[k]].thread = k
    <3>1. \A k \in Threads : cache[k] # 0 => cache[k] \in Loops
      BY DEF Typed, LoopsTyped, Loops
    <3> QED
      BY <2>4, <3>1 DEF Typed, LoopsTyped
  <2> QED
    BY <2>1, <2>3, <2>4, <2>5, <2>6 DEF Typed, ViewTyped, LoopsTyped, WorkTyped
<1>2. ASSUME NEW k \in Threads, EventSent(k)
      PROVE  Typed'
  <2>1. /\ server' = [server EXCEPT ![k] = server[k] + 1] /\ undelivered' = undelivered \cup {k}
        /\ UNCHANGED <<viewVars, entries, cacheVars, loopVars, notes, workers>>
    BY <1>2 DEF EventSent
  <2>2. server' \in [Threads -> Nat]
    BY <2>1 DEF Typed, WorkTyped
  <2> QED
    BY <2>1, <2>2 DEF Typed, ViewTyped, LoopsTyped, WorkTyped
<1>3. ASSUME NEW k \in Threads, SyncDelivers(k)
      PROVE  Typed'
  <2>1. /\ undelivered' = undelivered \ {k}
        /\ UNCHANGED <<viewVars, entries, cacheVars, spawned, stopped, notes, workers, server>>
    BY <1>3 DEF SyncDelivers
  <2>2. LoopsTyped'
    BY <1>3, DeliverWakes DEF Typed, LoopsTyped
  <2> QED
    BY <2>1, <2>2 DEF Typed, ViewTyped, WorkTyped
<1> QED
  BY <1>1, <1>2, <1>3

\* Types hold at the beginning and after every step.
LEMMA InitTypes == Init => Typed
<1> SUFFICES ASSUME Init
             PROVE  Typed
  OBVIOUS
<1>1. ViewTyped
  BY DEF Init, ViewTyped, NewEntry, EntrySet
<1>2. Unborn \in LoopSet
  BY DEF Unborn, LoopSet, LoopPcs
<1>3. LoopsTyped
  BY <1>2 DEF Init, LoopsTyped, Loops
<1>4. Idle \in WorkerSet /\ Idle.op = "idle"
  BY DEF Idle, WorkerSet, WorkerOps
<1>5. WorkTyped
  BY <1>4 DEF Init, WorkTyped
<1> QED
  BY <1>1, <1>3, <1>5 DEF Typed

\* One step.
LEMMA NextTypes == Typed /\ [Next]_vars => Typed'
<1>1. CASE UNCHANGED vars
  BY <1>1 DEF vars, Typed, ViewTyped, LoopsTyped, WorkTyped
<1> QED
  BY <1>1, UserTyped, WorkTypes, LoopsTypes DEF Next

\* The types hold for ever.
LEMMA AlwaysTyped == Spec => []Typed
BY InitTypes, NextTypes, PTL DEF Spec

-----------------------------------------------------------------------------
(* The thread on screen and the active thread *)

\* ActiveThreadsAgree: Rust serves the thread on screen, through every switch of
\* room and thread, and the release of other rooms.
THEOREM ScreenAndRustAgree == Spec => []ActiveThreadsAgree
<1>1. Init => ActiveThreadsAgree
  BY DEF Init, ActiveThreadsAgree
<1>2. Typed /\ ActiveThreadsAgree /\ [Next]_vars => ActiveThreadsAgree'
  <2> SUFFICES ASSUME Typed, ActiveThreadsAgree, [Next]_vars
               PROVE  ActiveThreadsAgree'
    OBVIOUS
  <2>1. ASSUME NEW k \in Threads, Show(k)
        PROVE  ActiveThreadsAgree'
    BY <2>1, SubscribeEffect DEF Show, ActiveThreadsAgree
  <2>2. CASE thread' = NoThread
    BY <2>2 DEF ActiveThreadsAgree
  <2>3. CASE UNCHANGED <<thread, activeKey>>
    BY <2>3 DEF ActiveThreadsAgree
  <2>4. ASSUME NEW r \in Rooms, SelectRoom(r)
        PROVE  ActiveThreadsAgree'
    <3>1. saved[r] # NoThread => saved[r] \in Threads
      BY DEF Typed, ViewTyped
    <3> QED
      BY <2>1, <2>2, <2>4, <3>1 DEF SelectRoom
  <2>5. ASSUME NEW r \in Rooms, ReleaseRoom(r)
        PROVE  ActiveThreadsAgree'
    <3>1. r # room /\ thread' = thread
          /\ activeKey' = IF activeKey \in {k \in Cached : RoomOf[k] = r}
                          THEN NoThread ELSE activeKey
      BY <2>5 DEF ReleaseRoom
    <3>2. thread # NoThread => RoomOf[thread] = room /\ activeKey = thread
      BY DEF Typed, ViewTyped, ActiveThreadsAgree
    <3> QED
      BY <3>1, <3>2 DEF ActiveThreadsAgree
  <2>6. CASE User
    BY <2>1, <2>2, <2>3, <2>4, <2>5, <2>6 DEF User, OpenThread, CloseThread, CloseRoom, LoseRoom,
       Clear, RefreshThread, BeginPage
  <2>7. CASE HandleNote \/ \E w \in Workers : Worker(w)
    BY <2>3, <2>7 DEF HandleNote, Worker, Deliver, PageDone, Fetch, SendPage
  <2>8. ASSUME NEW i \in Loops, LoopStep(i)
        PROVE  ActiveThreadsAgree'
    BY <2>3, <2>8, LoopEffect
  <2>9. ASSUME NEW k \in Threads, EventSent(k) \/ SyncDelivers(k)
        PROVE  ActiveThreadsAgree'
    BY <2>3, <2>9 DEF EventSent, SyncDelivers
  <2>10. CASE UNCHANGED vars
    BY <2>3, <2>10 DEF vars
  <2> QED
    BY <2>6, <2>7, <2>8, <2>9, <2>10 DEF Next
<1> QED
  BY <1>1, <1>2, AlwaysTyped, PTL DEF Spec

-----------------------------------------------------------------------------
(* Who has which loop *)

\* LoopsAreOwned: a loop that runs and was not told to stop is the cached one of
\* its thread, so an eviction or a release never leaves one behind.
THEOREM NoLoopIsForgotten == Spec => []LoopsAreOwned
<1>1. Init => LoopsAreOwned
  BY DEF Init, LoopsAreOwned, Running, Unborn
<1>2. Typed /\ LoopsAreOwned /\ [Next]_vars => LoopsAreOwned'
  <2> SUFFICES ASSUME Typed, LoopsAreOwned, [Next]_vars, NEW i \in Loops,
                      Running(i)', i \notin stopped'
               PROVE  cache'[loops'[i].thread] = i
    BY DEF LoopsAreOwned
  <2>0. i # 0 /\ (Running(i) => loops[i].thread \in Threads)
    BY RunningStarted DEF Typed, LoopsTyped, Loops
  <2>1. CASE Running(i) /\ loops'[i].thread = loops[i].thread /\ UNCHANGED <<cache, stopped>>
    BY <2>1 DEF LoopsAreOwned
  <2>2. ASSUME OnlyWoken(i), UNCHANGED <<cache, stopped>>
        PROVE  cache'[loops'[i].thread] = i
    <3>1. Running(i)
      BY <2>2 DEF OnlyWoken, Running
    <3> QED
      BY <2>1, <2>2, <3>1 DEF OnlyWoken
  <2>3. ASSUME NEW k \in Threads, Subscribe(k)
        PROVE  cache'[loops'[i].thread] = i
    <3>1. CASE Warm(k)
      BY <2>2, <3>1 DEF Warm
    <3>2. CASE Cold(k)
      <4> DEFINE new == [Unborn EXCEPT !.pc = "starting", !.thread = k]
      <4>1. /\ cache[k] = 0 /\ spawned + 1 \in Loops /\ cache'[k] = spawned + 1
            /\ stopped \subseteq stopped' /\ loops' = [loops EXCEPT ![spawned + 1] = new]
            /\ \A t \in Threads \ {k} : cache'[t] = cache[t] \/ (cache'[t] = 0 /\ cache[t] \in stopped')
        BY <3>2 DEF Cold
      <4>2. new.thread = k
        BY DEF Unborn
      <4> HIDE DEF new
      <4>3. CASE i = spawned + 1
        BY <4>1, <4>2, <4>3 DEF Typed, LoopsTyped
      <4>4. CASE i # spawned + 1
        <5>1. loops'[i] = loops[i]
          BY <4>1, <4>4 DEF Typed, LoopsTyped
        <5>2. Running(i)
          BY <5>1 DEF Running
        <5>3. cache[loops[i].thread] = i /\ loops[i].thread \in Threads
          BY <2>0, <4>1, <5>2 DEF LoopsAreOwned
        <5> QED
          BY <2>0, <4>1, <5>1, <5>3
      <4> QED
        BY <4>3, <4>4
    <3> QED
      BY <2>3, <3>1, <3>2, SubscribeEffect
  <2>4. CASE UNCHANGED <<cache, stopped, loops>>
    BY <2>1, <2>4 DEF Running
  <2>5. ASSUME NEW r \in Rooms, SelectRoom(r)
        PROVE  cache'[loops'[i].thread] = i
    <3>1. saved[r] # NoThread => saved[r] \in Threads
      BY DEF Typed, ViewTyped
    <3> QED
      BY <2>3, <2>4, <2>5, <3>1 DEF SelectRoom, Show
  <2>6. ASSUME NEW r \in Rooms, ReleaseRoom(r)
        PROVE  cache'[loops'[i].thread] = i
    <3> DEFINE gone == {k \in Cached : RoomOf[k] = r}
    <3>1. /\ cache' = [k \in Threads |-> IF k \in gone THEN 0 ELSE cache[k]]
          /\ stopped' = stopped \cup {cache[k] : k \in gone} /\ loops' = loops
      BY <2>6 DEF ReleaseRoom
    <3>2. Running(i) /\ i \notin stopped
      BY <3>1 DEF Running
    <3>3. cache[loops[i].thread] = i /\ loops[i].thread \in Threads
      BY <2>0, <3>2 DEF LoopsAreOwned
    <3>4. loops[i].thread \notin gone
      BY <3>1, <3>3
    <3> QED
      BY <3>1, <3>3, <3>4
  <2>7. CASE RefreshThread
    <3>1. /\ ActiveLoop \in Loops /\ ActiveLoop <= spawned
      BY <2>7 DEF RefreshThread, CanSend, ActiveLoop, Typed, LoopsTyped, Loops
    <3>2. /\ loops' = [loops EXCEPT ![ActiveLoop].due = TRUE]
          /\ UNCHANGED <<cacheVars, spawned, stopped>>
      BY <2>7 DEF RefreshThread
    <3>3. OnlyWoken(i)
      BY <3>1, <3>2, WakeOne DEF Typed, LoopsTyped
    <3> QED
      BY <2>2, <3>2, <3>3
  <2>8. CASE User
    BY <2>3, <2>4, <2>5, <2>6, <2>7, <2>8 DEF User, OpenThread, Show, CloseThread, CloseRoom, LoseRoom,
       Clear, Unsubscribe, BeginPage
  <2>9. CASE HandleNote \/ \E w \in Workers : Worker(w)
    BY <2>4, <2>9 DEF HandleNote, Worker, Deliver, PageDone, Fetch, SendPage
  <2>10. ASSUME NEW j \in Loops, LoopStep(j)
         PROVE  cache'[loops'[i].thread] = i
    <3>1. PICK l \in LoopSet :
            /\ l.thread = loops[j].thread /\ loops' = [loops EXCEPT ![j] = l]
            /\ UNCHANGED <<cacheVars, stopped>> /\ Running(j)
      BY <2>10, LoopEffect
    <3>2. loops'[i].thread = loops[i].thread /\ (i # j => loops'[i] = loops[i])
      BY <3>1 DEF Typed, LoopsTyped
    <3>3. Running(i)
      BY <3>1, <3>2 DEF Running
    <3> QED
      BY <2>1, <3>1, <3>2, <3>3
  <2>11. ASSUME NEW k \in Threads, EventSent(k) \/ SyncDelivers(k)
         PROVE  cache'[loops'[i].thread] = i
    <3>1. CASE EventSent(k)
      BY <2>4, <3>1 DEF EventSent
    <3>2. CASE SyncDelivers(k)
      <4>1. OnlyWoken(i) /\ UNCHANGED <<cache, stopped>>
        BY <3>2, DeliverWakes DEF SyncDelivers
      <4> QED
        BY <2>2, <4>1
    <3> QED
      BY <2>11, <3>1, <3>2
  <2>12. CASE UNCHANGED vars
    BY <2>4, <2>12 DEF vars
  <2> QED
    BY <2>8, <2>9, <2>10, <2>11, <2>12 DEF Next
<1> QED
  BY <1>1, <1>2, AlwaysTyped, PTL DEF Spec

-----------------------------------------------------------------------------
(* The cache and the list of recent use *)

\* What retain leaves of a list without repetitions.
LEMMA RetainedOnly ==
  ASSUME NEW s \in Seq(Threads), IsInjective(s), NEW S, NEW t \in Retained(s, S)
  PROVE  /\ t \in Seq(Threads) /\ IsInjective(t)
         /\ \A x : Contains(t, x) <=> Contains(s, x) /\ x \notin S
         /\ \A x, y : Earlier(t, x, y) <=> Earlier(s, x, y) /\ x \notin S /\ y \notin S
<1> DEFINE kept == {n \in 1..Len(s) : s[n] \notin S}
           c == Cardinality(kept)
<1>1. /\ Len(s) \in Nat /\ DOMAIN s = 1..Len(s) /\ \A n \in 1..Len(s) : s[n] \in Threads
      /\ \A m, n \in 1..Len(s) : s[m] = s[n] => m = n
  BY LenProperties, ElementOfSeq DEF IsInjective
<1>2. IsFiniteSet(kept) /\ c \in Nat
  <2>1. IsFiniteSet(1..Len(s))
    BY <1>1, FS_Interval
  <2>2. IsFiniteSet(kept)
    BY <2>1, FS_Subset
  <2> QED
    BY <2>2, FS_CardinalityType
<1>3. PICK g \in [1..c -> kept] :
        /\ \A i, j \in DOMAIN g : i < j => g[i] < g[j]
        /\ t = [i \in 1..c |-> s[g[i]]]
  BY DEF Retained
<1>4. \A n \in kept : n \in 1..Len(s) /\ s[n] \notin S
  OBVIOUS
<1>5. \A n \in 1..Len(s) : s[n] \notin S => n \in kept
  OBVIOUS
<1> HIDE DEF kept, c
<1>6. \A i, j \in 1..c : g[i] = g[j] => i = j
  <2> SUFFICES ASSUME NEW i \in 1..c, NEW j \in 1..c, i # j
               PROVE  g[i] # g[j]
    OBVIOUS
  <2>1. g[i] \in 1..Len(s) /\ g[j] \in 1..Len(s)
    BY <1>3, <1>4
  <2>2. i < j \/ j < i
    BY <1>2
  <2>3. g[i] < g[j] \/ g[j] < g[i]
    BY <1>3, <2>2
  <2> QED
    BY <1>1, <2>1, <2>3
<1>7. \A n \in kept : \E i \in 1..c : g[i] = n
  <2>1. g \in Injection(1..c, kept)
    BY <1>3, <1>6 DEF Injection, IsInjective
  <2>2. Cardinality(1..c) = Cardinality(kept)
    BY <1>2, FS_Interval DEF c
  <2>3. g \in Surjection(1..c, kept)
    BY <1>2, <2>1, <2>2, FS_Injection
  <2> QED
    BY <2>3 DEF Surjection
<1>8. \A i \in 1..c : g[i] \in kept /\ t[i] = s[g[i]] /\ t[i] \in Threads
  BY <1>1, <1>3, <1>4
<1>9. t \in Seq(Threads) /\ Len(t) = c /\ DOMAIN t = 1..c
  <2>1. t \in [1..c -> Threads]
    BY <1>3, <1>8
  <2>2. t \in Seq(Threads) /\ Len(t) = c
    BY <1>2, <2>1, FunctionIsSequence
  <2> QED
    BY <2>1, <2>2
<1>10. IsInjective(t)
  <2> SUFFICES ASSUME NEW i \in 1..c, NEW j \in 1..c, t[i] = t[j]
               PROVE  i = j
    BY <1>9 DEF IsInjective
  <2>1. g[i] = g[j]
    BY <1>1, <1>4, <1>8
  <2> QED
    BY <1>6, <2>1
<1>11. ASSUME NEW x
       PROVE  Contains(t, x) <=> Contains(s, x) /\ x \notin S
  <2>1. ASSUME Contains(t, x)
        PROVE  Contains(s, x) /\ x \notin S
    <3>1. PICK i \in 1..c : t[i] = x
      BY <1>9, <2>1 DEF Contains
    <3> QED
      BY <1>4, <1>8, <3>1 DEF Contains
  <2>2. ASSUME Contains(s, x), x \notin S
        PROVE  Contains(t, x)
    <3>1. PICK n \in 1..Len(s) : s[n] = x
      BY <2>2 DEF Contains
    <3>2. PICK i \in 1..c : g[i] = n
      BY <1>5, <1>7, <2>2, <3>1
    <3> QED
      BY <1>8, <1>9, <3>1, <3>2 DEF Contains
  <2> QED
    BY <2>1, <2>2
<1>12. ASSUME NEW x, NEW y
       PROVE  Earlier(t, x, y) <=> Earlier(s, x, y) /\ x \notin S /\ y \notin S
  <2>1. ASSUME Earlier(t, x, y)
        PROVE  Earlier(s, x, y) /\ x \notin S /\ y \notin S
    <3>1. PICK i, j \in 1..c : i < j /\ t[i] = x /\ t[j] = y
      BY <1>9, <2>1 DEF Earlier
    <3>2. /\ g[i] \in 1..Len(s) /\ s[g[i]] = x /\ x \notin S
          /\ g[j] \in 1..Len(s) /\ s[g[j]] = y /\ y \notin S
      BY <1>4, <1>8, <3>1
    <3>3. g[i] < g[j]
      BY <1>3, <3>1
    <3> QED
      BY <3>2, <3>3 DEF Earlier
  <2>2. ASSUME Earlier(s, x, y), x \notin S, y \notin S
        PROVE  Earlier(t, x, y)
    <3>1. PICK m, n \in 1..Len(s) : m < n /\ s[m] = x /\ s[n] = y
      BY <2>2 DEF Earlier
    <3>2. PICK i \in 1..c : g[i] = m
      BY <1>5, <1>7, <2>2, <3>1
    <3>3. PICK j \in 1..c : g[j] = n
      BY <1>5, <1>7, <2>2, <3>1
    <3>4. i < j
      <4>1. i \in Int /\ j \in Int /\ DOMAIN g = 1..c
        BY <1>2, <1>3
      <4>2. CASE j < i
        <5>1. g[j] < g[i]
          BY <1>3, <4>1, <4>2
        <5> QED
          BY <1>1, <3>1, <3>2, <3>3, <5>1
      <4>3. i # j
        BY <1>1, <3>1, <3>2, <3>3
      <4> QED
        BY <4>1, <4>2, <4>3
    <3> QED
      BY <1>8, <1>9, <3>1, <3>2, <3>3, <3>4 DEF Earlier
  <2> QED
    BY <2>1, <2>2
<1> QED
  BY <1>9, <1>10, <1>11, <1>12

\* A thread that is touched is the last of the list, and there once.
LEMMA TouchedOnce ==
  ASSUME NEW k \in Threads, lru \in Seq(Threads), IsInjective(lru)
  PROVE  /\ Touched(k) \in Seq(Threads) /\ IsInjective(Touched(k))
         /\ \A x : Contains(Touched(k), x) <=> Contains(lru, x) \/ x = k
         /\ Len(Touched(k)) = IF Contains(lru, k) THEN Len(lru) ELSE Len(lru) + 1
         /\ Touched(k)[Len(Touched(k))] = k
         /\ \A x, y : Earlier(Touched(k), x, y) <=>
               \/ Earlier(lru, x, y) /\ x # k /\ y # k
               \/ Contains(lru, x) /\ x # k /\ y = k
<1> DEFINE u == RemoveFirst(lru, k)
<1>1. /\ u \in Seq(Threads) /\ IsInjective(u)
      /\ \A x : Contains(u, x) <=> Contains(lru, x) /\ x # k
      /\ Len(u) = IF Contains(lru, k) THEN Len(lru) - 1 ELSE Len(lru)
  BY FirstRemoved
<1>2. Touched(k) = Append(u, k)
  BY DEF Touched
<1> HIDE DEF u
<1>3. ~Contains(u, k) /\ Len(u) \in Nat /\ Len(lru) \in Nat
  BY <1>1, LenProperties
<1>4. /\ Append(u, k) \in Seq(Threads) /\ Len(Append(u, k)) = Len(u) + 1
      /\ Append(u, k)[Len(u) + 1] = k
  BY <1>1, AppendProperties
<1>5. /\ IsInjective(Append(u, k))
      /\ \A x : Contains(Append(u, k), x) <=> Contains(u, x) \/ x = k
  BY <1>1, <1>3, OneAppended
<1>6. \A x, y : Earlier(u, x, y) <=> Earlier(lru, x, y) /\ x # k /\ y # k
  BY FirstRemovedOrder DEF u
<1>7. \A x, y : Earlier(Append(u, k), x, y) <=> Earlier(u, x, y) \/ (Contains(u, x) /\ y = k)
  BY <1>1, AppendedOrder
<1>8. \A x, y : Earlier(Append(u, k), x, y) <=>
        \/ Earlier(lru, x, y) /\ x # k /\ y # k
        \/ Contains(lru, x) /\ x # k /\ y = k
  BY <1>1, <1>6, <1>7
<1> QED
  BY <1>1, <1>2, <1>3, <1>4, <1>5, <1>8

\* The oldest thread that is not the active one is the first, when there is another.
LEMMA VictimIsFirst ==
  ASSUME NEW k \in Threads, NEW s \in Seq(Threads), IsInjective(s), s # <<>>, s[Len(s)] = k
  PROVE  SelectInSeq(s, LAMBDA t : t # k) = IF Len(s) > 1 THEN 1 ELSE 0
<1> DEFINE others == {i \in 1..Len(s) : s[i] # k}
<1>1. /\ Len(s) \in Nat \ {0} /\ DOMAIN s = 1..Len(s)
      /\ \A m, n \in 1..Len(s) : s[m] = s[n] => m = n
  BY EmptySeq, LenProperties DEF IsInjective
<1>2. others = 1..(Len(s) - 1)
  BY <1>1
<1>3. SelectInSeq(s, LAMBDA t : t # k) = IF others # {} THEN Min(others) ELSE 0
  BY DEF SelectInSeq
<1> HIDE DEF others
<1>4. CASE Len(s) > 1
  <2>1. 1 \in others /\ \A i \in others : i \in Int /\ 1 <= i
    BY <1>1, <1>2, <1>4
  <2>2. Min(others) = 1
    BY <2>1 DEF Min
  <2> QED
    BY <1>3, <1>4, <2>1, <2>2
<1>5. CASE ~(Len(s) > 1)
  <2>1. others = {}
    BY <1>1, <1>2, <1>5
  <2> QED
    BY <1>3, <1>5, <2>1
<1> QED
  BY <1>4, <1>5

\* The list is one of threads; with CacheIsSound this is inductive.
CacheInv == lru \in Seq(Threads) /\ CacheIsSound

\* The number of cached threads is the length of the list.
LEMMA CachedCounted ==
  ASSUME CacheInv
  PROVE  /\ Cached = {k \in Threads : Contains(lru, k)}
         /\ IsFiniteSet(Cached) /\ Cardinality(Cached) = Len(lru)
<1>1. Cached = {k \in Threads : Contains(lru, k)}
  BY DEF CacheInv, CacheIsSound, Cached
<1> QED
  BY <1>1, CountOfDistinct DEF CacheInv, CacheIsSound

\* An invariant list of the threads that are cached from now on, no longer than
\* the capacity.
LEMMA CacheMatches ==
  ASSUME lru' \in Seq(Threads), IsInjective(lru'), Len(lru') <= Cap,
         \A k \in Threads : cache'[k] # 0 <=> Contains(lru', k),
         activeKey' # NoThread => activeKey' \in Threads /\ cache'[activeKey'] # 0
  PROVE  CacheInv'
<1>1. Cached' = {k \in Threads : Contains(lru', k)}
  BY DEF Cached
<1>2. Cardinality({k \in Threads : Contains(lru', k)}) = Len(lru')
  BY CountOfDistinct
<1>3. Cardinality(Cached') <= Cap
  BY <1>1, <1>2
<1> QED
  BY <1>1, <1>3 DEF CacheInv, CacheIsSound, Cached

\* The list of an inductive cache: as long as the cache is full at most.
LEMMA ListShape ==
  ASSUME CacheInv
  PROVE  /\ lru \in Seq(Threads) /\ IsInjective(lru) /\ Len(lru) \in Nat /\ Len(lru) <= Cap
         /\ \A t \in Threads : cache[t] # 0 <=> Contains(lru, t)
<1>1. /\ lru \in Seq(Threads) /\ IsInjective(lru) /\ Cardinality(Cached) <= Cap
      /\ \A t \in Threads : t \in Cached <=> Contains(lru, t)
  BY DEF CacheInv, CacheIsSound
<1>2. Len(lru) <= Cap
  BY <1>1, CachedCounted
<1> QED
  BY <1>1, <1>2, LenProperties DEF Cached

\* A new loop either finds room in the cache or takes the place of the first of the list.
LEMMA ColdEffect ==
  ASSUME Typed, CacheInv, NEW k \in Threads, SubscribeCold(k)
  PROVE  /\ k \notin Cached /\ activeKey' = k /\ cache'[k] # 0
         /\ \/ /\ Cardinality(Cached \cup {k}) <= Cap /\ Len(Touched(k)) <= Cap
               /\ lru' = Touched(k) /\ stopped' = stopped
               /\ \A t \in Threads \ {k} : cache'[t] = cache[t]
            \/ /\ Cardinality(Cached \cup {k}) > Cap
               /\ 1 \in 1..Len(Touched(k)) /\ Touched(k)[1] \in Cached \ {k}
               /\ lru' = RemoveAt(Touched(k), 1) /\ Len(Touched(k)) = Len(lru) + 1
               /\ stopped' = stopped \cup {cache[Touched(k)[1]]}
               /\ \A t \in Threads \ {k} :
                     cache'[t] = IF t = Touched(k)[1] THEN 0 ELSE cache[t]
<1> DEFINE T == Touched(k)
           victim == SelectInSeq(T, LAMBDA t : t # k)
           full == Cardinality(Cached \cup {k}) > Cap /\ victim # 0
           evicted == IF full THEN {T[victim]} ELSE {}
<1>0. /\ lru \in Seq(Threads) /\ IsInjective(lru) /\ Len(lru) \in Nat /\ Len(lru) <= Cap
      /\ \A t \in Threads : cache[t] # 0 <=> Contains(lru, t)
  BY ListShape
<1>1. /\ T \in Seq(Threads) /\ IsInjective(T)
      /\ \A x : Contains(T, x) <=> Contains(lru, x) \/ x = k
      /\ Len(T) = IF Contains(lru, k) THEN Len(lru) ELSE Len(lru) + 1
      /\ T[Len(T)] = k
  BY <1>0, TouchedOnce
<1>2. /\ cache[k] = 0 /\ activeKey' = k
      /\ lru' = IF full THEN RemoveAt(T, victim) ELSE T
      /\ cache' = [t \in Threads |->
            IF t = k THEN spawned + 1 ELSE IF t \in evicted THEN 0 ELSE cache[t]]
      /\ stopped' = stopped \cup {cache[t] : t \in evicted}
  BY DEF SubscribeCold
<1>3. Len(T) = Len(lru) + 1 /\ T # <<>>
  BY <1>0, <1>1, <1>2, EmptySeq
<1>4. victim = IF Len(T) > 1 THEN 1 ELSE 0
  <2> HIDE DEF T
  <2> QED
    BY <1>1, <1>3, VictimIsFirst
<1>5. k \notin Cached /\ Cardinality(Cached \cup {k}) = Len(lru) + 1
  <2>1. k \notin Cached
    BY <1>2 DEF Cached
  <2> QED
    BY <2>1, CachedCounted, FS_AddElement
<1>6. cache'[k] # 0
  <2>1. spawned + 1 # 0
    BY DEF Typed, LoopsTyped
  <2> QED
    BY <1>2, <2>1
<1>7. CASE full
  <2>1. victim = 1 /\ Len(T) > 1
    BY <1>4, <1>7
  <2>2. 1 \in 1..Len(T) /\ T[1] \in Threads
    BY <1>1, <2>1, ElementOfSeq, LenProperties
  <2>3. T[1] # k
    <3>1. DOMAIN T = 1..Len(T) /\ Len(T) \in 1..Len(T) /\ Len(T) # 1
      BY <1>1, <2>1, LenProperties
    <3> QED
      BY <1>1, <2>2, <3>1 DEF IsInjective
  <2>4. lru' = RemoveAt(T, 1) /\ evicted = {T[1]} /\ Cardinality(Cached \cup {k}) > Cap
    BY <1>2, <1>7, <2>1
  <2> HIDE DEF T, victim, full, evicted
  <2>5. T[1] \in Cached
    <3>1. Contains(T, T[1])
      BY <2>2 DEF Contains
    <3> QED
      BY <1>0, <1>1, <2>2, <2>3, <3>1 DEF Cached
  <2>6. /\ \A t \in Threads \ {k} : cache'[t] = IF t = T[1] THEN 0 ELSE cache[t]
        /\ stopped' = stopped \cup {cache[T[1]]}
    BY <1>2, <2>4
  <2> QED
    BY <1>2, <1>3, <1>5, <1>6, <2>2, <2>3, <2>4, <2>5, <2>6 DEF T
<1>8. CASE ~full
  <2>1. lru' = T /\ evicted = {}
    BY <1>2, <1>8
  <2>2. Len(T) <= Cap
    BY <1>0, <1>3, <1>4, <1>5, <1>8
  <2>3. Cardinality(Cached \cup {k}) <= Cap
    BY <1>3, <1>5, <2>2
  <2> HIDE DEF T, victim, full, evicted
  <2>4. (\A t \in Threads \ {k} : cache'[t] = cache[t]) /\ stopped' = stopped
    BY <1>2, <2>1
  <2> QED
    BY <1>2, <1>5, <1>6, <2>1, <2>2, <2>3, <2>4 DEF T
<1> QED
  BY <1>7, <1>8

\* Subscribing keeps the list in step with the cache, and stops a cached loop at most.
LEMMA SubscribeCache ==
  ASSUME Typed, CacheInv, NEW k \in Threads, Subscribe(k)
  PROVE  CacheInv' /\ stopped' \subseteq stopped \cup {cache[t] : t \in Cached}
<1> DEFINE T == Touched(k)
<1>0. /\ lru \in Seq(Threads) /\ IsInjective(lru) /\ Len(lru) \in Nat /\ Len(lru) <= Cap
      /\ \A t \in Threads : cache[t] # 0 <=> Contains(lru, t)
  BY ListShape
<1>1. /\ T \in Seq(Threads) /\ IsInjective(T)
      /\ \A x : Contains(T, x) <=> Contains(lru, x) \/ x = k
      /\ Len(T) = IF Contains(lru, k) THEN Len(lru) ELSE Len(lru) + 1
  BY <1>0, TouchedOnce
<1>2. CASE SubscribeWarm(k)
  <2>1. cache[k] # 0 /\ lru' = T /\ activeKey' = k /\ UNCHANGED <<cache, stopped>>
    BY <1>2 DEF SubscribeWarm
  <2> HIDE DEF T
  <2>2. Contains(lru, k) /\ Len(T) <= Cap
    BY <1>0, <1>1, <2>1
  <2>3. \A t \in Threads : cache[t] # 0 <=> Contains(T, t)
    BY <1>0, <1>1, <2>2
  <2> QED
    BY <1>1, <2>1, <2>2, <2>3, CacheMatches
<1>3. CASE SubscribeCold(k)
  <2>1. activeKey' = k /\ cache'[k] # 0
    BY <1>3, ColdEffect
  <2>2. CASE /\ lru' = T /\ Len(T) <= Cap /\ stopped' = stopped
             /\ \A t \in Threads \ {k} : cache'[t] = cache[t]
    <3> HIDE DEF T
    <3>1. \A t \in Threads : cache'[t] # 0 <=> Contains(T, t)
      BY <1>0, <1>1, <2>1, <2>2
    <3> QED
      BY <1>1, <2>1, <2>2, <3>1, CacheMatches
  <2>3. CASE /\ 1 \in 1..Len(T) /\ T[1] \in Cached \ {k}
             /\ lru' = RemoveAt(T, 1) /\ Len(T) = Len(lru) + 1
             /\ stopped' = stopped \cup {cache[T[1]]}
             /\ \A t \in Threads \ {k} : cache'[t] = IF t = T[1] THEN 0 ELSE cache[t]
    <3> HIDE DEF T
    <3>1. lru' \in Seq(Threads) /\ Len(lru') = Len(lru)
      BY <1>0, <1>1, <2>3, Removal
    <3>2. IsInjective(lru') /\ \A x : Contains(lru', x) <=> Contains(T, x) /\ x # T[1]
      BY <1>1, <2>3, OneRemoved
    <3>3. ASSUME NEW t \in Threads
          PROVE  cache'[t] # 0 <=> Contains(lru', t)
      BY <1>0, <1>1, <2>1, <2>3, <3>2
    <3>4. CacheInv'
      BY <1>0, <2>1, <3>1, <3>2, <3>3, CacheMatches
    <3> QED
      BY <2>3, <3>4
  <2> QED
    BY <1>3, <2>2, <2>3, ColdEffect
<1> QED
  BY <1>2, <1>3 DEF Subscribe

\* Whatever step is taken, the list stays in step with the cache, and only cached
\* loops are stopped.
LEMMA CacheStep ==
  ASSUME Typed, CacheInv, [Next]_vars
  PROVE  CacheInv' /\ stopped' \subseteq stopped \cup {cache[t] : t \in Cached}
<1> DEFINE Sound == CacheInv' /\ stopped' \subseteq stopped \cup {cache[t] : t \in Cached}
<1>1. CASE UNCHANGED <<cache, lru, stopped>> /\ activeKey' \in {activeKey, NoThread}
  BY <1>1 DEF CacheInv, CacheIsSound, Cached
<1>2. ASSUME NEW k \in Threads, Subscribe(k)
      PROVE  Sound
  BY <1>2, SubscribeCache
<1>3. ASSUME NEW r \in Rooms, SelectRoom(r)
      PROVE  Sound
  <2>1. saved[r] # NoThread => saved[r] \in Threads
    BY DEF Typed, ViewTyped
  <2> HIDE DEF Sound
  <2> QED
    BY <1>1, <1>2, <1>3, <2>1 DEF SelectRoom, Show, Sound
<1>4. ASSUME NEW r \in Rooms, ReleaseRoom(r)
      PROVE  Sound
  <2> DEFINE gone == {k \in Cached : RoomOf[k] = r}
  <2>1. /\ cache' = [k \in Threads |-> IF k \in gone THEN 0 ELSE cache[k]]
        /\ lru' \in Retained(lru, gone)
        /\ activeKey' = IF activeKey \in gone THEN NoThread ELSE activeKey
        /\ stopped' = stopped \cup {cache[k] : k \in gone}
    BY <1>4 DEF ReleaseRoom
  <2>2. \A k \in gone : k \in Cached
    OBVIOUS
  <2> HIDE DEF gone
  <2>3. /\ lru \in Seq(Threads) /\ IsInjective(lru) /\ Cardinality(Cached) <= Cap
        /\ \A k \in Threads : cache[k] # 0 <=> Contains(lru, k)
        /\ activeKey # NoThread => cache[activeKey] # 0
        /\ activeKey \in Threads \cup {NoThread}
    BY DEF CacheInv, CacheIsSound, Cached, Typed, LoopsTyped
  <2>4. /\ lru' \in Seq(Threads) /\ IsInjective(lru')
        /\ \A x : Contains(lru', x) <=> Contains(lru, x) /\ x \notin gone
    BY <2>1, <2>3, RetainedOnly
  <2>5. \A k \in Threads : cache'[k] # 0 <=> Contains(lru', k)
    BY <2>1, <2>3, <2>4
  <2>6. activeKey' # NoThread => activeKey' \in Threads /\ cache'[activeKey'] # 0
    BY <2>1, <2>3
  <2>7. Len(lru') <= Cap
    <3>1. /\ IsFiniteSet({k \in Threads : Contains(lru', k)})
          /\ Cardinality({k \in Threads : Contains(lru', k)}) = Len(lru')
      BY <2>4, CountOfDistinct
    <3>2. {k \in Threads : Contains(lru', k)} \subseteq Cached
      BY <2>3, <2>4 DEF Cached
    <3>3. /\ Cardinality({k \in Threads : Contains(lru', k)}) <= Cardinality(Cached)
          /\ Cardinality(Cached) \in Nat /\ Len(lru') \in Nat
      BY <2>4, <3>1, <3>2, CachedCounted, FS_Subset, FS_CardinalityType, LenProperties
    <3> QED
      BY <2>3, <3>1, <3>3
  <2>8. CacheInv'
    BY <2>4, <2>5, <2>6, <2>7, CacheMatches
  <2> QED
    BY <2>1, <2>2, <2>8
<1> HIDE DEF Sound
<1>5. CASE User
  BY <1>1, <1>2, <1>3, <1>4, <1>5 DEF User, OpenThread, Show, CloseThread, CloseRoom, LoseRoom,
     Clear, Unsubscribe, RefreshThread, BeginPage, Sound
<1>6. CASE HandleNote \/ \E w \in Workers : Worker(w)
  BY <1>1, <1>6 DEF HandleNote, Worker, Deliver, PageDone, Fetch, SendPage, Sound
<1>7. ASSUME NEW i \in Loops, LoopStep(i)
      PROVE  Sound
  <2>1. UNCHANGED <<cacheVars, stopped>>
    BY <1>7, LoopEffect
  <2> QED
    BY <1>1, <2>1 DEF Sound
<1>8. ASSUME NEW k \in Threads, EventSent(k) \/ SyncDelivers(k)
      PROVE  Sound
  BY <1>1, <1>8 DEF EventSent, SyncDelivers, Sound
<1>9. CASE UNCHANGED vars
  BY <1>1, <1>9 DEF vars, Sound
<1> QED
  BY <1>5, <1>6, <1>7, <1>8, <1>9 DEF Next, Sound

\* At the beginning nothing is cached.
LEMMA CacheInit == Init => CacheInv
<1> SUFFICES ASSUME Init
             PROVE  CacheInv
  OBVIOUS
<1>1. lru = <<>> /\ cache = [k \in Threads |-> 0] /\ activeKey = NoThread
  BY DEF Init
<1>2. Cached = {} /\ Cardinality(Cached) = 0
  BY <1>1, FS_EmptySet DEF Cached
<1>3. /\ <<>> \in Seq(Threads) /\ IsInjective(<<>>) /\ \A k : ~Contains(<<>>, k)
  BY DEF IsInjective, Contains
<1> QED
  BY <1>1, <1>2, <1>3 DEF CacheInv, CacheIsSound

\* CacheIsSound: the list of recent use holds every cached thread once, the cache
\* stays within its capacity and the active thread in the cache.
THEOREM CacheStaysSound == Spec => []CacheIsSound
<1>1. Typed /\ CacheInv /\ [Next]_vars => CacheInv'
  BY CacheStep
<1>2. CacheInv => CacheIsSound
  BY DEF CacheInv
<1> QED
  BY <1>1, <1>2, CacheInit, AlwaysTyped, PTL DEF Spec

-----------------------------------------------------------------------------
(* The steps of RecentlyUsed *)

\* The list of those that stay, in which k was touched, is the abstract order after a
\* use of k.
LEMMA TouchIsUse ==
  ASSUME CacheInv, NEW k \in Threads, NEW E \in SUBSET (Threads \ {k}),
         Cached' = (Cached \cup {k}) \ E,
         \A x, y : Earlier(lru', x, y) <=> Earlier(Touched(k), x, y) /\ x \notin E /\ y \notin E
  PROVE  UsedBefore' = {p \in UsedBefore : {p[1], p[2]} \subseteq Cached' \ {k}}
                            \cup (Cached' \ {k}) \X {k}
<1>1. lru \in Seq(Threads) /\ IsInjective(lru) /\ \A t \in Threads : Contains(lru, t) <=> t \in Cached
  BY DEF CacheInv, CacheIsSound
<1>2. \A x, y \in Threads : <<x, y>> \in UsedBefore <=> Earlier(lru, x, y)
  BY DEF UsedBefore, Earlier
<1>3. \A x, y \in Threads : <<x, y>> \in UsedBefore' <=> Earlier(lru', x, y)
  BY DEF UsedBefore, Earlier
<1>4. \A x, y : Earlier(Touched(k), x, y) <=>
        \/ Earlier(lru, x, y) /\ x # k /\ y # k
        \/ Contains(lru, x) /\ x # k /\ y = k
  BY <1>1, TouchedOnce
<1>5. \A x, y : Earlier(lru, x, y) => Contains(lru, x) /\ Contains(lru, y)
  BY DEF Earlier, Contains
<1>6. ASSUME NEW x \in Threads, NEW y \in Threads
      PROVE  <<x, y>> \in UsedBefore' <=>
               \/ <<x, y>> \in UsedBefore /\ x \in Cached' \ {k} /\ y \in Cached' \ {k}
               \/ x \in Cached' \ {k} /\ y = k
  <2>1. <<x, y>> \in UsedBefore' <=>
          /\ x \notin E /\ y \notin E
          /\ \/ Earlier(lru, x, y) /\ x # k /\ y # k
             \/ Contains(lru, x) /\ x # k /\ y = k
    BY <1>3, <1>4
  <2>2. Earlier(lru, x, y) => x \in Cached /\ y \in Cached
    BY <1>1, <1>5
  <2> QED
    BY <1>1, <1>2, <2>1, <2>2
<1> DEFINE old == {p \in UsedBefore : {p[1], p[2]} \subseteq Cached' \ {k}}
           new == (Cached' \ {k}) \X {k}
<1>7. /\ UsedBefore \subseteq Threads \X Threads /\ UsedBefore' \subseteq Threads \X Threads
      /\ Cached' \subseteq Threads
  BY DEF UsedBefore, Cached
<1>8. old \subseteq Threads \X Threads /\ new \subseteq Threads \X Threads
  BY <1>7
<1>9. ASSUME NEW x \in Threads, NEW y \in Threads
      PROVE  <<x, y>> \in UsedBefore' <=> <<x, y>> \in old \cup new
  <2>1. <<x, y>> \in old <=>
          <<x, y>> \in UsedBefore /\ x \in Cached' \ {k} /\ y \in Cached' \ {k}
    OBVIOUS
  <2>2. <<x, y>> \in new <=> x \in Cached' \ {k} /\ y = k
    OBVIOUS
  <2> HIDE DEF old, new
  <2> QED
    BY <1>6, <2>1, <2>2
<1> HIDE DEF old, new
<1>10. ASSUME NEW p \in Threads \X Threads
       PROVE  p \in UsedBefore' <=> p \in old \cup new
  <2>1. PICK x \in Threads, y \in Threads : p = <<x, y>>
    OBVIOUS
  <2> QED
    BY <1>9, <2>1
<1>11. UsedBefore' = old \cup new
  BY <1>7, <1>8, <1>10
<1> QED
  BY <1>11 DEF old, new

\* The abstract module counts like this one.
LEMMA SameCount ==
  ASSUME NEW S
  PROVE  Recent!Cardinality(S) = Cardinality(S)
  BY DEF Recent!Cardinality, Cardinality

\* A thread that is opened again is used again; a new one is kept, or it replaces the
\* first of the list, before which no other was used.
LEMMA SubscribeIsUse ==
  ASSUME Typed, CacheInv, NEW k \in Threads, Subscribe(k)
  PROVE  Recent!Keep(k) \/ Recent!Replace(k)
<1> DEFINE T == Touched(k)
           Use == UsedBefore' = {p \in UsedBefore : {p[1], p[2]} \subseteq Cached' \ {k}}
                                  \cup (Cached' \ {k}) \X {k}
<1>1. /\ lru \in Seq(Threads) /\ IsInjective(lru) /\ Len(lru) \in Nat
      /\ \A t \in Threads : cache[t] # 0 <=> Contains(lru, t)
  BY ListShape
<1>2. /\ T \in Seq(Threads) /\ IsInjective(T)
      /\ \A x : Contains(T, x) <=> Contains(lru, x) \/ x = k
      /\ \A x, y : Earlier(T, x, y) <=>
            \/ Earlier(lru, x, y) /\ x # k /\ y # k
            \/ Contains(lru, x) /\ x # k /\ y = k
  BY <1>1, TouchedOnce
<1>3. CASE SubscribeWarm(k)
  <2>1. cache[k] # 0 /\ lru' = T /\ cache' = cache
    BY <1>3 DEF SubscribeWarm
  <2> HIDE DEF T
  <2>2. k \in Cached /\ Cached' = Cached /\ Cached \cup {k} = Cached
    BY <2>1 DEF Cached
  <2>3. Cardinality(Cached \cup {k}) <= Cap
    BY <2>2 DEF CacheInv, CacheIsSound
  <2>4. Use
    <3>1. Cached' = (Cached \cup {k}) \ {} /\ {} \in SUBSET (Threads \ {k})
      BY <2>2
    <3>2. \A x, y : Earlier(lru', x, y) <=> Earlier(Touched(k), x, y) /\ x \notin {} /\ y \notin {}
      BY <2>1 DEF T
    <3> QED
      BY <3>1, <3>2, TouchIsUse
  <2> QED
    BY <2>2, <2>3, <2>4, SameCount DEF Recent!Keep, Recent!UsedLast
<1>4. CASE SubscribeCold(k)
  <2>1. k \notin Cached /\ cache'[k] # 0
    BY <1>4, ColdEffect
  <2>2. CASE /\ Cardinality(Cached \cup {k}) <= Cap /\ lru' = T
             /\ \A t \in Threads \ {k} : cache'[t] = cache[t]
    <3> HIDE DEF T
    <3>1. Cached' = (Cached \cup {k}) \ {} /\ {} \in SUBSET (Threads \ {k})
      BY <2>1, <2>2 DEF Cached
    <3>2. \A x, y : Earlier(lru', x, y) <=> Earlier(Touched(k), x, y) /\ x \notin {} /\ y \notin {}
      BY <2>2 DEF T
    <3>3. Use
      BY <3>1, <3>2, TouchIsUse
    <3> QED
      BY <2>2, <3>1, <3>3, SameCount DEF Recent!Keep, Recent!UsedLast
  <2>3. CASE /\ Cardinality(Cached \cup {k}) > Cap
             /\ 1 \in 1..Len(T) /\ T[1] \in Cached \ {k}
             /\ lru' = RemoveAt(T, 1)
             /\ \A t \in Threads \ {k} : cache'[t] = IF t = T[1] THEN 0 ELSE cache[t]
    <3> DEFINE v == T[1]
    <3>0. v \in Threads \ {k} /\ v \in Cached
      BY <2>3 DEF Cached
    <3>1. Cached' = (Cached \cup {k}) \ {v} /\ Cached' = (Cached \ {v}) \cup {k}
      <4> HIDE DEF T, v
      <4>1. \A t \in Threads \ {k} : cache'[t] # 0 <=> cache[t] # 0 /\ t # v
        BY <2>3 DEF v
      <4> QED
        BY <2>1, <3>0, <4>1 DEF Cached
    <3>2. \A x, y : Earlier(lru', x, y) <=> Earlier(T, x, y) /\ x \notin {v} /\ y \notin {v}
      <4> HIDE DEF T
      <4>1. \A x, y : Earlier(RemoveAt(T, 1), x, y) <=> Earlier(T, x, y) /\ x # T[1] /\ y # T[1]
        BY <1>2, <2>3, RemovedOrder
      <4> QED
        BY <2>3, <4>1
    <3>3. Use
      <4> HIDE DEF v
      <4>1. {v} \in SUBSET (Threads \ {k})
        BY <3>0
      <4> QED
        BY <3>1, <3>2, <4>1, TouchIsUse DEF T
    <3>4. ASSUME NEW w \in Cached \ {k, v}
          PROVE  <<v, w>> \in UsedBefore
      <4> HIDE DEF T
      <4>1. Contains(T, w) /\ w \in Threads
        BY <1>1, <1>2 DEF Cached
      <4>2. PICK j \in 1..Len(T) : T[j] = w
        BY <4>1 DEF Contains
      <4>3. 1 < j
        <5>1. j # 1
          BY <4>2
        <5>2. j \in Int /\ 1 <= j
          BY <1>2, LenProperties
        <5> QED
          BY <5>1, <5>2
      <4>4. Earlier(T, v, w)
        BY <2>3, <4>2, <4>3 DEF Earlier
      <4>5. Earlier(lru, v, w)
        BY <1>2, <4>4
      <4> QED
        BY <3>0, <4>1, <4>5 DEF UsedBefore, Earlier
    <3> HIDE DEF v, T
    <3> QED
      BY <2>3, <3>0, <3>1, <3>3, <3>4, SameCount DEF Recent!Replace, Recent!UsedLast
  <2> QED
    BY <1>4, <2>2, <2>3, ColdEffect
<1> QED
  BY <1>3, <1>4 DEF Subscribe

\* A release drops the threads of its room.
LEMMA ReleaseIsDrop ==
  ASSUME Typed, CacheInv, NEW r \in Rooms, ReleaseRoom(r)
  PROVE  \E S \in SUBSET Cached : Recent!Drop(S)
<1> DEFINE gone == {k \in Cached : RoomOf[k] = r}
<1>1. /\ cache' = [k \in Threads |-> IF k \in gone THEN 0 ELSE cache[k]]
      /\ lru' \in Retained(lru, gone)
  BY DEF ReleaseRoom
<1>2. gone \in SUBSET Cached
  OBVIOUS
<1> HIDE DEF gone
<1>3. Cached' = Cached \ gone
  BY <1>1, <1>2 DEF Cached
<1>4. lru \in Seq(Threads) /\ IsInjective(lru)
  BY ListShape
<1>5. \A x, y : Earlier(lru', x, y) <=> Earlier(lru, x, y) /\ x \notin gone /\ y \notin gone
  BY <1>1, <1>4, RetainedOnly
<1>6. UsedBefore' = {p \in UsedBefore : {p[1], p[2]} \cap gone = {}}
  <2>1. \A x, y \in Threads : <<x, y>> \in UsedBefore <=> Earlier(lru, x, y)
    BY DEF UsedBefore, Earlier
  <2>2. \A x, y \in Threads : <<x, y>> \in UsedBefore' <=> Earlier(lru', x, y)
    BY DEF UsedBefore, Earlier
  <2>3. UsedBefore \subseteq Threads \X Threads /\ UsedBefore' \subseteq Threads \X Threads
    BY DEF UsedBefore
  <2>4. \A x, y \in Threads : <<x, y>> \in UsedBefore' <=>
          <<x, y>> \in UsedBefore /\ x \notin gone /\ y \notin gone
    BY <1>5, <2>1, <2>2
  <2> QED
    BY <2>3, <2>4
<1> QED
  BY <1>2, <1>3, <1>6 DEF Recent!Drop

\* KeepsRecentThreads: the map of loops and the list of recent use are a cache that
\* gives up what was not used for the longest time, where a thread is used whenever it
\* becomes the active one.
THEOREM CacheIsLeastRecentlyUsed == Spec => KeepsRecentThreads
<1>1. Init => Recent!Init
  <2> SUFFICES ASSUME Init
               PROVE  Cached = {} /\ UsedBefore = {}
    BY DEF Recent!Init
  <2>1. lru = <<>> /\ cache = [k \in Threads |-> 0]
    BY DEF Init
  <2>2. Len(lru) = 0
    BY <2>1
  <2> QED
    BY <2>1, <2>2 DEF Cached, UsedBefore
<1>2. Typed /\ CacheInv /\ [Next]_vars => [Recent!Next]_(Recent!vars)
  <2> SUFFICES ASSUME Typed, CacheInv, [Next]_vars
               PROVE  Recent!Next \/ UNCHANGED Recent!vars
    OBVIOUS
  <2> DEFINE Mapped == Recent!Next \/ UNCHANGED Recent!vars
  <2>1. CASE UNCHANGED <<cache, lru>>
    BY <2>1 DEF Recent!vars, Cached, UsedBefore
  <2>2. ASSUME NEW k \in Threads, Subscribe(k)
        PROVE  Mapped
    BY <2>2, SubscribeIsUse DEF Recent!Next
  <2>3. ASSUME NEW r \in Rooms, SelectRoom(r)
        PROVE  Mapped
    <3>1. saved[r] # NoThread => saved[r] \in Threads
      BY DEF Typed, ViewTyped
    <3> HIDE DEF Mapped
    <3>2. CASE saved[r] # NoThread
      BY <2>2, <2>3, <3>1, <3>2 DEF SelectRoom, Show
    <3>3. CASE saved[r] = NoThread
      BY <2>1, <2>3, <3>3 DEF SelectRoom, cacheVars, Mapped
    <3> QED
      BY <3>2, <3>3
  <2>4. ASSUME NEW r \in Rooms, ReleaseRoom(r)
        PROVE  Mapped
    BY <2>4, ReleaseIsDrop DEF Recent!Next
  <2> HIDE DEF Mapped
  <2>5. ASSUME NEW k \in Threads, OpenThread(k)
        PROVE  Mapped
    BY <2>2, <2>5 DEF OpenThread, Show
  <2>6. CASE CloseThread \/ CloseRoom \/ LoseRoom \/ RefreshThread \/ BeginPage \/ HandleNote
    <3>1. UNCHANGED <<cache, lru>>
      BY <2>6 DEF CloseThread, CloseRoom, LoseRoom, Clear, Unsubscribe, RefreshThread, BeginPage,
         HandleNote, cacheVars
    <3> QED
      BY <2>1, <3>1 DEF Mapped
  <2>7. ASSUME NEW w \in Workers, Worker(w)
        PROVE  Mapped
    <3>1. UNCHANGED <<cache, lru>>
      BY <2>7 DEF Worker, Deliver, PageDone, Fetch, SendPage, cacheVars
    <3> QED
      BY <2>1, <3>1 DEF Mapped
  <2>8. ASSUME NEW i \in Loops, LoopStep(i)
        PROVE  Mapped
    <3>1. UNCHANGED <<cache, lru>>
      BY <2>8, LoopEffect DEF cacheVars
    <3> QED
      BY <2>1, <3>1 DEF Mapped
  <2>9. ASSUME NEW k \in Threads, EventSent(k) \/ SyncDelivers(k)
        PROVE  Mapped
    <3>1. UNCHANGED <<cache, lru>>
      BY <2>9 DEF EventSent, SyncDelivers, cacheVars
    <3> QED
      BY <2>1, <3>1 DEF Mapped
  <2>10. CASE UNCHANGED vars
    <3>1. UNCHANGED <<cache, lru>>
      BY <2>10 DEF vars, cacheVars
    <3> QED
      BY <2>1, <3>1 DEF Mapped
  <2>11. Mapped
    BY <2>3, <2>4, <2>5, <2>6, <2>7, <2>8, <2>9, <2>10 DEF Next, User, Mapped
  <2> QED
    BY <2>11 DEF Mapped
<1>3. Typed /\ CacheInv /\ [Next]_vars => CacheInv'
  BY CacheStep
<1> DEFINE Used == activeKey' \notin {activeKey, NoThread} => Uses(activeKey')
<1>4. Typed /\ CacheInv /\ [Next]_vars => [Used]_vars
  <2> SUFFICES ASSUME Typed, CacheInv, Next, activeKey' \notin {activeKey, NoThread}
               PROVE  Uses(activeKey')
    OBVIOUS
  <2>1. ASSUME NEW k \in Threads, Subscribe(k)
        PROVE  Uses(activeKey')
    <3>1. activeKey' = k
      BY <2>1 DEF Subscribe, SubscribeWarm, SubscribeCold
    <3> QED
      BY <2>1, <3>1, SubscribeIsUse DEF Uses
  <2>2. PICK k \in Threads : Subscribe(k)
    <3>1. \A r \in Rooms : saved[r] # NoThread => saved[r] \in Threads
      BY DEF Typed, ViewTyped
    <3>2. ~\E i \in Loops : LoopStep(i)
      BY LoopEffect DEF cacheVars
    <3>3. ~(HandleNote \/ \E w \in Workers : Worker(w))
      BY DEF HandleNote, Worker, Deliver, PageDone, Fetch, SendPage, cacheVars
    <3>4. ~\E k \in Threads : EventSent(k) \/ SyncDelivers(k)
      BY DEF EventSent, SyncDelivers, cacheVars
    <3>5. ~(CloseThread \/ CloseRoom \/ LoseRoom \/ RefreshThread \/ BeginPage)
      BY DEF CloseThread, CloseRoom, LoseRoom, Clear, Unsubscribe, RefreshThread, BeginPage, cacheVars
    <3>6. ~\E r \in Rooms : ReleaseRoom(r)
      BY DEF ReleaseRoom
    <3>7. (\E k \in Threads : OpenThread(k)) \/ \E r \in Rooms : SelectRoom(r)
      BY <3>2, <3>3, <3>4, <3>5, <3>6 DEF Next, User
    <3>8. ASSUME NEW r \in Rooms, SelectRoom(r)
          PROVE  saved[r] # NoThread /\ Subscribe(saved[r])
      BY <3>8 DEF SelectRoom, Show, cacheVars
    <3> QED
      BY <3>1, <3>7, <3>8 DEF OpenThread, Show
  <2> QED
    BY <2>1, <2>2
<1> QED
  BY <1>1, <1>2, <1>3, <1>4, CacheInit, AlwaysTyped, PTL DEF Spec, KeepsRecentThreads, Recent!Spec

-----------------------------------------------------------------------------
(* What is left of TypeOK *)

\* Beyond the types: models and snapshots have items, only started loops are
\* stopped, and the notes keep within their bound.
MoreTyped ==
    /\ \A k \in Threads : entries[k].items \in Threads
    /\ \A w \in Workers : workers[w].op = "fetched" => workers[w].items \in Threads
    /\ stopped \subseteq 1..spawned
    /\ Len(notes) <= MaxNotes

\* The inductive invariant of TypeOK.
TypeInv == Typed /\ CacheInv /\ MoreTyped

\* A loop that posts a note has found room for it.
LEMMA LoopPosts ==
  ASSUME NEW i \in Loops, LoopStep(i)
  PROVE  notes' = notes \/ Len(notes) < MaxNotes
<1>1. \A l : Publish(l) => notes' = notes \/ Len(notes) < MaxNotes
  BY DEF Publish
<1> QED
  BY <1>1 DEF LoopStep, LoopStarts, ServerAnswers, RequestFails, AnswerArrives, DeadlineFires,
     Diff, StreamEnds, ChannelClosed

\* One more note.
LEMMA NotesFit ==
  ASSUME notes \in Seq(Threads), Len(notes) <= MaxNotes, NEW k \in Threads,
         \/ notes' = notes
         \/ Len(notes) < MaxNotes /\ notes' = Append(notes, k)
  PROVE  Len(notes') <= MaxNotes
<1>1. Len(notes) \in Nat /\ Len(Append(notes, k)) = Len(notes) + 1
  BY LenProperties, AppendProperties
<1> QED
  BY <1>1

\* Whatever step is taken, the notes keep within their bound.
LEMMA NotesBounded ==
  ASSUME Typed, Len(notes) <= MaxNotes, [Next]_vars
  PROVE  Len(notes') <= MaxNotes
<1>0. notes \in Seq(Threads)
  BY DEF Typed, WorkTyped
<1>1. CASE notes' = notes
  BY <1>1
<1>2. ASSUME NEW k \in Threads, Subscribe(k)
      PROVE  Len(notes') <= MaxNotes
  BY <1>0, <1>2, NotesFit DEF Subscribe, SubscribeWarm, SubscribeCold
<1>3. ASSUME NEW r \in Rooms, SelectRoom(r)
      PROVE  Len(notes') <= MaxNotes
  <2>1. saved[r] # NoThread => saved[r] \in Threads
    BY DEF Typed, ViewTyped
  <2> QED
    BY <1>1, <1>2, <1>3, <2>1 DEF SelectRoom, Show
<1>4. CASE User
  BY <1>1, <1>2, <1>3, <1>4 DEF User, OpenThread, Show, CloseThread, CloseRoom, LoseRoom,
     Clear, Unsubscribe, RefreshThread, BeginPage, ReleaseRoom
<1>5. CASE HandleNote
  <2>1. notes # <<>> /\ notes' = Tail(notes)
    BY <1>5 DEF HandleNote
  <2>2. Len(Tail(notes)) = Len(notes) - 1 /\ Len(notes) \in Nat
    BY <1>0, <2>1, HeadTailProperties, LenProperties
  <2> QED
    BY <2>1, <2>2
<1>6. ASSUME NEW w \in Workers, Worker(w)
      PROVE  Len(notes') <= MaxNotes
  <2>1. \/ notes' = notes
        \/ CanSend /\ Len(notes) < MaxNotes /\ notes' = Append(notes, activeKey)
    BY <1>6 DEF Worker, Deliver, PageDone, Fetch, SendPage
  <2>2. CanSend => activeKey \in Threads
    BY DEF CanSend, ActiveLoop, Typed, LoopsTyped
  <2> QED
    BY <1>0, <1>1, <2>1, <2>2, NotesFit
<1>7. ASSUME NEW i \in Loops, LoopStep(i)
      PROVE  Len(notes') <= MaxNotes
  <2>1. PICK l \in LoopSet :
          /\ i <= spawned /\ l.thread = loops[i].thread
          /\ notes' = notes \/ notes' = Append(notes, l.thread)
    BY <1>7, LoopEffect
  <2>2. l.thread \in Threads
    BY <2>1 DEF Typed, LoopsTyped
  <2> QED
    BY <1>0, <1>7, <2>1, <2>2, LoopPosts, NotesFit
<1>8. ASSUME NEW k \in Threads, EventSent(k) \/ SyncDelivers(k)
      PROVE  Len(notes') <= MaxNotes
  BY <1>1, <1>8 DEF EventSent, SyncDelivers
<1>9. CASE UNCHANGED vars
  BY <1>1, <1>9 DEF vars
<1> QED
  BY <1>4, <1>5, <1>6, <1>7, <1>8, <1>9 DEF Next

\* Only loops that were started are stopped: those of the cache are.
LEMMA StoppedStarted ==
  ASSUME Typed, CacheInv, stopped \subseteq 1..spawned, [Next]_vars
  PROVE  stopped' \subseteq 1..spawned'
<1>1. stopped' \subseteq stopped \cup {cache[t] : t \in Cached}
  BY CacheStep
<1>2. \A t \in Cached : cache[t] \in 1..spawned
  BY DEF Cached, Typed, LoopsTyped
<1>3. spawned \in Nat /\ spawned' \in Nat /\ spawned <= spawned'
  <2> SUFFICES spawned' \in {spawned, spawned + 1}
    BY DEF Typed, LoopsTyped
  <2>2. ASSUME NEW k \in Threads, Subscribe(k)
        PROVE  spawned' \in {spawned, spawned + 1}
    BY <2>2 DEF Subscribe, SubscribeWarm, SubscribeCold
  <2>3. ASSUME NEW r \in Rooms, SelectRoom(r)
        PROVE  spawned' \in {spawned, spawned + 1}
    <3>1. saved[r] # NoThread => saved[r] \in Threads
      BY DEF Typed, ViewTyped
    <3> QED
      BY <2>2, <2>3, <3>1 DEF SelectRoom, Show
  <2>4. CASE User
    BY <2>2, <2>3, <2>4 DEF User, OpenThread, Show, CloseThread, CloseRoom, LoseRoom,
       Clear, Unsubscribe, RefreshThread, BeginPage, ReleaseRoom
  <2>5. CASE HandleNote \/ \E w \in Workers : Worker(w)
    BY <2>5 DEF HandleNote, Worker, Deliver, PageDone, Fetch, SendPage
  <2>6. ASSUME NEW i \in Loops, LoopStep(i)
        PROVE  spawned' = spawned
    BY <2>6, LoopEffect
  <2>7. ASSUME NEW k \in Threads, EventSent(k) \/ SyncDelivers(k)
        PROVE  spawned' = spawned
    BY <2>7 DEF EventSent, SyncDelivers
  <2>8. CASE UNCHANGED vars
    BY <2>8 DEF vars
  <2> QED
    BY <2>4, <2>5, <2>6, <2>7, <2>8 DEF Next
<1> QED
  BY <1>1, <1>2, <1>3

\* Models have the items of some thread: their own at first, then those of snapshots.
LEMMA ItemsTyped ==
  ASSUME Typed, MoreTyped, [Next]_vars
  PROVE  /\ \A k \in Threads : entries'[k].items \in Threads
         /\ \A w \in Workers : workers'[w].op = "fetched" => workers'[w].items \in Threads
<1> DEFINE Items == \A k \in Threads : entries'[k].items \in Threads
           Found == \A w \in Workers : workers'[w].op = "fetched" => workers'[w].items \in Threads
<1>0. /\ entries \in [Threads -> EntrySet] /\ workers \in [Workers -> WorkerSet]
      /\ \A k \in Threads : entries[k].items \in Threads
      /\ \A w \in Workers : workers[w].op = "fetched" => workers[w].items \in Threads
  BY DEF Typed, ViewTyped, WorkTyped, MoreTyped
<1>1. ASSUME entries' = entries
      PROVE  Items
  BY <1>0, <1>1
<1>2. ASSUME workers' = workers
      PROVE  Found
  BY <1>0, <1>2
<1>3. ASSUME NEW k \in Threads, entries' = [entries EXCEPT ![k].loading = TRUE]
      PROVE  Items
  <2>1. entries[k] \in EntrySet /\ [entries[k] EXCEPT !.loading = TRUE].items = entries[k].items
    BY <1>0 DEF EntrySet
  <2> QED
    BY <1>0, <1>3, <2>1
<1>4. ASSUME NEW w \in Workers, NEW op \in {"fetch", "page"}, NEW k, StartWorker(w, op, k)
      PROVE  Found
  <2>1. workers' = [workers EXCEPT ![w] = [Idle EXCEPT !.op = op, !.thread = k]]
    BY <1>4 DEF StartWorker
  <2>2. [Idle EXCEPT !.op = op, !.thread = k].op = op
    BY DEF Idle
  <2> QED
    BY <1>0, <2>1, <2>2
<1>5. ASSUME NEW k \in Threads, Show(k)
      PROVE  Items
  BY <1>3, <1>5 DEF Show
<1>6. ASSUME NEW r \in Rooms, SelectRoom(r)
      PROVE  Items
  <2>1. saved[r] # NoThread => saved[r] \in Threads
    BY DEF Typed, ViewTyped
  <2> HIDE DEF Items
  <2> QED
    BY <1>1, <1>5, <1>6, <2>1 DEF SelectRoom
<1>7. ASSUME Clear
      PROVE  Items
  BY <1>7 DEF Clear, NewEntry
<1>8. ASSUME BeginPage
      PROVE  Items /\ Found
  <2>1. thread \in Threads
    BY <1>8 DEF BeginPage, Typed, ViewTyped
  <2>2. Items
    BY <1>3, <1>8, <2>1 DEF BeginPage
  <2>3. Found
    <3> HIDE DEF Found
    <3> QED
      BY <1>4, <1>8 DEF BeginPage
  <2> QED
    BY <2>2, <2>3
<1>9. CASE User
  <2>1. Items
    <3> HIDE DEF Items
    <3> QED
      BY <1>1, <1>5, <1>6, <1>7, <1>8, <1>9 DEF User, OpenThread, CloseThread, CloseRoom, LoseRoom,
         RefreshThread, ReleaseRoom
  <2>2. Found
    <3> HIDE DEF Found
    <3> QED
      BY <1>2, <1>8, <1>9 DEF User, OpenThread, CloseThread, SelectRoom, CloseRoom, LoseRoom, Clear,
         RefreshThread, ReleaseRoom
  <2> QED
    BY <2>1, <2>2
<1>10. ASSUME HandleNote
       PROVE  Items /\ Found
  <2>1. Items
    BY <1>1, <1>10 DEF HandleNote
  <2>2. Found
    <3> HIDE DEF Found
    <3> QED
      BY <1>2, <1>4, <1>10 DEF HandleNote
  <2> QED
    BY <2>1, <2>2
<1>11. ASSUME NEW w \in Workers, Deliver(w)
       PROVE  Items /\ Found
  <2> DEFINE k == workers[w].thread
             e == [loading |-> FALSE,
                   items   |-> IF workers[w].op = "failed" THEN entries[k].items ELSE workers[w].items]
  <2>1. /\ workers[w].op \in {"fetched", "failed"} /\ workers' = [workers EXCEPT ![w] = Idle]
        /\ entries' = entries \/ entries' = [entries EXCEPT ![k] = e]
    BY <1>11 DEF Deliver
  <2>2. k \in Threads
    BY <2>1 DEF Typed, WorkTyped
  <2>3. e.items \in Threads
    BY <1>0, <2>1, <2>2
  <2>4. Found
    <3>1. Idle.op = "idle"
      BY DEF Idle
    <3> QED
      BY <1>0, <2>1, <3>1
  <2> HIDE DEF e, k
  <2>5. Items
    BY <1>0, <2>1, <2>2, <2>3
  <2> QED
    BY <2>4, <2>5
<1>12. ASSUME NEW w \in Workers, PageDone(w)
       PROVE  Items /\ Found
  <2> DEFINE k == workers[w].thread
             e == [entries[k] EXCEPT !.loading = FALSE]
  <2>1. /\ workers[w].op = "paged" /\ workers' = [workers EXCEPT ![w] = Idle]
        /\ entries' = [entries EXCEPT ![k] = e]
    BY <1>12 DEF PageDone
  <2>2. k \in Threads
    BY <2>1 DEF Typed, WorkTyped
  <2>3. e.items \in Threads
    <3>1. entries[k] \in EntrySet
      BY <1>0, <2>2
    <3> QED
      BY <1>0, <2>2, <3>1 DEF EntrySet
  <2>4. Found
    <3>1. Idle.op = "idle"
      BY DEF Idle
    <3> QED
      BY <1>0, <2>1, <3>1
  <2> HIDE DEF e, k
  <2>5. Items
    BY <1>0, <2>1, <2>2, <2>3
  <2> QED
    BY <2>4, <2>5
<1>13. ASSUME NEW w \in Workers, Fetch(w) \/ SendPage(w)
       PROVE  Items /\ Found
  <2>1. entries' = entries
    BY <1>13 DEF Fetch, SendPage
  <2>2. workers[w] \in WorkerSet
    BY <1>0
  <2>3. CASE Fetch(w)
    <3> DEFINE e == IF ActiveLoop = 0 THEN [workers[w] EXCEPT !.op = "failed"]
                    ELSE [workers[w] EXCEPT !.op = "fetched", !.items = activeKey]
    <3>1. workers' = [workers EXCEPT ![w] = e]
      BY <2>3 DEF Fetch
    <3>2. ActiveLoop # 0 => activeKey \in Threads
      BY DEF ActiveLoop, Typed, LoopsTyped
    <3>3. e.op = "fetched" => e.items \in Threads
      BY <2>2, <3>2 DEF WorkerSet
    <3> HIDE DEF e
    <3> QED
      BY <1>0, <1>1, <2>1, <3>1, <3>3
  <2>4. CASE SendPage(w)
    <3> DEFINE e == [workers[w] EXCEPT !.op = "paged"]
    <3>1. workers' = [workers EXCEPT ![w] = e]
      BY <2>4 DEF SendPage
    <3>2. e.op = "paged"
      BY <2>2 DEF WorkerSet
    <3> HIDE DEF e
    <3> QED
      BY <1>0, <1>1, <2>1, <3>1, <3>2
  <2> QED
    BY <1>13, <2>3, <2>4
<1>14. ASSUME NEW i \in Loops, LoopStep(i)
       PROVE  Items /\ Found
  <2>1. UNCHANGED <<entries, workers>>
    BY <1>14, LoopEffect
  <2> QED
    BY <1>1, <1>2, <2>1
<1>15. ASSUME NEW k \in Threads, EventSent(k) \/ SyncDelivers(k)
       PROVE  Items /\ Found
  <2>1. UNCHANGED <<entries, workers>>
    BY <1>15 DEF EventSent, SyncDelivers
  <2> QED
    BY <1>1, <1>2, <2>1
<1>16. CASE UNCHANGED vars
  BY <1>1, <1>2, <1>16 DEF vars
<1> HIDE DEF Items, Found
<1> QED
  BY <1>9, <1>10, <1>11, <1>12, <1>13, <1>14, <1>15, <1>16 DEF Next, Worker, Items, Found

\* The types and the order of recent use hold together in every state.
LEMMA TypesAlways == Spec => []TypeInv
<1>1. Init => TypeInv
  <2> SUFFICES ASSUME Init
               PROVE  MoreTyped
    BY InitTypes, CacheInit DEF TypeInv
  <2>1. /\ entries = [k \in Threads |-> NewEntry(k)] /\ workers = [w \in Workers |-> Idle]
        /\ stopped = {} /\ notes = <<>>
    BY DEF Init
  <2>2. Idle.op = "idle" /\ \A k : NewEntry(k).items = k
    BY DEF Idle, NewEntry
  <2>3. Len(<<>>) <= MaxNotes
    OBVIOUS
  <2> QED
    BY <2>1, <2>2, <2>3 DEF MoreTyped
<1>2. TypeInv /\ [Next]_vars => TypeInv'
  <2> SUFFICES ASSUME TypeInv, [Next]_vars
               PROVE  TypeInv'
    OBVIOUS
  <2>1. Typed' /\ CacheInv'
    BY NextTypes, CacheStep DEF TypeInv
  <2>2. MoreTyped'
    BY ItemsTyped, StoppedStarted, NotesBounded DEF TypeInv, MoreTyped
  <2> QED
    BY <2>1, <2>2 DEF TypeInv
<1> QED
  BY <1>1, <1>2, PTL DEF Spec

\* TypeOK: the types; only started loops are cached and stopped, the thread on
\* screen and every kept one are of their rooms, the notes keep within their bound.
THEOREM TypesHold == Spec => []TypeOK
<1>1. TypeInv => TypeOK
  <2> SUFFICES ASSUME TypeInv
               PROVE  TypeOK
    OBVIOUS
  <2>1. entries \in [Threads -> [loading : BOOLEAN, items : Threads]]
    BY DEF TypeInv, Typed, ViewTyped, MoreTyped, EntrySet
  <2> QED
    BY <2>1 DEF TypeInv, Typed, ViewTyped, LoopsTyped, WorkTyped, CacheInv, MoreTyped, TypeOK,
       LoopSet, WorkerSet
<1> QED
  BY <1>1, TypesAlways, PTL

-----------------------------------------------------------------------------
(* Requests *)

\* NoLostRefresh: a loop that lacks an event will be told of it, was told, or has
\* just been refused by the server.
THEOREM WakeupsReachTheLoop == Spec => []NoLostRefresh
<1> DEFINE Told(i) == /\ loops[i].pc \in {"answer", "select"}
                      /\ loops[i].seen < server[loops[i].thread]
                      => loops[i].thread \in undelivered \/ loops[i].due \/ loops[i].failed
<1>1. Init => NoLostRefresh
  BY DEF Init, NoLostRefresh, Unborn
<1>2. Typed /\ NoLostRefresh /\ [Next]_vars => NoLostRefresh'
  <2> SUFFICES ASSUME Typed, NoLostRefresh, [Next]_vars, NEW i \in Loops
               PROVE  Told(i)'
    BY DEF NoLostRefresh
  <2>0. Told(i)
    BY DEF NoLostRefresh
  <2>1. ASSUME OnlyWoken(i), UNCHANGED serverVars
        PROVE  Told(i)'
    BY <2>0, <2>1 DEF OnlyWoken
  <2>2. ASSUME NEW k \in Threads, Subscribe(k), UNCHANGED serverVars
        PROVE  Told(i)'
    <3>1. CASE Warm(k)
      BY <2>1, <2>2, <3>1 DEF Warm
    <3>2. CASE Cold(k)
      <4> DEFINE new == [Unborn EXCEPT !.pc = "starting", !.thread = k]
      <4>1. loops' = [loops EXCEPT ![spawned + 1] = new] /\ spawned + 1 \in Loops
        BY <3>2 DEF Cold
      <4>2. new.pc = "starting"
        BY DEF Unborn
      <4> HIDE DEF new
      <4>3. CASE i = spawned + 1
        BY <4>1, <4>2, <4>3 DEF Typed, LoopsTyped
      <4>4. CASE i # spawned + 1
        <5>1. loops'[i] = loops[i]
          BY <4>1, <4>4 DEF Typed, LoopsTyped
        <5> QED
          BY <2>0, <2>2, <5>1
      <4> QED
        BY <4>3, <4>4
    <3> QED
      BY <2>2, <3>1, <3>2, SubscribeEffect
  <2>3. CASE UNCHANGED <<loops, serverVars>>
    BY <2>0, <2>3
  <2>4. ASSUME NEW r \in Rooms, SelectRoom(r)
        PROVE  Told(i)'
    <3>1. saved[r] # NoThread => saved[r] \in Threads
      BY DEF Typed, ViewTyped
    <3> HIDE DEF Told
    <3> QED
      BY <2>2, <2>3, <2>4, <3>1 DEF SelectRoom, Show
  <2>5. CASE RefreshThread
    <3>1. /\ ActiveLoop \in Loops /\ ActiveLoop <= spawned
      BY <2>5 DEF RefreshThread, CanSend, ActiveLoop, Typed, LoopsTyped, Loops
    <3>2. /\ loops' = [loops EXCEPT ![ActiveLoop].due = TRUE]
          /\ UNCHANGED <<cacheVars, spawned, serverVars>>
      BY <2>5 DEF RefreshThread
    <3>3. OnlyWoken(i)
      BY <3>1, <3>2, WakeOne DEF Typed, LoopsTyped
    <3> QED
      BY <2>1, <3>2, <3>3
  <2>6. CASE User
    <3> HIDE DEF Told
    <3> QED
      BY <2>2, <2>3, <2>4, <2>5, <2>6 DEF User, OpenThread, Show, CloseThread, CloseRoom, LoseRoom,
         Clear, Unsubscribe, ReleaseRoom, BeginPage
  <2>7. CASE HandleNote \/ \E w \in Workers : Worker(w)
    <3> HIDE DEF Told
    <3> QED
      BY <2>3, <2>7 DEF HandleNote, Worker, Deliver, PageDone, Fetch, SendPage
  <2>8. ASSUME NEW j \in Loops, LoopStep(j)
        PROVE  Told(i)'
    <3>1. PICK l \in LoopSet :
            /\ l.thread = loops[j].thread /\ loops' = [loops EXCEPT ![j] = l]
            /\ UNCHANGED serverVars
            /\ l.pc \in {"answer", "select"} /\ l.seen < server[l.thread] =>
                  \/ l.failed \/ l.due
                  \/ /\ loops[j].pc \in {"answer", "select"} /\ loops[j].seen = l.seen
                     /\ loops[j].due = l.due /\ loops[j].failed = l.failed
      BY <2>8, LoopEffect
    <3>2. CASE i = j
      <4>1. loops'[i] = l
        BY <3>1, <3>2 DEF Typed, LoopsTyped
      <4> QED
        BY <2>0, <3>1, <3>2, <4>1
    <3>3. CASE i # j
      <4>1. loops'[i] = loops[i]
        BY <3>1, <3>3 DEF Typed, LoopsTyped
      <4> QED
        BY <2>0, <3>1, <4>1
    <3> QED
      BY <3>2, <3>3
  <2>9. ASSUME NEW k \in Threads, EventSent(k)
        PROVE  Told(i)'
    <3>1. /\ server' = [server EXCEPT ![k] = server[k] + 1] /\ undelivered' = undelivered \cup {k}
          /\ loops' = loops
      BY <2>9 DEF EventSent
    <3>2. CASE loops[i].thread = k
      BY <3>1, <3>2
    <3>3. CASE loops[i].thread # k
      <4>1. server'[loops[i].thread] = server[loops[i].thread]
        BY <3>1, <3>3 DEF Typed, WorkTyped
      <4> QED
        BY <2>0, <3>1, <4>1
    <3> QED
      BY <3>2, <3>3
  <2>10. ASSUME NEW k \in Threads, SyncDelivers(k)
         PROVE  Told(i)'
    <3>1. OnlyWoken(i) /\ server' = server /\ undelivered' = undelivered \ {k}
      BY <2>10, DeliverWakes DEF SyncDelivers
    <3>2. ASSUME loops[i].thread = k, loops[i].pc \in {"answer", "select"}
          PROVE  loops'[i].due
      <4>1. loops'[i] = [loops[i] EXCEPT !.due = TRUE]
        BY <2>10, <3>2 DEF SyncDelivers, Running
      <4>2. loops[i] \in LoopSet
        BY DEF Typed, LoopsTyped
      <4> QED
        BY <4>1, <4>2 DEF LoopSet
    <3> QED
      BY <2>0, <3>1, <3>2 DEF OnlyWoken
  <2>11. CASE UNCHANGED vars
    BY <2>3, <2>11 DEF vars
  <2> HIDE DEF Told
  <2> QED
    BY <2>6, <2>7, <2>8, <2>9, <2>10, <2>11 DEF Next
<1> QED
  BY <1>1, <1>2, AlwaysTyped, PTL DEF Spec

-----------------------------------------------------------------------------
(* Loading *)

\* A note or a worker is under way for the thread.
Served(k) == Contains(notes, k) \/ \E w \in Workers : workers[w].op # "idle" /\ workers[w].thread = k

\* A worker that is released or goes on leaves the others alone.
LEMMA ServedStays ==
  ASSUME Typed, NEW k \in Threads, Served(k), NEW w \in Workers, NEW e \in WorkerSet,
         workers' = [workers EXCEPT ![w] = e], \A t : Contains(notes, t) => Contains(notes', t),
         workers[w].op # "idle" /\ workers[w].thread = k => e.op # "idle" /\ e.thread = k
  PROVE  Served(k)'
<1>1. workers \in [Workers -> WorkerSet]
  BY DEF Typed, WorkTyped
<1>2. ASSUME NEW v \in Workers, workers[v].op # "idle", workers[v].thread = k
      PROVE  workers'[v].op # "idle" /\ workers'[v].thread = k
  BY <1>1, <1>2
<1> QED
  BY <1>2 DEF Served

\* LoadingIsServed: a thread that loads although its loop has something to show is
\* served by a note or a worker that ends it.
THEOREM LoadingEnds == Spec => []LoadingIsServed
<1> DEFINE Waits(k) == thread = k /\ entries[k].loading /\ cache[k] # 0 /\ loops[cache[k]].filled
<1>1. Init => LoadingIsServed
  BY DEF Init, LoadingIsServed
<1>2. Typed /\ LoadingIsServed /\ [Next]_vars => LoadingIsServed'
  <2> SUFFICES ASSUME Typed, LoadingIsServed, [Next]_vars, NEW k \in Threads, Waits(k)'
               PROVE  Served(k)'
    BY DEF LoadingIsServed, Served, Contains
  <2>0. /\ Waits(k) => Served(k)
        /\ cache[k] # 0 => cache[k] \in Loops /\ loops[cache[k]].thread = k
        /\ notes \in Seq(Threads) /\ workers \in [Workers -> WorkerSet] /\ entries \in [Threads -> EntrySet]
        /\ k # NoThread
    <3>1. Waits(k) => Served(k)
      BY DEF LoadingIsServed, Served, Contains
    <3>2. cache[k] # 0 => cache[k] \in Loops /\ loops[cache[k]].thread = k
      BY DEF Typed, LoopsTyped, Loops
    <3>3. notes \in Seq(Threads) /\ workers \in [Workers -> WorkerSet]
      BY DEF Typed, WorkTyped
    <3>4. entries \in [Threads -> EntrySet]
      BY DEF Typed, ViewTyped
    <3> QED
      BY <3>1, <3>2, <3>3, <3>4
  <2>1. ASSUME NEW t \in Threads, Show(t)
        PROVE  Served(k)'
    <3>1. k = t
      BY <2>1 DEF Show
    <3>2. CASE Warm(t)
      BY <2>0, <3>1, <3>2, Posted DEF Warm, Served
    <3>3. CASE Cold(t)
      <4> DEFINE new == [Unborn EXCEPT !.pc = "starting", !.thread = t]
      <4>1. /\ loops' = [loops EXCEPT ![spawned + 1] = new] /\ spawned + 1 \in Loops
            /\ cache'[t] = spawned + 1
        BY <3>3 DEF Cold
      <4>2. ~new.filled
        BY DEF Unborn
      <4> HIDE DEF new
      <4>3. loops'[cache'[k]] = new
        BY <3>1, <4>1 DEF Typed, LoopsTyped
      <4> QED
        BY <4>2, <4>3
    <3> QED
      BY <2>1, <3>2, <3>3, SubscribeEffect DEF Show
  <2>2. ASSUME UNCHANGED <<thread, entries, notes, workers>>, cache'[k] \in {0, cache[k]},
               \A i \in Loops : OnlyWoken(i) \/ loops'[i] = loops[i]
        PROVE  Served(k)'
    <3>1. Waits(k)
      BY <2>0, <2>2 DEF OnlyWoken
    <3> QED
      BY <2>0, <2>2, <3>1 DEF Served
  <2>3. CASE UNCHANGED <<thread, entries, notes, workers, cache, loops>>
    BY <2>2, <2>3
  <2>4. CASE thread' = NoThread
    BY <2>0, <2>4
  <2>5. ASSUME NEW r \in Rooms, SelectRoom(r)
        PROVE  Served(k)'
    <3>1. saved[r] # NoThread => saved[r] \in Threads
      BY DEF Typed, ViewTyped
    <3> QED
      BY <2>1, <2>4, <2>5, <3>1 DEF SelectRoom
  <2>6. ASSUME NEW r \in Rooms, ReleaseRoom(r)
        PROVE  Served(k)'
    <3>1. /\ UNCHANGED <<thread, entries, notes, workers, loops>>
          /\ \E gone \in SUBSET Threads : cache' = [t \in Threads |-> IF t \in gone THEN 0 ELSE cache[t]]
      BY <2>6 DEF ReleaseRoom, Cached
    <3> QED
      BY <2>2, <3>1
  <2>7. CASE RefreshThread
    <3>1. /\ ActiveLoop \in Loops /\ ActiveLoop <= spawned
      BY <2>7 DEF RefreshThread, CanSend, ActiveLoop, Typed, LoopsTyped, Loops
    <3>2. /\ loops' = [loops EXCEPT ![ActiveLoop].due = TRUE]
          /\ UNCHANGED <<thread, entries, notes, workers, cacheVars, spawned>>
      BY <2>7 DEF RefreshThread
    <3>3. \A i \in Loops : OnlyWoken(i)
      BY <3>1, <3>2, WakeOne DEF Typed, LoopsTyped
    <3> QED
      BY <2>2, <3>2, <3>3
  <2>8. CASE BeginPage
    <3>1. PICK w \in Workers : StartWorker(w, "page", thread)
      BY <2>8 DEF BeginPage
    <3>2. workers' = [workers EXCEPT ![w] = [Idle EXCEPT !.op = "page", !.thread = thread]]
          /\ thread' = thread
      BY <2>8, <3>1 DEF BeginPage, StartWorker
    <3>3. workers'[w].op = "page" /\ workers'[w].thread = thread
      BY <2>0, <3>2 DEF Idle
    <3> QED
      BY <3>2, <3>3 DEF Served
  <2>9. CASE User
    <3> HIDE DEF Waits
    <3> QED
      BY <2>1, <2>4, <2>5, <2>6, <2>7, <2>8, <2>9 DEF User, OpenThread, CloseThread, CloseRoom, LoseRoom, Clear
  <2>10. CASE HandleNote
    <3>1. /\ notes # <<>> /\ notes' = Tail(notes)
          /\ UNCHANGED <<thread, entries, cache, loops>>
      BY <2>10 DEF HandleNote
    <3>2. Waits(k) /\ Served(k)
      BY <2>0, <3>1
    <3>3. ASSUME thread = Head(notes)
          PROVE  Served(k)'
      <4>1. PICK w \in Workers : StartWorker(w, "fetch", thread)
        BY <2>10, <3>3 DEF HandleNote
      <4>2. workers'[w].op = "fetch" /\ workers'[w].thread = thread
        BY <2>0, <4>1 DEF StartWorker, Idle
      <4> QED
        BY <3>2, <4>2 DEF Served
    <3>4. ASSUME thread # Head(notes)
          PROVE  Served(k)'
      <4>1. workers' = workers
        BY <2>10, <3>4 DEF HandleNote
      <4>2. Contains(notes, k) => Contains(notes', k)
        BY <2>0, <3>1, <3>2, <3>4, Taken
      <4> QED
        BY <3>2, <4>1, <4>2 DEF Served
    <3> QED
      BY <3>3, <3>4
  <2>11. ASSUME NEW w \in Workers, Deliver(w) \/ PageDone(w)
         PROVE  Served(k)'
    <3>1. /\ workers' = [workers EXCEPT ![w] = Idle]
          /\ UNCHANGED <<thread, cache, loops, notes>>
      BY <2>11 DEF Deliver, PageDone
    <3>2. Idle \in WorkerSet
      BY DEF Idle, WorkerSet, WorkerOps
    <3>3. workers[w].thread # k /\ entries'[k] = entries[k]
      <4>1. CASE Deliver(w)
        BY <2>0, <3>1, <4>1 DEF Deliver
      <4>2. CASE PageDone(w)
        BY <2>0, <4>2 DEF PageDone, EntrySet
      <4> QED
        BY <2>11, <4>1, <4>2
    <3>4. Waits(k) /\ Served(k)
      BY <2>0, <3>1, <3>3
    <3> QED
      BY <3>1, <3>2, <3>3, <3>4, ServedStays
  <2>12. ASSUME NEW w \in Workers, Fetch(w) \/ SendPage(w)
         PROVE  Served(k)'
    <3>1. /\ UNCHANGED <<thread, entries, cache, loops>>
          /\ notes' = notes \/ (CanSend /\ notes' = Append(notes, activeKey))
      BY <2>12 DEF Fetch, SendPage
    <3>2. Waits(k) /\ Served(k)
      BY <2>0, <3>1
    <3>3. CanSend => activeKey \in Threads
      BY DEF CanSend, ActiveLoop, Typed, LoopsTyped
    <3>4. \A t : Contains(notes, t) => Contains(notes', t)
      BY <2>0, <3>1, <3>3, Posted
    <3>5. ASSUME NEW v \in Workers, workers[v].op # "idle", workers[v].thread = k
          PROVE  workers'[v].op # "idle" /\ workers'[v].thread = k
      <4>1. workers[v] \in WorkerSet /\ workers[w] \in WorkerSet
        BY <2>0
      <4>2. CASE Fetch(w)
        BY <2>0, <3>5, <4>1, <4>2 DEF Fetch, WorkerSet
      <4>3. CASE SendPage(w)
        BY <2>0, <3>5, <4>1, <4>3 DEF SendPage, WorkerSet
      <4> QED
        BY <2>12, <4>2, <4>3
    <3> QED
      BY <3>2, <3>4, <3>5 DEF Served
  <2>13. ASSUME NEW i \in Loops, LoopStep(i)
         PROVE  Served(k)'
    <3>1. PICK l \in LoopSet :
            /\ l.thread = loops[i].thread /\ loops' = [loops EXCEPT ![i] = l]
            /\ UNCHANGED <<viewVars, entries, cacheVars, workers>> /\ i <= spawned
            /\ notes' = notes \/ notes' = Append(notes, l.thread)
            /\ l.filled => loops[i].filled \/ notes' = Append(notes, l.thread)
      BY <2>13, LoopEffect
    <3>2. l.thread \in Threads
      BY <3>1 DEF Typed, LoopsTyped
    <3>3. \A t : Contains(notes, t) => Contains(notes', t)
      <4>1. \A t : Contains(notes, t) => Contains(Append(notes, l.thread), t)
        BY <2>0, <3>2, Posted
      <4> QED
        BY <3>1, <4>1
    <3>4. CASE cache[k] = i /\ notes' = Append(notes, l.thread)
      <4>1. l.thread = k
        BY <2>0, <3>1, <3>4 DEF Loops
      <4> QED
        BY <2>0, <3>2, <3>4, <4>1, Posted DEF Served
    <3>5. CASE cache[k] = i /\ notes' # Append(notes, l.thread)
      <4>1. loops'[i] = l
        BY <3>1 DEF Typed, LoopsTyped
      <4>2. Waits(k)
        BY <3>1, <3>5, <4>1
      <4> QED
        BY <2>0, <3>1, <3>3, <4>2 DEF Served
    <3>6. CASE cache[k] # i
      <4>1. cache[k] # 0 => loops'[cache[k]] = loops[cache[k]]
        BY <2>0, <3>1, <3>6 DEF Typed, LoopsTyped
      <4>2. Waits(k)
        BY <3>1, <4>1
      <4> QED
        BY <2>0, <3>1, <3>3, <4>2 DEF Served
    <3> QED
      BY <3>4, <3>5, <3>6
  <2>14. ASSUME NEW t \in Threads, EventSent(t) \/ SyncDelivers(t)
         PROVE  Served(k)'
    <3>1. CASE EventSent(t)
      BY <2>3, <3>1 DEF EventSent
    <3>2. CASE SyncDelivers(t)
      BY <2>2, <3>2, DeliverWakes DEF SyncDelivers
    <3> QED
      BY <2>14, <3>1, <3>2
  <2>15. CASE UNCHANGED vars
    BY <2>3, <2>15 DEF vars
  <2> HIDE DEF Waits
  <2> QED
    BY <2>9, <2>10, <2>11, <2>12, <2>13, <2>14, <2>15 DEF Next, Worker
<1> QED
  BY <1>1, <1>2, AlwaysTyped, PTL DEF Spec

-----------------------------------------------------------------------------
(* The loops that live *)

\* The loops that run and were not told to stop: each holds a timeline of the SDK
\* and a channel.
Live == {i \in Loops : Running(i) /\ i \notin stopped}

\* What the capacity is for: however often threads are opened, evicted, released and
\* opened again, no more loops than it allows live on, whatever the cache says.
THEOREM FewLoopsLive == Spec => [](Cardinality(Live) <= Cap)
<1>1. TypeInv /\ LoopsAreOwned => Cardinality(Live) <= Cap
  <2> SUFFICES ASSUME TypeInv, LoopsAreOwned
               PROVE  Cardinality(Live) <= Cap
    OBVIOUS
  <2>1. IsFiniteSet(Cached) /\ Cardinality(Cached) \in Nat /\ Cardinality(Cached) <= Cap
    BY CachedCounted, FS_CardinalityType DEF TypeInv, CacheInv, CacheIsSound
  <2>2. \A i \in Live : loops[i].thread \in Cached /\ cache[loops[i].thread] = i
    <3> SUFFICES ASSUME NEW i \in Live
                 PROVE  loops[i].thread \in Cached /\ cache[loops[i].thread] = i
      OBVIOUS
    <3>1. i \in Loops /\ Running(i) /\ i \notin stopped /\ i # 0
      BY DEF Live, Loops
    <3>2. loops[i].thread \in Threads /\ cache[loops[i].thread] = i
      BY <3>1, RunningStarted DEF LoopsAreOwned, TypeInv, Typed, LoopsTyped
    <3> QED
      BY <3>1, <3>2 DEF Cached
  <2> DEFINE f == [i \in Live |-> loops[i].thread]
  <2>3. f \in Injection(Live, Cached)
    BY <2>2 DEF Injection, IsInjective
  <2>4. IsFiniteSet(Live) /\ Cardinality(Live) <= Cardinality(Cached)
    BY <2>1, <2>3, FS_Injection
  <2> QED
    BY <2>1, <2>4, FS_CardinalityType
<1> QED
  BY <1>1, TypesAlways, NoLoopIsForgotten, PTL

\* How many steps a loop has left from where it is, once it is told to stop.
StepsLeft(l) ==
    CASE l.pc \in {"starting", "select"} -> 3
      [] l.pc \in {"first", "fetch"}     -> 2
      [] l.pc = "answer"                 -> 1
      [] OTHER                           -> 0

\* A loop that was evicted or released ends: it is never taken back, and whatever
\* wakes it, asks it or answers it, it takes three more steps at the most.
EvictedLoopsEnd ==
    [][\A i \in stopped :
          /\ i \in stopped' /\ StepsLeft(loops'[i]) <= StepsLeft(loops[i])
          /\ LoopStep(i) => StepsLeft(loops'[i]) < StepsLeft(loops[i])]_vars

\* A loop that is only woken has the steps left that it had.
LEMMA WokenStepsLeft ==
  ASSUME NEW i \in Loops, OnlyWoken(i)
  PROVE  StepsLeft(loops'[i]) = StepsLeft(loops[i])
BY DEF OnlyWoken, StepsLeft

\* A step of a loop that was told to stop brings it nearer to its end.
LEMMA StoppedLoopStep ==
  ASSUME Typed, NEW i \in Loops, i \in stopped, LoopStep(i)
  PROVE  /\ StepsLeft(loops'[i]) < StepsLeft(loops[i]) /\ UNCHANGED stopped
         /\ \A j \in Loops \ {i} : loops'[j] = loops[j]
<1> DEFINE old == loops[i]
<1>1. old \in LoopSet /\ loops \in [Loops -> LoopSet]
  BY DEF Typed, LoopsTyped
<1>2. ASSUME NEW l, Becomes(i, l)
      PROVE  /\ loops'[i] = l /\ UNCHANGED stopped
             /\ \A j \in Loops \ {i} : loops'[j] = loops[j]
  BY <1>1, <1>2 DEF Becomes
<1>3. \A l : Ended(l).pc = "done" /\ Resume(i, l).pc = "done"
  BY DEF Ended, Resume, Unborn
<1>4. CASE LoopStarts(i)
  <2>1. PICK l : Becomes(i, l) /\ l.pc \in {"first", "done"} /\ old.pc = "starting"
    BY <1>1, <1>3, <1>4 DEF LoopStarts, LoopSet
  <2> QED
    BY <1>2, <2>1 DEF StepsLeft
<1>5. CASE ServerAnswers(i) \/ RequestFails(i)
  <2>1. PICK l : Becomes(i, l) /\ l.pc \in {"answer", "done"} /\ old.pc \in {"first", "fetch"}
    BY <1>1, <1>3, <1>5 DEF ServerAnswers, RequestFails, LoopSet
  <2> QED
    BY <1>2, <2>1 DEF StepsLeft
<1>6. CASE AnswerArrives(i)
  <2>1. PICK l : Becomes(i, l) /\ l.pc = "done" /\ old.pc = "answer"
    BY <1>3, <1>6 DEF AnswerArrives
  <2> QED
    BY <1>2, <2>1 DEF StepsLeft
<1>7. CASE DeadlineFires(i) \/ Diff(i) \/ StreamEnds(i) \/ ChannelClosed(i)
  <2>1. PICK l : Becomes(i, l) /\ l.pc \in {"fetch", "done"} /\ old.pc = "select"
    BY <1>1, <1>3, <1>7 DEF DeadlineFires, Diff, StreamEnds, ChannelClosed, LoopSet
  <2> QED
    BY <1>2, <2>1 DEF StepsLeft
<1> QED
  BY <1>4, <1>5, <1>6, <1>7 DEF LoopStep

\* Subscribing wakes a stopped loop at most; the loop it starts is a new one.
LEMMA SubscribeStepsLeft ==
  ASSUME Typed, NEW k \in Threads, Subscribe(k), NEW i \in Loops, i <= spawned, i \in stopped
  PROVE  i \in stopped' /\ StepsLeft(loops'[i]) = StepsLeft(loops[i])
<1>1. CASE Warm(k)
  BY <1>1, WokenStepsLeft DEF Warm
<1>2. CASE Cold(k)
  <2>1. i # spawned + 1
    BY DEF Loops, Typed, LoopsTyped
  <2>2. loops'[i] = loops[i] /\ stopped \subseteq stopped'
    BY <1>2, <2>1 DEF Cold, Typed, LoopsTyped
  <2> QED
    BY <2>2
<1> QED
  BY <1>1, <1>2, SubscribeEffect

\* EvictedLoopsEnd: an evicted loop does not outlive its next three steps, so what
\* the cache drops does end, and nothing revives it.
THEOREM EvictedLoopsGo == Spec => EvictedLoopsEnd
<1> DEFINE Nearer(i) == /\ i \in stopped' /\ StepsLeft(loops'[i]) <= StepsLeft(loops[i])
                        /\ LoopStep(i) => StepsLeft(loops'[i]) < StepsLeft(loops[i])
<1>1. TypeInv /\ [Next]_vars => [\A i \in stopped : Nearer(i)]_vars
  <2> SUFFICES ASSUME TypeInv, [Next]_vars, vars' # vars, NEW i \in stopped
               PROVE  Nearer(i)
    OBVIOUS
  <2>0. Typed /\ i \in Loops /\ i <= spawned
    BY DEF TypeInv, MoreTyped, Typed, LoopsTyped, Loops
  <2>1. \A l : StepsLeft(l) \in Nat /\ StepsLeft(l) <= StepsLeft(l)
    BY DEF StepsLeft
  <2>2. LoopStep(i) => Nearer(i)
    <3> SUFFICES ASSUME LoopStep(i)
                 PROVE  Nearer(i)
      OBVIOUS
    <3>1. StepsLeft(loops'[i]) < StepsLeft(loops[i]) /\ UNCHANGED stopped
      BY <2>0, StoppedLoopStep
    <3>2. StepsLeft(loops'[i]) <= StepsLeft(loops[i])
      BY <2>1, <3>1
    <3> QED
      BY <3>1, <3>2
  <2> SUFFICES ASSUME ~LoopStep(i)
               PROVE  i \in stopped' /\ StepsLeft(loops'[i]) = StepsLeft(loops[i])
    BY <2>1, <2>2
  <2> DEFINE AsFar == i \in stopped' /\ StepsLeft(loops'[i]) = StepsLeft(loops[i])
  <2>3. CASE UNCHANGED <<stopped, loops>>
    BY <2>3
  <2>4. ASSUME NEW k \in Threads, Subscribe(k)
        PROVE  AsFar
    BY <2>0, <2>4, SubscribeStepsLeft
  <2>5. ASSUME NEW r \in Rooms, SelectRoom(r)
        PROVE  AsFar
    <3>1. saved[r] # NoThread => saved[r] \in Threads
      BY <2>0 DEF Typed, ViewTyped
    <3> HIDE DEF AsFar
    <3> QED
      BY <2>3, <2>4, <2>5, <3>1 DEF SelectRoom, Show, AsFar
  <2>6. ASSUME NEW r \in Rooms, ReleaseRoom(r)
        PROVE  AsFar
    <3>1. stopped \subseteq stopped' /\ loops' = loops
      BY <2>6 DEF ReleaseRoom
    <3> QED
      BY <3>1
  <2>7. CASE RefreshThread
    <3>1. /\ ActiveLoop \in Loops /\ ActiveLoop <= spawned
      BY <2>0, <2>7 DEF RefreshThread, CanSend, ActiveLoop, Typed, LoopsTyped, Loops
    <3>2. /\ loops' = [loops EXCEPT ![ActiveLoop].due = TRUE]
          /\ UNCHANGED <<cacheVars, spawned, stopped>>
      BY <2>7 DEF RefreshThread
    <3>3. OnlyWoken(i)
      BY <2>0, <3>1, <3>2, WakeOne DEF Typed, LoopsTyped
    <3> QED
      BY <2>0, <3>2, <3>3, WokenStepsLeft
  <2>8. CASE User
    <3> HIDE DEF AsFar
    <3> QED
      BY <2>3, <2>4, <2>5, <2>6, <2>7, <2>8 DEF User, OpenThread, Show, CloseThread, CloseRoom,
         LoseRoom, Clear, Unsubscribe, BeginPage, AsFar
  <2>9. CASE HandleNote \/ \E w \in Workers : Worker(w)
    BY <2>3, <2>9 DEF HandleNote, Worker, Deliver, PageDone, Fetch, SendPage
  <2>10. ASSUME NEW j \in Loops, LoopStep(j)
         PROVE  AsFar
    <3>1. j # i
      BY <2>10
    <3>2. PICK l \in LoopSet : loops' = [loops EXCEPT ![j] = l] /\ UNCHANGED stopped
      BY <2>0, <2>10, LoopEffect
    <3>3. loops'[i] = loops[i]
      BY <2>0, <3>1, <3>2 DEF Typed, LoopsTyped
    <3> QED
      BY <3>2, <3>3
  <2>11. ASSUME NEW k \in Threads, EventSent(k) \/ SyncDelivers(k)
         PROVE  AsFar
    <3>1. CASE EventSent(k)
      BY <2>3, <3>1 DEF EventSent
    <3>2. CASE SyncDelivers(k)
      <4>1. OnlyWoken(i) /\ UNCHANGED stopped
        BY <2>0, <3>2, DeliverWakes DEF SyncDelivers
      <4> QED
        BY <2>0, <4>1, WokenStepsLeft
    <3> QED
      BY <2>11, <3>1, <3>2
  <2>12. CASE UNCHANGED vars
    BY <2>12
  <2> QED
    BY <2>8, <2>9, <2>10, <2>11, <2>12 DEF Next
<1> QED
  BY <1>1, TypesAlways, PTL DEF Spec, EvictedLoopsEnd

=============================================================================
