--------------------------- MODULE MCThreadTimelines ---------------------------
(* ThreadTimelines on small instances. *)
EXTENDS ThreadTimelines, TLC

CONSTANTS a, b, t1, t2, t3

\* A thread in each room.
OwnRooms == t1 :> a @@ t2 :> b

\* The same and one more in the first room.
ThreeThreads == t1 :> a @@ t2 :> b @@ t3 :> a

\* An event for the first thread.
OneEvent == [k \in Threads |-> IF k = t1 THEN 1 ELSE 0]

\* The event is sent to the thread on screen, and the user leaves it at that; pages
\* are asked for of the first thread only.
BusyUser ==
    \/ \E k \in Threads : OpenThread(k)
    \/ \E r \in Rooms : SelectRoom(r) \/ ReleaseRoom(r)
    \/ CloseThread \/ CloseRoom \/ LoseRoom \/ RefreshThread
    \/ thread = t1 /\ BeginPage

\* Everything that runs, for two loops of the first two threads.  The first is
\* released before the second is cached, and may still run then.
LivelyNext ==
    /\ \/ server[t1] = 0 /\ BusyUser
       \/ thread = t1 /\ EventSent(t1)
       \/ HandleNote
       \/ \E w \in Workers : Worker(w)
       \/ \E i \in Loops : LoopStep(i)
       \/ \E k \in Threads : SyncDelivers(k)
    /\ Cardinality(Cached') <= 1
    /\ spawned' <= 2 /\ \A i \in Loops : loops'[i].thread # t3

\* The user opens, leaves and releases all three threads, and is quick: a thread is
\* left before its note is handled and before its loop has started.
QuickNext ==
    /\ \A i \in Loops : loops[i].pc \in {"unborn", "starting"}
    /\ \A w \in Workers : workers[w] = Idle
    /\ \/ \E k \in Threads : OpenThread(k)
       \/ \E r \in Rooms : SelectRoom(r) \/ ReleaseRoom(r)
       \/ CloseThread \/ CloseRoom
       \/ HandleNote /\ UNCHANGED workers

CacheSpec == Init /\ [][LivelyNext \/ QuickNext]_vars

=============================================================================
