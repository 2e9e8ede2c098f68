----------------------- MODULE RoomSubscriptions_proofs -----------------------
(***************************************************************************)
(* What RoomSubscriptions guarantees for every set of rooms and windows    *)
(* and every number of sessions, references and changes.                   *)
(***************************************************************************)
EXTENDS RoomSubscriptions, SequenceTheorems, FiniteSetTheorems, TLAPS

USE BoundsAssumption
USE DEF uiVars, sessVars, reconVars, fwdVars

CallSet == [op : {"subscribe", "unsubscribe", "notify"}, room : Rooms]
PostSet == [session : 0..MaxSession, room : Rooms, version : 0..MaxPins]
StartSet == [request : Nat, done : BOOLEAN, handle : 0..MaxSession]

-----------------------------------------------------------------------------
(* The queues of calls and posted lists *)

\* The first element and the rest of a sequence that is not empty.
LEMMA FirstAndRest ==
  ASSUME NEW S, NEW s \in Seq(S), s # <<>>
  PROVE  /\ Len(s) \in Nat \ {0} /\ Head(s) = s[1] /\ Head(s) \in S
         /\ Tail(s) \in Seq(S) /\ Len(Tail(s)) = Len(s) - 1
         /\ \A i \in 1..Len(Tail(s)) : Tail(s)[i] = s[i + 1]
  BY EmptySeq, HeadTailProperties

\* The call that is next, and what is left after it.
LEMMA NextCall ==
  ASSUME TypeOK, calls # <<>>
  PROVE  /\ Head(calls) \in CallSet /\ Tail(calls) \in Seq(CallSet)
         /\ Head(calls) = calls[1]
         /\ \A i \in DOMAIN calls : i # 1 => i - 1 \in DOMAIN Tail(calls) /\ Tail(calls)[i - 1] = calls[i]
<1>1. calls \in Seq(CallSet)
  BY DEF TypeOK, CallSet
<1>2. /\ Head(calls) \in CallSet /\ Tail(calls) \in Seq(CallSet) /\ Head(calls) = calls[1]
      /\ Len(calls) \in Nat \ {0} /\ Len(Tail(calls)) = Len(calls) - 1
      /\ \A i \in 1..Len(Tail(calls)) : Tail(calls)[i] = calls[i + 1]
  BY <1>1, FirstAndRest
<1>3. DOMAIN calls = 1..Len(calls) /\ DOMAIN Tail(calls) = 1..Len(Tail(calls))
  BY <1>1, <1>2, LenProperties
<1>4. ASSUME NEW i \in DOMAIN calls, i # 1
      PROVE  i - 1 \in DOMAIN Tail(calls) /\ Tail(calls)[i - 1] = calls[i]
  <2>1. i \in Int /\ i - 1 \in 1..Len(Tail(calls)) /\ (i - 1) + 1 = i
    BY <1>2, <1>3, <1>4
  <2> QED
    BY <1>2, <1>3, <2>1
<1> QED
  BY <1>2, <1>4

\* A notification comes before the calls that are left.
LEMMA NotifyFirst ==
  ASSUME NEW s \in Seq(CallSet), NEW r \in Rooms
  PROVE  /\ <<Call("notify", r)>> \o s \in Seq(CallSet)
         /\ 1 \in DOMAIN (<<Call("notify", r)>> \o s)
         /\ (<<Call("notify", r)>> \o s)[1].op = "notify"
<1> DEFINE one == <<Call("notify", r)>>
<1>1. one \in Seq(CallSet) /\ Len(one) = 1 /\ one[1].op = "notify"
  BY DEF Call, CallSet
<1> HIDE DEF one
<1>2. Len(s) \in Nat
  BY LenProperties
<1>3. /\ one \o s \in Seq(CallSet) /\ Len(one \o s) = 1 + Len(s)
      /\ \A i \in 1..(1 + Len(s)) : i <= 1 => (one \o s)[i] = one[i]
  <2>1. /\ one \o s \in Seq(CallSet) /\ Len(one \o s) = Len(one) + Len(s)
        /\ \A i \in 1..(Len(one) + Len(s)) :
              (one \o s)[i] = IF i <= Len(one) THEN one[i] ELSE s[i - Len(one)]
    BY <1>1, ConcatProperties
  <2> QED
    BY <1>1, <2>1
<1>4. DOMAIN (one \o s) = 1..(1 + Len(s))
  BY <1>3, LenProperties
<1>5. 1 \in DOMAIN (one \o s) /\ (one \o s)[1] = one[1]
  BY <1>2, <1>3, <1>4
<1> QED
  BY <1>1, <1>3, <1>5 DEF one

\* What executing a call does: only references, calls and the permit change.
LEMMA CallEffect ==
  ASSUME TypeOK, DoCall
  PROVE  /\ calls # <<>>
         /\ refs' \in [Rooms -> 0..MaxRefs] /\ permit' \in BOOLEAN
         /\ calls' \in Seq(CallSet)
         /\ permit => permit'
         /\ \/ \E i \in DOMAIN calls' : calls'[i].op = "notify"
            \/ permit'
            \/ /\ Referenced' = Referenced /\ permit' = permit
               /\ \A i \in DOMAIN calls : calls[i].op = "notify" =>
                     \E j \in DOMAIN calls' : calls'[j].op = "notify"
<1> DEFINE c == Head(calls)
<1>1. /\ calls # <<>> /\ c \in CallSet /\ Tail(calls) \in Seq(CallSet) /\ c = calls[1]
      /\ \A i \in DOMAIN calls : i # 1 => i - 1 \in DOMAIN Tail(calls) /\ Tail(calls)[i - 1] = calls[i]
  BY NextCall DEF DoCall
<1>2. c.room \in Rooms
  BY <1>1 DEF CallSet
<1> HIDE DEF c
<1>3. c.op # "notify" => \A i \in DOMAIN calls : calls[i].op = "notify" =>
                            \E j \in DOMAIN Tail(calls) : Tail(calls)[j].op = "notify"
  BY <1>1
<1>4. CASE c.op = "subscribe" /\ Subscribe(c.room)
  <2>0. refs[c.room] + 1 \in 0..MaxRefs /\ refs \in [Rooms -> 0..MaxRefs]
    <3>1. refs \in [Rooms -> 0..MaxRefs]
      BY DEF TypeOK
    <3>2. refs[c.room] \in 0..MaxRefs
      BY <1>2, <3>1
    <3>3. refs[c.room] < MaxRefs
      BY <1>4 DEF Subscribe
    <3> QED
      BY <3>1, <3>2, <3>3
  <2>1. refs' \in [Rooms -> 0..MaxRefs] /\ permit' = permit
    BY <1>4, <2>0 DEF Subscribe
  <2>2. CASE refs[c.room] = 0
    <3>1. calls' = <<Call("notify", c.room)>> \o Tail(calls)
      BY <1>4, <2>2 DEF Subscribe
    <3>2. /\ calls' \in Seq(CallSet) /\ 1 \in DOMAIN calls' /\ calls'[1].op = "notify"
      BY <1>1, <1>2, <3>1, NotifyFirst
    <3>3. permit' \in BOOLEAN /\ (permit => permit')
      BY <2>1 DEF TypeOK
    <3> QED
      BY <1>1, <2>1, <3>2, <3>3
  <2>3. CASE refs[c.room] # 0
    <3>1. calls' = Tail(calls)
      BY <1>4, <2>3 DEF Subscribe
    <3>2. Referenced' = Referenced
      BY <1>2, <1>4, <2>3 DEF Subscribe, Referenced, TypeOK
    <3> QED
      BY <1>1, <1>3, <1>4, <2>1, <3>1, <3>2 DEF TypeOK
  <2> QED
    BY <2>2, <2>3
<1>5. CASE c.op = "unsubscribe" /\ Unsubscribe(c.room)
  <2>0. refs \in [Rooms -> 0..MaxRefs]
    BY DEF TypeOK
  <2>1. refs' \in [Rooms -> 0..MaxRefs] /\ permit' = permit
    BY <1>2, <1>5, <2>0 DEF Unsubscribe
  <2>2. CASE refs[c.room] = 1
    <3>1. calls' = <<Call("notify", c.room)>> \o Tail(calls)
      BY <1>5, <2>2 DEF Unsubscribe
    <3>2. /\ calls' \in Seq(CallSet) /\ 1 \in DOMAIN calls' /\ calls'[1].op = "notify"
      BY <1>1, <1>2, <3>1, NotifyFirst
    <3>3. permit' \in BOOLEAN /\ (permit => permit')
      BY <2>1 DEF TypeOK
    <3> QED
      BY <1>1, <2>1, <3>2, <3>3
  <2>3. CASE refs[c.room] # 1
    <3>1. calls' = Tail(calls)
      BY <1>5, <2>3 DEF Unsubscribe
    <3>2. \A q \in Rooms : refs'[q] > 0 <=> refs[q] > 0
      <4> SUFFICES ASSUME NEW q \in Rooms
                   PROVE  refs'[q] > 0 <=> refs[q] > 0
        OBVIOUS
      <4>1. refs[q] \in Nat
        BY DEF TypeOK
      <4>2. CASE q # c.room
        BY <1>2, <1>5, <4>2 DEF Unsubscribe, TypeOK
      <4>3. CASE q = c.room
        <5>1. refs'[q] = IF refs[q] = 0 THEN 0 ELSE refs[q] - 1
          BY <1>2, <1>5, <4>3 DEF Unsubscribe, TypeOK
        <5> QED
          BY <2>3, <4>1, <4>3, <5>1
      <4> QED
        BY <4>2, <4>3
    <3>3. Referenced' = Referenced
      BY <3>2 DEF Referenced
    <3> QED
      BY <1>1, <1>3, <1>5, <2>1, <3>1, <3>3 DEF TypeOK
  <2> QED
    BY <2>2, <2>3
<1>6. CASE c.op = "notify" /\ NotifyOne
  BY <1>1, <1>6 DEF NotifyOne, TypeOK
<1> QED
  BY <1>4, <1>5, <1>6 DEF DoCall, c

\* Posting a list and taking one from the queue keep its type.
LEMMA PostTyped ==
  ASSUME TypeOK, NEW r \in Rooms, NEW v \in 0..MaxPins, Post(r, v)
  PROVE  uiQueue' \in Seq(PostSet)
<1>1. [session |-> session, room |-> r, version |-> v] \in PostSet
  BY DEF TypeOK, PostSet
<1> QED
  BY <1>1, AppendProperties DEF Post, TypeOK, PostSet

-----------------------------------------------------------------------------
(* The steps about the handle that leave the subscriptions alone *)

BackendOnly ==
    /\ RequestLogout \/ StartBackend
       \/ \E s \in starts : Restore(s) \/ DropStart(s) \/ StartFails(s)
    /\ UNCHANGED <<session, uiVars, calls, refs, permit, reconVars, fwdVars, pins, uiQueue,
                   shown>>

\* Every step about the handle but a logout and a login is one of these.
LEMMA StepsOfBackend ==
  /\ RequestLogout \/ StartBackend => BackendOnly
  /\ Backend => Logout \/ BackendOnly \/ \E s \in starts : Login(s)
<1>1. RequestLogout \/ StartBackend => BackendOnly
  BY DEF BackendOnly, RequestLogout, StartBackend
<1>2. ASSUME NEW s \in starts, Restore(s) \/ DropStart(s) \/ StartFails(s)
      PROVE  BackendOnly
  BY <1>2 DEF BackendOnly, Restore, DropStart, StartFails
<1> QED
  BY <1>1, <1>2 DEF Backend, StartEnds

\* The types of what they change.
BackendTyped ==
    /\ session \in 0..MaxSession /\ started \in 1..MaxSession
    /\ page \in {"login", "restoring", "failed", "chat"} /\ request \in Nat
    /\ starts \subseteq StartSet /\ live \subseteq 1..MaxSession /\ logouts \in 0..MaxLogouts

\* They keep these types.
LEMMA BackendOnlyTyped ==
  ASSUME BackendTyped, BackendOnly
  PROVE  BackendTyped'
<1> USE DEF BackendTyped
<1>2. CASE RequestLogout
  BY <1>2 DEF RequestLogout
<1>3. CASE StartBackend
  <2>1. request' \in Nat /\ Start(request', FALSE, 0) \in StartSet
    BY <1>3 DEF StartBackend, Start, StartSet
  <2> QED
    BY <1>3, <2>1 DEF StartBackend
<1>4. ASSUME NEW s \in starts, Restore(s)
      PROVE  BackendTyped'
  <2>1. s.request \in Nat
    BY DEF StartSet
  <2>2. CASE UNCHANGED <<started, live>> /\ starts' = (starts \ {s}) \cup {Start(s.request, TRUE, 0)}
    <3>1. Start(s.request, TRUE, 0) \in StartSet
      BY <2>1 DEF Start, StartSet
    <3> QED
      BY <1>4, <2>2, <3>1 DEF Restore
  <2>3. CASE /\ started < MaxSession
             /\ started' = started + 1 /\ live' = live \cup {started'}
             /\ starts' = (starts \ {s}) \cup {Start(s.request, TRUE, started')}
    <3>1. started' \in 1..MaxSession
      BY <2>3
    <3>2. Start(s.request, TRUE, started') \in StartSet
      BY <2>1, <3>1 DEF Start, StartSet
    <3> QED
      BY <1>4, <2>3, <3>1, <3>2 DEF Restore
  <2> QED
    BY <1>4, <2>2, <2>3 DEF Restore
<1>5. ASSUME NEW s \in starts, DropStart(s) \/ StartFails(s)
      PROVE  BackendTyped'
  <2>1. request' \in Nat /\ starts' \subseteq StartSet /\ live' \subseteq 1..MaxSession
    <3>1. CASE DropStart(s)
      BY <3>1 DEF DropStart
    <3>2. CASE StartFails(s)
      BY <3>2 DEF StartFails
    <3> QED
      BY <1>5, <3>1, <3>2
  <2> QED
    BY <1>5, <2>1 DEF DropStart, StartFails
<1> QED
  BY <1>2, <1>3, <1>4, <1>5 DEF BackendOnly

-----------------------------------------------------------------------------
(* Types *)

\* The system starts with everything of its type.
LEMMA InitTyped == Init => TypeOK
<1> SUFFICES ASSUME Init
             PROVE  TypeOK
  OBVIOUS
<1>1. calls \in Seq(CallSet) /\ uiQueue \in Seq(PostSet)
  BY EmptySeq DEF Init
<1>2. NoPins \in [room : Rooms \cup {NoRoom}, version : 0..MaxPins]
  BY DEF NoPins
<1>3. /\ session \in 0..MaxSession /\ started \in 1..MaxSession
      /\ request \in Nat /\ starts \subseteq StartSet
      /\ live \subseteq 1..MaxSession /\ logouts \in 0..MaxLogouts
  BY DEF Init
<1>4. /\ refs \in [Rooms -> 0..MaxRefs] /\ emitted \in [Rooms -> 0..MaxPins]
      /\ pins \in [Rooms -> 0..MaxPins]
  BY DEF Init
<1> QED
  BY <1>1, <1>2, <1>3, <1>4 DEF Init, TypeOK, CallSet, PostSet, StartSet

\* Every step keeps the types.
LEMMA NextTyped == TypeOK /\ [Next]_vars => TypeOK'
<1> SUFFICES ASSUME TypeOK, [Next]_vars
             PROVE  TypeOK'
  OBVIOUS
<1>0. NoPins \in [room : Rooms \cup {NoRoom}, version : 0..MaxPins]
  BY DEF NoPins
<1>1. CASE DoCall
  BY <1>1, CallEffect DEF DoCall, TypeOK, CallSet
<1>2. ASSUME NEW r \in Rooms, SelectRoom(r)
      PROVE  TypeOK'
  <2>1. Call("subscribe", r) \in CallSet /\ (active # NoRoom => Call("unsubscribe", active) \in CallSet)
    BY DEF Call, CallSet, TypeOK
  <2>2. <<Call("subscribe", r)>> \in Seq(CallSet)
    BY <2>1
  <2>3. (IF active # NoRoom THEN <<Call("unsubscribe", active)>> ELSE <<>>) \in Seq(CallSet)
    BY <2>1, EmptySeq
  <2>4. calls' \in Seq(CallSet)
    BY <1>2, <2>2, <2>3, ConcatProperties DEF SelectRoom
  <2> QED
    BY <1>2, <1>0, <2>4 DEF SelectRoom, TypeOK, CallSet
<1>3. CASE CloseRoom
  <2>1. Call("unsubscribe", active) \in CallSet
    BY <1>3 DEF CloseRoom, Call, CallSet, TypeOK
  <2>2. <<Call("unsubscribe", active)>> \in Seq(CallSet)
    BY <2>1
  <2> QED
    BY <1>3, <1>0, <2>2 DEF CloseRoom, TypeOK, CallSet
<1>4. CASE LoseActiveRoom
  BY <1>4, <1>0 DEF LoseActiveRoom, TypeOK
<1>5. ASSUME NEW w \in Windows, NEW r \in Rooms, OpenWindow(w, r)
      PROVE  TypeOK'
  <2>1. Call("subscribe", r) \in CallSet
    BY DEF Call, CallSet
  <2>2. <<Call("subscribe", r)>> \in Seq(CallSet)
    BY <2>1
  <2> QED
    BY <1>5, <2>2 DEF OpenWindow, TypeOK, CallSet
<1>6. ASSUME NEW w \in Windows, CloseWindow(w)
      PROVE  TypeOK'
  <2>1. Call("unsubscribe", windows[w]) \in CallSet
    BY <1>6 DEF CloseWindow, Call, CallSet, TypeOK
  <2>2. <<Call("unsubscribe", windows[w])>> \in Seq(CallSet)
    BY <2>1
  <2>3. calls' \in Seq(CallSet)
    BY <1>6, <2>2, EmptySeq DEF CloseWindow
  <2> QED
    BY <1>6, <2>3 DEF CloseWindow, TypeOK, CallSet
<1>7. CASE Logout
  <2>0. /\ logouts' \in 0..MaxLogouts /\ request' \in Nat
        /\ live \ {session} \subseteq 1..MaxSession
    BY <1>7 DEF Logout, TypeOK
  <2>2. /\ windows \in [Windows -> Rooms \cup {NoRoom}] /\ started \in 1..MaxSession
        /\ calls \in Seq(CallSet) /\ uiQueue \in Seq(PostSet) /\ starts \subseteq StartSet
    BY DEF TypeOK, StartSet, CallSet, PostSet
  <2>1. /\ 0 \in 0..MaxSession /\ [r \in Rooms |-> 0] \in [Rooms -> 0..MaxRefs]
        /\ NoPins \in [room : Rooms \cup {NoRoom}, version : 0..MaxPins]
    BY DEF NoPins
  <2> QED
    BY <1>7, <2>0, <2>1, <2>2 DEF Logout, StopHandle, TypeOK, StartSet, CallSet, PostSet
<1>8. ASSUME NEW s \in starts, Login(s)
      PROVE  TypeOK'
  <2>1. s \in StartSet /\ starts \ {s} \subseteq StartSet
    BY DEF TypeOK, StartSet
  <2>2. session' \in 0..MaxSession
    BY <1>8, <2>1 DEF Login, StartSet
  <2> QED
    BY <1>8, <2>1, <2>2 DEF Login, TypeOK, StartSet
<1>14. CASE BackendOnly
  <2>1. BackendTyped
    BY DEF BackendTyped, StartSet, TypeOK
  <2>2. BackendTyped'
    BY <1>14, <2>1, BackendOnlyTyped
  <2> QED
    BY <1>14, <2>2 DEF BackendOnly, BackendTyped, StartSet, TypeOK
<1>9. CASE ShowPins
  <2>1. Head(uiQueue) \in PostSet /\ Tail(uiQueue) \in Seq(PostSet)
    BY <1>9, FirstAndRest DEF ShowPins, TypeOK, PostSet
  <2>2. shown' \in [room : Rooms \cup {NoRoom}, version : 0..MaxPins]
    BY <1>9, <2>1 DEF ShowPins, TypeOK, PostSet
  <2> QED
    BY <1>9, <2>1, <2>2 DEF ShowPins, TypeOK, PostSet
<1>10. CASE Reconciler
  BY <1>10 DEF Reconciler, Wake, TakeSet, Submit, Referenced, TypeOK
<1>11. ASSUME NEW r \in Rooms, Forwarder(r)
       PROVE  TypeOK'
  <2>1. pins[r] \in 0..MaxPins
    BY DEF TypeOK
  <2>2. CASE Listen(r)
    BY <2>2 DEF Listen, TypeOK
  <2>3. CASE Seed(r)
    <3>1. uiQueue' \in Seq(PostSet)
      BY <2>1, <2>3, PostTyped DEF Seed
    <3> QED
      BY <2>1, <2>3, <3>1 DEF Seed, TypeOK, PostSet
  <2>4. CASE Emit(r)
    <3>1. uiQueue' \in Seq(PostSet)
      BY <2>1, <2>4, PostTyped DEF Emit, TypeOK, PostSet
    <3> QED
      BY <2>1, <2>4, <3>1 DEF Emit, TypeOK, PostSet
  <2> QED
    BY <1>11, <2>2, <2>3, <2>4 DEF Forwarder
<1>12. ASSUME NEW r \in Rooms, PinsChange(r) \/ RoomInfoChange(r)
       PROVE  TypeOK'
  <2>1. Stirred(r) \in [Rooms -> {"absent", "starting", "seeded", "listening", "stirred"}]
    BY DEF Stirred, TypeOK
  <2>2. pins' \in [Rooms -> 0..MaxPins]
    <3>1. CASE PinsChange(r)
      <4>1. pins[r] + 1 \in 0..MaxPins
        BY <3>1 DEF PinsChange, TypeOK
      <4> QED
        BY <3>1, <4>1 DEF PinsChange, TypeOK
    <3>2. CASE RoomInfoChange(r)
      BY <3>2 DEF RoomInfoChange, TypeOK
    <3> QED
      BY <1>12, <3>1, <3>2
  <2> QED
    BY <1>12, <2>1, <2>2 DEF PinsChange, RoomInfoChange, TypeOK
<1>13. CASE UNCHANGED vars
  BY <1>13 DEF vars, TypeOK
<1> QED
  BY <1>1, <1>2, <1>3, <1>4, <1>5, <1>6, <1>7, <1>8, <1>9, <1>10, <1>11, <1>12, <1>13, <1>14,
     StepsOfBackend DEF Next, User

\* Type correctness: in particular a room is never counted below zero, whatever
\* windows of ended sessions give back.
THEOREM TypeCorrect == Spec => []TypeOK
BY InitTyped, NextTyped, PTL DEF Spec

-----------------------------------------------------------------------------
(* The backend handle *)

\* Starts are told apart by their request and by their handle, and a handle that
\* was given out is not given out again.
StartsAreDistinct ==
    /\ session <= started
    /\ \A s \in starts : /\ s.request <= request /\ s.handle <= started
                         /\ s.handle # 0 => s.done /\ s.handle # session
    /\ \A s, t \in starts : s # t => /\ s.request # t.request
                                     /\ s.handle # 0 => s.handle # t.handle

BackendInv == StartsAreDistinct /\ NoBackendIsLost /\ PagesFollowStarts

Lasting == <<session, started, page, request, starts, live>>

\* What a step about the handle does to the starts, the registry and the page.
LEMMA BackendIsSound == Spec => []BackendInv
<1>1. Init => BackendInv
  BY DEF Init, BackendInv, StartsAreDistinct, NoBackendIsLost, PagesFollowStarts
<1>2. TypeOK /\ BackendInv /\ [Next]_vars => BackendInv'
  <2> SUFFICES ASSUME TypeOK, BackendInv, [Next]_vars
               PROVE  BackendInv'
    OBVIOUS
  <2>0. starts \subseteq StartSet /\ session \in Nat /\ started \in Nat /\ request \in Nat
    BY DEF TypeOK, StartSet
  <2> USE DEF BackendInv
  <2>1. CASE UNCHANGED Lasting
    BY <2>1 DEF Lasting, StartsAreDistinct, NoBackendIsLost, PagesFollowStarts
  <2>2. CASE Logout
    <3>1. /\ session' = 0 /\ page' = "login" /\ request' = request + 2
          /\ live' = live \ {session} /\ UNCHANGED <<started, starts>>
      BY <2>2 DEF Logout, StopHandle
    <3>2. StartsAreDistinct'
      BY <2>0, <3>1 DEF StartsAreDistinct, StartSet
    <3>3. NoBackendIsLost'
      BY <3>1 DEF NoBackendIsLost, StartsAreDistinct
    <3>4. PagesFollowStarts'
      BY <2>0, <3>1 DEF PagesFollowStarts, StartsAreDistinct, StartSet
    <3> QED
      BY <3>2, <3>3, <3>4
  <2>3. CASE StartBackend
    <3> DEFINE new == Start(request + 2, FALSE, 0)
    <3>1. /\ request' = request + 2 /\ starts' = starts \cup {new} /\ page' = "restoring"
          /\ page \in {"login", "failed"} /\ UNCHANGED <<session, started, live>>
      BY <2>3 DEF StartBackend
    <3>2. new \in StartSet /\ new.request = request + 2 /\ new.handle = 0
      BY <2>0 DEF Start, StartSet
    <3> HIDE DEF new
    <3>3. StartsAreDistinct'
      BY <2>0, <3>1, <3>2 DEF StartsAreDistinct, StartSet
    <3>4. NoBackendIsLost'
      BY <3>1, <3>2 DEF NoBackendIsLost
    <3>5. PagesFollowStarts'
      BY <3>1, <3>2 DEF PagesFollowStarts
    <3> QED
      BY <3>3, <3>4, <3>5
  <2>4. ASSUME NEW s \in starts, Restore(s)
        PROVE  BackendInv'
    <3>1. PICK h \in 0..MaxSession :
            /\ \/ h = 0 /\ UNCHANGED <<started, live>>
               \/ h = started + 1 /\ started' = h /\ live' = live \cup {h}
            /\ starts' = (starts \ {s}) \cup {Start(s.request, TRUE, h)}
      <4>1. CASE started < MaxSession /\ started' = started + 1 /\ live' = live \cup {started'}
                 /\ starts' = (starts \ {s}) \cup {Start(s.request, TRUE, started')}
        <5>1. started' \in 0..MaxSession
          BY <2>0, <4>1
        <5> QED
          BY <4>1, <5>1
      <4>2. CASE starts' = (starts \ {s}) \cup {Start(s.request, TRUE, 0)}
                 /\ UNCHANGED <<started, live>>
        <5>1. 0 \in 0..MaxSession
          OBVIOUS
        <5> HIDE DEF BackendInv
        <5> QED
          BY <4>2, <5>1, ZenonT(30)
      <4> QED
        BY <2>4, <4>1, <4>2 DEF Restore
    <3> DEFINE new == Start(s.request, TRUE, h)
    <3>2. new \in StartSet /\ new.request = s.request /\ new.handle = h /\ new.done
      BY <2>0 DEF Start, StartSet
    <3>3. ~s.done /\ s.handle = 0 /\ UNCHANGED <<session, page, request>>
      BY <2>4 DEF Restore, StartsAreDistinct
    <3> HIDE DEF new
    <3>4. starts' = (starts \ {s}) \cup {new} /\ h \in Nat /\ started' \in Nat
      BY <2>0, <3>1 DEF new
    <3>5. StartsAreDistinct'
      <4>1. started <= started' /\ (h # 0 => h = started + 1 /\ started' = h)
        BY <2>0, <3>1
      <4>2. ASSUME NEW t \in starts'
            PROVE  /\ t.request <= request' /\ t.handle <= started'
                   /\ t.handle # 0 => t.done /\ t.handle # session'
        BY <2>0, <3>2, <3>3, <3>4, <4>1 DEF StartsAreDistinct, StartSet
      <4>3. ASSUME NEW t \in starts', NEW u \in starts', t # u
            PROVE  t.request # u.request /\ (t.handle # 0 => t.handle # u.handle)
        BY <2>0, <3>2, <3>3, <3>4, <4>1, <4>3 DEF StartsAreDistinct, StartSet
      <4> QED
        BY <2>0, <3>3, <3>4, <4>1, <4>2, <4>3 DEF StartsAreDistinct
    <3>6. NoBackendIsLost'
      <4>1. live' = (live \cup {h}) \ {0}
        BY <3>1, <2>0 DEF TypeOK
      <4>2. {t.handle : t \in starts'} \ {0} = ({t.handle : t \in starts} \cup {h}) \ {0}
        BY <3>2, <3>3, <3>4
      <4> QED
        BY <3>3, <4>1, <4>2 DEF NoBackendIsLost
    <3>7. PagesFollowStarts'
      BY <3>2, <3>3, <3>4 DEF PagesFollowStarts
    <3> QED
      BY <3>5, <3>6, <3>7
  <2>5. ASSUME NEW s \in starts, starts' = starts \ {s}, UNCHANGED started,
               request' \in Nat, request' >= request,
               session' = session \/ session' = s.handle
        PROVE  StartsAreDistinct'
    BY <2>0, <2>5 DEF StartsAreDistinct, StartSet
  <2>6. ASSUME NEW s \in starts, DropStart(s)
        PROVE  BackendInv'
    <3>1. /\ starts' = starts \ {s} /\ live' = live \ {s.handle} /\ s.request # request
          /\ UNCHANGED <<session, started, page, request>>
      BY <2>6 DEF DropStart
    <3>2. NoBackendIsLost'
      BY <3>1 DEF NoBackendIsLost, StartsAreDistinct
    <3>3. PagesFollowStarts'
      BY <3>1 DEF PagesFollowStarts
    <3> QED
      BY <2>0, <2>5, <3>1, <3>2, <3>3
  <2>7. ASSUME NEW s \in starts, StartFails(s)
        PROVE  BackendInv'
    <3>1. /\ starts' = starts \ {s} /\ s.handle = 0 /\ s.request = request
          /\ page' \in {"login", "failed"} /\ request' \in {request, request + 1}
          /\ UNCHANGED <<session, started, live>>
      BY <2>7 DEF StartFails
    <3>2. NoBackendIsLost'
      BY <3>1 DEF NoBackendIsLost
    <3>3. ~\E t \in starts' : t.request = request'
      BY <2>0, <3>1 DEF StartsAreDistinct, StartSet
    <3>4. page # "chat"
      BY <3>1 DEF PagesFollowStarts
    <3>5. PagesFollowStarts'
      BY <3>1, <3>3, <3>4 DEF PagesFollowStarts
    <3> QED
      BY <2>0, <2>5, <3>1, <3>2, <3>5
  <2>8. ASSUME NEW s \in starts, Login(s)
        PROVE  BackendInv'
    <3>1. /\ starts' = starts \ {s} /\ s.handle # 0 /\ s.request = request
          /\ session' = s.handle /\ page' = "chat" /\ UNCHANGED <<started, request, live>>
      BY <2>8 DEF Login
    <3>2. session = 0
      BY <3>1 DEF PagesFollowStarts
    <3>3. NoBackendIsLost'
      BY <3>1, <3>2 DEF NoBackendIsLost
    <3>4. ~\E t \in starts' : t.request = request'
      BY <3>1 DEF StartsAreDistinct
    <3>5. PagesFollowStarts'
      BY <3>1, <3>4 DEF PagesFollowStarts
    <3> QED
      BY <2>0, <2>5, <3>1, <3>3, <3>5
  <2> QED
    BY <2>1, <2>2, <2>3, <2>4, <2>6, <2>7, <2>8 DEF Next, User, Backend, StartEnds, DoCall,
       SelectRoom, CloseRoom, LoseActiveRoom, RequestLogout, OpenWindow, CloseWindow, ShowPins,
       Reconciler, Wake, TakeSet, Submit, Forwarder, Seed, Listen, Emit, PinsChange,
       RoomInfoChange, Lasting, vars
<1> QED
  BY <1>1, <1>2, TypeCorrect, PTL DEF Spec

\* NoBackendIsLost: whatever is started, replaced and logged out meanwhile, a handle
\* stays in the registry only while it is used or its answer is on its way.
THEOREM BackendsAreKept == Spec => []NoBackendIsLost
<1>1. BackendInv => NoBackendIsLost
  BY DEF BackendInv
<1> QED
  BY <1>1, BackendIsSound, PTL

\* PagesFollowStarts: a logout is the end of every start before it.
THEOREM LateStartsAreIgnored == Spec => []PagesFollowStarts
<1>1. BackendInv => PagesFollowStarts
  BY DEF BackendInv
<1> QED
  BY <1>1, BackendIsSound, PTL

-----------------------------------------------------------------------------
(* The reconciler *)

\* Without a handle nothing is referenced, nobody calls and nothing runs.
NoHandleNoSubscriptions ==
    /\ pc = "stopped" <=> session = 0
    /\ session = 0 => /\ calls = <<>> /\ Referenced = {} /\ desired = {}
                      /\ \A r \in Rooms : forwarders[r] = "absent"

\* A reconciler that sleeps or submits on an old set is told to look again.
ToldToLook ==
    pc \in {"waiting", "submitting"} /\ ~permit /\ Referenced # desired =>
        \E i \in DOMAIN calls : calls[i].op = "notify"

Forwarding == {r \in Rooms : forwarders[r] # "absent"}

ReconcilerInv == NoHandleNoSubscriptions /\ ToldToLook /\ ForwardersFollowTheSet

\* A step of a forwarder, or of what it listens to, changes neither which of them
\* run nor anything the reconciler looks at.
LEMMA ForwardersOnly ==
  ASSUME TypeOK, NEW r \in Rooms, Forwarder(r) \/ PinsChange(r) \/ RoomInfoChange(r)
  PROVE  /\ UNCHANGED <<session, pc, calls, refs, permit, desired, submitted>>
         /\ Forwarding' = Forwarding
         /\ session = 0 => \E q \in Rooms : forwarders[q] # "absent"
<1>1. UNCHANGED <<session, pc, calls, refs, permit, desired, submitted>>
  BY DEF Forwarder, Seed, Listen, Emit, PinsChange, RoomInfoChange
<1>2. \A q \in Rooms : forwarders'[q] # "absent" <=> forwarders[q] # "absent"
  BY DEF Forwarder, Seed, Listen, Emit, PinsChange, RoomInfoChange, Stirred, TypeOK
<1>3. session = 0 => forwarders[r] # "absent"
  BY DEF Forwarder, Seed, Listen, Emit, PinsChange, RoomInfoChange
<1> QED
  BY <1>1, <1>2, <1>3 DEF Forwarding

\* What the reconciler follows is never lost on the way.
LEMMA ReconcilerIsSound == Spec => []ReconcilerInv
<1>1. Init => ReconcilerInv
  BY DEF Init, ReconcilerInv, NoHandleNoSubscriptions, ToldToLook, ForwardersFollowTheSet, Referenced
<1>2. TypeOK /\ PagesFollowStarts /\ ReconcilerInv /\ [Next]_vars => ReconcilerInv'
  <2> SUFFICES ASSUME TypeOK, PagesFollowStarts, ReconcilerInv, [Next]_vars
               PROVE  ReconcilerInv'
    OBVIOUS
  <2> USE DEF ReconcilerInv
  <2>1. CASE DoCall
    <3>1. session # 0
      BY <2>1 DEF DoCall, NoHandleNoSubscriptions
    <3>2. UNCHANGED <<session, pc, desired, submitted, forwarders>>
      BY <2>1 DEF DoCall
    <3>3. ToldToLook'
      BY <2>1, <3>2, CallEffect DEF ToldToLook
    <3> QED
      BY <3>1, <3>2, <3>3 DEF NoHandleNoSubscriptions, ForwardersFollowTheSet
  <2>2. CASE UiIdle /\ session # 0 /\ UNCHANGED <<session, pc, refs, permit, desired, forwarders>>
    <3>1. ToldToLook'
      BY <2>2, EmptySeq DEF ToldToLook, UiIdle, Referenced
    <3> QED
      BY <2>2, <3>1 DEF NoHandleNoSubscriptions, ForwardersFollowTheSet
  <2>3. CASE \/ CloseRoom \/ LoseActiveRoom
             \/ \E r \in Rooms : SelectRoom(r)
             \/ \E w \in Windows, r \in Rooms : OpenWindow(w, r)
    BY <2>2, <2>3 DEF CloseRoom, LoseActiveRoom, SelectRoom, OpenWindow
  <2>4. ASSUME NEW w \in Windows, CloseWindow(w)
        PROVE  ReconcilerInv'
    <3>1. CASE session # 0
      BY <2>2, <2>4, <3>1 DEF CloseWindow
    <3>2. CASE session = 0
      BY <2>4, <3>2 DEF CloseWindow, NoHandleNoSubscriptions, ToldToLook,
         ForwardersFollowTheSet, Referenced
    <3> QED
      BY <3>1, <3>2
  <2>5. CASE Logout
    BY <2>5 DEF Logout, StopHandle, UiIdle, NoHandleNoSubscriptions, ToldToLook,
       ForwardersFollowTheSet, Referenced
  <2>6. ASSUME NEW s \in starts, Login(s)
        PROVE  ReconcilerInv'
    <3>0. session = 0
      BY <2>6 DEF Login, PagesFollowStarts
    <3>1. session' # 0 /\ pc' = "waiting" /\ Referenced' = {} /\ desired' = {}
      BY <2>6, <3>0 DEF Login, NoHandleNoSubscriptions, Referenced
    <3>2. {r \in Rooms : forwarders'[r] # "absent"} = {}
      BY <2>6, <3>0 DEF Login, NoHandleNoSubscriptions
    <3> QED
      BY <3>1, <3>2 DEF NoHandleNoSubscriptions, ToldToLook, ForwardersFollowTheSet
  <2>7. CASE ShowPins
    BY <2>7 DEF ShowPins, NoHandleNoSubscriptions, ToldToLook, ForwardersFollowTheSet,
       Referenced
  <2>8. CASE Reconciler
    <3>0. session' = session /\ session # 0
      BY <2>8 DEF Reconciler, Wake, TakeSet, Submit, NoHandleNoSubscriptions
    <3>1. CASE Wake
      BY <3>0, <3>1 DEF Wake, NoHandleNoSubscriptions, ToldToLook, ForwardersFollowTheSet,
         Referenced
    <3>2. CASE TakeSet
      <4>1. Referenced' = Referenced /\ desired' = Referenced
        BY <3>2 DEF TakeSet, Referenced
      <4>2. {r \in Rooms : forwarders'[r] # "absent"} = Referenced
        BY <3>2 DEF TakeSet, Referenced
      <4> QED
        BY <3>0, <3>2, <4>1, <4>2 DEF TakeSet, NoHandleNoSubscriptions, ToldToLook,
           ForwardersFollowTheSet
    <3>3. CASE Submit
      BY <3>0, <3>3 DEF Submit, NoHandleNoSubscriptions, ToldToLook, ForwardersFollowTheSet,
         Referenced
    <3> QED
      BY <2>8, <3>1, <3>2, <3>3 DEF Reconciler
  <2>9. ASSUME NEW r \in Rooms, Forwarder(r) \/ PinsChange(r) \/ RoomInfoChange(r)
        PROVE  ReconcilerInv'
    <3>1. /\ UNCHANGED <<session, pc, calls, refs, permit, desired, submitted>>
          /\ Forwarding' = Forwarding
          /\ session = 0 => \E q \in Rooms : forwarders[q] # "absent"
      BY <2>9, ForwardersOnly
    <3>2. session # 0
      BY <3>1 DEF NoHandleNoSubscriptions
    <3> QED
      BY <3>1, <3>2 DEF NoHandleNoSubscriptions, ToldToLook, ForwardersFollowTheSet,
         Forwarding, Referenced
  <2>10. CASE UNCHANGED vars
    BY <2>10 DEF vars, NoHandleNoSubscriptions, ToldToLook, ForwardersFollowTheSet, Referenced
  <2>11. CASE BackendOnly
    BY <2>11 DEF BackendOnly, NoHandleNoSubscriptions, ToldToLook, ForwardersFollowTheSet,
       Referenced
  <2> QED
    BY <2>1, <2>3, <2>4, <2>5, <2>6, <2>7, <2>8, <2>9, <2>10, <2>11, StepsOfBackend
       DEF Next, User
<1> QED
  BY <1>1, <1>2, TypeCorrect, LateStartsAreIgnored, PTL DEF Spec

\* NoLostWakeup: notify_one after the change of the set and the debounce after the
\* permit was taken leave no gap.
THEOREM WakeupsAreNotLost == Spec => []NoLostWakeup
<1>1. ReconcilerInv => NoLostWakeup
  BY DEF ReconcilerInv, ToldToLook, NoLostWakeup
<1> QED
  BY <1>1, ReconcilerIsSound, PTL

\* ForwardersFollowTheSet: aborted and started forwarders add up to the set that was
\* taken, over switches, logouts and logins.
THEOREM ForwardersAreOfTheSet == Spec => []ForwardersFollowTheSet
<1>1. ReconcilerInv => ForwardersFollowTheSet
  BY DEF ReconcilerInv
<1> QED
  BY <1>1, ReconcilerIsSound, PTL

-----------------------------------------------------------------------------
(* The pinned messages on screen *)

\* PinsAreOfActiveRoom: a list of the room before is not shown after a switch.
THEOREM PinsStayInTheirRoom == Spec => []PinsAreOfActiveRoom
<1>1. Init => PinsAreOfActiveRoom
  BY DEF Init, PinsAreOfActiveRoom, NoPins
<1>2. PinsAreOfActiveRoom /\ [Next]_vars => PinsAreOfActiveRoom'
  <2> SUFFICES ASSUME PinsAreOfActiveRoom, [Next]_vars
               PROVE  PinsAreOfActiveRoom'
    OBVIOUS
  <2>1. CASE UNCHANGED <<shown, active>>
    BY <2>1 DEF PinsAreOfActiveRoom
  <2>2. CASE shown' = NoPins
    BY <2>2 DEF PinsAreOfActiveRoom, NoPins
  <2>3. CASE ShowPins
    BY <2>3 DEF ShowPins, PinsAreOfActiveRoom
  <2> QED
    BY <2>1, <2>2, <2>3, StepsOfBackend DEF BackendOnly, Next, User, DoCall, SelectRoom,
       CloseRoom, LoseActiveRoom, Logout, StopHandle, Login, OpenWindow, CloseWindow, Reconciler, Wake, TakeSet, Submit, Forwarder, Seed,
       Listen, Emit, PinsChange, RoomInfoChange, vars
<1> QED
  BY <1>1, <1>2, PTL DEF Spec

\* The lists of a room are posted in the order of its changes, and none is newer
\* than the room.
ListsInOrder ==
    /\ \A i \in 1..Len(uiQueue) : uiQueue[i].version <= pins[uiQueue[i].room]
    /\ \A i, j \in 1..Len(uiQueue) :
          i <= j /\ uiQueue[i].room = uiQueue[j].room => uiQueue[i].version <= uiQueue[j].version

\* What is on screen is not newer than what is still to come.
ScreenIsNoNewer ==
    /\ shown.room = NoRoom => shown.version = 0
    /\ shown.room # NoRoom => shown.version <= pins[shown.room]
    /\ \A i \in 1..Len(uiQueue) : uiQueue[i].room = shown.room => shown.version <= uiQueue[i].version

OrderInv == ListsInOrder /\ ScreenIsNoNewer

\* A list that is posted is the newest of its room.
LEMMA PostInOrder ==
  ASSUME TypeOK, OrderInv, NEW r \in Rooms, Post(r, pins[r]), UNCHANGED <<pins, shown>>
  PROVE  OrderInv'
<1> DEFINE e == [session |-> session, room |-> r, version |-> pins[r]]
<1>1. e \in PostSet /\ e.room = r /\ e.version = pins[r] /\ uiQueue \in Seq(PostSet)
  BY DEF TypeOK, PostSet
<1>2. uiQueue' = Append(uiQueue, e)
  BY DEF Post
<1> HIDE DEF e
<1>3. /\ Len(uiQueue) \in Nat /\ Len(uiQueue') = Len(uiQueue) + 1
      /\ uiQueue'[Len(uiQueue) + 1] = e
      /\ \A i \in 1..Len(uiQueue) : uiQueue'[i] = uiQueue[i] /\ uiQueue[i] \in PostSet
  BY <1>1, <1>2, AppendProperties, LenProperties, ElementOfSeq
<1>4. \A i \in 1..Len(uiQueue') : i \in 1..Len(uiQueue) \/ i = Len(uiQueue) + 1
  BY <1>3
<1>5. \A q \in Rooms : pins[q] \in Nat
  BY DEF TypeOK
<1>6. ASSUME NEW i \in 1..Len(uiQueue')
      PROVE  uiQueue'[i].version <= pins'[uiQueue'[i].room]
  BY <1>1, <1>3, <1>4, <1>5 DEF OrderInv, ListsInOrder
<1>7. ASSUME NEW i \in 1..Len(uiQueue'), NEW j \in 1..Len(uiQueue'), i <= j,
             uiQueue'[i].room = uiQueue'[j].room
      PROVE  uiQueue'[i].version <= uiQueue'[j].version
  <2>1. CASE j \in 1..Len(uiQueue)
    <3>1. i \in 1..Len(uiQueue)
      BY <1>3, <1>7, <2>1
    <3> QED
      BY <1>3, <1>7, <2>1, <3>1 DEF OrderInv, ListsInOrder
  <2>2. CASE j = Len(uiQueue) + 1
    <3>1. uiQueue'[j].version = pins'[uiQueue'[i].room]
      BY <1>1, <1>3, <1>7, <2>2
    <3> QED
      BY <1>6, <3>1
  <2> QED
    BY <1>4, <2>1, <2>2
<1>8. ASSUME NEW i \in 1..Len(uiQueue'), uiQueue'[i].room = shown'.room
      PROVE  shown'.version <= uiQueue'[i].version
  <2>1. CASE i \in 1..Len(uiQueue)
    BY <1>3, <1>8, <2>1 DEF OrderInv, ScreenIsNoNewer
  <2>2. CASE i = Len(uiQueue) + 1
    <3>1. shown.room = r /\ uiQueue'[i].version = pins[r]
      BY <1>1, <1>3, <1>8, <2>2
    <3> QED
      BY <3>1 DEF OrderInv, ScreenIsNoNewer
  <2> QED
    BY <1>4, <2>1, <2>2
<1> QED
  BY <1>6, <1>7, <1>8 DEF OrderInv, ListsInOrder, ScreenIsNoNewer

\* The first list leaves the queue, shown or not.
LEMMA ShowInOrder ==
  ASSUME TypeOK, OrderInv, ShowPins
  PROVE  OrderInv'
<1> DEFINE e == Head(uiQueue)
<1>1. uiQueue # <<>> /\ uiQueue \in Seq(PostSet)
  BY DEF ShowPins, TypeOK, PostSet
<1>2. /\ e \in PostSet /\ e = uiQueue[1] /\ Len(uiQueue) \in Nat \ {0}
      /\ Len(uiQueue') = Len(uiQueue) - 1
      /\ \A i \in 1..Len(uiQueue') : uiQueue'[i] = uiQueue[i + 1]
  BY <1>1, FirstAndRest DEF ShowPins
<1>3. /\ pins' = pins
      /\ shown' = shown \/ shown' = [room |-> e.room, version |-> e.version]
  BY DEF ShowPins
<1> HIDE DEF e
<1>4. \A i \in 1..Len(uiQueue') : i + 1 \in 1..Len(uiQueue) /\ 1 <= i + 1 /\ 1 \in 1..Len(uiQueue)
  BY <1>2
<1>5. ListsInOrder'
  <2>1. \A i \in 1..Len(uiQueue') : uiQueue'[i].version <= pins'[uiQueue'[i].room]
    BY <1>2, <1>3, <1>4 DEF OrderInv, ListsInOrder
  <2>2. ASSUME NEW i \in 1..Len(uiQueue'), NEW j \in 1..Len(uiQueue'), i <= j,
               uiQueue'[i].room = uiQueue'[j].room
        PROVE  uiQueue'[i].version <= uiQueue'[j].version
    <3>1. i + 1 \in 1..Len(uiQueue) /\ j + 1 \in 1..Len(uiQueue) /\ i + 1 <= j + 1
      BY <1>4, <2>2
    <3> QED
      BY <1>2, <2>2, <3>1 DEF OrderInv, ListsInOrder
  <2> QED
    BY <2>1, <2>2 DEF ListsInOrder
<1>6. ScreenIsNoNewer'
  <2>1. CASE shown' = shown
    BY <1>2, <1>3, <1>4, <2>1 DEF OrderInv, ScreenIsNoNewer
  <2>2. CASE shown' = [room |-> e.room, version |-> e.version]
    <3>1. shown'.room = uiQueue[1].room /\ shown'.version = uiQueue[1].version /\ shown'.room \in Rooms
      BY <1>2, <2>2 DEF PostSet
    <3>2. shown'.room # NoRoom /\ 1 \in 1..Len(uiQueue)
      BY <1>2, <3>1
    <3>3. shown'.version <= pins'[shown'.room]
      BY <1>3, <3>1, <3>2 DEF OrderInv, ListsInOrder
    <3>4. ASSUME NEW i \in 1..Len(uiQueue'), uiQueue'[i].room = shown'.room
          PROVE  shown'.version <= uiQueue'[i].version
      BY <1>2, <1>4, <3>1, <3>2, <3>4 DEF OrderInv, ListsInOrder
    <3> QED
      BY <3>2, <3>3, <3>4 DEF ScreenIsNoNewer
  <2> QED
    BY <1>3, <2>1, <2>2
<1> QED
  BY <1>5, <1>6 DEF OrderInv

\* Lists are posted and shown in the order of the changes, across forwarders that
\* are aborted and started again.
LEMMA OrderIsSound == Spec => []OrderInv
<1>1. Init => OrderInv
  BY EmptySeq DEF Init, OrderInv, ListsInOrder, ScreenIsNoNewer, NoPins
<1>2. TypeOK /\ OrderInv /\ [Next]_vars => OrderInv'
  <2> SUFFICES ASSUME TypeOK, OrderInv, [Next]_vars
               PROVE  OrderInv'
    OBVIOUS
  <2>0. \A i \in 1..Len(uiQueue) : uiQueue[i] \in PostSet
    <3>1. uiQueue \in Seq(PostSet)
      BY DEF TypeOK, PostSet
    <3> QED
      BY <3>1, ElementOfSeq
  <2>1. CASE UNCHANGED <<uiQueue, pins, shown>>
    BY <2>1 DEF OrderInv, ListsInOrder, ScreenIsNoNewer
  <2>2. CASE shown' = NoPins /\ UNCHANGED <<uiQueue, pins>>
    <3>1. \A i \in 1..Len(uiQueue) : uiQueue[i].room \in Rooms
      BY <2>0 DEF PostSet
    <3> QED
      BY <2>2, <3>1 DEF OrderInv, ListsInOrder, ScreenIsNoNewer, NoPins
  <2>3. CASE ShowPins
    BY <2>3, ShowInOrder
  <2>4. ASSUME NEW r \in Rooms, Forwarder(r)
        PROVE  OrderInv'
    <3>1. Post(r, pins[r]) \/ UNCHANGED uiQueue
      BY <2>4 DEF Forwarder, Seed, Listen, Emit
    <3>2. UNCHANGED <<pins, shown>>
      BY <2>4 DEF Forwarder, Seed, Listen, Emit
    <3> QED
      BY <2>1, <3>1, <3>2, PostInOrder
  <2>5. ASSUME NEW r \in Rooms, PinsChange(r)
        PROVE  OrderInv'
    <3>1. UNCHANGED <<uiQueue, shown>> /\ \A q \in Rooms : pins[q] \in Nat /\ pins'[q] \in Nat /\ pins[q] <= pins'[q]
      <4>1. pins \in [Rooms -> 0..MaxPins]
        BY DEF TypeOK
      <4>2. UNCHANGED <<uiQueue, shown>> /\ pins' = [pins EXCEPT ![r] = @ + 1]
        BY <2>5 DEF PinsChange
      <4> QED
        BY <4>1, <4>2
    <3>2. shown.room # NoRoom => shown.room \in Rooms /\ shown.version \in Nat
      BY DEF TypeOK
    <3>3. \A i \in 1..Len(uiQueue) : uiQueue[i].room \in Rooms /\ uiQueue[i].version \in Nat
      BY <2>0 DEF PostSet
    <3>4. ListsInOrder'
      <4>1. ASSUME NEW i \in 1..Len(uiQueue)
            PROVE  uiQueue[i].version <= pins'[uiQueue[i].room]
        <5>1. uiQueue[i].version <= pins[uiQueue[i].room]
          BY DEF OrderInv, ListsInOrder
        <5> QED
          BY <3>1, <3>3, <5>1
      <4> QED
        BY <3>1, <4>1 DEF OrderInv, ListsInOrder
    <3>5. ScreenIsNoNewer'
      <4>1. shown.room # NoRoom => shown.version <= pins'[shown.room]
        BY <3>1, <3>2 DEF OrderInv, ScreenIsNoNewer
      <4> QED
        BY <3>1, <4>1 DEF OrderInv, ScreenIsNoNewer
    <3> QED
      BY <3>4, <3>5 DEF OrderInv
  <2> QED
    BY <2>1, <2>2, <2>3, <2>4, <2>5, StepsOfBackend DEF BackendOnly, Next, User, DoCall,
       SelectRoom, CloseRoom, LoseActiveRoom, Logout, StopHandle, Login, OpenWindow, CloseWindow, Reconciler, Wake, TakeSet,
       Submit, RoomInfoChange, vars
<1> QED
  BY <1>1, <1>2, TypeCorrect, PTL DEF Spec

\* PinsNeverGoBack: while a room stays on screen its list is only replaced by a newer
\* one, in every session.
THEOREM PinsOnlyAdvance == Spec => PinsNeverGoBack
<1>1. /\ TypeOK /\ OrderInv /\ PinsAreOfActiveRoom /\ [Next]_vars
      => [active' = active /\ active # NoRoom => shown'.version >= shown.version]_vars
  <2> SUFFICES ASSUME TypeOK, OrderInv, PinsAreOfActiveRoom, [Next]_vars,
                      active' = active, active # NoRoom
               PROVE  shown'.version >= shown.version
    OBVIOUS
  <2>0. shown.version \in Nat
    BY DEF TypeOK
  <2>1. CASE ShowPins
    <3>1. uiQueue # <<>> /\ uiQueue \in Seq(PostSet)
      BY <2>1 DEF ShowPins, TypeOK, PostSet
    <3>2. Head(uiQueue) = uiQueue[1] /\ 1 \in 1..Len(uiQueue) /\ Head(uiQueue) \in PostSet
      BY <3>1, FirstAndRest
    <3>3. CASE shown' = shown
      BY <2>0, <3>3
    <3>4. CASE shown' # shown
      <4>1. uiQueue[1].room = active /\ shown'.version = uiQueue[1].version
        BY <2>1, <3>2, <3>4 DEF ShowPins
      <4>2. uiQueue[1].version \in Nat
        BY <3>2 DEF PostSet
      <4>3. shown.room = active => shown.version <= uiQueue[1].version
        BY <3>2, <4>1 DEF OrderInv, ScreenIsNoNewer
      <4>4. shown.room = NoRoom => shown.version = 0
        BY DEF OrderInv, ScreenIsNoNewer
      <4> QED
        BY <2>0, <4>1, <4>2, <4>3, <4>4 DEF PinsAreOfActiveRoom
    <3> QED
      BY <3>3, <3>4
  <2>2. CASE UNCHANGED shown
    BY <2>0, <2>2
  <2> QED
    BY <2>1, <2>2, StepsOfBackend DEF BackendOnly, Next, User, DoCall, SelectRoom, CloseRoom,
       LoseActiveRoom, Logout, StopHandle, Login, OpenWindow, CloseWindow, Reconciler, Wake, TakeSet, Submit, Forwarder, Seed, Listen,
       Emit, PinsChange, RoomInfoChange, vars
<1> QED
  BY <1>1, TypeCorrect, OrderIsSound, PinsStayInTheirRoom, PTL DEF Spec, PinsNeverGoBack

-----------------------------------------------------------------------------
(* The steps of LatestSet *)

\* StepsLikeLatest: the component takes and submits sets like LatestSet, from its
\* initial state on; only a logout starts over.
THEOREM ReconcilerImplementsLatestSet == Spec => StepsLikeLatest
<1>1. Init => Latest!Init
  BY DEF Init, Latest!Init, Referenced
<1>2. [Next]_vars => [Logout \/ Latest!Next]_(Latest!vars)
  <2> SUFFICES ASSUME [Next]_vars, ~Logout
               PROVE  Latest!Next \/ UNCHANGED Latest!vars
    OBVIOUS
  <2>1. CASE DoCall
    <3>1. Referenced' \in SUBSET Rooms /\ UNCHANGED <<desired, submitted>>
      BY <2>1 DEF DoCall, Referenced
    <3> QED
      BY <3>1 DEF Latest!Next, Latest!Change
  <2>2. CASE TakeSet
    <3>1. desired' = Referenced /\ Referenced' = Referenced /\ submitted' = submitted
      BY <2>2 DEF TakeSet, Referenced
    <3> QED
      BY <3>1 DEF Latest!Next, Latest!Take
  <2>3. CASE Submit
    <3>1. submitted' = desired /\ Referenced' = Referenced /\ desired' = desired
      BY <2>3 DEF Submit, Referenced
    <3> QED
      BY <3>1 DEF Latest!Next, Latest!Apply
  <2>4. CASE UNCHANGED <<refs, desired, submitted>>
    BY <2>4 DEF Latest!vars, Referenced
  <2> QED
    BY <2>1, <2>2, <2>3, <2>4, StepsOfBackend DEF BackendOnly, Next, User, SelectRoom,
       CloseRoom, LoseActiveRoom, Login, OpenWindow, CloseWindow, ShowPins, Reconciler, Wake, Forwarder, Seed, Listen, Emit,
       PinsChange, RoomInfoChange, vars
<1> QED
  BY <1>1, <1>2, PTL DEF Spec, StepsLikeLatest

-----------------------------------------------------------------------------
(* References and surfaces *)

\* The windows of a room, and the rest of a handler's calls after the first.
ShownIn(shows, r) == Cardinality({w \in Windows : shows[w] = r})
Rest(into) == IF into = NoRoom THEN <<>> ELSE <<Call("subscribe", into)>>

\* What a UI handler leaves to call: to unsubscribe from one room, or to notify
\* for one, and then to subscribe to another.
CallsAreOrdered ==
    \E into \in Rooms \cup {NoRoom} :
        \/ calls = Rest(into)
        \/ \E q \in Rooms : \/ calls = <<Call("unsubscribe", q)>> \o Rest(into)
                            \/ calls = <<Call("notify", q)>> \o Rest(into)

\* References that some calls still take and give back.
Coming(s, r) == IF s # <<>> /\ s[Len(s)] = Call("subscribe", r) THEN 1 ELSE 0
Going(s, r) == IF s # <<>> /\ s[1] = Call("unsubscribe", r) THEN 1 ELSE 0

\* Every surface has its reference, once the calls are made.
SurfacesAreCounted ==
    \A r \in Rooms : refs[r] + Coming(calls, r) >= Surfaces(r) + Going(calls, r)

CountInv == session # 0 /\ CallsAreOrdered /\ SurfacesAreCounted

\* A window that shows the room from now on, that shows it no more, and one that
\* goes on showing it or not.
LEMMA WindowAdded ==
  ASSUME NEW shows \in [Windows -> Rooms \cup {NoRoom}], NEW w \in Windows,
         NEW r \in Rooms, shows[w] # r
  PROVE  ShownIn([shows EXCEPT ![w] = r], r) = ShownIn(shows, r) + 1
<1> DEFINE S == {v \in Windows : shows[v] = r}
           T == {v \in Windows : [shows EXCEPT ![w] = r][v] = r}
<1>1. IsFiniteSet(S)
  BY FS_Subset
<1>2. T = S \cup {w} /\ w \notin S
  OBVIOUS
<1> HIDE DEF S
<1>3. Cardinality(S \cup {w}) = Cardinality(S) + 1
  BY <1>1, <1>2, FS_AddElement
<1> QED
  BY <1>2, <1>3 DEF ShownIn, S

\* It shows another room, or none.
LEMMA WindowRemoved ==
  ASSUME NEW shows \in [Windows -> Rooms \cup {NoRoom}], NEW w \in Windows,
         NEW r \in Rooms, shows[w] = r, NEW to \in Rooms \cup {NoRoom}, to # r
  PROVE  ShownIn([shows EXCEPT ![w] = to], r) = ShownIn(shows, r) - 1
<1> DEFINE S == {v \in Windows : shows[v] = r}
           T == {v \in Windows : [shows EXCEPT ![w] = to][v] = r}
<1>1. IsFiniteSet(S)
  BY FS_Subset
<1>2. T = S \ {w} /\ w \in S
  OBVIOUS
<1> HIDE DEF S
<1>3. Cardinality(S \ {w}) = Cardinality(S) - 1
  BY <1>1, <1>2, FS_RemoveElement
<1> QED
  BY <1>2, <1>3 DEF ShownIn, S

\* Nothing changes for the room.
LEMMA WindowNeutral ==
  ASSUME NEW shows \in [Windows -> Rooms \cup {NoRoom}], NEW w \in Windows,
         NEW r \in Rooms, NEW to \in Rooms \cup {NoRoom}, shows[w] = r <=> to = r
  PROVE  ShownIn([shows EXCEPT ![w] = to], r) = ShownIn(shows, r)
<1>1. {v \in Windows : [shows EXCEPT ![w] = to][v] = r} = {v \in Windows : shows[v] = r}
  OBVIOUS
<1> QED
  BY <1>1 DEF ShownIn

\* The surfaces of a room are counted by a number, whatever windows there are.
LEMMA ShownTyped ==
  ASSUME NEW shows, NEW r
  PROVE  ShownIn(shows, r) \in Nat
<1>1. IsFiniteSet({w \in Windows : shows[w] = r})
  BY FS_Subset
<1> QED
  BY <1>1, FS_CardinalityType DEF ShownIn

\* The first of the calls and the rest of them.
LEMMA RestFollows ==
  ASSUME NEW c \in CallSet, NEW into \in Rooms \cup {NoRoom}
  PROVE  /\ Head(<<c>> \o Rest(into)) = c /\ Tail(<<c>> \o Rest(into)) = Rest(into)
         /\ <<c>> \o Rest(into) # <<>> /\ (<<c>> \o Rest(into))[1] = c
         /\ (<<c>> \o Rest(into))[Len(<<c>> \o Rest(into))] =
               IF into = NoRoom THEN c ELSE Call("subscribe", into)
<1>1. CASE into = NoRoom
  <2>1. <<c>> \o Rest(into) = <<c>>
    BY <1>1 DEF Rest
  <2>2. Head(<<c>>) = c /\ Tail(<<c>>) = <<>> /\ Len(<<c>>) = 1 /\ <<c>>[1] = c /\ <<c>> # <<>>
    OBVIOUS
  <2> QED
    BY <1>1, <2>1, <2>2 DEF Rest
<1>2. CASE into # NoRoom
  <2> DEFINE d == Call("subscribe", into)
  <2>1. d \in CallSet
    BY <1>2 DEF CallSet, Call
  <2> HIDE DEF d
  <2>2. <<c>> \in Seq(CallSet) /\ <<d>> \in Seq(CallSet) /\ <<c, d>> \in Seq(CallSet)
    BY <2>1
  <2>3. <<c>> \o <<d>> \in Seq(CallSet) /\ Len(<<c>> \o <<d>>) = 2
    BY <2>2, ConcatProperties
  <2>4. \A i \in 1..2 : (<<c>> \o <<d>>)[i] = <<c, d>>[i]
    BY <2>2, ConcatProperties
  <2>5. <<c>> \o <<d>> = <<c, d>>
    BY <2>2, <2>3, <2>4, SeqEqual
  <2>6. Rest(into) = <<d>>
    BY <1>2 DEF Rest, d
  <2>7. Head(<<c, d>>) = c /\ Tail(<<c, d>>) = <<d>>
    OBVIOUS
  <2>8. Len(<<c, d>>) = 2 /\ <<c, d>>[1] = c /\ <<c, d>>[2] = d /\ <<c, d>> # <<>>
    OBVIOUS
  <2> QED
    BY <1>2, <2>5, <2>6, <2>7, <2>8 DEF d
<1> QED
  BY <1>1, <1>2

\* What the calls of a handler take and give back: the subscription alone, after an
\* unsubscription, and after a notification.
LEMMA RestCounts ==
  ASSUME NEW into \in Rooms \cup {NoRoom}, NEW x \in Rooms
  PROVE  /\ Coming(Rest(into), x) = IF x = into THEN 1 ELSE 0
         /\ Going(Rest(into), x) = 0
<1>1. CASE into = NoRoom
  BY <1>1 DEF Rest, Coming, Going
<1>2. CASE into # NoRoom
  <2>1. Rest(into) = <<Call("subscribe", into)>>
    BY <1>2 DEF Rest
  <2>2. /\ Len(<<Call("subscribe", into)>>) = 1 /\ <<Call("subscribe", into)>> # <<>>
        /\ <<Call("subscribe", into)>>[1] = Call("subscribe", into)
    OBVIOUS
  <2>3. /\ Call("subscribe", into) = Call("subscribe", x) <=> x = into
        /\ Call("subscribe", into) # Call("unsubscribe", x)
    BY DEF Call
  <2> QED
    BY <2>1, <2>2, <2>3 DEF Coming, Going
<1> QED
  BY <1>1, <1>2

\* After an unsubscription.
LEMMA UnsubscribeCounts ==
  ASSUME NEW into \in Rooms \cup {NoRoom}, NEW q \in Rooms, NEW x \in Rooms
  PROVE  /\ Coming(<<Call("unsubscribe", q)>> \o Rest(into), x) = IF x = into THEN 1 ELSE 0
         /\ Going(<<Call("unsubscribe", q)>> \o Rest(into), x) = IF x = q THEN 1 ELSE 0
<1>1. Call("unsubscribe", q) \in CallSet
  BY DEF CallSet, Call
<1>2. /\ Call("subscribe", into) = Call("subscribe", x) <=> x = into
      /\ Call("unsubscribe", q) = Call("unsubscribe", x) <=> x = q
      /\ Call("unsubscribe", q) # Call("subscribe", x)
  BY DEF Call
<1> QED
  BY <1>1, <1>2, RestFollows DEF Coming, Going

\* After a notification.
LEMMA NotifyCounts ==
  ASSUME NEW into \in Rooms \cup {NoRoom}, NEW q \in Rooms, NEW x \in Rooms
  PROVE  /\ Coming(<<Call("notify", q)>> \o Rest(into), x) = IF x = into THEN 1 ELSE 0
         /\ Going(<<Call("notify", q)>> \o Rest(into), x) = 0
<1>1. Call("notify", q) \in CallSet
  BY DEF CallSet, Call
<1>2. /\ Call("subscribe", into) = Call("subscribe", x) <=> x = into
      /\ Call("notify", q) # Call("subscribe", x) /\ Call("notify", q) # Call("unsubscribe", x)
  BY DEF Call
<1> QED
  BY <1>1, <1>2, RestFollows DEF Coming, Going

\* Executing a call settles what it was counted for.
LEMMA CallCounts ==
  ASSUME TypeOK, CallsAreOrdered, DoCall
  PROVE  /\ CallsAreOrdered'
         /\ \A x \in Rooms : refs'[x] + Coming(calls', x) - Going(calls', x)
                               >= refs[x] + Coming(calls, x) - Going(calls, x)
<1> DEFINE Settled == \A x \in Rooms : refs'[x] + Coming(calls', x) - Going(calls', x)
                                         >= refs[x] + Coming(calls, x) - Going(calls, x)
<1>0. /\ \A x \in Rooms : refs[x] \in Nat
      /\ refs \in [Rooms -> 0..MaxRefs]
  BY DEF TypeOK
<1>1. calls # <<>>
  BY DEF DoCall
<1>2. ASSUME NEW r \in Rooms, calls = Rest(r)
      PROVE  CallsAreOrdered' /\ Settled
  <2>0. calls = <<Call("subscribe", r)>> \o Rest(NoRoom)
    BY <1>2 DEF Rest
  <2>1. Call("subscribe", r) \in CallSet /\ NoRoom \in Rooms \cup {NoRoom}
    BY DEF CallSet, Call
  <2>2. Head(calls) = Call("subscribe", r) /\ Tail(calls) = Rest(NoRoom)
    BY <2>0, <2>1, RestFollows
  <2>3. Subscribe(r)
    BY <2>2 DEF DoCall, Call
  <2>4. \A x \in Rooms : refs'[x] = IF x = r THEN refs[x] + 1 ELSE refs[x]
    BY <1>0, <2>3 DEF Subscribe
  <2>5. calls' = <<Call("notify", r)>> \o Rest(NoRoom) \/ calls' = Rest(NoRoom)
    BY <2>2, <2>3 DEF Subscribe
  <2>6. ASSUME NEW x \in Rooms
        PROVE  /\ Coming(calls, x) = (IF x = r THEN 1 ELSE 0) /\ Going(calls, x) = 0
               /\ Coming(calls', x) = 0 /\ Going(calls', x) = 0
    <3>1. Coming(calls, x) = (IF x = r THEN 1 ELSE 0) /\ Going(calls, x) = 0
      BY <1>2, RestCounts
    <3>2. x # NoRoom
      BY BoundsAssumption
    <3>3. /\ Coming(Rest(NoRoom), x) = 0 /\ Going(Rest(NoRoom), x) = 0
          /\ Coming(<<Call("notify", r)>> \o Rest(NoRoom), x) = 0
          /\ Going(<<Call("notify", r)>> \o Rest(NoRoom), x) = 0
      BY <2>1, <3>2, RestCounts, NotifyCounts
    <3> QED
      BY <2>5, <3>1, <3>3
  <2>7. CallsAreOrdered'
    BY <2>5 DEF CallsAreOrdered
  <2> QED
    BY <1>0, <2>4, <2>6, <2>7
<1>3. ASSUME NEW into \in Rooms \cup {NoRoom}, NEW q \in Rooms,
             calls = <<Call("unsubscribe", q)>> \o Rest(into)
      PROVE  CallsAreOrdered' /\ Settled
  <2>1. Call("unsubscribe", q) \in CallSet
    BY DEF CallSet, Call
  <2>2. Head(calls) = Call("unsubscribe", q) /\ Tail(calls) = Rest(into)
    BY <1>3, <2>1, RestFollows
  <2>3. Unsubscribe(q)
    BY <2>2 DEF DoCall, Call
  <2>4. \A x \in Rooms : refs'[x] \in Nat /\ refs'[x] >= IF x = q THEN refs[x] - 1 ELSE refs[x]
    BY <1>0, <2>3 DEF Unsubscribe
  <2>5. calls' = <<Call("notify", q)>> \o Rest(into) \/ calls' = Rest(into)
    BY <2>2, <2>3 DEF Unsubscribe
  <2>6. ASSUME NEW x \in Rooms
        PROVE  /\ Coming(calls, x) = (IF x = into THEN 1 ELSE 0)
               /\ Going(calls, x) = (IF x = q THEN 1 ELSE 0)
               /\ Coming(calls', x) = (IF x = into THEN 1 ELSE 0) /\ Going(calls', x) = 0
    <3>1. /\ Coming(calls, x) = (IF x = into THEN 1 ELSE 0)
          /\ Going(calls, x) = (IF x = q THEN 1 ELSE 0)
      BY <1>3, UnsubscribeCounts
    <3>2. /\ Coming(Rest(into), x) = (IF x = into THEN 1 ELSE 0) /\ Going(Rest(into), x) = 0
          /\ Coming(<<Call("notify", q)>> \o Rest(into), x) = (IF x = into THEN 1 ELSE 0)
          /\ Going(<<Call("notify", q)>> \o Rest(into), x) = 0
      BY RestCounts, NotifyCounts
    <3> QED
      BY <2>5, <3>1, <3>2
  <2>7. CallsAreOrdered'
    BY <2>5 DEF CallsAreOrdered
  <2> QED
    BY <1>0, <2>4, <2>6, <2>7
<1>4. ASSUME NEW into \in Rooms \cup {NoRoom}, NEW q \in Rooms,
             calls = <<Call("notify", q)>> \o Rest(into)
      PROVE  CallsAreOrdered' /\ Settled
  <2>1. Call("notify", q) \in CallSet
    BY DEF CallSet, Call
  <2>2. Head(calls) = Call("notify", q) /\ Tail(calls) = Rest(into)
    BY <1>4, <2>1, RestFollows
  <2>3. NotifyOne
    BY <2>2 DEF DoCall, Call
  <2>4. refs' = refs /\ calls' = Rest(into)
    BY <2>2, <2>3 DEF NotifyOne
  <2>5. \A x \in Rooms : /\ Coming(calls, x) = (IF x = into THEN 1 ELSE 0) /\ Going(calls, x) = 0
                         /\ Coming(calls', x) = (IF x = into THEN 1 ELSE 0) /\ Going(calls', x) = 0
    <3> SUFFICES ASSUME NEW x \in Rooms
                 PROVE  /\ Coming(calls, x) = (IF x = into THEN 1 ELSE 0) /\ Going(calls, x) = 0
                        /\ Coming(calls', x) = (IF x = into THEN 1 ELSE 0) /\ Going(calls', x) = 0
      OBVIOUS
    <3>1. /\ Coming(Rest(into), x) = (IF x = into THEN 1 ELSE 0) /\ Going(Rest(into), x) = 0
          /\ Coming(<<Call("notify", q)>> \o Rest(into), x) = (IF x = into THEN 1 ELSE 0)
          /\ Going(<<Call("notify", q)>> \o Rest(into), x) = 0
      BY RestCounts, NotifyCounts
    <3> QED
      BY <1>4, <2>4, <3>1
  <2>6. CallsAreOrdered'
    BY <2>4 DEF CallsAreOrdered
  <2> QED
    BY <1>0, <2>4, <2>5, <2>6
<1>5. calls # Rest(NoRoom)
  BY <1>1 DEF Rest
<1> HIDE DEF Settled
<1>6. CallsAreOrdered' /\ Settled
  BY <1>2, <1>3, <1>4, <1>5 DEF CallsAreOrdered
<1> QED
  BY <1>6 DEF Settled

\* A handler that starts leaves the counts right when it asks for a reference for
\* every surface it adds and gives none back but of a surface it takes away.
LEMMA HandlerCounts ==
  ASSUME TypeOK, CountInv, UiIdle, session' = session, refs' = refs, CallsAreOrdered',
         \A x \in Rooms : Surfaces(x)' + Going(calls', x) <= Surfaces(x) + Coming(calls', x)
  PROVE  CountInv'
<1>1. \A x \in Rooms : Coming(calls, x) = 0 /\ Going(calls, x) = 0
  BY DEF UiIdle, Coming, Going
<1>2. ASSUME NEW x \in Rooms
      PROVE  refs'[x] + Coming(calls', x) >= Surfaces(x)' + Going(calls', x)
  <2>1. refs[x] \in Nat
    BY DEF TypeOK
  <2>2. Surfaces(x) \in Nat /\ Surfaces(x)' \in Nat
    <3>1. ShownIn(windows, x) \in Nat /\ ShownIn(windows', x) \in Nat
      BY ShownTyped
    <3> QED
      BY <3>1 DEF Surfaces, ShownIn
  <2>3. Coming(calls', x) \in Nat /\ Going(calls', x) \in Nat
    BY DEF Coming, Going
  <2>4. refs[x] >= Surfaces(x)
    BY <1>1, <2>1, <2>2 DEF CountInv, SurfacesAreCounted
  <2>5. Surfaces(x)' + Going(calls', x) <= Surfaces(x) + Coming(calls', x)
    OBVIOUS
  <2> QED
    BY <2>1, <2>2, <2>3, <2>4, <2>5
<1> QED
  BY <1>2 DEF CountInv, SurfacesAreCounted

\* ShownRoomsAreSubscribed: the references of a room never run out while a surface
\* shows it, in a session (a window that outlives its session holds none in the
\* next).
THEOREM SurfacesKeepTheirRooms ==
  Init /\ [][Next /\ ~Logout]_vars => []ShownRoomsAreSubscribed
<1>1. Init => TypeOK /\ CountInv
  <2> SUFFICES ASSUME Init
               PROVE  CountInv
    BY InitTyped
  <2>1. ASSUME NEW r \in Rooms
        PROVE  Surfaces(r) = 0
    <3>1. {w \in Windows : windows[w] = r} = {}
      BY DEF Init
    <3>2. Cardinality({w \in Windows : windows[w] = r}) = 0
      BY <3>1, FS_EmptySet
    <3> QED
      BY <3>2 DEF Surfaces, Init
  <2>2. calls = Rest(NoRoom) /\ NoRoom \in Rooms \cup {NoRoom}
    BY DEF Init, Rest
  <2>3. CallsAreOrdered
    BY <2>2 DEF CallsAreOrdered
  <2> QED
    BY <2>1, <2>3 DEF Init, CountInv, SurfacesAreCounted, Coming, Going
<1>2. TypeOK /\ CountInv /\ [Next /\ ~Logout]_vars => TypeOK' /\ CountInv'
  <2> SUFFICES ASSUME TypeOK, CountInv, [Next /\ ~Logout]_vars
               PROVE  CountInv'
    BY NextTyped
  <2>0. NoRoom \notin Rooms /\ NoRoom \in Rooms \cup {NoRoom}
    BY BoundsAssumption
  <2>1. CASE DoCall
    <3>1. /\ CallsAreOrdered'
          /\ \A x \in Rooms : refs'[x] + Coming(calls', x) - Going(calls', x)
                                >= refs[x] + Coming(calls, x) - Going(calls, x)
      BY <2>1, CallCounts DEF CountInv
    <3>2. ASSUME NEW x \in Rooms
          PROVE  refs'[x] + Coming(calls', x) >= Surfaces(x)' + Going(calls', x)
      <4>1. Surfaces(x)' = Surfaces(x)
        BY <2>1 DEF DoCall, Surfaces
      <4>2. refs[x] \in Nat /\ refs'[x] \in Nat
        <5>1. refs \in [Rooms -> 0..MaxRefs]
          BY DEF TypeOK
        <5>2. refs' \in [Rooms -> 0..MaxRefs]
          BY <2>1, CallEffect
        <5> QED
          BY <5>1, <5>2
      <4>3. /\ Coming(calls, x) \in Nat /\ Coming(calls', x) \in Nat
            /\ Going(calls, x) \in Nat /\ Going(calls', x) \in Nat
        BY DEF Coming, Going
      <4>4. ShownIn(windows, x) \in Nat
        BY ShownTyped
      <4>5. Surfaces(x) \in Nat
        BY <4>4 DEF Surfaces, ShownIn
      <4>6. refs[x] + Coming(calls, x) >= Surfaces(x) + Going(calls, x)
        BY DEF CountInv, SurfacesAreCounted
      <4> QED
        BY <3>1, <4>1, <4>2, <4>3, <4>5, <4>6
    <3> QED
      BY <2>1, <3>1, <3>2 DEF DoCall, CountInv, SurfacesAreCounted, sessVars
  <2>2. CASE UNCHANGED <<session, calls, refs, active, windows>>
    <3>1. \A x \in Rooms : Surfaces(x)' = Surfaces(x)
      BY <2>2 DEF Surfaces
    <3> QED
      BY <2>2, <3>1 DEF CountInv, CallsAreOrdered, SurfacesAreCounted
  <2>3. ASSUME NEW r \in Rooms, SelectRoom(r)
        PROVE  CountInv'
    <3>1. UiIdle /\ session' = session /\ refs' = refs /\ windows' = windows
          /\ active' = r /\ r # active
      BY <2>3 DEF SelectRoom, sessVars
    <3>2. CASE active = NoRoom
      <4>1. calls' = Rest(r)
        BY <2>0, <2>3, <3>2 DEF SelectRoom, Rest
      <4>2. CallsAreOrdered'
        BY <4>1 DEF CallsAreOrdered
      <4>3. ASSUME NEW x \in Rooms
            PROVE  Surfaces(x)' + Going(calls', x) <= Surfaces(x) + Coming(calls', x)
        <5>1. Coming(calls', x) = (IF x = r THEN 1 ELSE 0) /\ Going(calls', x) = 0
          BY <4>1, RestCounts, UnsubscribeCounts
        <5>2. ShownIn(windows, x) \in Nat
          BY ShownTyped
        <5>3. /\ Surfaces(x) = ShownIn(windows, x)
              /\ Surfaces(x)' = ShownIn(windows, x) + (IF x = r THEN 1 ELSE 0)
          BY <2>0, <3>1, <3>2, <5>2 DEF Surfaces, ShownIn
        <5> QED
          BY <5>1, <5>2, <5>3
      <4> QED
        BY <3>1, <4>2, <4>3, HandlerCounts
    <3>3. CASE active # NoRoom
      <4>1. active \in Rooms
        BY <3>3 DEF TypeOK
      <4>2. calls' = <<Call("unsubscribe", active)>> \o Rest(r)
        BY <2>0, <2>3, <3>3 DEF SelectRoom, Rest
      <4>3. CallsAreOrdered'
        BY <4>1, <4>2 DEF CallsAreOrdered
      <4>4. ASSUME NEW x \in Rooms
            PROVE  Surfaces(x)' + Going(calls', x) <= Surfaces(x) + Coming(calls', x)
        <5>1. /\ Coming(calls', x) = (IF x = r THEN 1 ELSE 0)
              /\ Going(calls', x) = (IF x = active THEN 1 ELSE 0)
          <6>1. /\ Coming(<<Call("unsubscribe", active)>> \o Rest(r), x) = (IF x = r THEN 1 ELSE 0)
                /\ Going(<<Call("unsubscribe", active)>> \o Rest(r), x) = (IF x = active THEN 1 ELSE 0)
            BY <4>1, UnsubscribeCounts
          <6> QED
            BY <4>2, <6>1
        <5>2. ShownIn(windows, x) \in Nat
          BY ShownTyped
        <5>3. /\ Surfaces(x) = ShownIn(windows, x) + (IF x = active THEN 1 ELSE 0)
              /\ Surfaces(x)' = ShownIn(windows, x) + (IF x = r THEN 1 ELSE 0)
          BY <3>1 DEF Surfaces, ShownIn
        <5> QED
          BY <3>1, <5>1, <5>2, <5>3
      <4> QED
        BY <3>1, <4>3, <4>4, HandlerCounts
    <3> QED
      BY <3>2, <3>3
  <2>4. CASE CloseRoom \/ LoseActiveRoom
    <3>1. /\ UiIdle /\ session' = session /\ refs' = refs /\ windows' = windows
          /\ active' = NoRoom /\ active \in Rooms
      BY <2>4 DEF CloseRoom, LoseActiveRoom, sessVars, TypeOK
    <3>2. calls' = <<Call("unsubscribe", active)>> \o Rest(NoRoom) \/ calls' = Rest(NoRoom)
      BY <2>4 DEF CloseRoom, LoseActiveRoom, UiIdle, Rest
    <3>3. CallsAreOrdered'
      BY <2>0, <3>1, <3>2 DEF CallsAreOrdered
    <3>4. ASSUME NEW x \in Rooms
          PROVE  Surfaces(x)' + Going(calls', x) <= Surfaces(x) + Coming(calls', x)
      <4>1. /\ Coming(calls', x) = 0
            /\ Going(calls', x) = 0 \/ Going(calls', x) = (IF x = active THEN 1 ELSE 0)
        <5>1. /\ Coming(Rest(NoRoom), x) = 0 /\ Going(Rest(NoRoom), x) = 0
              /\ Coming(<<Call("unsubscribe", active)>> \o Rest(NoRoom), x) = 0
              /\ Going(<<Call("unsubscribe", active)>> \o Rest(NoRoom), x)
                    = (IF x = active THEN 1 ELSE 0)
          BY <2>0, <3>1, RestCounts, UnsubscribeCounts
        <5> QED
          BY <3>2, <5>1
      <4>2. ShownIn(windows, x) \in Nat
        BY ShownTyped
      <4>3. /\ Surfaces(x) = ShownIn(windows, x) + (IF x = active THEN 1 ELSE 0)
            /\ Surfaces(x)' = ShownIn(windows, x)
        BY <2>0, <3>1, <4>2 DEF Surfaces, ShownIn
      <4> QED
        BY <4>1, <4>2, <4>3
    <3> QED
      BY <3>1, <3>3, <3>4, HandlerCounts
  <2>5. ASSUME NEW w \in Windows, NEW r \in Rooms, OpenWindow(w, r)
        PROVE  CountInv'
    <3>1. /\ UiIdle /\ session' = session /\ refs' = refs /\ active' = active
          /\ windows[w] = NoRoom /\ windows' = [windows EXCEPT ![w] = r]
      BY <2>5 DEF OpenWindow, sessVars
    <3>2. calls' = Rest(r)
      BY <2>0, <2>5 DEF OpenWindow, Rest
    <3>3. CallsAreOrdered'
      BY <3>2 DEF CallsAreOrdered
    <3>4. ASSUME NEW x \in Rooms
          PROVE  Surfaces(x)' + Going(calls', x) <= Surfaces(x) + Coming(calls', x)
      <4>1. Coming(calls', x) = (IF x = r THEN 1 ELSE 0) /\ Going(calls', x) = 0
        BY <3>2, RestCounts
      <4>2. ShownIn(windows, x) \in Nat
        BY ShownTyped
      <4>3. ShownIn(windows', x) = ShownIn(windows, x) + (IF x = r THEN 1 ELSE 0)
        <5>1. windows \in [Windows -> Rooms \cup {NoRoom}] /\ windows[w] # x
          BY <2>0, <3>1 DEF TypeOK
        <5>2. CASE x = r
          <6>1. ShownIn([windows EXCEPT ![w] = r], x) = ShownIn(windows, x) + 1
            <7>1. windows[w] # x /\ r = x /\ r \in Rooms \cup {NoRoom}
              BY <5>1, <5>2
            <7> QED
              BY <5>1, <7>1, WindowAdded
          <6> QED
            BY <3>1, <5>2, <6>1
        <5>3. CASE x # r
          <6>1. (windows[w] = x <=> r = x) /\ r \in Rooms \cup {NoRoom}
            BY <5>1, <5>3
          <6>2. ShownIn([windows EXCEPT ![w] = r], x) = ShownIn(windows, x)
            BY <5>1, <6>1, WindowNeutral
          <6> QED
            BY <3>1, <4>2, <5>3, <6>2
        <5> QED
          BY <5>2, <5>3
      <4>4. /\ Surfaces(x) = ShownIn(windows, x) + (IF active = x THEN 1 ELSE 0)
            /\ Surfaces(x)' = ShownIn(windows', x) + (IF active = x THEN 1 ELSE 0)
        BY <3>1 DEF Surfaces, ShownIn
      <4> QED
        BY <4>1, <4>2, <4>3, <4>4
    <3> QED
      BY <3>1, <3>3, <3>4, HandlerCounts
  <2>6. ASSUME NEW w \in Windows, CloseWindow(w)
        PROVE  CountInv'
    <3> DEFINE r == windows[w]
    <3>1. /\ UiIdle /\ session' = session /\ refs' = refs /\ active' = active
          /\ r \in Rooms /\ windows' = [windows EXCEPT ![w] = NoRoom]
      BY <2>6 DEF CloseWindow, sessVars, TypeOK
    <3>2. calls' = <<Call("unsubscribe", r)>> \o Rest(NoRoom)
      BY <2>6 DEF CloseWindow, Rest, CountInv
    <3>3. CallsAreOrdered'
      BY <2>0, <3>1, <3>2 DEF CallsAreOrdered
    <3>4. ASSUME NEW x \in Rooms
          PROVE  Surfaces(x)' + Going(calls', x) <= Surfaces(x) + Coming(calls', x)
      <4>1. Coming(calls', x) = 0 /\ Going(calls', x) = (IF x = r THEN 1 ELSE 0)
        BY <2>0, <3>1, <3>2, RestCounts, UnsubscribeCounts
      <4>2. ShownIn(windows, x) \in Nat
        BY ShownTyped
      <4>3. ShownIn(windows', x) = ShownIn(windows, x) - (IF x = r THEN 1 ELSE 0)
        <5>1. windows \in [Windows -> Rooms \cup {NoRoom}] /\ NoRoom # x
          BY <2>0 DEF TypeOK
        <5>2. CASE x = r
          <6>1. windows[w] = x
            BY <5>2
          <6>2. ShownIn([windows EXCEPT ![w] = NoRoom], x) = ShownIn(windows, x) - 1
            BY <2>0, <5>1, <6>1, WindowRemoved
          <6> QED
            BY <3>1, <5>2, <6>2
        <5>3. CASE x # r
          <6>1. windows[w] # x
            BY <5>3
          <6>2. ShownIn([windows EXCEPT ![w] = NoRoom], x) = ShownIn(windows, x)
            BY <2>0, <5>1, <6>1, WindowNeutral
          <6> QED
            BY <3>1, <4>2, <5>3, <6>2
        <5> QED
          BY <5>2, <5>3
      <4>4. /\ Surfaces(x) = ShownIn(windows, x) + (IF active = x THEN 1 ELSE 0)
            /\ Surfaces(x)' = ShownIn(windows', x) + (IF active = x THEN 1 ELSE 0)
        BY <3>1 DEF Surfaces, ShownIn
      <4> QED
        BY <4>1, <4>2, <4>3, <4>4
    <3> QED
      BY <3>1, <3>3, <3>4, HandlerCounts
  <2>7. ASSUME NEW s \in starts, Login(s)
        PROVE  CountInv'
    <3>1. session' # 0 /\ UNCHANGED <<calls, refs, active, windows>>
      BY <2>7 DEF Login
    <3>2. \A x \in Rooms : Surfaces(x)' = Surfaces(x)
      BY <3>1 DEF Surfaces
    <3> QED
      BY <3>1, <3>2 DEF CountInv, CallsAreOrdered, SurfacesAreCounted
  <2>12. CASE BackendOnly
    BY <2>2, <2>12 DEF BackendOnly
  <2>8. CASE ShowPins
    BY <2>2, <2>8 DEF ShowPins, sessVars, uiVars
  <2>9. CASE Reconciler
    BY <2>2, <2>9 DEF Reconciler, Wake, TakeSet, Submit, sessVars, uiVars
  <2>10. ASSUME NEW r \in Rooms, Forwarder(r) \/ PinsChange(r) \/ RoomInfoChange(r)
         PROVE  CountInv'
    BY <2>2, <2>10 DEF Forwarder, Seed, Listen, Emit, PinsChange, RoomInfoChange, sessVars, uiVars
  <2>11. CASE UNCHANGED vars
    BY <2>2, <2>11 DEF vars, sessVars, uiVars
  <2> QED
    BY <2>1, <2>3, <2>4, <2>5, <2>6, <2>7, <2>8, <2>9, <2>10, <2>11, <2>12,
       StepsOfBackend DEF Next, User
<1>3. TypeOK /\ CountInv => ShownRoomsAreSubscribed
  <2> SUFFICES ASSUME TypeOK, CountInv, UiIdle, NEW r \in Rooms
               PROVE  refs[r] >= Surfaces(r)
    BY DEF ShownRoomsAreSubscribed
  <2>1. Coming(calls, r) = 0 /\ Going(calls, r) = 0
    BY DEF UiIdle, Coming, Going
  <2>2. ShownIn(windows, r) \in Nat
    BY ShownTyped
  <2>3. Surfaces(r) \in Nat
    BY <2>2 DEF Surfaces, ShownIn
  <2>4. refs[r] \in Nat
    BY DEF TypeOK
  <2>5. refs[r] + Coming(calls, r) >= Surfaces(r) + Going(calls, r)
    BY DEF CountInv, SurfacesAreCounted
  <2> QED
    BY <2>1, <2>3, <2>4, <2>5
<1> QED
  BY <1>1, <1>2, <1>3, PTL

=============================================================================
