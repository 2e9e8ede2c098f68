------------------------ MODULE AttachmentQueue_proofs ------------------------
(***************************************************************************)
(* What AttachmentQueue guarantees for every set of rooms and files and    *)
(* every number of staged files and sessions.                              *)
(***************************************************************************)
EXTENDS AttachmentQueue, SequenceLemmas

USE RoomsAssumption, BoundsAssumption

-----------------------------------------------------------------------------
(* Sequences *)

\* The first element and the rest of a sequence that is not empty.
LEMMA FirstAndRest ==
  ASSUME NEW S, NEW s \in Seq(S), s # <<>>
  PROVE  /\ Len(s) \in Nat \ {0} /\ Head(s) = s[1] /\ Head(s) \in S
         /\ Tail(s) \in Seq(S) /\ Len(Tail(s)) = Len(s) - 1
         /\ \A i \in 1..Len(Tail(s)) : Tail(s)[i] = s[i + 1]
  BY EmptySeq, HeadTailProperties

-----------------------------------------------------------------------------
(* What the operators on the queue do to it *)

SameEntry(e, f) == SameFile(e, f) /\ e.number = f.number

\* Captions change nothing else of the files.
LEMMA CaptionsOnly ==
  ASSUME pending \in Seq(Entries), rows \in Seq(RowItems)
  PROVE  /\ Captioned \in Seq(Entries) /\ Len(Captioned) = Len(pending)
         /\ \A i \in 1..Len(pending) : SameEntry(Captioned[i], pending[i])
<1>1. /\ Len(pending) \in Nat /\ DOMAIN pending = 1..Len(pending)
      /\ \A i \in 1..Len(pending) : pending[i] \in Entries
      /\ \A i \in DOMAIN rows : rows[i] \in RowItems
  BY LenProperties, ElementOfSeq
<1>2. \A i \in 1..Len(pending) :
        Captioned[i] \in Entries /\ SameEntry(Captioned[i], pending[i])
  BY <1>1 DEF Captioned, Entries, RowItems, SameEntry, SameFile
<1>3. Captioned \in [1..Len(pending) -> Entries]
  BY <1>1, <1>2 DEF Captioned
<1> QED
  BY <1>1, <1>2, <1>3, FunctionIsSequence

\* So does the reply.
LEMMA RepliesOnly ==
  ASSUME pending \in Seq(Entries), reply \in Rooms \cup {NoRoom}
  PROVE  /\ Stamped \in Seq(Entries) /\ Len(Stamped) = Len(pending)
         /\ \A i \in 1..Len(pending) : SameEntry(Stamped[i], pending[i])
<1>1. /\ Len(pending) \in Nat /\ DOMAIN pending = 1..Len(pending)
      /\ \A i \in 1..Len(pending) : pending[i] \in Entries
  BY LenProperties, ElementOfSeq
<1>2. \A i \in 1..Len(pending) :
        Stamped[i] \in Entries /\ SameEntry(Stamped[i], pending[i])
  BY <1>1 DEF Stamped, Entries, SameEntry, SameFile
<1>3. Stamped \in [1..Len(pending) -> Entries]
  BY <1>1, <1>2 DEF Stamped
<1> QED
  BY <1>1, <1>2, <1>3, FunctionIsSequence

\* How many files of the queue a switch leaves there.
Kept == IF Skips THEN 1 ELSE 0

\* What a switch restores comes after the file it leaves, with a row for each.
LEMMA Restored ==
  ASSUME pending \in Seq(Entries), rows \in Seq(RowItems),
         NEW files \in Seq(Entries), Restore(files)
  PROVE  /\ pending' \in Seq(Entries) /\ rows' \in Seq(RowItems)
         /\ Len(files) \in Nat /\ Len(rows') = Len(files) /\ Len(pending') = Kept + Len(files)
         /\ \A i \in 1..Len(files) : /\ pending'[Kept + i] = files[i]
                                     /\ rows'[i].number = files[i].number
         /\ Skips => SameEntry(pending'[1], pending[1])
<1>1. Len(files) \in Nat /\ DOMAIN files = 1..Len(files) /\ \A i \in 1..Len(files) : files[i] \in Entries
  BY LenProperties, ElementOfSeq
<1>2. /\ rows' \in [1..Len(files) -> RowItems]
      /\ \A i \in 1..Len(files) : rows'[i].number = files[i].number
  BY <1>1 DEF Restore, Entries, RowItems
<1>3. rows' \in Seq(RowItems) /\ Len(rows') = Len(files)
  BY <1>1, <1>2, FunctionIsSequence
<1>4. CASE Skips
  <2>1. /\ Captioned \in Seq(Entries) /\ Captioned # <<>>
        /\ SameEntry(Captioned[1], pending[1])
    BY <1>4, CaptionsOnly, EmptySeq DEF Skips
  <2>2. Head(Captioned) = Captioned[1] /\ Head(Captioned) \in Entries
    BY <2>1, FirstAndRest
  <2> DEFINE one == <<Head(Captioned)>>
  <2>3. one \in Seq(Entries) /\ Len(one) = 1 /\ one[1] = Captioned[1]
    BY <2>2
  <2>4. pending' = one \o files
    BY <1>4 DEF Restore
  <2> HIDE DEF one
  <2>0. /\ one \o files \in Seq(Entries) /\ Len(one \o files) = Len(one) + Len(files)
        /\ \A i \in 1..(Len(one) + Len(files)) :
              (one \o files)[i] = IF i <= Len(one) THEN one[i] ELSE files[i - Len(one)]
    BY <2>3, ConcatProperties
  <2>5. /\ pending' \in Seq(Entries) /\ Len(pending') = 1 + Len(files)
        /\ \A i \in 1..(1 + Len(files)) : pending'[i] = IF i <= 1 THEN one[i] ELSE files[i - 1]
    BY <2>0, <2>3, <2>4
  <2>6. pending'[1] = one[1] /\ \A i \in 1..Len(files) : pending'[1 + i] = files[i]
    BY <2>5, <1>1
  <2> QED
    BY <1>1, <1>2, <1>3, <1>4, <2>1, <2>3, <2>5, <2>6 DEF Kept
<1>5. CASE ~Skips
  <2>1. pending' = files
    BY <1>5, ConcatEmptySeq DEF Restore
  <2> QED
    BY <1>1, <1>2, <1>3, <1>5, <2>1 DEF Kept
<1> QED
  BY <1>4, <1>5

-----------------------------------------------------------------------------
(* Types *)

USE DEF sessVars, draftVars, queueVars, uploadVars

\* Every entry of the queue is one, and so is its first.
LEMMA EntriesOfQueue ==
  ASSUME NEW s \in Seq(Entries)
  PROVE  Len(s) \in Nat /\ \A i \in 1..Len(s) : s[i] \in Entries
  BY LenProperties, ElementOfSeq

\* The next upload is of a file of the queue.
LEMMA StartNextTyped ==
  ASSUME NEW q \in Seq(Entries), NEW rws \in Seq(RowItems), NEW running \in SUBSET Entries,
         tries \in [Numbers -> Nat], StartNext(q, rws, running)
  PROVE  inFlight' \in BOOLEAN /\ uploads' \subseteq Entries /\ tries' \in [Numbers -> Nat]
<1>1. CASE q = <<>>
  BY <1>1 DEF StartNext
<1>2. CASE q # <<>>
  <2>1. Head(q) \in Entries
    BY <1>2, FirstAndRest
  <2>2. rws # <<>> => Head(rws) \in RowItems
    BY FirstAndRest
  <2>3. (IF rws = <<>> THEN Head(q) ELSE [Head(q) EXCEPT !.caption = Head(rws).caption]) \in Entries
    BY <2>1, <2>2 DEF Entries, RowItems
  <2>4. tries' \in [Numbers -> Nat]
    BY <1>2 DEF StartNext
  <2> QED
    BY <1>2, <2>3, <2>4 DEF StartNext
<1> QED
  BY <1>1, <1>2

\* What a room that is left keeps is of the right type.
LEMMA OutgoingTyped ==
  ASSUME TypeOK
  PROVE  Outgoing \in [Rooms -> Drafts]
<1>1. Captioned \in Seq(Entries) /\ Len(Captioned) = Len(pending)
  BY CaptionsOnly DEF TypeOK
<1>2. Skips => Captioned # <<>>
  BY <1>1, EmptySeq DEF Skips, TypeOK
<1>3. Skips => Tail(Captioned) \in Seq(Entries)
  BY <1>1, <1>2, FirstAndRest
<1> QED
  BY <1>1, <1>3 DEF Outgoing, FilesKept, TypeOK, Drafts

\* The queue, its rows and the rest of the state are of their types, and the rows are
\* those of the last files.
QueueInv == TypeOK /\ RowsAreTheLastFiles

\* Nothing is staged at first.
LEMMA InitSound == Init => QueueInv
<1> SUFFICES ASSUME Init
             PROVE  QueueInv
  OBVIOUS
<1>1. <<>> \in Seq(Entries) /\ <<>> \in Seq(RowItems) /\ Len(<<>>) = 0 /\ Nothing \in Drafts
  BY EmptySeq DEF Nothing, Drafts
<1>2. saved \in [Rooms -> Drafts] /\ tries \in [Numbers -> Nat] /\ uploads \subseteq Entries
  BY <1>1 DEF Init
<1>3. session \in 0..MaxSession /\ started \in 1..MaxSession /\ staged \in 0..MaxStaged
  BY DEF Init
<1>4. TypeOK
  BY <1>1, <1>2, <1>3 DEF Init, TypeOK
<1> QED
  BY <1>1, <1>4 DEF Init, QueueInv, RowsAreTheLastFiles

\* A staged file comes last in the queue and in the rows.
LEMMA StageSound ==
  ASSUME QueueInv, NEW r \in Rooms, NEW p \in Paths, Stage(r, p)
  PROVE  QueueInv'
<1> DEFINE e == [number |-> staged + 1, room |-> r, session |-> session, path |-> p,
                 reply |-> NoRoom, caption |-> staged + 1]
           f == [number |-> staged + 1, caption |-> staged + 1]
<1>1. e \in Entries /\ f \in RowItems /\ e.number = f.number /\ staged' \in 0..MaxStaged
  BY DEF Stage, TypeOK, Entries, RowItems, Numbers, QueueInv
<1>2. pending' = Append(pending, e) /\ rows' = Append(rows, f)
  BY DEF Stage
<1> HIDE DEF e, f
<1>3. /\ pending' \in Seq(Entries) /\ Len(pending') = Len(pending) + 1
      /\ pending'[Len(pending) + 1] = e /\ \A i \in 1..Len(pending) : pending'[i] = pending[i]
      /\ rows' \in Seq(RowItems) /\ Len(rows') = Len(rows) + 1
      /\ rows'[Len(rows) + 1] = f /\ \A i \in 1..Len(rows) : rows'[i] = rows[i]
  BY <1>1, <1>2, AppendProperties DEF TypeOK, QueueInv
<1>4. TypeOK'
  BY <1>1, <1>3 DEF Stage, TypeOK, QueueInv
<1>5. Len(pending) \in Nat /\ Len(rows) \in Nat
  BY LenProperties DEF TypeOK, QueueInv
<1> DEFINE h == Len(pending) - Len(rows)
<1>6. h \in Nat /\ (~inFlight => h = 0) /\ \A i \in 1..Len(rows) : rows[i].number = pending[h + i].number
  BY <1>5 DEF RowsAreTheLastFiles, QueueInv
<1>7. Len(pending') - Len(rows') = h
  BY <1>3, <1>5
<1>8. ASSUME NEW i \in 1..Len(rows')
      PROVE  rows'[i].number = pending'[h + i].number
  <2>1. CASE i = Len(rows) + 1
    <3>1. h + i = Len(pending) + 1
      BY <2>1, <1>5
    <3> QED
      BY <2>1, <3>1, <1>1, <1>3
  <2>2. CASE i # Len(rows) + 1
    <3>1. i \in 1..Len(rows) /\ h + i \in 1..Len(pending)
      BY <2>2, <1>3, <1>5, <1>6
    <3> QED
      BY <3>1, <1>3, <1>6
  <2> QED
    BY <2>1, <2>2
<1> HIDE DEF h
<1>10. inFlight' = inFlight
  BY DEF Stage
<1>11. /\ Len(pending') - Len(rows') >= 0
       /\ \A i \in 1..Len(rows') : rows'[i].number = pending'[Len(pending') - Len(rows') + i].number
       /\ ~inFlight' => Len(pending') - Len(rows') = 0
  <2>1. \A i \in 1..Len(rows') : rows'[i].number = pending'[Len(pending') - Len(rows') + i].number
    BY <1>7, <1>8
  <2>2. Len(pending') - Len(rows') >= 0
    BY <1>6, <1>7
  <2>3. ~inFlight' => Len(pending') - Len(rows') = 0
    BY <1>6, <1>7, <1>10
  <2> QED
    BY <2>1, <2>2, <2>3
<1>9. RowsAreTheLastFiles'
  BY <1>11 DEF RowsAreTheLastFiles
<1> QED
  BY <1>4, <1>9 DEF QueueInv

\* A file and its row are taken back together.
LEMMA DetachSound ==
  ASSUME QueueInv, NEW i \in 1..Len(rows), Detach(i)
  PROVE  QueueInv'
<1>0. pending \in Seq(Entries) /\ rows \in Seq(RowItems)
  BY DEF QueueInv, TypeOK
<1>1. Len(pending) \in Nat /\ Len(rows) \in Nat
  BY LenProperties DEF TypeOK, QueueInv
<1>2. ~inFlight /\ Len(rows) = Len(pending) /\ \A j \in 1..Len(rows) : rows[j].number = pending[j].number
  BY <1>1 DEF Detach, QueueInv, RowsAreTheLastFiles
<1>3. /\ pending' \in Seq(Entries) /\ Len(pending') = Len(pending) - 1
      /\ \A j \in 1..(Len(pending) - 1) : pending'[j] = IF j < i THEN pending[j] ELSE pending[j + 1]
  <2>1. pending' = RemoveAt(pending, i) /\ i \in 1..Len(pending)
    BY <1>2 DEF Detach
  <2> QED
    BY <1>0, <2>1, Removal
<1>4. /\ rows' \in Seq(RowItems) /\ Len(rows') = Len(rows) - 1
      /\ \A j \in 1..(Len(rows) - 1) : rows'[j] = IF j < i THEN rows[j] ELSE rows[j + 1]
  <2>1. rows' = RemoveAt(rows, i)
    BY DEF Detach
  <2> QED
    BY <1>0, <2>1, Removal
<1>5. TypeOK'
  BY <1>3, <1>4 DEF Detach, TypeOK, QueueInv
<1>6. Len(pending') - Len(rows') = 0
  BY <1>1, <1>2, <1>3, <1>4
<1>7. ASSUME NEW j \in 1..Len(rows')
      PROVE  rows'[j].number = pending'[0 + j].number
  <2>1. /\ j \in 1..(Len(rows) - 1) /\ j \in 1..(Len(pending) - 1) /\ 0 + j = j
        /\ j \in 1..Len(rows) /\ j + 1 \in 1..Len(rows)
    BY <1>1, <1>2, <1>4
  <2> QED
    BY <2>1, <1>2, <1>3, <1>4
<1>8. RowsAreTheLastFiles'
  BY <1>6, <1>7 DEF RowsAreTheLastFiles
<1> QED
  BY <1>5, <1>8 DEF QueueInv

\* Sending leaves the files where they are.
LEMMA SendSound ==
  ASSUME QueueInv, Send
  PROVE  QueueInv'
<1>1. /\ Stamped \in Seq(Entries) /\ Len(Stamped) = Len(pending)
      /\ \A i \in 1..Len(pending) : Stamped[i].number = pending[i].number
  BY RepliesOnly DEF TypeOK, QueueInv, SameEntry
<1>2. inFlight' \in BOOLEAN /\ uploads' \subseteq Entries /\ tries' \in [Numbers -> Nat]
  BY <1>1, StartNextTyped DEF Send, TypeOK, QueueInv
<1>3. TypeOK'
  BY <1>1, <1>2 DEF Send, TypeOK, QueueInv
<1>4. Len(pending) \in Nat /\ Len(rows) \in Nat
  BY LenProperties DEF TypeOK, QueueInv
<1>5. RowsAreTheLastFiles'
  BY <1>1, <1>4 DEF RowsAreTheLastFiles, Send, QueueInv
<1> QED
  BY <1>3, <1>5 DEF QueueInv

\* A switch gives each restored file its row.
LEMMA SelectSound ==
  ASSUME QueueInv, NEW r \in Rooms, SelectRoom(r)
  PROVE  QueueInv'
<1>1. saved[r] \in Drafts /\ saved[r].files \in Seq(Entries)
  BY DEF TypeOK, QueueInv, Drafts
<1>2. /\ pending' \in Seq(Entries) /\ rows' \in Seq(RowItems)
      /\ Len(saved[r].files) \in Nat
      /\ Len(rows') = Len(saved[r].files) /\ Len(pending') = Kept + Len(saved[r].files)
      /\ \A i \in 1..Len(saved[r].files) :
            /\ pending'[Kept + i] = saved[r].files[i]
            /\ rows'[i].number = saved[r].files[i].number
  BY <1>1, Restored DEF SelectRoom, TypeOK, QueueInv
<1>3. Nothing \in Drafts
  BY EmptySeq DEF Nothing, Drafts
<1>4. saved' \in [Rooms -> Drafts]
  BY <1>3, OutgoingTyped DEF SelectRoom, QueueInv
<1>5. TypeOK'
  BY <1>1, <1>2, <1>4 DEF SelectRoom, TypeOK, QueueInv, Drafts
<1>6. Kept \in Nat /\ (~inFlight => Kept = 0)
  BY DEF Kept, Skips
<1>7. Len(pending') - Len(rows') = Kept
  BY <1>2, <1>6
<1>8. \A i \in 1..Len(rows') : rows'[i].number = pending'[Kept + i].number
  BY <1>2
<1>9. Kept >= 0 /\ (~inFlight' => Kept = 0)
  BY <1>6 DEF SelectRoom
<1> HIDE DEF Kept
<1>10. RowsAreTheLastFiles'
  BY <1>7, <1>8, <1>9 DEF RowsAreTheLastFiles
<1> QED
  BY <1>5, <1>10 DEF QueueInv

\* The queue and the rows are emptied together.
LEMMA ClearSound ==
  ASSUME QueueInv, Clear, saved' \in [Rooms -> Drafts], session' \in 0..MaxSession,
         started' = started
  PROVE  QueueInv'
<1>1. <<>> \in Seq(Entries) /\ <<>> \in Seq(RowItems) /\ Len(<<>>) = 0
  BY EmptySeq
<1>2. TypeOK'
  BY <1>1 DEF Clear, TypeOK, QueueInv
<1> QED
  BY <1>1, <1>2 DEF Clear, QueueInv, RowsAreTheLastFiles

\* The end of an upload takes a row away, and a file if it is the one that was uploaded.
LEMMA FinishSound ==
  ASSUME QueueInv, NEW e \in uploads, Finish(e)
  PROVE  QueueInv'
<1> DEFINE popped == pending # <<>> /\ SameFile(Head(pending), e)
           rest   == IF popped THEN Tail(pending) ELSE pending
           left   == IF rows = <<>> THEN rows ELSE Tail(rows)
<1>0. /\ pending \in Seq(Entries) /\ rows \in Seq(RowItems)
      /\ Len(pending) \in Nat /\ Len(rows) \in Nat /\ (Len(rows) = 0 <=> rows = <<>>)
  BY LenProperties, EmptySeq DEF TypeOK, QueueInv
<1>1. pending' = rest /\ rows' = left /\ StartNext(rest, left, uploads \ {e})
  BY DEF Finish
<1>2. popped => /\ Len(pending) # 0 /\ rest \in Seq(Entries) /\ Len(rest) = Len(pending) - 1
                /\ \A i \in 1..(Len(pending) - 1) : rest[i] = pending[i + 1]
  BY <1>0, FirstAndRest
<1>3. ~popped => rest = pending
  OBVIOUS
<1>4. rows # <<>> => /\ left \in Seq(RowItems) /\ Len(left) = Len(rows) - 1
                     /\ \A i \in 1..(Len(rows) - 1) : left[i] = rows[i + 1]
  BY <1>0, FirstAndRest
<1>5. rows = <<>> => left = rows
  OBVIOUS
<1> HIDE DEF popped, rest, left
<1>6. rest \in Seq(Entries) /\ left \in Seq(RowItems)
  BY <1>0, <1>2, <1>3, <1>4, <1>5
<1>7. inFlight' \in BOOLEAN /\ uploads' \subseteq Entries /\ tries' \in [Numbers -> Nat]
  BY <1>1, <1>6, StartNextTyped DEF TypeOK, QueueInv
<1>8. TypeOK'
  BY <1>1, <1>6, <1>7 DEF Finish, TypeOK, QueueInv
<1>9. Len(rest) \in Nat /\ Len(left) \in Nat /\ (~inFlight' => Len(rest) = 0)
  BY <1>1, <1>6, LenProperties, EmptySeq DEF StartNext
<1>10. /\ Len(rest) - Len(left) >= 0
       /\ \A i \in 1..Len(left) : left[i].number = rest[Len(rest) - Len(left) + i].number
  <2>1. Len(pending) >= Len(rows)
        /\ \A i \in 1..Len(rows) : rows[i].number = pending[Len(pending) - Len(rows) + i].number
    BY <1>0 DEF QueueInv, RowsAreTheLastFiles
  <2>2. CASE rows = <<>>
    BY <2>1, <2>2, <1>0, <1>5, <1>9
  <2> DEFINE h == Len(pending) - Len(rows)
             k == Len(rest) - Len(left)
  <2>3. CASE rows # <<>>
    <3>3. Len(left) = Len(rows) - 1
      BY <2>3, <1>4
    <3>4. h \in Nat /\ Len(pending) = h + Len(rows) /\ Len(rest) = k + Len(left) /\ k \in Int
      BY <2>1, <1>0, <1>9
    <3>5. popped => Len(rest) = Len(pending) - 1
      BY <1>2
    <3>6. ~popped => Len(rest) = Len(pending)
      BY <1>3
    <3> HIDE DEF h, k
    <3>1. (popped => k = h) /\ (~popped => k = h + 1)
      BY <3>3, <3>4, <3>5, <3>6, <1>0, <1>9
    <3>2. ASSUME NEW i \in 1..Len(left)
          PROVE  left[i].number = rest[k + i].number
      <4>1. i \in 1..(Len(rows) - 1) /\ i + 1 \in 1..Len(rows)
        BY <3>3, <1>0
      <4>2. left[i].number = pending[h + (i + 1)].number
        BY <4>1, <2>1, <2>3, <1>4 DEF h
      <4>3. CASE popped
        <5>1. k + i \in 1..(Len(pending) - 1) /\ (k + i) + 1 = h + (i + 1)
          BY <4>1, <4>3, <3>1, <3>4, <1>0
        <5>2. rest[k + i] = pending[(k + i) + 1]
          BY <5>1, <4>3, <1>2
        <5> QED
          BY <5>1, <5>2, <4>2
      <4>4. CASE ~popped
        <5>1. k + i = h + (i + 1)
          BY <4>1, <4>4, <3>1, <3>4, <1>0
        <5> QED
          BY <5>1, <4>2, <4>4, <1>3
      <4> QED
        BY <4>3, <4>4
    <3> QED
      <4>1. k >= 0
        BY <3>1, <3>4
      <4> QED
        BY <4>1, <3>2 DEF k
  <2> QED
    BY <2>2, <2>3
<1>11. RowsAreTheLastFiles'
  BY <1>1, <1>9, <1>10 DEF RowsAreTheLastFiles
<1> QED
  BY <1>8, <1>11 DEF QueueInv

\* The queue and its rows are of their types and in step, whatever is staged, sent,
\* taken back, saved and restored while uploads run and end.
LEMMA QueueIsSound == Spec => []QueueInv
<1>1. QueueInv /\ [Next]_vars => QueueInv'
  <2> SUFFICES ASSUME QueueInv, [Next]_vars
               PROVE  QueueInv'
    OBVIOUS
  <2>1. CASE DetachAll
    <3>1. <<>> \in Seq(Entries) /\ <<>> \in Seq(RowItems) /\ Len(<<>>) = 0
      BY EmptySeq
    <3> QED
      BY <2>1, <3>1 DEF DetachAll, QueueInv, TypeOK, RowsAreTheLastFiles
  <2>2. CASE Reply \/ Edit \/ EndEdit
    <3>1. TypeOK'
      BY <2>2 DEF Reply, Edit, EndEdit, QueueInv, TypeOK
    <3> QED
      BY <2>2, <3>1 DEF Reply, Edit, EndEdit, QueueInv, RowsAreTheLastFiles
  <2>3. CASE CloseRoom \/ LoseRoom \/ Logout
    <3>1. Clear /\ session' \in 0..MaxSession /\ started' = started
      BY <2>3 DEF CloseRoom, LoseRoom, Logout, QueueInv, TypeOK
    <3>2. saved' \in [Rooms -> Drafts]
      BY <2>3, OutgoingTyped DEF CloseRoom, LoseRoom, Logout, QueueInv, TypeOK
    <3> QED
      BY <3>1, <3>2, ClearSound
  <2>4. CASE Login
    <3>1. TypeOK'
      BY <2>4 DEF Login, QueueInv, TypeOK
    <3> QED
      BY <2>4, <3>1 DEF Login, QueueInv, RowsAreTheLastFiles
  <2>5. CASE UNCHANGED vars
    BY <2>5 DEF vars, QueueInv, TypeOK, RowsAreTheLastFiles
  <2> QED
    BY <2>1, <2>2, <2>3, <2>4, <2>5, StageSound, DetachSound, SendSound, SelectSound,
       FinishSound DEF Next, Composer, UploadEnds
<1> QED
  BY <1>1, InitSound, PTL DEF Spec

\* Type correctness: in particular every file of the queue and of a room that was
\* left was staged under a handle.
THEOREM TypeCorrect == Spec => []TypeOK
<1>1. QueueInv => TypeOK
  BY DEF QueueInv
<1> QED
  BY <1>1, QueueIsSound, PTL

\* RowsAreTheLastFiles: the row the user detaches is that of the file that goes.
THEOREM RowsFollowTheQueue == Spec => []RowsAreTheLastFiles
<1>1. QueueInv => RowsAreTheLastFiles
  BY DEF QueueInv
<1> QED
  BY <1>1, QueueIsSound, PTL

-----------------------------------------------------------------------------
(* The upload under way *)

\* FlagIsTheUpload: the flag is neither left up for ever nor lets a second upload
\* start beside the first.
THEOREM OneUploadAtATime == Spec => []FlagIsTheUpload
<1>1. Init => FlagIsTheUpload
  BY DEF Init, FlagIsTheUpload
<1>2. FlagIsTheUpload /\ [Next]_vars => FlagIsTheUpload'
  <2> SUFFICES ASSUME FlagIsTheUpload, [Next]_vars
               PROVE  FlagIsTheUpload'
    OBVIOUS
  <2>1. CASE Send
    BY <2>1 DEF Send, StartNext, FlagIsTheUpload
  <2>2. ASSUME NEW e \in uploads, Finish(e)
        PROVE  FlagIsTheUpload'
    <3>1. uploads \ {e} = {}
      BY DEF FlagIsTheUpload
    <3>2. PICK q, rws : StartNext(q, rws, uploads \ {e})
      BY <2>2 DEF Finish
    <3> QED
      BY <3>1, <3>2 DEF StartNext, FlagIsTheUpload
  <2>3. CASE UNCHANGED <<inFlight, uploads>>
    BY <2>3 DEF FlagIsTheUpload
  <2>4. CASE UNCHANGED vars
    BY <2>3, <2>4 DEF vars
  <2> QED
    BY <2>1, <2>2, <2>3, <2>4 DEF Next, Composer, UploadEnds, Stage, Detach, DetachAll, Reply,
       Edit, EndEdit, SelectRoom, Clear, CloseRoom, LoseRoom, Logout, Login
<1> QED
  BY <1>1, <1>2, PTL DEF Spec

-----------------------------------------------------------------------------
(* Replies and edits *)

\* What the rooms keep after a switch to room r.
LEMMA SavedAfter ==
  ASSUME TypeOK, NEW r \in Rooms, SelectRoom(r), NEW q \in Rooms
  PROVE  saved'[q] = IF q = r THEN Nothing
                     ELSE IF q = active
                     THEN [reply |-> reply, edit |-> edit, files |-> FilesKept]
                     ELSE saved[q]
  BY DEF SelectRoom, Outgoing, TypeOK

\* What they keep after a close.
LEMMA SavedByClose ==
  ASSUME TypeOK, CloseRoom, NEW q \in Rooms
  PROVE  saved'[q] = IF q = active
                     THEN [reply |-> reply, edit |-> edit, files |-> FilesKept]
                     ELSE saved[q]
  BY DEF CloseRoom, Outgoing, TypeOK

\* RepliesStayInTheirRoom: the reply on screen is to an event of the room on screen.
THEOREM RepliesAreOfTheirRoom == Spec => []RepliesStayInTheirRoom
<1>1. Init => RepliesStayInTheirRoom
  BY DEF Init, RepliesStayInTheirRoom, Nothing
<1>2. QueueInv /\ RepliesStayInTheirRoom /\ [Next]_vars => RepliesStayInTheirRoom'
  <2> SUFFICES ASSUME QueueInv, RepliesStayInTheirRoom, [Next]_vars
               PROVE  RepliesStayInTheirRoom'
    OBVIOUS
  <2> USE DEF QueueInv
  <2>1. ASSUME NEW r \in Rooms, SelectRoom(r)
        PROVE  RepliesStayInTheirRoom'
    <3>1. active' = r /\ reply' = saved[r].reply
      BY <2>1 DEF SelectRoom
    <3>2. \A q \in Rooms : saved'[q].reply \in {NoRoom, q}
      BY <2>1, SavedAfter DEF RepliesStayInTheirRoom, Nothing
    <3> QED
      BY <3>1, <3>2 DEF RepliesStayInTheirRoom
  <2>2. CASE CloseRoom
    <3>1. \A q \in Rooms : saved'[q].reply \in {NoRoom, q}
      BY <2>2, SavedByClose DEF RepliesStayInTheirRoom
    <3> QED
      BY <2>2, <3>1 DEF CloseRoom, Clear, RepliesStayInTheirRoom
  <2>3. CASE LoseRoom \/ Logout
    BY <2>3 DEF LoseRoom, Logout, Clear, RepliesStayInTheirRoom
  <2>4. CASE UNCHANGED <<active, saved>> /\ reply' \in {reply, active, NoRoom}
    BY <2>4 DEF RepliesStayInTheirRoom
  <2>5. CASE UNCHANGED vars
    BY <2>4, <2>5 DEF vars
  <2> QED
    BY <2>1, <2>2, <2>3, <2>4, <2>5 DEF Next, Composer, UploadEnds, Stage, Detach, DetachAll, Reply,
       Edit, EndEdit, Send, Finish, Login
<1> QED
  BY <1>1, <1>2, QueueIsSound, PTL DEF Spec

\* EditExcludesFiles: an edit and staged files never meet, on screen or in a room that
\* was left.
THEOREM EditsAndFilesNeverMeet == Spec => []EditExcludesFiles
<1>1. Init => EditExcludesFiles
  BY EmptySeq DEF Init, EditExcludesFiles, Nothing
<1>2. QueueInv /\ EditExcludesFiles /\ [Next]_vars => EditExcludesFiles'
  <2> SUFFICES ASSUME QueueInv, EditExcludesFiles, [Next]_vars
               PROVE  EditExcludesFiles'
    OBVIOUS
  <2> USE DEF QueueInv
  <2>0. /\ pending \in Seq(Entries) /\ rows \in Seq(RowItems)
        /\ Len(pending) \in Nat /\ Len(rows) \in Nat
        /\ (Len(pending) = 0 <=> pending = <<>>) /\ (Len(rows) = 0 <=> rows = <<>>)
    BY LenProperties, EmptySeq DEF TypeOK
  <2>10. /\ Captioned \in Seq(Entries) /\ Len(Captioned) = Len(pending)
         /\ edit => FilesKept = <<>>
    <3>1. Captioned \in Seq(Entries) /\ Len(Captioned) = Len(pending)
      BY <2>0, CaptionsOnly
    <3>2. CASE edit /\ Skips
      <4>1. Captioned # <<>> /\ Len(Captioned) = 1
        BY <2>0, <3>1, <3>2, EmptySeq DEF Skips, EditExcludesFiles
      <4>2. Tail(Captioned) \in Seq(Entries) /\ Len(Tail(Captioned)) = 0
        BY <3>1, <4>1, FirstAndRest
      <4> QED
        BY <3>1, <3>2, <4>2, EmptySeq DEF FilesKept
    <3>3. CASE edit /\ ~Skips
      <4>1. Len(Captioned) = 0
        BY <2>0, <3>1, <3>3 DEF Skips, EditExcludesFiles
      <4> QED
        BY <3>1, <3>3, <4>1, EmptySeq DEF FilesKept
    <3> QED
      BY <3>1, <3>2, <3>3
  <2>1. ASSUME NEW r \in Rooms, SelectRoom(r)
        PROVE  EditExcludesFiles'
    <3>1. edit' = saved[r].edit /\ Restore(saved[r].files) /\ inFlight' = inFlight
      BY <2>1 DEF SelectRoom
    <3>2. saved[r].files \in Seq(Entries)
      BY DEF TypeOK, Drafts
    <3>3. /\ pending' \in Seq(Entries) /\ rows' \in Seq(RowItems)
          /\ Len(rows') = Len(saved[r].files) /\ Len(pending') = Kept + Len(saved[r].files)
      BY <2>0, <3>1, <3>2, Restored
    <3>4. Kept \in {0, 1} /\ (~inFlight => Kept = 0)
      BY DEF Kept, Skips
    <3>5. \A q \in Rooms : saved'[q].edit => saved'[q].files = <<>>
      <4> SUFFICES ASSUME NEW q \in Rooms, saved'[q].edit
                   PROVE  saved'[q].files = <<>>
        OBVIOUS
      <4>1. CASE q # r /\ q = active
        <5>1. saved'[q] = [reply |-> reply, edit |-> edit, files |-> FilesKept]
          BY <2>1, <4>1, SavedAfter
        <5>2. edit \in BOOLEAN
          BY DEF TypeOK
        <5>3. edit
          BY <5>1, <5>2
        <5>4. saved'[q].files = FilesKept
          BY <5>1
        <5>5. FilesKept = <<>>
          BY <2>10, <5>3
        <5> QED
          BY <5>4, <5>5
      <4>2. CASE q = r \/ q # active
        BY <2>1, <4>2, SavedAfter DEF EditExcludesFiles, Nothing
      <4> QED
        BY <4>1, <4>2
    <3>6. CASE edit'
      <4>1. Len(saved[r].files) = 0
        BY <3>1, <3>6, EmptySeq DEF EditExcludesFiles
      <4>2. rows' = <<>> /\ Len(pending') <= 1 /\ (~inFlight' => pending' = <<>>)
        BY <3>1, <3>3, <3>4, <4>1, EmptySeq
      <4> QED
        BY <3>5, <4>2 DEF EditExcludesFiles
    <3> QED
      BY <3>5, <3>6 DEF EditExcludesFiles
  <2>2. CASE CloseRoom
    <3>1. \A q \in Rooms : saved'[q].edit => saved'[q].files = <<>>
      <4> SUFFICES ASSUME NEW q \in Rooms, saved'[q].edit
                   PROVE  saved'[q].files = <<>>
        OBVIOUS
      <4>1. CASE q = active
        <5>1. saved'[q] = [reply |-> reply, edit |-> edit, files |-> FilesKept]
          BY <2>2, <4>1, SavedByClose
        <5>2. edit \in BOOLEAN
          BY DEF TypeOK
        <5>3. edit
          BY <5>1, <5>2
        <5>4. saved'[q].files = FilesKept
          BY <5>1
        <5>5. FilesKept = <<>>
          BY <2>10, <5>3
        <5> QED
          BY <5>4, <5>5
      <4>2. CASE q # active
        BY <2>2, <4>2, SavedByClose DEF EditExcludesFiles
      <4> QED
        BY <4>1, <4>2
    <3> QED
      BY <2>2, <3>1 DEF CloseRoom, Clear, EditExcludesFiles
  <2>3. CASE LoseRoom \/ Logout
    BY <2>3 DEF LoseRoom, Logout, Clear, EditExcludesFiles
  <2>4. CASE Edit
    <3>1. rows = <<>>
      BY <2>0, <2>4 DEF Edit, RowsAreTheLastFiles
    <3> QED
      BY <2>0, <2>4, <3>1 DEF Edit, EditExcludesFiles
  <2>5. ASSUME NEW e \in uploads, Finish(e)
        PROVE  EditExcludesFiles'
    <3> DEFINE popped == pending # <<>> /\ SameFile(Head(pending), e)
               rest   == IF popped THEN Tail(pending) ELSE pending
               left   == IF rows = <<>> THEN rows ELSE Tail(rows)
    <3>1. /\ pending' = rest /\ rows' = left /\ StartNext(rest, left, uploads \ {e})
          /\ edit' = edit /\ saved' = saved
      BY <2>5 DEF Finish
    <3>2. popped => Len(Tail(pending)) = Len(pending) - 1
      BY <2>0, FirstAndRest
    <3>3. Len(rest) <= Len(pending)
      BY <2>0, <3>2
    <3>4. ~inFlight' => rest = <<>>
      BY <3>1 DEF StartNext
    <3>5. edit => rows = <<>> /\ Len(pending) <= 1
      BY DEF EditExcludesFiles
    <3>6. edit => rows' = <<>> /\ Len(pending') <= 1
      <4> HIDE DEF popped, rest
      <4>1. Len(rest) <= Len(pending) /\ Len(rest) \in Int
        <5>1. rest \in Seq(Entries)
          BY <2>0, FirstAndRest DEF rest, popped
        <5> QED
          BY <3>3, <5>1, LenProperties
      <4> QED
        BY <2>0, <3>1, <3>5, <4>1
    <3> QED
      BY <3>1, <3>4, <3>6 DEF EditExcludesFiles
  <2>6. CASE Send
    <3>1. ~edit
      BY <2>6 DEF Send, EditExcludesFiles
    <3> QED
      BY <2>6, <3>1 DEF Send, EditExcludesFiles
  <2>7. ASSUME NEW i \in 1..Len(rows), Detach(i)
        PROVE  EditExcludesFiles'
    <3>1. ~edit
      BY <2>0, EmptySeq DEF EditExcludesFiles
    <3> QED
      BY <2>7, <3>1 DEF Detach, EditExcludesFiles
  <2>8. CASE DetachAll \/ EndEdit \/ Reply \/ Login \/ \E r \in Rooms, p \in Paths : Stage(r, p)
    <3>1. CASE DetachAll
      BY <3>1, EmptySeq DEF DetachAll, EditExcludesFiles
    <3>2. CASE EndEdit \/ Reply \/ Login
      BY <3>2 DEF EndEdit, Reply, Login, EditExcludesFiles
    <3>3. ASSUME NEW r \in Rooms, NEW p \in Paths, Stage(r, p)
          PROVE  EditExcludesFiles'
      <4>1. ~edit /\ edit' = edit /\ saved' = saved
        BY <3>3 DEF Stage
      <4> QED
        BY <4>1 DEF EditExcludesFiles
    <3> QED
      BY <2>8, <3>1, <3>2, <3>3
  <2>9. CASE UNCHANGED vars
    BY <2>9 DEF vars, EditExcludesFiles
  <2> QED
    BY <2>1, <2>2, <2>3, <2>4, <2>5, <2>6, <2>7, <2>8, <2>9 DEF Next, Composer, UploadEnds
<1> QED
  BY <1>1, <1>2, QueueIsSound, PTL DEF Spec

-----------------------------------------------------------------------------
(* Every file is uploaded once *)

\* The places of files: the queue, which NoRoom stands for, and the rooms that were
\* left.
Places == Rooms \cup {NoRoom}
FilesAt(x) == IF x = NoRoom THEN pending ELSE saved[x].files
At(x) == 1..Len(FilesAt(x))
NumberAt(x, i) == FilesAt(x)[i].number

\* A file is in one place only, once.
Placed ==
    /\ \A x \in Places : \A i \in At(x) : NumberAt(x, i) \in 1..staged
    /\ \A x, y \in Places : \A i \in At(x) : \A j \in At(y) :
          NumberAt(x, i) = NumberAt(y, j) => x = y /\ i = j

\* A file whose upload was started and that is still somewhere is the first of the
\* queue, and the end of the upload under way will take it out of there.
Underway == \E e \in uploads : SameFile(pending[1], e)
TriedOnce ==
    /\ \A n \in Numbers : tries[n] \in {0, 1} /\ (n > staged => tries[n] = 0)
    /\ \A x \in Places : \A i \in At(x) :
          tries[NumberAt(x, i)] # 0 => x = NoRoom /\ i = 1 /\ Underway

UploadInv == Placed /\ TriedOnce

\* Every place holds a sequence of files.
LEMMA FilesAtTyped ==
  ASSUME TypeOK, NEW x \in Places
  PROVE  /\ FilesAt(x) \in Seq(Entries) /\ Len(FilesAt(x)) \in Nat
         /\ \A i \in At(x) : NumberAt(x, i) \in Numbers
<1>1. FilesAt(x) \in Seq(Entries)
  BY DEF TypeOK, FilesAt, Places, Drafts
<1>2. Len(FilesAt(x)) \in Nat /\ \A i \in 1..Len(FilesAt(x)) : FilesAt(x)[i] \in Entries
  BY <1>1, EntriesOfQueue
<1> QED
  BY <1>1, <1>2 DEF At, NumberAt, Entries

\* Files that change places, each from a place of its own, are still placed, and one
\* that was tried was the first of the queue: the i-th file of x comes from position
\* si[x][i] of place sp[x][i].
LEMMA Moved ==
  ASSUME UploadInv, NEW sp, NEW si, staged' = staged,
         \A x \in Places : \A i \in At(x)' :
            /\ sp[x][i] \in Places /\ si[x][i] \in At(sp[x][i])
            /\ NumberAt(x, i)' = NumberAt(sp[x][i], si[x][i]),
         \A x, y \in Places : \A i \in At(x)' : \A j \in At(y)' :
            sp[x][i] = sp[y][j] /\ si[x][i] = si[y][j] => x = y /\ i = j
  PROVE  /\ Placed'
         /\ \A x \in Places : \A i \in At(x)' :
               tries[NumberAt(x, i)'] # 0 => sp[x][i] = NoRoom /\ si[x][i] = 1 /\ Underway
<1>1. ASSUME NEW x \in Places, NEW i \in At(x)'
      PROVE  NumberAt(x, i)' \in 1..staged'
  BY DEF UploadInv, Placed
<1>2. ASSUME NEW x \in Places, NEW y \in Places, NEW i \in At(x)', NEW j \in At(y)',
             NumberAt(x, i)' = NumberAt(y, j)'
      PROVE  x = y /\ i = j
  <2>1. NumberAt(sp[x][i], si[x][i]) = NumberAt(sp[y][j], si[y][j])
    BY <1>2
  <2>2. sp[x][i] = sp[y][j] /\ si[x][i] = si[y][j]
    BY <2>1 DEF UploadInv, Placed
  <2> QED
    BY <2>2
<1>3. ASSUME NEW x \in Places, NEW i \in At(x)', tries[NumberAt(x, i)'] # 0
      PROVE  sp[x][i] = NoRoom /\ si[x][i] = 1 /\ Underway
  BY <1>3 DEF UploadInv, TriedOnce
<1> QED
  BY <1>1, <1>2, <1>3 DEF Placed

\* Nothing that is placed was tried when no upload is under way.
LEMMA Untried ==
  ASSUME FlagIsTheUpload, ~inFlight
  PROVE  ~Underway
  BY DEF FlagIsTheUpload, Underway

\* Files that stay where they are, or go all at once, with the uploads as they were.
LEMMA StayedPut ==
  ASSUME UploadInv, UNCHANGED <<staged, saved, uploads, tries>>,
         pending' = pending \/ pending' = <<>>
  PROVE  UploadInv'
<1>1. ASSUME NEW x \in Places, NEW i \in At(x)'
      PROVE  i \in At(x) /\ NumberAt(x, i)' = NumberAt(x, i) /\ (x = NoRoom => pending' = pending)
  <2>1. CASE x # NoRoom
    BY <2>1 DEF At, NumberAt, FilesAt
  <2>2. CASE x = NoRoom
    <3>1. pending' # <<>>
      BY <2>2, EmptySeq DEF At, FilesAt
    <3> QED
      BY <2>2, <3>1 DEF At, NumberAt, FilesAt
  <2> QED
    BY <2>1, <2>2
<1>2. Placed'
  BY <1>1 DEF UploadInv, Placed
<1>3. ASSUME NEW x \in Places, NEW i \in At(x)', tries'[NumberAt(x, i)'] # 0
      PROVE  x = NoRoom /\ i = 1 /\ Underway'
  <2>1. tries[NumberAt(x, i)] # 0 /\ i \in At(x)
    BY <1>1, <1>3
  <2>2. x = NoRoom /\ i = 1 /\ Underway
    BY <2>1 DEF UploadInv, TriedOnce
  <2> QED
    BY <1>1, <2>2 DEF Underway
<1>4. TriedOnce'
  BY <1>3 DEF UploadInv, TriedOnce
<1> QED
  BY <1>2, <1>4 DEF UploadInv

\* The files of the queue start over from the first one: when none that is left was
\* tried, the next upload is the first of its file.
LEMMA StartedOnce ==
  ASSUME TypeOK, TypeOK', Placed', TriedOnce, staged' = staged,
         NEW rws, StartNext(pending', rws, {}),
         \A x \in Places : \A i \in At(x)' : tries[NumberAt(x, i)'] = 0
  PROVE  TriedOnce'
<1>1. CASE pending' = <<>>
  <2>1. tries' = tries
    BY <1>1 DEF StartNext
  <2> QED
    BY <2>1 DEF TriedOnce
<1>2. CASE pending' # <<>>
  <2> DEFINE n == NumberAt(NoRoom, 1)'
             e == IF rws = <<>> THEN Head(pending')
                  ELSE [Head(pending') EXCEPT !.caption = Head(rws).caption]
  <2>1. /\ pending' \in Seq(Entries) /\ Len(pending') \in Nat \ {0}
        /\ Head(pending') = pending'[1] /\ pending'[1] \in Entries
    BY <1>2, FirstAndRest DEF TypeOK
  <2>2. NoRoom \in Places /\ FilesAt(NoRoom)' = pending' /\ 1 \in At(NoRoom)' /\ n = pending'[1].number
    BY <2>1 DEF Places, FilesAt, At, NumberAt
  <2>3. n \in Numbers /\ n \in 1..staged /\ tries[n] = 0
    <3>1. n \in 1..staged
      BY <2>2 DEF Placed
    <3> QED
      <4>1. staged \in 0..MaxStaged
        BY DEF TypeOK
      <4>2. n \in Numbers
        BY <3>1, <4>1 DEF Numbers
      <4>3. tries[n] = 0
        BY <2>2
      <4> QED
        BY <3>1, <4>2, <4>3
  <2>4. tries' = [tries EXCEPT ![n] = @ + 1] /\ uploads' = {e}
    BY <1>2, <2>1, <2>2 DEF StartNext
  <2>5. SameFile(pending'[1], e)
    BY <2>1 DEF SameFile, Entries
  <2>6. \A m \in Numbers : tries'[m] = IF m = n THEN 1 ELSE tries[m]
    BY <2>3, <2>4 DEF TypeOK
  <2>7. Underway'
    BY <2>4, <2>5 DEF Underway
  <2> HIDE DEF n, e
  <2>8. ASSUME NEW x \in Places, NEW i \in At(x)', tries'[NumberAt(x, i)'] # 0
        PROVE  x = NoRoom /\ i = 1
    <3>1. NumberAt(x, i)' \in Numbers
      BY DEF Placed, TypeOK, Numbers
    <3>2. NumberAt(x, i)' = n
      BY <2>6, <2>8, <3>1
    <3> QED
      BY <3>2, <2>2 DEF Placed, n
  <2>9. \A m \in Numbers : tries'[m] \in {0, 1} /\ (m > staged' => tries'[m] = 0)
    <3>1. n \in Int /\ n <= staged /\ staged \in Int
      BY <2>3 DEF TypeOK
    <3> SUFFICES ASSUME NEW m \in Numbers
                 PROVE  tries'[m] \in {0, 1} /\ (m > staged' => tries'[m] = 0)
      OBVIOUS
    <3>2. tries[m] \in {0, 1} /\ (m > staged => tries[m] = 0)
      BY DEF TriedOnce
    <3>3. CASE m = n
      BY <2>6, <3>1, <3>3
    <3>4. CASE m # n
      BY <2>6, <3>2, <3>4
    <3> QED
      BY <3>3, <3>4
  <2> QED
    BY <2>7, <2>8, <2>9 DEF TriedOnce
<1> QED
  BY <1>1, <1>2

\* A file that is staged is a new one.
LEMMA StageUploads ==
  ASSUME TypeOK, UploadInv, NEW r \in Rooms, NEW p \in Paths, Stage(r, p)
  PROVE  UploadInv'
<1> DEFINE e == [number |-> staged + 1, room |-> r, session |-> session, path |-> p,
                 reply |-> NoRoom, caption |-> staged + 1]
<1>1. e \in Entries /\ e.number = staged + 1 /\ staged + 1 \in Numbers /\ staged \in Nat
  BY DEF Stage, TypeOK, Entries, Numbers
<1>2. pending' = Append(pending, e) /\ staged' = staged + 1 /\ saved' = saved
      /\ uploads' = uploads /\ tries' = tries
  BY DEF Stage
<1> HIDE DEF e
<1>3. /\ Len(pending) \in Nat /\ Len(pending') = Len(pending) + 1
      /\ pending'[Len(pending) + 1] = e /\ \A i \in 1..Len(pending) : pending'[i] = pending[i]
  BY <1>1, <1>2, AppendProperties, LenProperties DEF TypeOK
<1> DEFINE New(x, i) == x = NoRoom /\ i = Len(pending) + 1
<1>4. ASSUME NEW x \in Places, NEW i \in At(x)', ~New(x, i)
      PROVE  i \in At(x) /\ NumberAt(x, i)' = NumberAt(x, i) /\ NumberAt(x, i) \in 1..staged
  <2>1. CASE x # NoRoom
    BY <1>2, <2>1 DEF At, NumberAt, FilesAt, UploadInv, Placed
  <2>2. CASE x = NoRoom
    <3>1. i \in 1..Len(pending)
      BY <1>3, <1>4, <2>2 DEF At, FilesAt
    <3>2. i \in At(x) /\ NumberAt(x, i)' = NumberAt(x, i)
      BY <1>3, <2>2, <3>1 DEF At, NumberAt, FilesAt
    <3> QED
      BY <3>2 DEF UploadInv, Placed
  <2> QED
    BY <2>1, <2>2
<1>5. ASSUME NEW x \in Places, NEW i \in At(x)', New(x, i)
      PROVE  NumberAt(x, i)' = staged + 1
  BY <1>1, <1>3, <1>5 DEF NumberAt, FilesAt
<1> HIDE DEF New
<1>6. ASSUME NEW x \in Places, NEW i \in At(x)'
      PROVE  NumberAt(x, i)' \in 1..staged'
  BY <1>1, <1>2, <1>4, <1>5
<1>7. ASSUME NEW x \in Places, NEW y \in Places, NEW i \in At(x)', NEW j \in At(y)',
             NumberAt(x, i)' = NumberAt(y, j)'
      PROVE  x = y /\ i = j
  <2>1. CASE New(x, i) /\ New(y, j)
    BY <2>1 DEF New
  <2>2. CASE ~New(x, i) /\ ~New(y, j)
    BY <1>4, <1>7, <2>2 DEF UploadInv, Placed
  <2>3. CASE New(x, i) /\ ~New(y, j)
    <3>1. staged + 1 \in 1..staged
      BY <1>4, <1>5, <1>7, <2>3
    <3> QED
      BY <1>1, <3>1
  <2>4. CASE ~New(x, i) /\ New(y, j)
    <3>1. staged + 1 \in 1..staged
      BY <1>4, <1>5, <1>7, <2>4
    <3> QED
      BY <1>1, <3>1
  <2> QED
    BY <2>1, <2>2, <2>3, <2>4
<1>8. ASSUME NEW x \in Places, NEW i \in At(x)', tries[NumberAt(x, i)'] # 0
      PROVE  x = NoRoom /\ i = 1 /\ Underway'
  <2>1. tries[staged + 1] = 0
    BY <1>1 DEF UploadInv, TriedOnce
  <2>2. ~New(x, i)
    BY <1>5, <1>8, <2>1
  <2>3. i \in At(x) /\ x = NoRoom /\ i = 1 /\ Underway
    BY <1>4, <1>8, <2>2 DEF UploadInv, TriedOnce
  <2>4. pending'[1] = pending[1]
    BY <1>3, <2>3 DEF At, FilesAt
  <2> QED
    BY <1>2, <2>3, <2>4 DEF Underway
<1>9. TriedOnce'
  <2>1. \A n \in Numbers : tries[n] \in {0, 1} /\ (n > staged + 1 => tries[n] = 0)
    BY <1>1 DEF UploadInv, TriedOnce, Numbers
  <2> QED
    BY <1>2, <1>8, <2>1 DEF TriedOnce
<1> QED
  BY <1>6, <1>7, <1>9 DEF UploadInv, Placed

\* Taking back a file moves those after it up.
LEMMA DetachUploads ==
  ASSUME QueueInv, FlagIsTheUpload, UploadInv, NEW k \in 1..Len(rows), Detach(k)
  PROVE  UploadInv'
<1>1. Len(pending) \in Nat /\ Len(rows) \in Nat /\ ~inFlight /\ Len(rows) = Len(pending)
  BY LenProperties DEF TypeOK, QueueInv, Detach, RowsAreTheLastFiles
<1>2. /\ Len(pending') = Len(pending) - 1
      /\ \A j \in 1..(Len(pending) - 1) : pending'[j] = IF j < k THEN pending[j] ELSE pending[j + 1]
  <2>1. pending' = RemoveAt(pending, k) /\ k \in 1..Len(pending) /\ pending \in Seq(Entries)
    BY <1>1 DEF Detach, TypeOK, QueueInv
  <2> QED
    BY <2>1, Removal
<1>3. UNCHANGED <<staged, saved, uploads, tries>>
  BY DEF Detach
<1> DEFINE sp == [x \in Places |-> [i \in Nat |-> x]]
           si == [x \in Places |-> [i \in Nat |-> IF x = NoRoom /\ i >= k THEN i + 1 ELSE i]]
<1>4. ASSUME NEW x \in Places, NEW i \in At(x)'
      PROVE  /\ i \in Nat /\ sp[x][i] = x /\ si[x][i] \in At(x)
             /\ si[x][i] = IF x = NoRoom /\ i >= k THEN i + 1 ELSE i
             /\ NumberAt(x, i)' = NumberAt(x, si[x][i])
  <2>1. i \in Nat
    BY DEF At
  <2>2. sp[x][i] = x /\ si[x][i] = IF x = NoRoom /\ i >= k THEN i + 1 ELSE i
    BY <2>1
  <2> HIDE DEF sp, si
  <2>3. CASE x # NoRoom
    BY <1>3, <2>1, <2>2, <2>3 DEF At, NumberAt, FilesAt
  <2>4. CASE x = NoRoom
    <3>1. i \in 1..(Len(pending) - 1)
      BY <1>2, <2>4 DEF At, FilesAt
    <3>2. si[x][i] \in 1..Len(pending)
      BY <1>1, <2>2, <3>1
    <3>3. pending'[i] = pending[si[x][i]]
      BY <1>1, <1>2, <2>2, <2>4, <3>1
    <3> QED
      BY <2>1, <2>2, <2>4, <3>2, <3>3 DEF At, NumberAt, FilesAt
  <2> QED
    BY <2>3, <2>4
<1> HIDE DEF sp, si
<1>5. \A x, y \in Places : \A i \in At(x)' : \A j \in At(y)' :
         sp[x][i] = sp[y][j] /\ si[x][i] = si[y][j] => x = y /\ i = j
  BY <1>1, <1>4
<1>6. Placed' /\ \A x \in Places : \A i \in At(x)' : tries[NumberAt(x, i)'] # 0 => Underway
  <2>1. \A x \in Places : \A i \in At(x)' :
           /\ sp[x][i] \in Places /\ si[x][i] \in At(sp[x][i])
           /\ NumberAt(x, i)' = NumberAt(sp[x][i], si[x][i])
    BY <1>4
  <2>2. staged' = staged
    BY <1>3
  <2>3. /\ Placed'
        /\ \A x \in Places : \A i \in At(x)' :
              tries[NumberAt(x, i)'] # 0 => sp[x][i] = NoRoom /\ si[x][i] = 1 /\ Underway
    BY <1>5, <2>1, <2>2, Moved
  <2> QED
    BY <2>3
<1>7. TriedOnce'
  BY <1>1, <1>3, <1>6, Untried DEF TriedOnce, UploadInv
<1> QED
  BY <1>6, <1>7 DEF UploadInv

\* What a room keeps of the queue are the files behind the one that is left there.
LEMMA KeptFiles ==
  ASSUME TypeOK
  PROVE  /\ Len(pending) \in Nat /\ Kept \in {0, 1} /\ Len(FilesKept) = Len(pending) - Kept
         /\ \A i \in 1..(Len(pending) - Kept) :
               Kept + i \in 1..Len(pending) /\ FilesKept[i].number = pending[Kept + i].number
<1>1. /\ Captioned \in Seq(Entries) /\ Len(Captioned) = Len(pending)
      /\ \A i \in 1..Len(pending) : Captioned[i].number = pending[i].number
  BY CaptionsOnly DEF TypeOK, SameEntry
<1>2. Len(pending) \in Nat
  BY LenProperties DEF TypeOK
<1>3. CASE Skips
  <2>1. Captioned # <<>>
    BY <1>1, <1>3, EmptySeq DEF Skips, TypeOK
  <2>2. /\ Len(Tail(Captioned)) = Len(pending) - 1
        /\ \A i \in 1..(Len(pending) - 1) : Tail(Captioned)[i] = Captioned[i + 1]
    BY <1>1, <2>1, FirstAndRest
  <2>3. FilesKept = Tail(Captioned) /\ Kept = 1
    BY <1>3 DEF FilesKept, Kept
  <2>4. \A i \in 1..(Len(pending) - 1) :
           1 + i \in 1..Len(pending) /\ 1 + i = i + 1
    BY <1>2
  <2> QED
    BY <1>1, <1>2, <2>2, <2>3, <2>4
<1>4. CASE ~Skips
  <2>1. FilesKept = Captioned /\ Kept = 0
    BY <1>4 DEF FilesKept, Kept
  <2> QED
    BY <1>1, <1>2, <2>1
<1> QED
  BY <1>3, <1>4

\* Sending starts with the first file of the queue, none of which was tried.
LEMMA SendUploads ==
  ASSUME QueueInv, QueueInv', FlagIsTheUpload, UploadInv, Send
  PROVE  UploadInv'
<1>1. /\ Len(pending') = Len(pending)
      /\ \A i \in 1..Len(pending) : pending'[i].number = pending[i].number
  BY RepliesOnly DEF TypeOK, QueueInv, SameEntry, Send
<1>2. ~inFlight /\ uploads = {} /\ staged' = staged /\ saved' = saved
      /\ StartNext(pending', rows, {})
  BY DEF Send, FlagIsTheUpload
<1>3. ASSUME NEW x \in Places, NEW i \in At(x)'
      PROVE  i \in At(x) /\ NumberAt(x, i)' = NumberAt(x, i)
  BY <1>1, <1>2, <1>3 DEF At, NumberAt, FilesAt
<1>4. Placed'
  BY <1>2, <1>3 DEF UploadInv, Placed
<1>5. \A x \in Places : \A i \in At(x)' : tries[NumberAt(x, i)'] = 0
  BY <1>2, <1>3, Untried DEF UploadInv, TriedOnce
<1> QED
  BY <1>2, <1>4, <1>5, StartedOnce DEF UploadInv, QueueInv

\* The end of an upload takes its file out of the queue if it is still there, so
\* none of those that are left was tried.
LEMMA FinishUploads ==
  ASSUME QueueInv, QueueInv', FlagIsTheUpload, UploadInv, NEW e \in uploads, Finish(e)
  PROVE  UploadInv'
<1> DEFINE popped == pending # <<>> /\ SameFile(Head(pending), e)
           k == IF popped THEN 1 ELSE 0
<1>1. PICK left : /\ pending' = IF popped THEN Tail(pending) ELSE pending
                  /\ StartNext(pending', left, uploads \ {e})
                  /\ staged' = staged /\ saved' = saved
  BY DEF Finish
<1>2. pending \in Seq(Entries) /\ Len(pending) \in Nat
  BY LenProperties DEF QueueInv, TypeOK
<1>3. k \in {0, 1} /\ (popped => k = 1)
  OBVIOUS
<1>4. /\ Len(pending') = Len(pending) - k
      /\ \A i \in 1..(Len(pending) - k) : k + i \in 1..Len(pending) /\ pending'[i] = pending[k + i]
  <2>1. CASE popped
    <3>1. /\ Len(pending') = Len(pending) - 1
          /\ \A i \in 1..(Len(pending) - 1) : pending'[i] = pending[i + 1]
      BY <1>1, <1>2, <2>1, FirstAndRest
    <3>2. k = 1 /\ \A i \in 1..(Len(pending) - 1) : 1 + i \in 1..Len(pending) /\ 1 + i = i + 1
      BY <1>2, <2>1
    <3> QED
      BY <3>1, <3>2
  <2>2. CASE ~popped
    <3>1. k = 0 /\ pending' = pending
      BY <1>1, <2>2
    <3> QED
      BY <1>2, <3>1
  <2> QED
    BY <2>1, <2>2
<1>5. uploads = {e} /\ StartNext(pending', left, {})
  <2>1. uploads = {e} /\ uploads \ {e} = {}
    BY DEF FlagIsTheUpload
  <2> QED
    BY <1>1, <2>1
<1>6. Underway /\ pending # <<>> => popped
  BY <1>2, <1>5, FirstAndRest DEF Underway
<1> HIDE DEF popped, k
<1> DEFINE sp == [x \in Places |-> [i \in Nat |-> x]]
           si == [x \in Places |-> [i \in Nat |-> IF x = NoRoom THEN k + i ELSE i]]
<1>7. ASSUME NEW x \in Places, NEW i \in At(x)'
      PROVE  /\ i \in Nat \ {0} /\ sp[x][i] = x /\ si[x][i] \in At(x)
             /\ si[x][i] = IF x = NoRoom THEN k + i ELSE i
             /\ NumberAt(x, i)' = NumberAt(x, si[x][i])
  <2>1. i \in Nat \ {0}
    BY DEF At
  <2>2. sp[x][i] = x /\ si[x][i] = IF x = NoRoom THEN k + i ELSE i
    BY <2>1
  <2> HIDE DEF sp, si
  <2>3. CASE x # NoRoom
    BY <1>1, <1>7, <2>1, <2>2, <2>3 DEF At, NumberAt, FilesAt
  <2>4. CASE x = NoRoom
    <3>1. i \in 1..(Len(pending) - k)
      BY <1>4, <2>4 DEF At, FilesAt
    <3> QED
      BY <1>4, <2>1, <2>2, <2>4, <3>1 DEF At, NumberAt, FilesAt
  <2> QED
    BY <2>3, <2>4
<1> HIDE DEF sp, si
<1>8. \A x, y \in Places : \A i \in At(x)' : \A j \in At(y)' :
         sp[x][i] = sp[y][j] /\ si[x][i] = si[y][j] => x = y /\ i = j
  BY <1>3, <1>7
<1>9. /\ Placed'
      /\ \A x \in Places : \A i \in At(x)' :
            tries[NumberAt(x, i)'] # 0 => sp[x][i] = NoRoom /\ si[x][i] = 1 /\ Underway
  <2>1. \A x \in Places : \A i \in At(x)' :
           /\ sp[x][i] \in Places /\ si[x][i] \in At(sp[x][i])
           /\ NumberAt(x, i)' = NumberAt(sp[x][i], si[x][i])
    BY <1>7
  <2> QED
    BY <1>1, <1>8, <2>1, Moved
<1>10. ASSUME NEW x \in Places, NEW i \in At(x)', tries[NumberAt(x, i)'] # 0
       PROVE  FALSE
  <2>1. x = NoRoom /\ k + i = 1 /\ Underway
    BY <1>7, <1>9, <1>10
  <2>2. k = 0 /\ ~popped
    BY <1>3, <1>7, <2>1
  <2>3. pending # <<>>
    BY <1>7, <2>1, EmptySeq DEF At, FilesAt
  <2> QED
    BY <1>6, <2>1, <2>2, <2>3
<1>11. \A x \in Places : \A i \in At(x)' : tries[NumberAt(x, i)'] = 0
  BY <1>10
<1> QED
  BY <1>1, <1>5, <1>9, <1>11, StartedOnce DEF UploadInv, QueueInv

\* A switch: the files of the room r (none when there is no such room) come to the
\* queue, behind the one that is left there, those of the queue go to the room
\* before, and all others stay.
Switched(r) ==
    /\ UNCHANGED <<staged, uploads, tries>>
    /\ \A x \in Rooms : saved'[x].files = IF x = r THEN <<>>
                                         ELSE IF x = active THEN FilesKept ELSE saved[x].files
    /\ IF r = NoRoom THEN pending' = <<>>
       ELSE /\ Len(pending') = Kept + Len(saved[r].files)
            /\ \A i \in 1..Len(saved[r].files) : pending'[Kept + i] = saved[r].files[i]
            /\ Skips => SameEntry(pending'[1], pending[1])

\* It leaves every file in one place.
LEMMA SwitchUploads ==
  ASSUME TypeOK, FlagIsTheUpload, UploadInv, NEW r \in Places \ {active}, Switched(r)
  PROVE  UploadInv'
<1>0. /\ Kept \in {0, 1} /\ (Kept = 1 <=> Skips) /\ Len(pending) \in Nat
      /\ Len(FilesKept) = Len(pending) - Kept
      /\ \A i \in 1..(Len(pending) - Kept) :
            Kept + i \in 1..Len(pending) /\ FilesKept[i].number = pending[Kept + i].number
  BY KeptFiles DEF Kept
<1>1. Kept = 1 => Len(pending) # 0
  BY <1>0, EmptySeq DEF Skips, TypeOK
<1>2. r # NoRoom => r \in Rooms /\ Len(saved[r].files) \in Nat
  BY FilesAtTyped DEF Places, FilesAt
<1> DEFINE sp == [x \in Places |-> [i \in Nat |->
                    IF x = NoRoom THEN IF i <= Kept THEN NoRoom ELSE r
                    ELSE IF x = active THEN NoRoom ELSE x]]
           si == [x \in Places |-> [i \in Nat |->
                    IF x = NoRoom THEN IF i <= Kept THEN i ELSE i - Kept
                    ELSE IF x = active THEN Kept + i ELSE i]]
<1>3. ASSUME NEW x \in Places, NEW i \in At(x)'
      PROVE  /\ i \in Nat \ {0} /\ x # r
             /\ x = NoRoom => r # NoRoom
             /\ sp[x][i] = IF x = NoRoom THEN IF i <= Kept THEN NoRoom ELSE r
                           ELSE IF x = active THEN NoRoom ELSE x
             /\ si[x][i] = IF x = NoRoom THEN IF i <= Kept THEN i ELSE i - Kept
                           ELSE IF x = active THEN Kept + i ELSE i
             /\ sp[x][i] \in Places /\ si[x][i] \in At(sp[x][i])
             /\ NumberAt(x, i)' = NumberAt(sp[x][i], si[x][i])
  <2>1. i \in Nat \ {0}
    BY DEF At
  <2>2. /\ sp[x][i] = IF x = NoRoom THEN IF i <= Kept THEN NoRoom ELSE r
                      ELSE IF x = active THEN NoRoom ELSE x
        /\ si[x][i] = IF x = NoRoom THEN IF i <= Kept THEN i ELSE i - Kept
                      ELSE IF x = active THEN Kept + i ELSE i
    BY <2>1
  <2> HIDE DEF sp, si
  <2>3. NoRoom \in Places /\ r \in Places
    BY DEF Places
  <2>4. CASE x = NoRoom
    <3>1. r # NoRoom
      BY <2>4, EmptySeq DEF At, FilesAt, Switched
    <3>2. /\ Len(pending') = Kept + Len(saved[r].files)
          /\ \A n \in 1..Len(saved[r].files) : pending'[Kept + n] = saved[r].files[n]
          /\ Skips => SameEntry(pending'[1], pending[1])
      BY <3>1 DEF Switched
    <3>3. i \in 1..(Kept + Len(saved[r].files))
      BY <2>4, <3>2 DEF At, FilesAt
    <3>4. CASE i <= Kept
      <4>1. i = 1 /\ Skips /\ sp[x][i] = NoRoom /\ si[x][i] = 1
        BY <1>0, <2>1, <2>2, <2>4, <3>4
      <4>2. 1 \in 1..Len(pending) /\ pending'[1].number = pending[1].number
        BY <1>0, <1>1, <3>2, <4>1 DEF SameEntry
      <4> QED
        BY <2>1, <2>2, <2>3, <2>4, <3>1, <4>1, <4>2 DEF At, NumberAt, FilesAt
    <3>5. CASE ~(i <= Kept)
      <4>1. i - Kept \in 1..Len(saved[r].files) /\ Kept + (i - Kept) = i
        BY <1>0, <1>2, <3>1, <3>3, <3>5
      <4>2. pending'[i] = saved[r].files[i - Kept]
        BY <3>2, <4>1
      <4>3. sp[x][i] = r /\ si[x][i] = i - Kept
        BY <2>2, <2>4, <3>5
      <4> QED
        BY <2>1, <2>2, <2>3, <2>4, <3>1, <4>1, <4>2, <4>3 DEF At, NumberAt, FilesAt
    <3> QED
      BY <3>4, <3>5
  <2>5. CASE x # NoRoom
    <3>1. x \in Rooms /\ FilesAt(x)' = saved'[x].files
      BY <2>5 DEF Places, FilesAt
    <3>2. x # r
      BY <2>5, <3>1, EmptySeq DEF At, Switched
    <3>3. CASE x = active
      <4>1. FilesAt(x)' = FilesKept
        BY <3>1, <3>2, <3>3 DEF Switched
      <4>2. i \in 1..(Len(pending) - Kept)
        BY <1>0, <4>1 DEF At
      <4>3. sp[x][i] = NoRoom /\ si[x][i] = Kept + i
        BY <2>2, <2>5, <3>3
      <4> QED
        BY <1>0, <2>1, <2>2, <2>3, <2>5, <3>2, <4>1, <4>2, <4>3 DEF At, NumberAt, FilesAt
    <3>4. CASE x # active
      <4>1. FilesAt(x)' = FilesAt(x)
        BY <2>5, <3>1, <3>2, <3>4 DEF FilesAt, Switched
      <4>2. sp[x][i] = x /\ si[x][i] = i
        BY <2>2, <2>5, <3>4
      <4> QED
        BY <2>1, <2>2, <2>5, <3>2, <4>1, <4>2 DEF At, NumberAt
    <3> QED
      BY <3>3, <3>4
  <2> QED
    BY <2>4, <2>5
<1> HIDE DEF sp, si
<1>4. ASSUME NEW x \in Places, NEW y \in Places, NEW i \in At(x)', NEW j \in At(y)',
             sp[x][i] = sp[y][j], si[x][i] = si[y][j]
      PROVE  x = y /\ i = j
  <2>1. /\ i \in Nat \ {0} /\ j \in Nat \ {0} /\ x # r /\ y # r
        /\ x = NoRoom => r # NoRoom
        /\ y = NoRoom => r # NoRoom
    BY <1>3
  <2>2. /\ sp[x][i] = IF x = NoRoom THEN IF i <= Kept THEN NoRoom ELSE r
                      ELSE IF x = active THEN NoRoom ELSE x
        /\ si[x][i] = IF x = NoRoom THEN IF i <= Kept THEN i ELSE i - Kept
                      ELSE IF x = active THEN Kept + i ELSE i
    BY <1>3
  <2>3. /\ sp[y][j] = IF y = NoRoom THEN IF j <= Kept THEN NoRoom ELSE r
                      ELSE IF y = active THEN NoRoom ELSE y
        /\ si[y][j] = IF y = NoRoom THEN IF j <= Kept THEN j ELSE j - Kept
                      ELSE IF y = active THEN Kept + j ELSE j
    BY <1>3
  <2>4. CASE x = NoRoom /\ y = NoRoom
    <3>1. CASE i <= Kept
      <4>1. j <= Kept
        BY <1>4, <2>1, <2>2, <2>3, <2>4, <3>1
      <4> QED
        BY <1>4, <2>2, <2>3, <2>4, <3>1, <4>1
    <3>2. CASE ~(i <= Kept)
      <4>1. ~(j <= Kept)
        BY <1>4, <2>1, <2>2, <2>3, <2>4, <3>2
      <4>2. i - Kept = j - Kept
        BY <1>4, <2>2, <2>3, <2>4, <3>2, <4>1
      <4> QED
        BY <1>0, <2>1, <2>4, <4>2
    <3> QED
      BY <3>1, <3>2
  <2>5. CASE x = NoRoom /\ y # NoRoom
    <3>1. i <= Kept /\ y = active /\ i = Kept + j
      BY <1>4, <2>1, <2>2, <2>3, <2>5
    <3> QED
      BY <1>0, <2>1, <3>1
  <2>6. CASE x # NoRoom /\ y = NoRoom
    <3>1. j <= Kept /\ x = active /\ j = Kept + i
      BY <1>4, <2>1, <2>2, <2>3, <2>6
    <3> QED
      BY <1>0, <2>1, <3>1
  <2>7. CASE x # NoRoom /\ y # NoRoom
    <3>1. x = y
      BY <1>4, <2>2, <2>3, <2>7
    <3>2. (x = active => Kept + i = Kept + j) /\ (x # active => i = j)
      BY <1>4, <2>2, <2>3, <2>7, <3>1
    <3> QED
      BY <1>0, <2>1, <3>1, <3>2
  <2> QED
    BY <2>4, <2>5, <2>6, <2>7
<1>5. /\ Placed'
      /\ \A x \in Places : \A i \in At(x)' :
            tries[NumberAt(x, i)'] # 0 => sp[x][i] = NoRoom /\ si[x][i] = 1 /\ Underway
  <2>1. \A x \in Places : \A i \in At(x)' :
           /\ sp[x][i] \in Places /\ si[x][i] \in At(sp[x][i])
           /\ NumberAt(x, i)' = NumberAt(sp[x][i], si[x][i])
    BY <1>3
  <2>2. \A x, y \in Places : \A i \in At(x)' : \A j \in At(y)' :
           sp[x][i] = sp[y][j] /\ si[x][i] = si[y][j] => x = y /\ i = j
    BY <1>4
  <2>3. staged' = staged
    BY DEF Switched
  <2> QED
    BY <2>1, <2>2, <2>3, Moved
<1>6. ASSUME NEW x \in Places, NEW i \in At(x)', tries[NumberAt(x, i)'] # 0
      PROVE  x = NoRoom /\ i = 1 /\ Underway'
  <2>1. sp[x][i] = NoRoom /\ si[x][i] = 1 /\ Underway
    BY <1>5, <1>6
  <2>2. 1 \in 1..Len(pending)
    BY <1>3, <2>1 DEF At, FilesAt
  <2>3. inFlight
    BY <2>1, Untried
  <2>4. Kept = 1
    BY <1>0, <2>2, <2>3, EmptySeq DEF Skips
  <2>5. x = NoRoom /\ i = 1 /\ r # NoRoom
    BY <1>0, <1>3, <2>1, <2>4
  <2>6. SameEntry(pending'[1], pending[1])
    BY <1>0, <2>4, <2>5 DEF Switched
  <2> QED
    BY <2>1, <2>5, <2>6 DEF Underway, SameEntry, SameFile, Switched
<1>7. TriedOnce'
  BY <1>6 DEF UploadInv, TriedOnce, Switched
<1> QED
  BY <1>5, <1>7 DEF UploadInv

\* The places of the files: each is in one place, once, and one whose upload was
\* started can only be the first of the queue.
LEMMA UploadsAreSound == Spec => []UploadInv
<1>1. Init => UploadInv
  <2> SUFFICES ASSUME Init
               PROVE  UploadInv
    OBVIOUS
  <2>1. \A x \in Places : FilesAt(x) = <<>>
    BY DEF Init, Places, FilesAt, Nothing
  <2>2. \A x \in Places : At(x) = {}
    BY <2>1, EmptySeq DEF At
  <2> QED
    BY <2>2 DEF Init, UploadInv, Placed, TriedOnce
<1>2. UploadInv /\ QueueInv /\ QueueInv' /\ FlagIsTheUpload /\ [Next]_vars => UploadInv'
  <2> SUFFICES ASSUME UploadInv, QueueInv, QueueInv', FlagIsTheUpload, [Next]_vars
               PROVE  UploadInv'
    OBVIOUS
  <2>0. TypeOK /\ TypeOK'
    BY DEF QueueInv
  <2>1. CASE DetachAll \/ LoseRoom \/ Logout \/ Reply \/ Edit \/ EndEdit \/ Login \/ UNCHANGED vars
    BY <2>1, StayedPut DEF DetachAll, LoseRoom, Logout, Reply, Edit, EndEdit, Login, Clear, vars
  <2>2. ASSUME NEW r \in Rooms, SelectRoom(r)
        PROVE  UploadInv'
    <3>1. saved[r].files \in Seq(Entries)
      BY <2>0 DEF TypeOK, Drafts
    <3>2. /\ Len(pending') = Kept + Len(saved[r].files)
          /\ \A i \in 1..Len(saved[r].files) : pending'[Kept + i] = saved[r].files[i]
          /\ Skips => SameEntry(pending'[1], pending[1])
      BY <2>0, <2>2, <3>1, Restored DEF SelectRoom, TypeOK
    <3>3. \A x \in Rooms : saved'[x].files = IF x = r THEN <<>>
                                             ELSE IF x = active THEN FilesKept ELSE saved[x].files
      BY <2>0, <2>2, SavedAfter DEF Nothing
    <3>4. r \in Places \ {active} /\ r # NoRoom
      BY <2>0, <2>2 DEF SelectRoom, Places, TypeOK
    <3>5. UNCHANGED <<staged, uploads, tries>>
      BY <2>2 DEF SelectRoom
    <3> QED
      BY <2>0, <3>2, <3>3, <3>4, <3>5, SwitchUploads DEF Switched
  <2>3. CASE CloseRoom
    <3>1. \A x \in Rooms : saved'[x].files = IF x = NoRoom THEN <<>>
                                             ELSE IF x = active THEN FilesKept ELSE saved[x].files
      BY <2>0, <2>3, SavedByClose
    <3>2. NoRoom \in Places \ {active}
      BY <2>0, <2>3 DEF CloseRoom, Places, TypeOK
    <3>3. UNCHANGED <<staged, uploads, tries>> /\ pending' = <<>>
      BY <2>3 DEF CloseRoom, Clear
    <3> QED
      BY <2>0, <3>1, <3>2, <3>3, SwitchUploads DEF Switched
  <2>4. CASE Send
    BY <2>4, SendUploads
  <2>5. ASSUME NEW e \in uploads, Finish(e)
        PROVE  UploadInv'
    BY <2>5, FinishUploads
  <2>6. ASSUME NEW r \in Rooms, NEW p \in Paths, Stage(r, p)
        PROVE  UploadInv'
    BY <2>0, <2>6, StageUploads
  <2>7. ASSUME NEW i \in 1..Len(rows), Detach(i)
        PROVE  UploadInv'
    BY <2>7, DetachUploads
  <2> QED
    BY <2>1, <2>2, <2>3, <2>4, <2>5, <2>6, <2>7 DEF Next, Composer, UploadEnds
<1> QED
  BY <1>1, <1>2, QueueIsSound, OneUploadAtATime, PTL DEF Spec

\* UploadedOnce: no file is uploaded twice or comes back after its upload.
THEOREM NothingIsUploadedTwice == Spec => []UploadedOnce
<1>1. QueueInv /\ FlagIsTheUpload /\ UploadInv => UploadedOnce
  <2> SUFFICES ASSUME QueueInv, FlagIsTheUpload, UploadInv
               PROVE  UploadedOnce
    OBVIOUS
  <2>1. \A n \in Numbers : tries[n] <= 1
    BY DEF UploadInv, TriedOnce
  <2>2. ASSUME NEW x \in Places, NEW i \in DOMAIN FilesAt(x), tries[FilesAt(x)[i].number] # 0
        PROVE  x = NoRoom /\ inFlight
    <3>1. FilesAt(x) \in Seq(Entries)
      BY FilesAtTyped DEF QueueInv
    <3>2. i \in At(x)
      BY <3>1, LenProperties DEF At
    <3> QED
      BY <2>2, <3>2, Untried DEF UploadInv, TriedOnce, NumberAt
  <2>3. \A r \in Rooms : \A i \in DOMAIN saved[r].files : tries[saved[r].files[i].number] = 0
    BY <2>2 DEF Places, FilesAt
  <2>4. ~inFlight => \A i \in DOMAIN pending : tries[pending[i].number] = 0
    BY <2>2 DEF Places, FilesAt
  <2> QED
    BY <2>1, <2>3, <2>4 DEF UploadedOnce
<1> QED
  BY <1>1, QueueIsSound, OneUploadAtATime, UploadsAreSound, PTL

-----------------------------------------------------------------------------
(* Every file of the queue comes nearer to its turn *)

\* The uploads that end before the i-th file of the queue has left it: those of the
\* files up to it, and the one under way when it is of a file that is not there.
Wait(i) == i + (IF Underway THEN 0 ELSE 1)

\* While an upload is under way, no step but the user's taking it out makes a file of
\* the queue wait longer, and every end of an upload makes it wait less; as long as it
\* is there an upload stays under way.  For FilesHaveTheirTurn, that it leaves in the
\* end, what is missing is that uploads end.
TurnsComeNearer ==
    [][inFlight =>
         \A i \in 1..Len(pending), j \in 1..Len(pending') :
            pending'[j].number = pending[i].number =>
               /\ inFlight' /\ Wait(j)' <= Wait(i)
               /\ UploadEnds => Wait(j)' < Wait(i)]_vars

\* Two files of the queue have different numbers.
LEMMA OnePlaceInQueue ==
  ASSUME UploadInv, NEW i \in 1..Len(pending), NEW j \in 1..Len(pending),
         pending[i].number = pending[j].number
  PROVE  i = j
<1>1. NoRoom \in Places /\ i \in At(NoRoom) /\ j \in At(NoRoom)
  BY DEF Places, At, FilesAt
<1>2. NumberAt(NoRoom, i) = NumberAt(NoRoom, j)
  BY DEF NumberAt, FilesAt
<1> QED
  BY <1>1, <1>2 DEF UploadInv, Placed

\* A file that keeps its place behind the same first file waits as before.
LEMMA WaitsAsBefore ==
  ASSUME QueueInv, UploadInv, inFlight, UNCHANGED <<inFlight, uploads>>,
         NEW i \in 1..Len(pending), NEW j \in 1..Len(pending),
         pending[j].number = pending[i].number, SameEntry(pending'[1], pending[1])
  PROVE  inFlight' /\ Wait(j)' <= Wait(i)
<1>1. i = j /\ i \in Nat
  BY OnePlaceInQueue
<1>2. Underway' <=> Underway
  BY DEF Underway, SameEntry, SameFile
<1> QED
  BY <1>1, <1>2 DEF Wait

\* The end of an upload.
LEMMA FinishComesNearer ==
  ASSUME QueueInv, FlagIsTheUpload, UploadInv, NEW e \in uploads, Finish(e),
         NEW i \in 1..Len(pending), NEW j \in 1..Len(pending'),
         pending'[j].number = pending[i].number
  PROVE  inFlight' /\ Wait(j)' < Wait(i)
<1>1. /\ pending \in Seq(Entries) /\ pending # <<>> /\ Len(pending) \in Nat
      /\ i \in Nat \ {0}
  BY EmptySeq, LenProperties DEF QueueInv, TypeOK
<1>2. /\ Head(pending) = pending[1] /\ Tail(pending) \in Seq(Entries)
      /\ Len(Tail(pending)) = Len(pending) - 1
      /\ \A n \in 1..Len(Tail(pending)) : Tail(pending)[n] = pending[n + 1]
  BY <1>1, FirstAndRest
<1>3. uploads = {e}
  BY DEF FlagIsTheUpload
<1>4. Underway <=> SameFile(Head(pending), e)
  BY <1>2, <1>3 DEF Underway
<1>5. PICK left : /\ pending' = IF Underway THEN Tail(pending) ELSE pending
                  /\ StartNext(pending', left, uploads \ {e})
  BY <1>1, <1>4 DEF Finish
<1>6. pending' \in Seq(Entries) /\ pending' # <<>> /\ j \in Nat \ {0}
  <2>1. pending' \in Seq(Entries)
    BY <1>1, <1>2, <1>5
  <2>2. pending' # <<>>
    BY EmptySeq
  <2> QED
    BY <2>1, <2>2
<1>7. inFlight' /\ Underway'
  <2>1. Head(pending') = pending'[1]
    BY <1>6, FirstAndRest
  <2>2. \E f \in uploads' : SameFile(pending'[1], f)
    <3>1. PICK f \in uploads' : f = Head(pending')
                                \/ \E c : f = [Head(pending') EXCEPT !.caption = c]
      BY <1>5, <1>6 DEF StartNext
    <3>2. Head(pending') \in Entries
      BY <1>6, FirstAndRest
    <3>3. SameFile(Head(pending'), f)
      BY <3>1, <3>2 DEF SameFile, Entries
    <3> QED
      BY <2>1, <3>3
  <2> QED
    BY <1>5, <1>6, <2>2 DEF Underway, StartNext
<1>8. Wait(j)' = j
  BY <1>6, <1>7 DEF Wait
<1>9. CASE Underway
  <2>1. pending' = Tail(pending) /\ j + 1 \in 1..Len(pending) /\ pending'[j] = pending[j + 1]
    BY <1>1, <1>2, <1>5, <1>9
  <2>2. i = j + 1
    BY <2>1, OnePlaceInQueue
  <2> QED
    BY <1>6, <1>7, <1>8, <1>9, <2>2 DEF Wait
<1>10. CASE ~Underway
  <2>1. pending' = pending
    BY <1>5, <1>10
  <2>2. i = j
    BY <2>1, OnePlaceInQueue
  <2> QED
    BY <1>6, <1>7, <1>8, <1>10, <2>2 DEF Wait
<1> QED
  BY <1>9, <1>10

\* A new file is put behind the others.
LEMMA StageWaits ==
  ASSUME QueueInv, UploadInv, inFlight, NEW r \in Rooms, NEW p \in Paths, Stage(r, p),
         NEW i \in 1..Len(pending), NEW j \in 1..Len(pending'),
         pending'[j].number = pending[i].number
  PROVE  inFlight' /\ Wait(j)' <= Wait(i)
<1>1. PICK f : f.number = staged + 1 /\ pending' = Append(pending, f)
  BY DEF Stage
<1>2. pending \in Seq(Entries) /\ Len(pending) \in Nat /\ staged \in Nat
  BY LenProperties DEF QueueInv, TypeOK
<1>3. /\ Len(pending') = Len(pending) + 1 /\ pending'[Len(pending) + 1] = f
      /\ \A n \in 1..Len(pending) : pending'[n] = pending[n]
  BY <1>1, <1>2
<1>4. pending[i].number \in 1..staged
  BY DEF UploadInv, Placed, Places, At, NumberAt, FilesAt
<1>5. j \in 1..Len(pending) /\ pending[j].number = pending[i].number
  BY <1>1, <1>2, <1>3, <1>4
<1>6. SameEntry(pending'[1], pending[1])
  BY <1>2, <1>3 DEF SameEntry, SameFile
<1>7. UNCHANGED <<inFlight, uploads>>
  BY DEF Stage
<1> QED
  BY <1>5, <1>6, <1>7, WaitsAsBefore

\* A switch leaves the first file in the queue and takes the others out of it.
LEMMA SelectWaits ==
  ASSUME QueueInv, UploadInv, inFlight, NEW r \in Rooms, SelectRoom(r),
         NEW i \in 1..Len(pending), NEW j \in 1..Len(pending'),
         pending'[j].number = pending[i].number
  PROVE  inFlight' /\ Wait(j)' <= Wait(i)
<1>1. pending \in Seq(Entries) /\ pending # <<>> /\ Len(pending) \in Nat
  BY EmptySeq, LenProperties DEF QueueInv, TypeOK
<1>2. Skips /\ Kept = 1 /\ 1 \in 1..Len(pending)
  BY <1>1, EmptySeq DEF Skips, Kept
<1>3. saved[r].files \in Seq(Entries) /\ Restore(saved[r].files)
  BY DEF QueueInv, TypeOK, Drafts, SelectRoom
<1>4. /\ Len(saved[r].files) \in Nat /\ Len(pending') = 1 + Len(saved[r].files)
      /\ \A n \in 1..Len(saved[r].files) : pending'[1 + n] = saved[r].files[n]
      /\ SameEntry(pending'[1], pending[1])
  BY <1>2, <1>3, Restored DEF QueueInv, TypeOK
<1>5. j = 1
  <2> SUFFICES ASSUME j # 1
               PROVE  FALSE
    OBVIOUS
  <2>1. j - 1 \in 1..Len(saved[r].files) /\ 1 + (j - 1) = j
    BY <1>4
  <2>2. NumberAt(r, j - 1) = NumberAt(NoRoom, i)
    BY <1>4, <2>1 DEF NumberAt, FilesAt
  <2>3. r \in Places /\ NoRoom \in Places /\ j - 1 \in At(r) /\ i \in At(NoRoom)
    BY <2>1 DEF Places, At, FilesAt
  <2> QED
    BY <2>2, <2>3 DEF UploadInv, Placed
<1>6. pending[1].number = pending[i].number
  BY <1>4, <1>5 DEF SameEntry
<1>7. UNCHANGED <<inFlight, uploads>>
  BY DEF SelectRoom
<1> QED
  BY <1>2, <1>4, <1>5, <1>6, <1>7, WaitsAsBefore

\* TurnsComeNearer: each step is one towards the end of the wait in FilesHaveTheirTurn.
THEOREM QueueMovesOn == Spec => TurnsComeNearer
<1> DEFINE Nearer ==
      inFlight =>
         \A i \in 1..Len(pending), j \in 1..Len(pending') :
            pending'[j].number = pending[i].number =>
               /\ inFlight' /\ Wait(j)' <= Wait(i)
               /\ UploadEnds => Wait(j)' < Wait(i)
<1>1. QueueInv /\ FlagIsTheUpload /\ UploadInv /\ Next => Nearer
  <2> SUFFICES ASSUME QueueInv, FlagIsTheUpload, UploadInv, Next, inFlight,
                      NEW i \in 1..Len(pending), NEW j \in 1..Len(pending'),
                      pending'[j].number = pending[i].number
               PROVE  /\ inFlight' /\ Wait(j)' <= Wait(i)
                      /\ UploadEnds => Wait(j)' < Wait(i)
    OBVIOUS
  <2>1. CASE UploadEnds
    <3>1. Wait(i) \in Nat
      BY DEF Wait
    <3>2. Wait(j)' \in Nat
      BY DEF Wait
    <3> QED
      BY <2>1, <3>1, <3>2, FinishComesNearer DEF UploadEnds
  <2>2. CASE ~UploadEnds
    <3>1. ASSUME NEW r \in Rooms, NEW p \in Paths, Stage(r, p)
          PROVE  inFlight' /\ Wait(j)' <= Wait(i)
      BY <3>1, StageWaits
    <3>2. ASSUME NEW r \in Rooms, SelectRoom(r)
          PROVE  inFlight' /\ Wait(j)' <= Wait(i)
      BY <3>2, SelectWaits
    <3>3. ~(DetachAll \/ CloseRoom \/ LoseRoom \/ Logout)
      <4>1. pending' # <<>>
        BY EmptySeq
      <4> QED
        BY <4>1 DEF DetachAll, CloseRoom, LoseRoom, Logout, Clear
    <3>4. ASSUME Reply \/ EndEdit \/ Login
          PROVE  inFlight' /\ Wait(j)' <= Wait(i)
      <4>1. pending' = pending /\ UNCHANGED <<inFlight, uploads>>
        BY <3>4 DEF Reply, EndEdit, Login
      <4>2. j \in 1..Len(pending) /\ pending[j].number = pending[i].number
        BY <4>1
      <4>3. SameEntry(pending'[1], pending[1])
        BY <4>1 DEF SameEntry, SameFile
      <4> QED
        BY <4>1, <4>2, <4>3, WaitsAsBefore
    <3>5. ~(Send \/ Edit \/ \E n \in 1..Len(rows) : Detach(n))
      BY DEF Send, Edit, Detach
    <3>6. \/ Reply \/ EndEdit \/ Login
          \/ \E r \in Rooms : SelectRoom(r)
          \/ \E r \in Rooms, p \in Paths : Stage(r, p)
      BY <2>2, <3>3, <3>5 DEF Next, Composer
    <3>7. inFlight' /\ Wait(j)' <= Wait(i)
      BY <3>1, <3>2, <3>4, <3>6
    <3> QED
      BY <2>2, <3>7
  <2> QED
    BY <2>1, <2>2
<1>2. QueueInv /\ FlagIsTheUpload /\ UploadInv /\ [Next]_vars => [Nearer]_vars
  BY <1>1
<1> QED
  BY <1>2, QueueIsSound, OneUploadAtATime, UploadsAreSound, PTL DEF Spec, TurnsComeNearer

=============================================================================
