---------------------------- MODULE AttachmentQueue ----------------------------
(***************************************************************************)
(* The files staged in the composer, over room switches and uploads        *)
(* (TimelineViewManagerMatrixTimelineAttachments.cpp, and what             *)
(* TimelineViewManagerMatrixTimelineLifecycle.cpp saves and restores).     *)
(*                                                                         *)
(* One queue serves all rooms.  A file is staged for a room, waits in the  *)
(* queue and has a row under the composer; sending starts the upload of    *)
(* the first one, and the end of an upload starts the next.  A switch      *)
(* saves the queue with the room that is left, except for its first file   *)
(* while an upload is under way, and restores that of the new room.        *)
(*                                                                         *)
(* Staged files are numbered.  A drop names the room of its window and a   *)
(* file dialog the room it was opened in, so a file may be staged for any  *)
(* room.  A reply stands for the thread too: both are stamped on a file    *)
(* alike.  The caption (file name and text, which its row lets the user    *)
(* edit) is that of one of the files; the content is left out, and an      *)
(* upload that fails does what one that succeeds does.                     *)
(***************************************************************************)
EXTENDS Integers, SequencesExt

CONSTANTS
    Rooms,      \* the rooms the user opens
    NoRoom,     \* no room
    Paths,      \* the files on disk
    MaxSession, \* bound: backend handles started
    MaxStaged   \* bound: files staged

ASSUME RoomsAssumption == NoRoom \notin Rooms
ASSUME BoundsAssumption == MaxSession \in Nat \ {0} /\ MaxStaged \in Nat

VARIABLES
    session,    \* matrixBackendHandleId, 0 for none
    started,    \* handles started so far
    active,     \* activeMatrixTimelineRoomId_
    reply,      \* matrixTimelineReplyEventId_: the room of the event replied to
    edit,       \* matrixTimelineEditEventId_ is set
    saved,      \* perRoomInteractionState_
    staged,     \* files staged so far
    pending,    \* pendingMatrixAttachments_
    rows,       \* matrixPendingAttachmentItems_: each row's file and the caption in it
    inFlight,   \* matrixAttachmentUploadInFlight_
    uploads,    \* files whose upload runs or has its end posted
    tries       \* how often each file was uploaded (observed only)

Numbers == 1..MaxStaged

sessVars   == <<session, started>>
draftVars  == <<active, reply, edit, saved>>
queueVars  == <<staged, pending, rows>>
uploadVars == <<inFlight, uploads, tries>>
vars == <<sessVars, draftVars, queueVars, uploadVars>>

Nothing == [reply |-> NoRoom, edit |-> FALSE, files |-> <<>>]

Init ==
    /\ session = 1 /\ started = 1
    /\ active = NoRoom /\ reply = NoRoom /\ edit = FALSE
    /\ saved = [r \in Rooms |-> Nothing]
    /\ staged = 0 /\ pending = <<>> /\ rows = <<>>
    /\ inFlight = FALSE /\ uploads = {} /\ tries = [n \in Numbers |-> 0]
-----------------------------------------------------------------------------
(* The composer *)

\* Mutant: a file can be dropped without a backend handle.
StageUnchecked(r, p) ==
    /\ ~edit
    /\ staged < MaxStaged
    /\ staged' = staged + 1
    /\ pending' = Append(pending, [number |-> staged + 1, room |-> r, session |-> session,
                                   path |-> p, reply |-> NoRoom, caption |-> staged + 1])
    /\ rows' = Append(rows, [number |-> staged + 1, caption |-> staged + 1])
    /\ UNCHANGED <<sessVars, draftVars, uploadVars>>

\* stageMatrixAttachmentsForRoom, for one file: refused during an edit.
Stage(r, p) ==
    /\ session # 0 /\ ~edit
    /\ staged < MaxStaged
    /\ staged' = staged + 1
    /\ pending' = Append(pending, [number |-> staged + 1, room |-> r, session |-> session,
                                   path |-> p, reply |-> NoRoom, caption |-> staged + 1])
    /\ rows' = Append(rows, [number |-> staged + 1, caption |-> staged + 1])
    /\ UNCHANGED <<sessVars, draftVars, uploadVars>>

\* startNextPendingMatrixAttachment, for the queue q and its rows once nothing is
\* under way: the first file goes out with the caption of the first row.
StartNext(q, rws, running) ==
    IF q = <<>>
    THEN inFlight' = FALSE /\ uploads' = running /\ UNCHANGED tries
    ELSE /\ inFlight' = TRUE
         /\ uploads' = running \cup
              {IF rws = <<>> THEN Head(q) ELSE [Head(q) EXCEPT !.caption = Head(rws).caption]}
         /\ tries' = [tries EXCEPT ![Head(q).number] = @ + 1]

\* sendActiveMatrixAttachments: the reply goes to every file that has none.
Stamped ==
    [i \in DOMAIN pending |-> [pending[i] EXCEPT !.reply = IF @ = NoRoom THEN reply ELSE @]]

Send ==
    /\ active # NoRoom /\ rows # <<>> /\ pending # <<>> /\ ~inFlight
    /\ pending' = Stamped /\ reply' = NoRoom
    /\ StartNext(Stamped, rows, uploads)
    /\ UNCHANGED <<sessVars, active, edit, saved, staged, rows>>

\* Mutant: the button works during an upload too.
DetachAnytime(i) ==
    /\ rows' = RemoveAt(rows, i) /\ pending' = RemoveAt(pending, i)
    /\ UNCHANGED <<sessVars, draftVars, staged, uploadVars>>

\* removeActiveMatrixAttachment: the button is disabled during an upload.
Detach(i) ==
    /\ ~inFlight
    /\ rows' = RemoveAt(rows, i) /\ pending' = RemoveAt(pending, i)
    /\ UNCHANGED <<sessVars, draftVars, staged, uploadVars>>

\* clearActiveMatrixAttachments, with Escape also during an upload.
DetachAll ==
    /\ rows # <<>>
    /\ pending' = <<>> /\ rows' = <<>>
    /\ UNCHANGED <<sessVars, draftVars, staged, uploadVars>>

\* queueActiveMatrixReply; the reply ends with the message or is taken back.
Reply ==
    /\ active # NoRoom
    /\ reply' \in {active, NoRoom}
    /\ UNCHANGED <<sessVars, active, edit, saved, queueVars, uploadVars>>

\* Mutant: only an upload under way is in the way of an edit.
EditOverFiles ==
    /\ active # NoRoom /\ ~inFlight
    /\ edit' = TRUE /\ reply' = NoRoom
    /\ UNCHANGED <<sessVars, active, saved, queueVars, uploadVars>>

\* queueActiveMatrixEdit: refused while there are files.
Edit ==
    /\ active # NoRoom /\ ~inFlight /\ pending = <<>>
    /\ edit' = TRUE /\ reply' = NoRoom
    /\ UNCHANGED <<sessVars, active, saved, queueVars, uploadVars>>

\* The edit is sent or taken back.
EndEdit ==
    /\ edit /\ edit' = FALSE
    /\ UNCHANGED <<sessVars, active, reply, saved, queueVars, uploadVars>>
-----------------------------------------------------------------------------
(* Switching, closing, losing a room; sessions *)

\* "Skip the in-flight entry (index 0)": it is taken for the one under way.
Skips == inFlight /\ pending # <<>>

\* updateCurrentMatrixTimelineSelection: what the room that is left keeps.  A file
\* takes the caption of the row at its own index.
Captioned ==
    [i \in DOMAIN pending |-> IF i \in DOMAIN rows
                             THEN [pending[i] EXCEPT !.caption = rows[i].caption]
                             ELSE pending[i]]
FilesKept == IF Skips THEN Tail(Captioned) ELSE Captioned

Outgoing ==
    IF active = NoRoom THEN saved
    ELSE [saved EXCEPT ![active] = [reply |-> reply, edit |-> edit, files |-> FilesKept]]

\* The queue and the rows with the files of the new room; the first file stays in
\* the queue while an upload is under way, without a row.
Restore(files) ==
    /\ pending' = (IF Skips THEN <<Head(Captioned)>> ELSE <<>>) \o files
    /\ rows' = [i \in DOMAIN files |-> [number |-> files[i].number, caption |-> files[i].caption]]

\* Mutant: the whole queue is kept with the room.
SelectKeepingAll(r) ==
    /\ session # 0 /\ r # active
    /\ active' = r /\ reply' = saved[r].reply /\ edit' = saved[r].edit
    /\ saved' = [q \in Rooms |-> IF q = r THEN Nothing
                                 ELSE IF q = active THEN [Outgoing[q] EXCEPT !.files = Captioned]
                                 ELSE saved[q]]
    /\ Restore(saved[r].files)
    /\ UNCHANGED <<sessVars, staged, uploadVars>>

\* Mutant: the reply and the edit stay when the new room has nothing saved.
SelectKeepingDraft(r) ==
    /\ session # 0 /\ r # active
    /\ active' = r /\ saved' = [Outgoing EXCEPT ![r] = Nothing]
    /\ IF saved[r] = Nothing THEN UNCHANGED <<reply, edit>>
       ELSE reply' = saved[r].reply /\ edit' = saved[r].edit
    /\ Restore(saved[r].files)
    /\ UNCHANGED <<sessVars, staged, uploadVars>>

\* Drafts and files change places with those of the new room.
SelectRoom(r) ==
    /\ session # 0 /\ r # active
    /\ active' = r /\ saved' = [Outgoing EXCEPT ![r] = Nothing]
    /\ reply' = saved[r].reply /\ edit' = saved[r].edit
    /\ Restore(saved[r].files)
    /\ UNCHANGED <<sessVars, staged, uploadVars>>

\* Mutant: the flag is reset with the rest.
ClearFlagToo ==
    /\ active' = NoRoom /\ reply' = NoRoom /\ edit' = FALSE
    /\ pending' = <<>> /\ rows' = <<>>
    /\ inFlight' = FALSE
    /\ UNCHANGED <<staged, uploads, tries>>

\* clearCurrentMatrixTimeline: an upload under way goes on.
Clear ==
    /\ active' = NoRoom /\ reply' = NoRoom /\ edit' = FALSE
    /\ pending' = <<>> /\ rows' = <<>>
    /\ UNCHANGED <<staged, uploadVars>>

\* The last room is closed, or the next one cannot be selected.
CloseRoom == session # 0 /\ active # NoRoom /\ saved' = Outgoing /\ Clear /\ UNCHANGED sessVars

\* The first fetch of the room failed: nothing is saved.
LoseRoom == session # 0 /\ active # NoRoom /\ UNCHANGED saved /\ Clear /\ UNCHANGED sessVars

\* loggedOut: nothing is saved, what was saved before stays.
Logout ==
    /\ session # 0
    /\ session' = 0 /\ UNCHANGED <<started, saved>>
    /\ Clear

Login ==
    /\ session = 0 /\ started < MaxSession
    /\ session' = started + 1 /\ started' = started + 1
    /\ UNCHANGED <<draftVars, queueVars, uploadVars>>
-----------------------------------------------------------------------------
(* The end of an upload *)

SameFile(e, f) == e.path = f.path /\ e.room = f.room /\ e.session = f.session

\* Mutant: the next file waits for the user.
FinishOnly(e) ==
    LET popped == pending # <<>> /\ SameFile(Head(pending), e) IN
    /\ e \in uploads
    /\ pending' = IF popped THEN Tail(pending) ELSE pending
    /\ rows' = IF rows = <<>> THEN rows ELSE Tail(rows)
    /\ inFlight' = FALSE /\ uploads' = uploads \ {e}
    /\ UNCHANGED <<sessVars, draftVars, staged, tries>>

\* finishPendingMatrixAttachment: the file leaves the queue when it is the first
\* there, the first row goes whichever file it is of, and the next file is
\* started, whoever asked for it.
Finish(e) ==
    LET popped == pending # <<>> /\ SameFile(Head(pending), e)
        rest   == IF popped THEN Tail(pending) ELSE pending
        left   == IF rows = <<>> THEN rows ELSE Tail(rows) IN
    /\ e \in uploads
    /\ pending' = rest /\ rows' = left
    /\ StartNext(rest, left, uploads \ {e})
    /\ UNCHANGED <<sessVars, draftVars, staged>>
-----------------------------------------------------------------------------
Composer ==
    \/ \E r \in Rooms, p \in Paths : Stage(r, p)
    \/ \E i \in 1..Len(rows) : Detach(i)
    \/ Send \/ DetachAll \/ Reply \/ Edit \/ EndEdit

UploadEnds == \E e \in uploads : Finish(e)

Next ==
    \/ Composer \/ UploadEnds
    \/ \E r \in Rooms : SelectRoom(r)
    \/ CloseRoom \/ LoseRoom \/ Logout \/ Login

\* The server takes or refuses a file in the end; users do what they like.
Spec == Init /\ [][Next]_vars /\ WF_vars(UploadEnds)
-----------------------------------------------------------------------------
(* Properties *)

Entries == [number : Numbers, room : Rooms, session : 1..MaxSession, path : Paths,
            reply : Rooms \cup {NoRoom}, caption : Numbers]

RowItems == [number : Numbers, caption : Numbers]

Drafts == [reply : Rooms \cup {NoRoom}, edit : BOOLEAN, files : Seq(Entries)]

\* Types.  Beyond them: a file is only staged, and later uploaded, under a handle.
TypeOK ==
    /\ session \in 0..MaxSession /\ started \in 1..MaxSession
    /\ active \in Rooms \cup {NoRoom} /\ reply \in Rooms \cup {NoRoom} /\ edit \in BOOLEAN
    /\ saved \in [Rooms -> Drafts]
    /\ staged \in 0..MaxStaged
    /\ pending \in Seq(Entries) /\ rows \in Seq(RowItems)
    /\ inFlight \in BOOLEAN /\ uploads \subseteq Entries /\ tries \in [Numbers -> Nat]

\* The rows are those of the last files of the queue, in its order, and of all of
\* them unless an upload is under way: a row's index, checked against the rows,
\* never points beyond the queue, and Detach removes the file of its row.
RowsAreTheLastFiles ==
    LET hidden == Len(pending) - Len(rows) IN
    /\ hidden >= 0
    /\ \A i \in 1..Len(rows) : rows[i].number = pending[hidden + i].number
    /\ ~inFlight => hidden = 0

\* The flag is up exactly while an upload runs, and only one does: clearing the
\* queue, switching rooms or logging out neither leaves it up for ever nor lets a
\* second upload start beside the first.
FlagIsTheUpload ==
    /\ inFlight <=> uploads # {}
    /\ \A e, f \in uploads : e = f

\* No file is uploaded twice or comes back after its upload, although a queue
\* saved during an upload is restored after it.
UploadedOnce ==
    /\ \A n \in Numbers : tries[n] <= 1
    /\ \A r \in Rooms : \A i \in DOMAIN saved[r].files : tries[saved[r].files[i].number] = 0
    /\ ~inFlight => \A i \in DOMAIN pending : tries[pending[i].number] = 0

\* "Finish editing the current message before attaching files.": an edit and staged
\* files never meet, in the room on screen or in one that was left; what the queue
\* holds during an edit is one file of a room before, under way or next.
EditExcludesFiles ==
    /\ edit => rows = <<>> /\ Len(pending) <= 1
    /\ edit /\ ~inFlight => pending = <<>>
    /\ \A r \in Rooms : saved[r].edit => saved[r].files = <<>>

\* A reply on screen is to an event of the room on screen, and a room that was
\* left keeps a reply to one of its own.
RepliesStayInTheirRoom ==
    /\ reply \in {NoRoom, active}
    /\ \A r \in Rooms : saved[r].reply \in {NoRoom, r}

HasFile(files, n) == \E i \in DOMAIN files : files[i].number = n
Queued(n) == HasFile(pending, n)

\* The ways out of the queue.  The user's: the file was taken back, the room was
\* closed, lost or logged out of, or a switch keeps the file with its room.
TakenOut(n) ==
    /\ UNCHANGED uploads
    /\ active \notin {active', NoRoom} /\ active' # NoRoom => HasFile(saved'[active].files, n)

\* Its own upload, the only one it had, ended.
Uploaded(n) == tries[n] = 1 /\ \E e \in uploads \ uploads' : e.number = n

\* It was first when the upload of another file ended that had the same path for
\* the same room under the same handle, and was taken for it: it is never sent.
Mistaken(n) ==
    /\ tries[n] = 0 /\ pending[1].number = n
    /\ \E e \in uploads \ uploads' : e.number # n /\ SameFile(e, pending[1])

\* A file in the queue while an upload is under way does not wait for ever, and no
\* file leaves the queue but by its upload, by the user or by the one mistake
\* above: staged again during its upload, a path is taken for the file that ended.
\* Only then: a file that was sent and saved with its room before its turn came
\* waits for another upload or another send when the room is entered again.
FilesHaveTheirTurn ==
    /\ \A n \in Numbers : inFlight /\ Queued(n) ~> ~Queued(n)
    /\ [][\A n \in Numbers : Queued(n) /\ ~Queued(n)' =>
              TakenOut(n) \/ Uploaded(n) \/ Mistaken(n)]_vars

\* "Each image can be captioned individually": a file goes out under its own name
\* and caption.
CaptionsStayWithTheirFile == \A e \in uploads : e.caption = e.number

=============================================================================
