-------------------------- MODULE MCAttachmentQueue --------------------------
(* AttachmentQueue on small instances. *)
EXTENDS AttachmentQueue, TLC

CONSTANTS a, b, p

\* Files are staged for the room on screen, and the second one for any: it may be
\* dropped on the window of another room.
MostlyHere(r) == r = active \/ staged = 1

QueueNext ==
    \/ \E r \in Rooms : MostlyHere(r) /\ \E q \in Paths : Stage(r, q)
    \/ \E i \in 1..Len(rows) : Detach(i)
    \/ Send \/ DetachAll \/ Reply \/ Edit \/ EndEdit \/ UploadEnds
    \/ \E r \in Rooms : SelectRoom(r)
    \/ CloseRoom \/ LoseRoom \/ Logout \/ Login

QueueSpec == Init /\ [][QueueNext]_vars /\ WF_vars(UploadEnds)

=============================================================================
