-------------------------- MODULE MCTimelineRefresh --------------------------
(* TimelineRefresh on small instances. *)
EXTENDS TimelineRefresh, TLC

\* The rooms are interchangeable.
RoomSymmetry == Permutations(Rooms)

\* The user opens rooms and leaves them open, the loops live and a snapshot is
\* a full page: what is left is the refresh protocol itself.
FullPages ==
    \A r \in Rooms : snaps'[r] # snaps[r] /\ snaps'[r].version > 0 =>
        snaps'[r].items = MaxItems /\ snaps'[r].rows = MaxItems

OpenOnce == \E r \in Rooms : models[r] = NoModel /\ SelectRoom(r)

QuietNext ==
    \/ HandleEvent \/ Worker \/ Timers \/ OpenOnce
    \/ \E r \in Rooms : (Store(r) /\ FullPages) \/ Notify(r) \/ FinishPagination(r)

QuietSpec == Init /\ [][QuietNext]_vars /\ Fairness

\* The same with snapshots of every size.
SettlingNext ==
    \/ HandleEvent \/ Worker \/ Timers \/ OpenOnce
    \/ \E r \in Rooms : Store(r) \/ Notify(r) \/ FinishPagination(r)

SettlingSpec == Init /\ [][SettlingNext]_vars /\ Fairness

=============================================================================
