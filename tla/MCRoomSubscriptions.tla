------------------------- MODULE MCRoomSubscriptions -------------------------
(* RoomSubscriptions on small instances. *)
EXTENDS RoomSubscriptions, TLC

CONSTANT a

\* The rooms are interchangeable.
RoomSymmetry == Permutations(Rooms)

\* Login and logout, with rooms nobody changes.
SessionsNext ==
    \/ DoCall \/ User \/ Backend \/ ShowPins \/ Reconciler
    \/ \E r \in Rooms : Forwarder(r)

SessionsSpec == Init /\ [][SessionsNext]_vars

\* The rooms live, and somebody pins a message in one of them.
Threads ==
    \/ DoCall \/ ShowPins \/ Reconciler \/ PinsChange(a)
    \/ \E r \in Rooms : Forwarder(r) \/ RoomInfoChange(r)

\* One session: everything the user does but logging out.
OneSessionNext ==
    \/ Threads
    \/ \E r \in Rooms : SelectRoom(r)
    \/ CloseRoom \/ LoseActiveRoom
    \/ \E w \in Windows : CloseWindow(w) \/ \E r \in Rooms : OpenWindow(w, r)

OneSessionSpec == Init /\ [][OneSessionNext]_vars /\ Fairness

\* A user in a hurry, with one main window.
HastyNext == Threads \/ \E r \in Rooms : SelectRoom(r)

\* Every room changes again and again, so that nothing is missed for good between
\* reading a list and opening the stream of its changes.
RoomsChange == \A r \in Rooms : WF_vars(RoomInfoChange(r))

HastySpec == Init /\ [][HastyNext]_vars /\ Fairness /\ RoomsChange

=============================================================================
