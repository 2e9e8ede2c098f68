------------------------------ MODULE LatestSet ------------------------------
(***************************************************************************)
(* What the room-subscription reconciler promises: the rooms applied at    *)
(* the server follow the rooms wanted by the UI.  Changes may be coalesced *)
(* and an applied set may be a little old, but it is always a set that was *)
(* wanted, taken over in the order of the changes, and the last one wins.  *)
(***************************************************************************)
CONSTANT Rooms

VARIABLES
    wanted,    \* the rooms the UI wants
    taken,     \* the wanted rooms the consumer saw last
    applied    \* the rooms the consumer applied last

vars == <<wanted, taken, applied>>

Init == wanted = {} /\ taken = {} /\ applied = {}

Change == wanted' \in SUBSET Rooms /\ UNCHANGED <<taken, applied>>

Take == taken' = wanted /\ UNCHANGED <<wanted, applied>>

Apply == applied' = taken /\ UNCHANGED <<wanted, taken>>

Next == Change \/ Take \/ Apply

\* No change is forgotten: as long as the applied set is not the wanted one,
\* the consumer keeps taking and applying.
Spec == Init /\ [][Next]_vars /\ WF_vars(Take) /\ WF_vars(Apply)

=============================================================================
