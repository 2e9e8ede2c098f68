--------------------------- MODULE MCTimelineTasks ---------------------------
(* TimelineTasks on small instances; a, b and f come from the configurations. *)
EXTENDS TimelineTasks

=============================================================================
