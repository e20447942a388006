------------------------- MODULE PublishedGeneration -------------------------
(***************************************************************************)
(* What publication promises to readers, with no jobs and no stores left   *)
(* in it: the pointer of a workspace names a generation only when all of   *)
(* it has been prepared, and what has been prepared is not taken apart.    *)
(***************************************************************************)
CONSTANTS Generations, None

VARIABLES
  prepared,   \* the generations that are written in full
  active      \* the generation readers are pointed at, or None

vars == <<prepared, active>>

Init ==
  /\ prepared = {}
  /\ active = None

Prepare(g) ==
  /\ prepared' = prepared \cup {g}
  /\ UNCHANGED active

Publish(g) ==
  /\ g \in prepared
  /\ active' = g
  /\ UNCHANGED prepared

Next == \E g \in Generations : Prepare(g) \/ Publish(g)

Spec == Init /\ [][Next]_vars
=============================================================================
