--------------------------- MODULE MCFloorFailure ---------------------------
(* advance() with the Helmholtz equation of state: the floor follows the   *)
(* publication and is outside every catch block.                           *)
EXTENDS Subcycling

MCOptions ==
  {[spatial |-> {0, 1}, coarseLevel |-> 0, coupled |-> FALSE, floored |-> TRUE, durations |-> {2}]}
=============================================================================
