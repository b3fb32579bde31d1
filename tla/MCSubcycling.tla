---------------------------- MODULE MCSubcycling ----------------------------
(* Three occupied spatial levels, each its own time level, and four with   *)
(* radiation-matter coupling and the equation-of-state floor, of which the *)
(* two coarse ones form one time group: nested recursions inside one       *)
(* interval of eight ticks.  And two spatial levels, with and without      *)
(* coupling, for several intervals in a row.                               *)
EXTENDS Subcycling

Option(spatial, coarseLevel, coupled, durations) ==
  [spatial |-> spatial, coarseLevel |-> coarseLevel, coupled |-> coupled, floored |-> coupled,
   durations |-> durations]
MCOptions ==
  {Option({0, 1, 2}, 0, FALSE, {8}), Option({0, 1, 2, 3}, 1, TRUE, {8}),
   Option({0, 1}, 0, FALSE, {2, 4}), Option({0, 1}, 0, TRUE, {2, 4})}
=============================================================================
