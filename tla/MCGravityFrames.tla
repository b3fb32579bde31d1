--------------------------- MODULE MCGravityFrames --------------------------
(* Two and three adjacent time levels, and two with a gap, in both         *)
(* integrations, with and without radiation coupling.  The two adjacent    *)
(* levels have room to halve their steps and still end the interval.       *)
EXTENDS GravityFrames

MCOptions ==
  [levels : {{0, 1}, {0, 1, 2}, {1, 3}}, conventional : BOOLEAN, coupled : BOOLEAN]
=============================================================================
