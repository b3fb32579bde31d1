------------------------- MODULE MCRuntimeProtocol -------------------------
(* Two blocks, coupling, any calls: global steps with conserved regrid      *)
(* energy, and time-refined gravity, whose interval restores itself and is  *)
(* restored once more by advanceCoupled, without it.                        *)
EXTENDS RuntimeProtocol
CONSTANTS b1, b2
MCBlock == {b1, b2}
MCOptions == {[refined |-> FALSE, conserve |-> TRUE], [refined |-> TRUE, conserve |-> FALSE]}
=============================================================================
