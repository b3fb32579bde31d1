---------------------------- MODULE MCKickRetry ----------------------------
(* A tracked kick that fails on one of two blocks and is called again. *)
EXTENDS RuntimeProtocol
CONSTANTS b1, b2
MCBlock == {b1, b2}
MCOptions == {[refined |-> FALSE, conserve |-> TRUE]}
=============================================================================
