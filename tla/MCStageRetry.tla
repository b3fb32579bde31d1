--------------------------- MODULE MCStageRetry ---------------------------
(* Two localities with a worker each and two blocks, both stored at the     *)
(* first, over four stages: a failed probe, a rollback, the probe again and  *)
(* its cached corrector.                                                    *)
EXTENDS StageDispatch, TLC
CONSTANTS b1, b2, w1, w2

MCBlock == {b1, b2}
MCWorker == {w1, w2}
MCHome == w1 :> 0 @@ w2 :> 1
MCOwner == b1 :> 0 @@ b2 :> 0
MCTimeLevel == b1 :> 0 @@ b2 :> 1
=============================================================================
