-------------------------- MODULE MCStageDispatch --------------------------
(* Two localities, three blocks on two time levels; locality 0 has two      *)
(* workers, so that local claims, steals and late runs all interleave.      *)
EXTENDS StageDispatch, TLC
CONSTANTS b1, b2, b3, w1, w2, w3

MCBlock == {b1, b2, b3}
MCWorker == {w1, w2, w3}
MCHome == w1 :> 0 @@ w2 :> 0 @@ w3 :> 1
MCOwner == b1 :> 0 @@ b2 :> 0 @@ b3 :> 1
MCTimeLevel == b1 :> 0 @@ b2 :> 1 @@ b3 :> 1
=============================================================================
