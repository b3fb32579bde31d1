---------------------------- MODULE MCStageAccess ----------------------------
(* Four blocks on three levels of a line, and the calls that differ in their *)
(* stages, banks or registers.                                             *)
EXTENDS StageAccess, TLC

MCConfig == [maxLevel |-> 3, cells |-> 4, periodic |-> <<FALSE>>]
Block(level, at) == [level |-> level, at |-> <<at>>]
MCLeaves == {Block(1, 0), Block(2, 2), Block(3, 6), Block(3, 7)}

Plain == [call |-> "advance", refinement |-> FALSE, coarseLevel |-> 0, coupled |-> FALSE,
          gravity |-> FALSE, tracked |-> FALSE, external |-> FALSE,
          steps |-> (1 :> 1 @@ 2 :> 2 @@ 3 :> 2)]
Grouped == [Plain EXCEPT !.refinement = TRUE, !.coarseLevel = 2, !.steps = (2 :> 2 @@ 3 :> 2)]
Exchange == [Plain EXCEPT !.coupled = TRUE]
Gravitating == [Plain EXCEPT !.gravity = TRUE, !.tracked = TRUE]

MCOptions == {
  Plain, [Plain EXCEPT !.refinement = TRUE], Grouped,
  Exchange, [Exchange EXCEPT !.refinement = TRUE], [Grouped EXCEPT !.coupled = TRUE],
  [Exchange EXCEPT !.external = TRUE],
  Gravitating, [Gravitating EXCEPT !.tracked = FALSE],
  [Gravitating EXCEPT !.coupled = TRUE],
  [Gravitating EXCEPT !.coupled = TRUE, !.refinement = TRUE, !.external = TRUE],
  [Exchange EXCEPT !.call = "coupleRadiation"]}
=============================================================================
