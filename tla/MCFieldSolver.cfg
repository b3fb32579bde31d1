CONSTANTS
  Meshes <- MCMeshes
  Trees <- MCTrees
  Selections <- MCSelections
  Partitions = 2
  MaxSolves = 2
  MaxMoves = 1
  MaxFailures = 1
SPECIFICATION Spec
INVARIANTS TypeOK EveryPairOnce ReciprocalPairs ReadsComplete
PROPERTIES PublicationKept SolveEnds
CHECK_DEADLOCK FALSE
