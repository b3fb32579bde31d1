CONSTANTS
  b1 = b1  b2 = b2  b3 = b3
  w1 = w1  w2 = w2  w3 = w3
  NoBlock = NoBlock
  N = 2
  Block <- MCBlock
  Worker <- MCWorker
  Home <- MCHome
  Owner <- MCOwner
  TimeLevel <- MCTimeLevel
  WorkStealing = TRUE
  MaxDispatch = 2
SPECIFICATION FairSpec
INVARIANTS TypeOK ExclusiveTask NoStaleWork CompleteStage
PROPERTIES ImplementsContract StageEnds
