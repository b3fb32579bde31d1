CONSTANTS
  b1 = b1  b2 = b2
  w1 = w1  w2 = w2
  NoBlock = NoBlock
  N = 2
  Block <- MCBlock
  Worker <- MCWorker
  Home <- MCHome
  Owner <- MCOwner
  TimeLevel <- MCTimeLevel
  WorkStealing = TRUE
  MaxDispatch = 4
SPECIFICATION Spec
INVARIANTS CorrectorFindsProbe NoCacheAcrossRollback
