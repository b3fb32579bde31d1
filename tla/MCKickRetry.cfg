CONSTANTS
  b1 = b1
  b2 = b2
  Block <- MCBlock
  Coupling = TRUE
  Tracked = TRUE
  Options <- MCOptions
  Floored = TRUE
  MaxTime = 2
  MaxMesh = 1
  MaxKicks = 3
SPECIFICATION Spec
INVARIANT KicksPermitRetry
