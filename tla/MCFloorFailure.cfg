CONSTANTS
  Options <- MCOptions
  MaxTime = 4
SPECIFICATION Spec
INVARIANT FailedCallKeepsTime
