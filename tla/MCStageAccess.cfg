SPECIFICATION Spec
CONSTANTS
  Config <- MCConfig
  Leaves <- MCLeaves
  Options <- MCOptions
  MaxFailures = 3
INVARIANTS
  TypeOK
  StageIsolated
  InputsCurrent
