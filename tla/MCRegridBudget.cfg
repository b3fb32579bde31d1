CONSTANTS
  Configs <- MCConfigs
  MaxSteps = 3
  MaxFaults = 1
SPECIFICATION Spec
INVARIANT StepWithinBudget
CHECK_DEADLOCK FALSE
