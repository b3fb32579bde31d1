CONSTANTS
  Configs <- MCConfigs
  MaxSteps = 3
  MaxFaults = 1
SPECIFICATION Spec
INVARIANTS TypeOK MeshAdmissible FacesPaired RegridSettles TagsCovered TravelWithinBudget
CHECK_DEADLOCK FALSE
