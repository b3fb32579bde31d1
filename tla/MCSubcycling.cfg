CONSTANTS
  Options <- MCOptions
  MaxTime = 8
SPECIFICATION FairSpec
INVARIANTS TypeOK HaloSynchronised RefluxCoversStep StepsAligned SourceInputsReady FailedCallKeepsTime
PROPERTIES KeepsIntervalContract IntervalEnds
