CONSTANTS
  Options <- MCOptions
  Durations = {4}
  MaxTime = 8
SPECIFICATION Spec
INVARIANTS TypeOK FieldsSynchronised ExchangeBooked GravityCurrent
CHECK_DEADLOCK FALSE
