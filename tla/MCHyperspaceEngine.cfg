SPECIFICATION Spec
CONSTANTS
  Iris = {i1, i2}
  Values = {v1, v2}
  Nothing = Nothing
  NoIri = NoIri
  MaxIoErrors = 2
  MaxSize = 2
  MaxId = 3
  MaxClock = 3
  MaxRotations = 2
  MaxRestarts = 1
SYMMETRY Symmetry
CHECK_DEADLOCK FALSE
INVARIANTS
  EngineTypeOK
  CrashSafe
  OnlyCrossingExposes
  IdsNameOneIri
PROPERTIES
  KeepsWrites
