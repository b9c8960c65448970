SPECIFICATION ApiSpec
CONSTANTS
  Ids = {i1, i2}
  Scopes = {s1}
  Keys = {k1}
  Prints = {p1, p2}
  Codes = {"task_failed"}
  Calls = {c1, c2}
  MaxAttempts = 2
  None = None
  Retention = 1
  TTL = 1
  MaxActive = 2
  MaxStored = 2
  MaxTime = 1
SYMMETRY Symmetry
INVARIANTS
  ApiTypeOK
  ReservationsAreHeld
  RefusedOnlyWhenFinished
  OneInvocationPerLiveKey
PROPERTIES
  ConditionalCancelIsExact
