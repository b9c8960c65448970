SPECIFICATION StoreSpec
CONSTANTS
  Ids = {i1, i2, i3}
  Scopes = {s1}
  Keys = {k1}
  Prints = {p1}
  Codes = {"deadline_exceeded"}
  None = None
  Retention = 1
  TTL = 1
  MaxActive = 1
  MaxStored = 2
  MaxTime = 2
SYMMETRY Symmetry
INVARIANTS
  MemoryIsDurable
  LiveKeyResolves
  RetentionHonoured
  ActiveCap
PROPERTIES
  EtagNamesOneVersion
  OutcomeStands
  KeepsContract
