SPECIFICATION BridgeSpec
CONSTANTS
  Ids <- ThreeIds
  Scopes = {s1, s2}
  Keys = {}
  Prints = {}
  Codes = {"deadline_exceeded", "task_init_failed", "task_failed"}
  None = None
  Retention = 1
  TTL = 1
  MaxActive = 3
  MaxStored = 3
  MaxTime = 0
  Tenants <- MCTenants
  TenantOf <- MCTenantOf
  MaxGlobal = 2
  MaxPerTenant = 2
  MaxPerScope = 1
  WithDeadline = {1}
  Environment = {}
INVARIANTS
  ExecutorsWithinLimits
  NobodyForgotten
  HeadIsWoken
PROPERTIES
  FifoWithinScope
