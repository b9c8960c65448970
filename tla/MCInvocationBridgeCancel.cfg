SPECIFICATION BridgeSpec
CONSTANTS
  Ids <- TwoIds
  Scopes = {s1}
  Keys = {}
  Prints = {}
  Codes = {"deadline_exceeded", "task_init_failed", "task_failed"}
  None = None
  Retention = 1
  TTL = 1
  MaxActive = 3
  MaxStored = 3
  MaxTime = 0
  Tenants <- MCTenants
  TenantOf <- MCTenantOf
  MaxGlobal = 1
  MaxPerTenant = 1
  MaxPerScope = 1
  WithDeadline = {}
  Environment = {"cancel"}
PROPERTY RequestedCancelIsRecorded
