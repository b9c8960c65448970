SPECIFICATION Spec
CONSTANTS
  s1 = s1
  s2 = s2
  s3 = s3
  t1 = t1
  t2 = t2
  Ids = {i1, i2, i3, i4, i5, i6}
  Scopes = {s1, s2, s3}
  Tenants = {t1, t2}
  TenantOf <- MCTenantOf
  NotAdmitted = NotAdmitted
  MaxGlobal = 4
  MaxPerTenant = 3
  MaxPerScope = 2
INVARIANTS
  CountersMatch
  CapsHold
