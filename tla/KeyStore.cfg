SPECIFICATION StoreSpec
CONSTANTS
  k1 = k1
  k2 = k2
  a1 = a1
  a2 = a2
  Nil = Nil
  Keep = Keep
  Keys <- OneKey
  Admins <- OneAdmin
  Fields <- TwoFields
  Values = {0, 1}
  MaxTime = 6
  Patches <- OneChangePatches
  Expiries = {3, 4}
  Backends = {"memory", "sqlite"}
INVARIANTS
  StoreTypeOK
  StampsAreHistory
PROPERTIES
  RevokedRowIsFinal
  ImplementsTable
  PatchPreservesAbsentFields
  ExpiredGetsRevoked
