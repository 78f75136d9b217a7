SPECIFICATION StoreSpec
CONSTANTS
  k1 = k1
  k2 = k2
  a1 = a1
  a2 = a2
  Nil = Nil
  Keep = Keep
  Keys <- OneKey
  Admins <- TwoAdmins
  Fields <- TwoFields
  Values = {0, 1}
  MaxTime = 3
  Patches <- OneChangePatches
  Expiries = {3}
  Backends = {"sqlite"}
PROPERTIES
  PatchPreservesAbsentFields
