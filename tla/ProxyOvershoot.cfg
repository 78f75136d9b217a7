SPECIFICATION ProxySpec
CONSTANTS
  r1 = r1
  r2 = r2
  r3 = r3
  k1 = k1
  None = None
  Nil = Nil
  Keep = Keep
  Requests <- ThreeRequests
  Keys <- OneKey
  Upstream <- OpenAIKey
  Limits <- Small
  Fields <- Settings
  Values <- Small
  Configs <- Fixed
  Costs <- Unit
  MeterFails = FALSE
  MaxTime = 0
  MaxSpend = 5
  MaxOps = 1
  MaxDay = 0
  DaysPerMonth = 1
  Backends = {"sqlite"}
CHECK_DEADLOCK FALSE
SYMMETRY Symmetric
INVARIANTS
  OvershootWithinKC
