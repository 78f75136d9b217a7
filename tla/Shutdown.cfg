SPECIFICATION ShutdownSpec
CONSTANTS
  r1 = r1
  r2 = r2
  k1 = k1
  None = None
  Nil = Nil
  Keep = Keep
  Requests <- TwoRequests
  Keys <- OneKey
  Upstream <- OpenAIKey
  Limits <- Small
  Fields <- Settings
  Values <- Small
  Configs <- Fixed
  Costs <- Unit
  MeterFails = FALSE
  MaxTime = 0
  MaxSpend = 1
  MaxOps = 1
  MaxDay = 0
  DaysPerMonth = 1
  Backends = {"sqlite"}
CHECK_DEADLOCK FALSE
INVARIANTS
  DrainLosesNothing
PROPERTIES
  SlotsReturnOrExit
  SignalEndsProcess
