SPECIFICATION MeterSpec
CONSTANTS
  k1 = k1
  k2 = k2
  w1 = w1
  w2 = w2
  w3 = w3
  None = None
  Keys <- OneKey
  Callers <- TwoCallers
  Costs = {1, 2}
  Caps = {0, 2}
  MaxDay = 2
  DaysPerMonth = 2
  MaxRecords = 3
INVARIANTS
  MeterTypeOK
  MonthIsSumOfDays
  SpendIsExact
  LateCheckNeverPasses
PROPERTIES
  ImplementsLedger
  CallsReturn
