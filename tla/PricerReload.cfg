SPECIFICATION ReloadSpec
CONSTANTS
  MaxSaves = 3
  Nil = Nil
CHECK_DEADLOCK FALSE
INVARIANTS
  KeepsLastGood
PROPERTIES
  SighupTakesEffect
  PollerConverges
