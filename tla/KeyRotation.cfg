SPECIFICATION RotationSpec
CONSTANTS
  k1 = k1
  k2 = k2
  k3 = k3
  Keys <- ThreeKeys
  Old = Old
  New = New
  Third = Third
  Nil = Nil
INVARIANTS
  SecretsSurvive
  NoKeyStranded
PROPERTIES
  ImplementsRotation
