SPECIFICATION Spec
CONSTANTS
  K = 16
  MaxBlock = 2
  DataWords <- SomeWords
  MaxFlips = 4
INVARIANTS
  TypeOK
  CorrectsOne
  DetectsTwo
  DecodesAsSecded
PROPERTIES
  DecodeSettles
CHECK_DEADLOCK FALSE
