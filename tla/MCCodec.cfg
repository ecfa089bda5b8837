\* Every sequence of five of the values with a 0 in it, by all methods.
CONSTANTS
  ExpoBits = 4
  MantBits = 3
  BoundBits = 1
  Bound = 300
  MaskBits = 1
  ByteBits = 4
  Values = {0, 320, 576, 1408, 2304, 7168}
  Length = 5
  Methods = {"bitwise", "np", "mask", "op"}
  DataSets <- MCDataSets
SPECIFICATION Spec
INVARIANT TypeOK
INVARIANT DecodesWhatWasStored
INVARIANT AllValuesComeBack
INVARIANT ErrorsAreAccountedFor
