\* The method with a mask alone.
CONSTANTS
  ExpoBits = 4
  MantBits = 3
  BoundBits = 1
  Bound = 300
  MaskBits = 1
  ByteBits = 4
  Values = {0, 320, 576, 1408, 2304, 7168}
  Length = 4
  Methods = {"mask"}
  DataSets <- MCDataSets
SPECIFICATION Spec
INVARIANT StartBitOfMantissa
