\* Both matrices by each kind of broadcast, with eager and synchronous sends.
CONSTANTS
  Procs = 3
  Methods = {"plain", "abft", "bitwise", "bitwise_mask", "crc", "mask", "hamming"}
  NCalls = 2
  DataBytes <- MCDataBytes
  MaxBlock = 2
  Inputs <- MCInputs
  Missing = Missing
  Unset = Unset
  Decompressed <- MCDecompressed
SPECIFICATION FairSpec
INVARIANT TypeOK
INVARIANT ResultIsProduct
INVARIANT ResentIsCounted
PROPERTY EndsUnlessRejected
