SPECIFICATION BufferSpec
CONSTANTS
  kCheapPrepend = 1
  InitialSize = 5
  ExtraBytes = 2
  Bytes <- TwoBytes
  MaxLen = 4
  ContentLimit = 5
INVARIANTS IndexOrder FifoContents
