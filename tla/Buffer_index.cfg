SPECIFICATION BufferSpec
CONSTANTS
  kCheapPrepend = 1
  InitialSize = 2
  ExtraBytes = 3
  Bytes <- TwoBytes
  MaxLen = 4
  ContentLimit = 7
INVARIANT IndexOrder
