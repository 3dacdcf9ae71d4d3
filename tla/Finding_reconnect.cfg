CONSTANTS
  HeaderLen = 2
  BufferSize = 6
  Lengths = {1, 3}
  SizeMod = 32
SPECIFICATION WorkerSpec
INVARIANT BufferStartsWithHeader
