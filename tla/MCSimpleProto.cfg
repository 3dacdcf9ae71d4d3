CONSTANTS
  HeaderLen = 2
  BufferSize = 6
  Lengths = {0, 1, 3, 4, 5, 7, 13}
  SizeMod = 32
SPECIFICATION Spec
INVARIANTS TypeOK StandsAtHeader NothingHeldBack
