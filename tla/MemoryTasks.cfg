SPECIFICATION Spec
CONSTANTS
  MaxTid = 8
  Pages = 8
  Frames = 5
  Descs = 4
  Shift = 3
INVARIANTS MemoryInv
PROPERTIES FrameLostOnlyFull
