SPECIFICATION SlabSpec
CONSTANTS
  Task = {t1, t2}
  Size = 10
  Block = 2
  Masked = TRUE
PROPERTIES PoolContract
