SPECIFICATION Spec
CONSTANTS
  Writer = {w1, w2}
  PUTS_BLOCK_SIZE = 2
  MaxPuts = 3
  MAX_QUEUE_LENGTH = 2
  MaxSent = 3
  MaxArrived = 3
INVARIANTS IOInv SendToken InputFifo
PROPERTIES EverythingSent ReaderAnswered
CHECK_DEADLOCK FALSE
