SPECIFICATION SensorSpec
CONSTANTS
  Task = {t1, t2}
  BYTE_COUNT = 2
  Bits = 1
  MAX_QUEUE_LENGTH = 2
  MAX_TRIGGERED = 3
  MaxFeed = 4
INVARIANTS SensorInv
PROPERTIES FeedContract NotifierAnswered
