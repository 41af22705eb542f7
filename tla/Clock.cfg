SPECIFICATION FairSpec
CONSTANTS
  Client = {c1, c2}
  MaxArg = 2
  MaxTicks = 5
INVARIANTS ClockInv
PROPERTIES NotEarly CallsReturn
CHECK_DEADLOCK FALSE
