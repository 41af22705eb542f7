SPECIFICATION FairSpec
CONSTANTS
  MaxTid = 4
  MaxLive = 4
  NumLevels = 2
  BootLevel = 0
  Event <- Events
  Calls <- ServerCalls
INVARIANTS RunQueues HighestRuns SendersQueued NoLostMessage BlocksHeld
PROPERTIES ExitLeavesNothing SrrContract RoundRobin
CHECK_DEADLOCK FALSE
