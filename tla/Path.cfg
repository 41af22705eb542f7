SPECIFICATION Spec
CONSTANTS
  t1 = t1
  t2 = t2
  Train = {t1, t2}
  NoTrain = NoTrain
  PacTrain = t1
  Zone <- MCZone
  Node <- MCNode
  Sensor <- MCSensor
  Num <- MCNum
  Reverse <- MCReverse
  Leads <- MCLeads
  ZoneOf <- MCZoneOf
  Dests = {2, 8}
  Home <- MCHome
  StopDist = 2
INVARIANTS PathInv Interlock
