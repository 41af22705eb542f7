SPECIFICATION Spec
CONSTANTS
  t1 = t1
  b153 = b153
  b154 = b154
  Train = {t1}
  Switch = {b153, b154}
  Coupled = {b153, b154}
  Partner <- MCPartner
  MaxSpeed = 1
  Sensor = {0, 1, 2, 3}
  Reverse <- MCReverse
  Ahead <- MCAhead
  AheadBy <- MCAheadBy
  Start <- MCStart
  MaxTasks = 2
INVARIANTS TrainsInv SpeedKept TurnsPredicted SwitchesPredicted
PROPERTIES ReversalsEnd
