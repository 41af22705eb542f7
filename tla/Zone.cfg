SPECIFICATION ZoneFairSpec
CONSTANTS
  Client = {c1, c2, c3}
  Train = {t1, t2, t3}
  NoTrain = NoTrain
  Zone = {z1, z2}
  PacTrain = t1
INVARIANTS ZoneInv
PROPERTIES NeverStolen InTurn WaitEnds
