SPECIFICATION Spec
CONSTANTS
  Train = {50, 51}
  Slots = 2
  Route <- MCRoute
  MaxHelpers = 3
  Sensor = {0, 1, 2, 3}
  Reverse_ <- MCReverse
  FoodList = {0, 1, 2}
  GhostScore <- MCGhostScore
  MaxScore = 10
INVARIANTS RoutingInv ServerNeverBlocks OnePath FoodCounted
PROPERTIES CallsAnswered GameEnds
CHECK_DEADLOCK FALSE
