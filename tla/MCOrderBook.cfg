SPECIFICATION Spec
CONSTANTS
  User = {a, b}
  MaxPrice = 1
  Quantity = {1, 2}
  NewQuantity = {0, 1, 2}
  Word = 16
  FillWord = 16
  CountWord = 16
  MaxOrders = 3
  MaxPlacements = 4
SYMMETRY UserSymmetry
CHECK_DEADLOCK FALSE
INVARIANTS
  TypeOK
  LevelsLinkedByArrival
  NoEmptyLevel
  NoOrphan
  NotCrossed
  MatcherAtBest
  RestCannotMatch
  FillsAccountForOrder
PROPERTIES
  PriceTimePriority
  LastOrderTakesLevel
  ImplementsFIFOBook
