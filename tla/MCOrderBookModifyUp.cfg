SPECIFICATION Spec
CONSTANTS
  User = {a}
  MaxPrice = 1
  Quantity = {1, 2}
  NewQuantity = {1, 2}
  Word = 16
  FillWord = 16
  CountWord = 16
  MaxOrders = 2
  MaxPlacements = 4
CHECK_DEADLOCK FALSE
INVARIANT ModifiedAsAnnounced
