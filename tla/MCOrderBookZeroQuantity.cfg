SPECIFICATION Spec
CONSTANTS
  User = {a}
  MaxPrice = 1
  Quantity = {0, 1}
  NewQuantity = {}
  Word = 16
  FillWord = 16
  CountWord = 16
  MaxOrders = 4
  MaxPlacements = 4
CHECK_DEADLOCK FALSE
PROPERTY LastOrderTakesLevel
