SPECIFICATION Spec
CONSTANTS
  User = {a, b}
  MaxPrice = 1
  Quantity = {1}
  NewQuantity = {2}
  Word = 16
  FillWord = 16
  CountWord = 16
  MaxOrders = 2
  MaxPlacements = 3
  Client = {me}
  None = None
  Me = me
  MyUser = a
  Executions <- FewExecutions
  Stale <- ZerosOrOrder
  MaxBacklog = 0
  MaxPlacementsFull = 2
CHECK_DEADLOCK FALSE
INVARIANTS
  TypeOK
  NothingNegative
  LevelsMatchOrders
  DifferOnlyByTrades
