SPECIFICATION Spec
CONSTANTS
  c1 = c1
  c2 = c2
  c3 = c3
  Conn = {c1, c2, c3}
  Thread = {t1, t2}
  User = {u1, u2}
  None = None
  MaxRequests = 2
  MaxMatches = 1
  Rejections = {2}
  StoreBuffer = TRUE
  Memory <- BelowZero
SYMMETRY Symmetric
CHECK_DEADLOCK FALSE
INVARIANTS
  TypeOK
  OperationsCounted
  NoOperationOutlivesConnection
  RegisteredIsAlive
  OneReader
