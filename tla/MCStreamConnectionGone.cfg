SPECIFICATION Spec
CONSTANTS
  c1 = c1
  c2 = c2
  c3 = c3
  Conn = {c1, c3}
  Thread = {t1, t2}
  User = {u1, u2}
  None = None
  MaxRequests = 3
  MaxMatches = 1
  Rejections = {}
  StoreBuffer = FALSE
  Memory <- AboveZero
CHECK_DEADLOCK FALSE
PROPERTY GoneIsDeleted
