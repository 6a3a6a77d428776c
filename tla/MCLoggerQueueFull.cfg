SPECIFICATION Spec
CONSTANTS
  Producer = {p1, p2, p3}
  None = None
  Size = 2
  Word = 16
  MaxEntries = 5
  MaxOutstanding = 3
CHECK_DEADLOCK FALSE
INVARIANT FirstInFirstOut
