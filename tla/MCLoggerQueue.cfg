SPECIFICATION Spec
CONSTANTS
  Producer = {p1, p2, p3}
  None = None
  Size = 4
  Word = 16
  MaxEntries = 9
  MaxOutstanding = 4
CHECK_DEADLOCK FALSE
INVARIANTS
  TypeOK
  SlotHasOneOwner
PROPERTY ImplementsChannel
