SPECIFICATION Spec
CONSTANTS
  Thread = {t1, t2, t3}
  None = None
  MaxMessages = 4
CHECK_DEADLOCK FALSE
INVARIANTS
  TypeOK
  NoOverlap
  InProgressIsExact
  QueuedWillBeWritten
  PopsWhatWasWritten
PROPERTY ImplementsChannel
