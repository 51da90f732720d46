\* Three threads: one detached, one on top of it, one more start.
CONSTANTS
  Thread = {t1, t2, t3}
  NoThread = NoThread
  Library = {"good", "absent", "broken"}
SPECIFICATION EntrySpec
\* Once every thread is spent nobody can start another one.
CHECK_DEADLOCK FALSE
PROPERTIES
  NeverAssignedOver
  StopLeavesNothing
  StopReturns
