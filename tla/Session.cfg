\* Two machines, one after the other; one cartridge, and two questions at once
\* where the dialogs do not keep a third out.
CONSTANTS
  MaxStarts = 2
  None = None
  Carts = {c1}
  MaxAsks = 2
SPECIFICATION MCSpec
\* The session may stay stopped, with no machine left to start.
CHECK_DEADLOCK FALSE
INVARIANTS
  CoreOutlivesItsUsers
  NothingLeftBehind
  FujiNetBracketsMachine
  OptionsInForce
  BiosIsTakenUp
PROPERTY
  StopReturns
