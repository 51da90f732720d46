\* Two of KDE's feeds that take turns, two pictures, three versions; a pool of
\* one spare buffer.
CONSTANTS
  Picture = {black, white}
  Black = black
  Feed = {f1, f2}
  None = None
  MaxSerial = 3
  Frontend = {"gnome", "kde", "macos", "windows"}
  Pull = Pull
  Buffer = {b1, b2, b3}
  POOL_KEEP = 1
  MayStall = FALSE
SPECIFICATION DisplaysSpec
\* The program ends.
CHECK_DEADLOCK FALSE
INVARIANTS
  NobodyCallsTheGone
  ScreenSettles
PROPERTY BoardSpec
