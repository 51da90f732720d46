\* The cartridge: three pushes: one served, one staged over, one more.  The
\* window: each frontend's, and two stops on their way to it.
CONSTANTS
  Status = {cleared, busy}
  Cleared = cleared
  Own = own
  None = None
  MaxPush = 3
  Frontend = {"gnome", "kde", "macos", "windows"}
  Pages = {"cpu", "vdp", "fujinet"}
  MaxPosted = 2
SPECIFICATION MCSpec
\* Once the mailbox is dead the cartridge is only read.
CHECK_DEADLOCK FALSE
INVARIANTS
  OneWholeImage
  PageIsCurrent
  BreakIsShown
