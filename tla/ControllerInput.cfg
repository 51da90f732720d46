\* w (with Shift, W) on port 1, KP_1 on port 0, one pad and one rebinding.
CONSTANTS
  Target = {0, 3}
  PortOf <- MCPortOf
  ActOf <- MCActOf
  Digit = {1}
  Keysym = {1, 2, 3, 4, 5}
  Fold <- MCFold
  Default <- MCDefault
  PKey = {1, 3}
  Sym <- MCSym
  Device = {1}
  MaxBinds = 1
SPECIFICATION Spec
INVARIANTS
  WordIsCurrent
  MainHoldsWhatIsDown
  GonePadIsReleased
