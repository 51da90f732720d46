CONSTANTS
  Addr = {a1}
  Boot = a1
SPECIFICATION Spec
PROPERTY
  StopEnds
