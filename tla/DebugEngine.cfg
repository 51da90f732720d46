\* Two addresses: the one a breakpoint or a run-to names, and elsewhere.
CONSTANTS
  Addr = {a1, a2}
  Boot = a1
SPECIFICATION Spec
INVARIANTS
  PausedMeansStopped
  EngagedExactly
  CoreFollowsShadow
  NoLostWakeup
PROPERTIES
  StepIsTaken
  StopEndsUnlessParked
