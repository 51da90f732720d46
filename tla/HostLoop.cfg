\* A frame of 7 units, ticks stale after 15; frames of just under half their
\* time, and two breaks: one after which the ladder is as late as it may be, and
\* one it is not caught up after; a display at the machine's rate and at twice it.
CONSTANTS
  Frame = 7
  Stale = 15
  Works = {1, 3, 35, 43}
  Gaps = {3, 7}
SPECIFICATION LoopSpec
INVARIANTS
  NeverFastForwards
  NeverStalls
