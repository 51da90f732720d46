\* Three packets are enough for an exchange and a stranger between; the log
\* holds four entries, so that folds and evictions meet.
CONSTANTS
  Packet <- MCPacket
  Sent <- MCSent
  Received <- MCReceived
  FUJITRACE_MAX = 4
  FUJITRACE_FRAME_MAX = 3
  SlipOut = 3
  MaxFrames = 8
SPECIFICATION TapSpec
INVARIANTS
  CountsAreTrue
  WindowSeesEveryChange
