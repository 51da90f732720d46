\* Three transactions: one that gives up, one that meets its late reply, one
\* more; two pushed frames; FujiNet may go away once.
CONSTANTS
  MaxTxn = 3
  MaxPushed = 2
  MaxDown = 1
SPECIFICATION LinkSpec
\* After the last transaction there is nothing left to do.
CHECK_DEADLOCK FALSE
INVARIANTS
  TraceIsTheWire
PROPERTIES
  ReplyIsOwn
  TransactionEnds
