SPECIFICATION FairSpec
CONSTANTS
  Size = 4
  Chunks = 2
  MsgLen = 4
  MaxItems = 12
INVARIANTS NoOverwrite NoLostWakeup
PROPERTIES IsQueue Delivery
CHECK_DEADLOCK FALSE
