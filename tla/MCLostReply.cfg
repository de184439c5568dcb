SPECIFICATION FairSpec
CONSTANTS
  NUnits = 1
  MaxStarted = 2
  MaxPackets = 2
  MaxNative = 0
  MaxResets = 0

PROPERTY MarkedIsReplied
CHECK_DEADLOCK FALSE
