SPECIFICATION Spec
CONSTANTS
  NUnits = 1
  MaxStarted = 2
  MaxPackets = 3
  MaxNative = 1
  MaxResets = 1
INVARIANTS DummyOnce OneHolder PipeLimit NativeHeard OwedIsHeard TimeoutIsHeard
CHECK_DEADLOCK FALSE
