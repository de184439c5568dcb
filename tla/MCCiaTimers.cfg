SPECIFICATION TimersSpec
CONSTANTS
  Cias = {"a", "b"}
  SpOut = {"a"}
  Byte = 2
  ShiftClocks = 2
  DIV10 = 2
  MaxElapsed = 14
  MaxWrites = 2
  Enabled = {"sp"}
  Inmodes = {"clock", "a"}
  CntMod = 8
INVARIANT Held
PROPERTY EveryClockCounted
