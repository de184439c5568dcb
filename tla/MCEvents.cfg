SPECIFICATION FairSpec
CONSTANTS
  Mod = 4
  EvMax = 3
  Ev2Max = 3
  Ev2Misc = 1
  Funcs = {f}
  MaxDelay = 2
  Line = 2
  MaxCycles = 2
  Pissoff = 1
INVARIANT Armed
PROPERTIES Fires LinesCome
