SPECIFICATION BlitterSpec
CONSTANTS
  Words = 3
INVARIANTS IdleMeansDone OneInterrupt
PROPERTIES CopperGoesOn
