SPECIFICATION Spec
CONSTANTS
  Modes = {"fast", "jit", "compatible", "delay"}
  Bits = {"ports", "vertb"}
  Level <- MCLevel
  Masks = {0, 2, 3}
  MaxDoints = 1
INVARIANTS Heeded NotStale
PROPERTIES Served HostServed
