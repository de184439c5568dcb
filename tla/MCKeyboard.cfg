SPECIFICATION Spec
CONSTANTS
  KEYBUF_SIZE = 3
  Frames = 2
  MaxKeys = 4
  MaxResets = 1
INVARIANTS Exact
PROPERTIES Delivered
