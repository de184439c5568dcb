SPECIFICATION HardfileSpec
CONSTANTS
  Requests = {r1, r2}
  Bufs = {b1, b2}
  Threads = {t1, t2}
  None = None
  Slots = 2
  MaxOpens = 2
SYMMETRY Alike
INVARIANT OneWorks
PROPERTY ResultKept
CHECK_DEADLOCK FALSE
