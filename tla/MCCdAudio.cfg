SPECIFICATION Spec
CONSTANTS
  SOUND_BUFFERS_COUNT = 6
  cnt_max_diff = 2
  CDAUDIO_BUFFERS = 3
  Parts = 2
  Stall = 1
  MaxTorn = 1
  Old = 1
  Margin = 3
  PerPlay = 1
INVARIANTS CopiesFinished CdKept PlayHeard
PROPERTIES CommandsReturn
