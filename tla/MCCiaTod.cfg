SPECIFICATION Spec
CONSTANTS
  Byte = 2
  TodMed = 4
  CYCLE_UNIT = 3
  MaxHpos = 3
  Hoffset = 2
INVARIANT TypeOK
PROPERTIES EachLineCounts ReadsCurrent AlarmRaised
