SPECIFICATION FairSpec
CONSTANTS
  Tasks = {t1, t2}
  Contexts = {c1, c2, c3}
  NoContext = null
  MaxCalls = 2
  Depth = 2
INVARIANTS OneOwner OwnFrame OwnResult NoUseAfterFree
PROPERTIES EmuResumes
