SPECIFICATION Spec
CONSTANTS
  s1 = s1  s2 = s2  r1 = r1  r2 = r2
  Sids <- MCSids
  Reqs <- MCReqs
  NoSid = NoSid
  NoReq = NoReq
  Workload = {"create", "abandon", "active", "update", "end", "reflect"}
  MaxFaults = 0
  MaxWave = 0
  LevelScore = 1
  ScoreDelta = 1
  LevelWaves = 1
  WaveCaps = {0}
  MaxLog = 1
  MaxTotal = 0
SYMMETRY Symmetry
INVARIANTS OneActive ReflectedCompleted
PROPERTIES SlotRefined LiveProgress
CHECK_DEADLOCK FALSE
