SPECIFICATION Spec
CONSTANTS
  s1 = s1  s2 = s2  r1 = r1  r2 = r2
  Sids <- MCSids
  Reqs <- MCReqs
  NoSid = NoSid
  NoReq = NoReq
  Workload = {"create", "end", "append"}
  MaxFaults = 1
  MaxWave = 0
  LevelScore = 0
  ScoreDelta = 1
  LevelWaves = 1
  WaveCaps = {0, 1}
  MaxLog = 2
  MaxTotal = 0
SYMMETRY Symmetry
INVARIANTS Inv EffectsOnce BoardOnlyRanked
CHECK_DEADLOCK FALSE
