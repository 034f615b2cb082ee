SPECIFICATION PlSpec
CONSTANTS
  PgFoes = {f1, f2}
  PgMoves = 3
  PgBoots = 2
  PgStarts = 2
  LmGrid = 4
  LmEnds <- MCEnds
  LmSlopes <- MCSlopes
  LmSquares <- MCSquares
  LmDecoyCap = 2
  LmClicks <- MCClicks
  LmArrows = 2
  LmTowers = 2
  LmLoads = 2
  LmRuns = 1
  HuWaves = 2
  HuFoes = 2
  HuGold = 1
  HuHp = 2
  HuBoots = 2
  RdCircle = 24
  RdArcs <- MCArcs
  RdSpeeds = {1, 2}
  RdWidths = {3, 4}
  RdCalls = 2
  MuTracks = {"a", "b"}
  MuCap = 2
  MuVisits = 2
  Script <- MCScript
  RlBuffer = 2
  RlGiveUp = 2
  RlLogCap = 3
  RlQueue = 1
  RlReconnects = 1
  RlFaults = 1
INVARIANTS
  PageInStep
  LevelAgrees
  CopyHolds
  NoFoeForgotten
  MusicOfPage
  LogFaithful
CHECK_DEADLOCK FALSE
