SPECIFICATION Spec
CONSTANTS
  Types = {"MAGIC", "MATRIX", "CALCULUS"}
  Cells <- MCCells
  Curves <- MCCurves
  Items = {"atk_20", "shield"}
  Spells = {"fireball", "haste"}
  Rewards = {"range_up", "free_towers"}
  StartGold = 290
  WaveBonus = 90
  KillGold = 15
  FullHp = 4
  LeakDamage = 2
  PaidEntry = TRUE
  TickSecs = 30
  MaxTowers = 3
  MaxOps = 3
  MaxWaves = 2
  MaxKills = 1
INVARIANTS BonusesMatchBuffs StatsFresh PairsMatched LedgerBalanced
CHECK_DEADLOCK FALSE
