SPECIFICATION HuSpec
CONSTANTS
  HuWaves = 2
  HuFoes = 2
  HuGold = 1
  HuHp = 2
  HuBoots = 2
INVARIANT CheckpointRunIsPractice
CHECK_DEADLOCK FALSE
