SPECIFICATION Spec
CONSTANTS
  Waves <- MCWaves
  Thresholds <- MCThresholds
  FullHp = 3
  Speeds = {1, 4}
  FirstWaves = {1, 2}
  MaxMinions = 1
  MaxHits = 1
  MaxIdle = 1
INVARIANTS RunSettled ClockExact
PROPERTY RunEnds
CHECK_DEADLOCK FALSE
