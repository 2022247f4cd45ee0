\* The real schedule, counted in whole EDX (phases one and two pay whole EDX).
SPECIFICATION FastSpec
CONSTANTS
  EDX_UNIT = 1
  TOTAL_SUPPLY = 2100000000
  PHASE_1_MAX_HEIGHT = 518400
  PHASE_2_MAX_HEIGHT = 21024000
  PHASE_1_REWARD = 400
  PHASE_2_DIVISOR = 2097152
  PHASE_3_REWARD = 1
  MaxHeight = 30000000
INVARIANTS RunEarnsOneSubsidy StopsOnlyAtCap
CHECK_DEADLOCK FALSE
