SPECIFICATION Spec
CONSTANTS
  Day = 10
  FundingAt = 3
  RetryDelay = 1
  MaxRetries = 5
  MaxConsolidation = 4
  MaxSetBack = 0
  LastDay = 2
INVARIANTS
  EveryDayFunded
CHECK_DEADLOCK FALSE
