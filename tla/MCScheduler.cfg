\* Three days; a consolidation may last until the hour of funding, the clock may be set back.
SPECIFICATION Spec
CONSTANTS
  Day = 10
  FundingAt = 3
  RetryDelay = 1
  MaxRetries = 5
  MaxConsolidation = 3
  MaxSetBack = 2
  LastDay = 2
INVARIANTS
  AttemptsAgree
  ReportIsTrue
  EveryDayFunded
  EveryDayConsolidated
CHECK_DEADLOCK FALSE
