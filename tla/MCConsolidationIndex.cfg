\* One run, balance reads of any age, credits from others.
CONSTANTS
  b1 = b1
  b2 = b2
  Builders = {b1}
  Fine = 2
  Threshold = 1
  ClaimableTries = 2
  BaselineTries = 2
  ObserveTries = 3
  SweepReads = 2
  SweepTries = 2
  Confirmations = 2
  OpeningTotals = {1}
  OpeningRewards = {1, 3}
  Holds = {0, 1}
  Credits = {1}
  MaxTotal = 3
  MaxRuns = 1
  RegressingReads = TRUE
SPECIFICATION Spec
CHECK_DEADLOCK FALSE
INVARIANTS
  TypeOK
  SweepIsTold
  ClaimIsPaid
  RewardIsSwept
  CompletedIsValid
