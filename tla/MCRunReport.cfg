\* Every record two builders leave with every result of the task; flapping holds, failed queries.
SPECIFICATION FairSpec
CHECK_DEADLOCK FALSE
CONSTANTS
  b1 = b1
  b2 = b2
  Builders = {b1, b2}
  FinalEntries <- MCFinalEntries
  CapturedEntries <- MCCapturedEntries
  Amounts = {0, 3}
  Balances = {4}
  Credits = {3}
  Holds = {0, 1}
  Fee = 1
  MaxAttempts = 1
  ObservationAttempts = 2
  QueryAttempts = 4
  Confirmations = 2
  MaxBalances = 3
INVARIANTS
  GreenIsClean
  InterruptedIsTold
  EndingBalanceIsSettled
  GivesUpLast
PROPERTY
  EveryTaskReports
