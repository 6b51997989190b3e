\* Two runs: crashes, repeated and manual runs, requests that outlive their run; no call need succeed.
CONSTANTS
  b1 = b1
  b2 = b2
  Builders = {b1}
  Fine = 2
  Threshold = 1
  ClaimableTries = 2
  BaselineTries = 2
  ObserveTries = 2
  SweepReads = 2
  SweepTries = 2
  Confirmations = 2
  OpeningTotals = {0}
  OpeningRewards = {3}
  Holds = {0}
  Credits = {}
  MaxTotal = 2
  MaxRuns = 2
  RegressingReads = FALSE
SPECIFICATION FairSpec
CHECK_DEADLOCK FALSE
INVARIANTS
  ClaimedOnce
PROPERTIES
  RecordIsFrozen
  EveryRunEnds
