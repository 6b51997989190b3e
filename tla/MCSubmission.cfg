\* The service and the consolidate-only command on one data directory.
SPECIFICATION SubmissionSpec
CONSTANTS
  b = b
  s = s
  r = r
  Processes = {"service", "command"}
  Commands = {"command"}
  NoProcess = "nobody"
  Builders = {b}
  Settlement = s
  Accounts = {b, s, r}
  Amounts = {2}
  Failures = {"rejected", "http_error_applied"}
  MaxClock = 2
  MaxSent = 3
  OpeningBalance <- MCOpeningBalance
  Hold <- MCHold
  OpeningReward <- MCOpeningReward
  Destination <- MCDestination
INVARIANTS
  NoncesGrow
  MoneyIsKept
PROPERTIES
  ImplementsContract
