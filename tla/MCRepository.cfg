\* A manifest with a batch boundary inside it; rows others have changed or removed;
\* waits around the code's three minutes, mails that are refused.
SPECIFICATION RepositorySpec
CONSTANTS
  r1 = r1
  r2 = r2
  r3 = r3
  Ids = {r1, r2, r3}
  BatchSize = 2
  OpeningStatuses = {"pending", "done", "other", "gone"}
  Operations = {"list_pending", "complete"}
  Threshold = 18
  Delays = {0, 9}
  MaxDown = 18
INVARIANTS
  OkIsDone
  MailsInTurn
  FollowedOutageIsTold
  RecoveryIsTold
PROPERTIES
  AllOrNothing
  CompleteReturns
