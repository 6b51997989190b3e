\* A call that fails for a while ends in an error that is not retried.
SPECIFICATION Spec
CONSTANTS
  Operations = {"list_pending", "complete"}
  Threshold = 18
  Delays = {0, 1, 3}
  MaxDown = 30
INVARIANTS
  OutageIsTold
