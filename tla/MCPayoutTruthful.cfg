\* Truthful balance index, deposits, one damaged snapshot per run.
CONSTANTS
  Missing = Missing
  Invalid = Invalid
  a = a
  b = b
  z = z
  neg = neg
  Records = {a, b}
  Negative = {}
  PayoutTotal <- MCPayoutTotal
  ActivationFee = 1
  PreflightAttempts = 2
  ObservationAttempts = 2
  QueryAttempts = 2
  Confirmations = 2
  Opening = 5
  Deposits = {2}
  Holds = {0}
  MaxTotal = 5
  MaxNonce = 2
  MaxDamage = 1
  PowerFails = FALSE
  StaleBaseline = FALSE
  RegressingReads = FALSE
SPECIFICATION Spec
INVARIANT
  ConfirmedIsPaid
PROPERTY
  ImplementsLedger
