\* Liveness on a healthy disk; a negative record may appear, balances may be on hold.
CONSTANTS
  Missing = Missing
  Invalid = Invalid
  a = a
  b = b
  z = z
  neg = neg
  Records = {a, z, neg}
  Negative = {neg}
  PayoutTotal <- MCPayoutTotal
  ActivationFee = 1
  PreflightAttempts = 2
  ObservationAttempts = 2
  QueryAttempts = 2
  Confirmations = 2
  Opening = 5
  Deposits = {}
  Holds = {0, 4}
  MaxTotal = 5
  MaxNonce = 2
  MaxDamage = 0
  PowerFails = FALSE
  StaleBaseline = FALSE
  RegressingReads = FALSE
SPECIFICATION FairSpec
PROPERTIES
  EverySubmitResolves
  ConfirmedSettles
