\* A burst as wide as the window, counts from well below to well above it.
SPECIFICATION Spec
CONSTANTS
  builder = builder
  settlement = settlement
  Accounts = {builder, settlement}
  Journaled = {settlement}
  Threshold = 3
  Window = 2
  Attempts = 3
  Burst = 2
  Quotas = {3, 6}
  Gains = {2}
  MaxQuota = 6
  MaxTasks = 3
INVARIANTS
  TypeOK
  HealthyIsHealthy
  RiskIsMailedOnce
