\* A receipt may name no transaction, or that of another payout.
SPECIFICATION Spec
CONSTANTS
  strict = strict
  loose = loose
  zeroAddress = zeroAddress
  small = small
  large = large
  Rules = {strict}
  ValidRules = {strict}
  Intents = {small}
  Permits <- MCPermits
  None = None
  MaxTasks = 3
  MaxProbes = 1
CONSTRAINT OneSession
INVARIANT ReceiptNamesItsTransaction
