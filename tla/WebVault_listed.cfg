\* A lock that times out leaves no trace of its transaction.
SPECIFICATION Spec
CONSTANTS
  strict = strict
  loose = loose
  zeroAddress = zeroAddress
  small = small
  large = large
  Rules = {strict}
  ValidRules = {strict}
  Intents = {small}
  Permits <- MCPermits
  None = None
  MaxTasks = 1
  MaxProbes = 1
INVARIANT TransactionsListed
