\* Three overlapping clicks within one session.
SPECIFICATION Spec
CONSTANTS
  strict = strict
  loose = loose
  zeroAddress = zeroAddress
  small = small
  large = large
  Rules = {strict}
  ValidRules = {strict}
  Intents = {small, large}
  Permits <- MCPermits
  None = None
  MaxTasks = 3
  MaxProbes = 2
CONSTRAINT OneSession
INVARIANTS
  LockNeverStuck
  AppNeedsVault
  ShowsWhatHappened
