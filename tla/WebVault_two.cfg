\* Two clicks of any kind; reloads, disconnects and restarts at any time.
SPECIFICATION FairSpec
CONSTANTS
  strict = strict
  loose = loose
  zeroAddress = zeroAddress
  small = small
  large = large
  Rules = {strict, zeroAddress}
  ValidRules = {strict}
  Intents = {small}
  Permits <- MCPermits
  None = None
  MaxTasks = 2
  MaxProbes = 1
INVARIANTS
  TypeOK
  LocksExclude
  KeyLoadedFirst
  ShowsWhatHappened
PROPERTIES
  TasksEnd
