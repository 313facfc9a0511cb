\* pre-build.sh with and without --force, register-extension by hand, faults.
SPECIFICATION FairSpec
CHECK_DEADLOCK FALSE
CONSTANTS
  NoConfig = NoConfig
  Torn = Torn
  MaxForced = 1
  MaxByHand = 1
  MaxFaults = 3
INVARIANTS
  TypeOK
  ConfigIsSetUp
  BoundAsConfigured
  NeverOrphaned
  QuickFixWorks
PROPERTIES
  EventuallyReached
