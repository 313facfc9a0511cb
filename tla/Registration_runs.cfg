\* Two machines; usual and unusual runs, faults and changes of epoch.
SPECIFICATION FairSpec
CONSTANTS
  Machines = {m1, m2}
  Commands <- SomeSteps
  Environments <- ThreeEnvs
  NodeEnv <- DefaultEnv
  DefaultOwner = "owner"
  NoFile = NoFile
  Torn = Torn
  None = None
  MaxEpoch = 1
  MaxFaults = 2
INVARIANTS
  TypeOK
  FreshRunsAttestAfresh
  FileTellsTruth
  SuccessMeansProduction
PROPERTIES
  RetriesReachProduction
CHECK_DEADLOCK FALSE
