\* Two tests at once, while machines and stacks come and go.
SPECIFICATION FairSpec
CHECK_DEADLOCK FALSE
CONSTANTS
  Tests = {t1, t2}
  Identities = {m1, m2}
  None = None
  Deployments <- MCDeployments
  MaxTests = 2
  MaxFaults = 1
INVARIANTS
  TypeOK
  TestsPass
PROPERTIES
  TestsEnd
