\* Reports, while the chain, the file and the services change.
SPECIFICATION FairSpec
CONSTANTS
  Environments <- MCEnvironments
  DotEnvs <- MCNoDotEnv
  Configs <- MCConfigs
  Managers <- MCManagers
  Senders = {"s1", "s2"}
  Steps <- MCAllSteps
  Filters <- MCFilters
  Services = {"ext-proxy"}
  MayHush = TRUE
  MaxExtensions = 2
  MaxMoves = 3
INVARIANTS
  TypeOK
  CleanReportIsTrue
  UniqueSenderBinds
  ReadersAgree
  FixIsSeen
PROPERTIES
  ReportEnds
