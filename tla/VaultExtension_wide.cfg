\* Every kind of request, short queues.
SPECIFICATION Spec
CONSTANTS
  alice = alice
  bob = bob
  zero = zero
  Keys = {k1}
  BadKey = BadKey
  Addresses <- MCAddresses
  ZeroAddress = zero
  PolicyMessages <- WidePolicies
  IntentMessages <- WideIntents
  Undecodable = Undecodable
  Empty = Empty
  None = None
  AllowLimit = 2
  MaxTime = 2
  MaxRequests = 4
INVARIANTS
  TypeOK
  SignaturesAuthorized
  RefusalsJustified
  ReportsCurrent
  AnswersInOrder
PROPERTIES
  ErrorsChangeNothing

