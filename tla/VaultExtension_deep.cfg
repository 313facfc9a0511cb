\* Few kinds of requests, longer queues: two keys, a strict and a loose policy.
SPECIFICATION FairSpec
CONSTANTS
  alice = alice
  bob = bob
  zero = zero
  Keys = {k1, k2}
  BadKey = BadKey
  Addresses <- MCAddresses
  ZeroAddress = zero
  PolicyMessages <- DeepPolicies
  IntentMessages <- DeepIntents
  Undecodable = Undecodable
  Empty = Empty
  None = None
  AllowLimit = 5
  MaxTime = 2
  MaxRequests = 4
PROPERTIES
  ImplementsGate
  EveryRequestAnswered
