SPECIFICATION Spec
CONSTANTS
  ann = ann
  bob = bob
  t1 = t1
  t2 = t2
  NoUser = NoUser
  User <- TwoUsers
  Thread <- TwoThreads
  Approved <- TwoUsers
  MaxMsg = 3
  MaxTime = 1
  Quiet <- NoQuiet
  UserCap = 1
  QueueMax = 1
  CapsuleCap = 1
  CapsuleTotal = 2
  MaxCrashes = 0
  MaxDbFails = 0
  MaxRetries = 0
SYMMETRY BothSymmetric
INVARIANTS TypeOK InflightExact CapRespected BlockedHasNoBacklog CapsuleLimits
