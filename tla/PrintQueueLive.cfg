SPECIFICATION LiveSpec
CONSTANTS
  ann = ann
  bob = bob
  t1 = t1
  t2 = t2
  NoUser = NoUser
  User <- OneUser
  Thread <- TwoThreads
  Approved <- OneUser
  MaxMsg = 2
  MaxTime = 1
  Quiet <- FirstQuiet
  UserCap = 2
  QueueMax = 1
  CapsuleCap = 1
  CapsuleTotal = 2
  MaxCrashes = 1
  MaxDbFails = 0
  MaxRetries = 0
PROPERTY EveryMessageSettles
