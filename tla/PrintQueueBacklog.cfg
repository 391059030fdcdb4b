SPECIFICATION BacklogSpec
CONSTANTS
  ann = ann
  bob = bob
  t1 = t1
  t2 = t2
  NoUser = NoUser
  User <- OneUser
  Thread <- OneThread
  Approved <- OneUser
  MaxMsg = 1
  MaxTime = 2
  Quiet <- MidQuiet
  UserCap = 1
  QueueMax = 1
  CapsuleCap = 1
  CapsuleTotal = 2
  MaxCrashes = 0
  MaxDbFails = 0
  MaxRetries = 0
PROPERTIES BacklogNeverDelivered
