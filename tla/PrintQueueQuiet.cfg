SPECIFICATION Spec
CONSTANTS
  ann = ann
  bob = bob
  t1 = t1
  t2 = t2
  NoUser = NoUser
  User <- TwoUsers
  Thread <- TwoThreads
  Approved <- OneUser
  MaxMsg = 2
  MaxTime = 3
  Quiet <- LateQuiet
  UserCap = 2
  QueueMax = 1
  CapsuleCap = 1
  CapsuleTotal = 2
  MaxCrashes = 0
  MaxDbFails = 0
  MaxRetries = 0
SYMMETRY Symmetry
INVARIANTS QueuedCapsuleAllowed NeverEarly
PROPERTIES BurnedStaysBurned
