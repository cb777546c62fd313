SPECIFICATION FairSpec
CONSTANTS
  Relays   = {b1}
  MaxQueue = 1
CHECK_DEADLOCK FALSE
INVARIANTS
  TypeOK
  SafeTeardown
  StopHolds
PROPERTIES
  LockReleased
  
  ShutdownFrees
