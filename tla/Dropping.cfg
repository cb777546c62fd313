SPECIFICATION Spec
CONSTANTS
  MaxConn  = 3
  Quota    <- MC_DroppingQuota
  MaxOut   = 2
  Tasks    = {0, 1, 2}
  MAXINDEX = 2
  Requests <- MC_Dropping
  Leaving  = {2}
  Slow     = {}
  Faulty   = {1, 2}
CHECK_DEADLOCK FALSE
INVARIANTS
  UniqueUnlessClash
  TargetReached
  QuietIsSafe
PROPERTIES
  RegistrationAnswered
  RelaysMessages
