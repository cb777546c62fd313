SPECIFICATION Spec
CONSTANTS
  MaxConn  = 3
  Quota    <- MC_BreakingQuota
  MaxOut   = 2
  Tasks    = {0, 1, 2}
  MAXINDEX = 2
  Requests <- MC_Breaking
  Leaving  = {}
  Slow     = {}
  Faulty   = {1}
CHECK_DEADLOCK FALSE
INVARIANTS
  TypeOK
  SourceOrder
  BroadcastComplete
  DestroyedOnlyUnlisted
