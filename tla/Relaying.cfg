SPECIFICATION Spec
CONSTANTS
  MaxConn  = 3
  Quota    <- MC_RelayingQuota
  MaxOut   = 2
  Tasks    = {0, 1, 2}
  MAXINDEX = 2
  Requests <- MC_Relaying
  Leaving  = {}
  Slow     = {}
  Faulty   = {}
CHECK_DEADLOCK FALSE
INVARIANTS
  BroadcastComplete
PROPERTIES
  RelaysMessages
