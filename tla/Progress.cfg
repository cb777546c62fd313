SPECIFICATION FairSpec
CONSTANTS
  MaxConn  = 2
  Quota    <- MC_ProgressQuota
  MaxOut   = 2
  Tasks    = {0, 1, 2}
  MAXINDEX = 2
  Requests <- MC_Progress
  Leaving  = {2}
  Slow     = {2}
  Faulty   = {1}
CHECK_DEADLOCK FALSE
PROPERTIES
  ResetUnlisted
  AllHandled
