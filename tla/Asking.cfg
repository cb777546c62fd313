SPECIFICATION LoopSpec
CONSTANTS
  MaxConn  = 3
  Quota    <- MC_Quota
  MaxOut   = 2
  Tasks    = {0, 1, 2}
  MAXINDEX = 2
  Requests <- MC_Requests
  Leaving  = {1}
  Slow     = {}
  Faulty   = {}
INVARIANTS
  AliveComplete
  SingleReceiver
  AnswerReached
  AliveSound
CHECK_DEADLOCK FALSE
