SPECIFICATION FairSpec
CONSTANTS
  MaxClient = 2
  Faulty = {1}
  Shell = {TRUE, FALSE}
INVARIANTS
  TypeOK
  OrderlyLife
  NothingOutlives
  DownBeforeDelete
  TrayMatches
PROPERTIES
  ShutdownEnds
CHECK_DEADLOCK FALSE
