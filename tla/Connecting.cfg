SPECIFICATION FairSpec
CONSTANTS
  MaxSock = 2
  MaxSent = 2
INVARIANTS
  TypeOK
  CalledOnce
  ConnectedHeard
  NoSocketForgotten
PROPERTIES
  Reconnects
  DownDisconnects
  ControlsFollow
