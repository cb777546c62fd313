SPECIFICATION FairSpec
CONSTANTS
  MaxSock = 1
  MaxSent = 1
PROPERTIES
  FlagFollowsConnection
