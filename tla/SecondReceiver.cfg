SPECIFICATION Spec
CONSTANTS
  MaxSock = 2
  MaxSent = 1
INVARIANTS
  OneReceiver
