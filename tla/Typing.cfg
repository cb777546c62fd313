SPECIFICATION Spec
CONSTANTS
  LOG_TEXT_MAX_SIZE = 4
  MSG_BUFF_SIZE = 7
  MsgPrefix = 0
  TimePrefix = 1
  ServerPrefix = {0, 1}
  Byte = {"a", "%"}
INVARIANT TextWhole
CHECK_DEADLOCK FALSE
