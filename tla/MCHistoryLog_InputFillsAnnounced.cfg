SPECIFICATION Spec
CONSTANTS
  REG_OPR_LOG = 4
  Channels <- const_Channels
  LogQueue = 2
  MaxRegisters = 13
INVARIANT InputFillsAnnounced
CHECK_DEADLOCK FALSE
