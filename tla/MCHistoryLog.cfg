SPECIFICATION Spec
CONSTANTS
  REG_OPR_LOG = 4
  Channels <- const_Channels
  LogQueue = 2
  MaxRegisters = 13
INVARIANTS
  TypeOK
  FillIntact
  LatePageHasNewest
  OutputFillsAnnounced
  PagesInOrder
CHECK_DEADLOCK FALSE
