SPECIFICATION Spec
CONSTANTS
  Sender <- const_Sender
  InputsTotal = 2
  Enabled <- const_First
  TerminalQueue = 1
  InputQueue = 1
  LogQueue = 1
  TimerQueue = 1
INVARIANTS
  TypeOK
  MonitorObeys
  ReadingObeys
  NewestShown
PROPERTY
  ProcessesOperated
