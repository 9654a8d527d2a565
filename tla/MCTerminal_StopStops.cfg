SPECIFICATION Spec
CONSTANTS
  Sender <- const_Sender
  InputsTotal = 3
  Enabled <- const_Enabled
  TerminalQueue = 1
  InputQueue = 1
  LogQueue = 1
  TimerQueue = 1
INVARIANT StopStops
