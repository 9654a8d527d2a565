SPECIFICATION FairSpec
CONSTANTS
  Sender <- const_NoOutput
  InputsTotal = 3
  Enabled <- const_Enabled
  TerminalQueue = 1
  InputQueue = 1
  LogQueue = 1
  TimerQueue = 1
PROPERTIES
  StopTakesEffect
  MonitorVisitsAll
