SPECIFICATION Spec
CONSTANTS
  Configurations <- const_Heating
  Temperatures <- const_Temperatures
  OutputQueue = 2
  TimerQueue = 2
INVARIANT
  ResetAlarmIsOff
