SPECIFICATION Spec
CONSTANTS
  Configurations <- const_Several
  Temperatures <- const_Temperatures
  OutputQueue = 1
  TimerQueue = 1
INVARIANTS
  OutputFollowsStatus
  PinsShowOutputs
