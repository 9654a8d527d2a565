SPECIFICATION FairSpec
CONSTANTS
  Switches <- const_Switches
  InputQueue = 2
INVARIANTS
  TypeOK
  StatusFollowsSwitch
  PressToggles
PROPERTY
  SwitchArrives
