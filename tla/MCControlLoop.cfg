SPECIFICATION FairSpec
CONSTANTS
  Configurations <- const_Heating
  Temperatures <- const_Temperatures
  OutputQueue = 1
  TimerQueue = 2
INVARIANTS
  TypeOK
  OutputFollowsStatus
  RaisedAlarmShows
  NoStrayTimer
PROPERTIES
  PassEnds
  PassAdvances
  TemperatureReported
  OutputsOperated
  TimersOperated
