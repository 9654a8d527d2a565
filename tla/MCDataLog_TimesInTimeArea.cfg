SPECIFICATION Spec
CONSTANTS
  LogPages = 3
  TimeSlots = 5
  SlotsPerPage = 2
  MaxReports = 8
  MaxReads = 0
  StackFill <- const_StackFill
INVARIANT TimesInTimeArea
