SPECIFICATION FairSpec
CONSTANTS
  LogPages = 3
  TimeSlots = 5
  SlotsPerPage = 2
  MaxReports = 13
  MaxReads = 1
  StackFill <- const_StackFill
INVARIANTS
  TypeOK
  RecentReportsKept
  ShownInOrder
  LoadedTimeIsNewest
  HeaderOneBehind
PROPERTIES
  OnlyOldestReplaced
  LogSpec
  ReadingEnds
