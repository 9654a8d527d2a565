SPECIFICATION FairSpec
CONSTANTS
  Rows = 13
  Volt <- const_Volt
  PerCount = 5000
  Counts <- const_Counts
  Ambient <- const_Ambient
INVARIANTS
  TypeOK
  ReadingBrackets
  RefusedOnlyInGaps
PROPERTIES
  SearchHalves
  SearchEnds
