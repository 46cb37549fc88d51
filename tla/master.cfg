\* Five commands and any two disturbances of the line.
SPECIFICATION FairSpec
CONSTANTS
  LongData = 2
  ShortData = 1
  RxLimit = 8
  CommandLen = 2
  MaxPolls = 5
  MaxFaults = 2
INVARIANTS
  TypeOK
  CommandWhole
  Attribution
PROPERTIES
  IntactPublished
  ImplementsStore
  LineReleased
