SPECIFICATION FairSpec
CONSTANTS
  s1 = s1
  a = a
  Peer = {a}
  Server = {s1}
  Home <- MCHome
  Null = Null
  Hour = 2
  Day = 2
  FineWindow = 0
  HourWindow = 1
  DayWindow = 2
  MaxTime = 3
  MaxCarried <- MCCarried
  MaxEvents = 2
INVARIANTS
  TrafficTypeOK
  NeverOvercounts
  EveryByteInOneBucket
PROPERTIES
  ImplementsLedger
  BaselineCatchesUp
CHECK_DEADLOCK FALSE
