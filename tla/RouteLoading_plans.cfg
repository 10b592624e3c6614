SPECIFICATION LoadSpec
CONSTANTS
  NServices = 3
  NTimes = 6
  DayLen = 6
  Hour = 1
  ScheduleOffset = 5
  MaxDays = 20
  LastDay = 3
  FromDay = 1
  ToDay = 4
  Plans <- MCPlans
CHECK_DEADLOCK FALSE
INVARIANTS
  MinutesSorted
  TripsFindTheirConnections
  SplitKeepsRides
  TrainsRunAsPlanned
