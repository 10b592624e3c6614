SPECIFICATION FairSpec
CONSTANTS
  NStations = 3
  DayLen = 5
  MaxTransfers = 2
  MaxTravel = 5
  ScheduleBegin = 5
  ScheduleEnd = 20
  Extension = 3
  Schedules <- MCSchedules
  Queries <- MCQueries
CHECK_DEADLOCK FALSE
INVARIANTS
  BestOfInterval
  BestOntrip
PROPERTY
  Terminates
