SPECIFICATION Spec
CONSTANTS
  NStations = 3
  DayLen = 5
  MaxTransfers = 2
  MaxTravel = 5
  Schedules <- MCLongTrip
  Queries <- MCQueries
CHECK_DEADLOCK FALSE
INVARIANTS
  TrainCaught
