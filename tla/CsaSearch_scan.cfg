SPECIFICATION Spec
CONSTANTS
  NStations = 3
  DayLen = 5
  MaxTransfers = 2
  MaxTravel = 5
  Schedules <- MCSchedules
  Queries <- MCQueries
CHECK_DEADLOCK FALSE
INVARIANTS
  LabelsBest
  JourneysFeasible
  JourneysEarliest
  EveryLabelExplained
PROPERTIES
  SettledLabelsStay
