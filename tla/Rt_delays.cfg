SPECIFICATION FairSpec
CONSTANTS
  NTrips = 2
  NSections = 2
  Timetable <- MCTimetable
  Reports <- MCReports
  Cancelled <- MCCancelled
  MaxReports = 2
INVARIANTS
  EdgesSorted
  OneValidCopy
  ScheduleRemembered
  DelaysAsIfAfresh
  MeasuredTimesShown
  FirstRepairInOrder
PROPERTY
  FlushEnds
