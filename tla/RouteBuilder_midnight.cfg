SPECIFICATION MCSpec
CONSTANTS
  NServices = 3
  NTimes = 4
  DayLen = 6
CHECK_DEADLOCK FALSE
INVARIANTS
  NobodyOvertakes
