SPECIFICATION Spec
CONSTANTS
  Day = 8
  LastDay = 3
  MaxTravelTime = 8
  MaxTransfers = 3
  Legs = 9
  Scenarios <- MCScenarios
  ScheduleBegin = 8
  ScheduleEnd = 23
  Extension = 3
  FirstBuffer = 3
INVARIANTS
  NoDanglingLabel
  ResultsAreJourneys
  SearchComplete
  AnswerAsQuick
PROPERTY Terminates
