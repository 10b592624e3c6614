SPECIFICATION FairSpec
CONSTANTS
  o1 = o1
  o2 = o2
  o3 = o3
  m1 = m1
  m2 = m2
  NoOp = NoOp
  NoMsg = NoMsg
  NoJob = NoJob
  Unknown = Unknown
  OpId <- MCOpId
  Msg <- MCMsg
  Operations <- MCOperations
  AccessOfOp <- MCAccessOfOp
  Topics <- MCTopics
  Subs <- MCSubs
  Awaited = {"init"}
  Thrown = {"system", "out_of_range"}
CHECK_DEADLOCK FALSE
INVARIANTS
  PermissionInherited
  HeldExclusion
PROPERTIES
  ImplementsScheduleLock
  EveryMessageAnswered
